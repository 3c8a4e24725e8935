---------------------------- MODULE EplbProtocol ----------------------------
(***************************************************************************)
(* The dynamic expert load balancer (mindiesd/eplb) as a protocol between  *)
(*                                                                         *)
(*   - the inference thread of every rank, which runs the MoE block in the *)
(*     documented order collect_expert_load > check_consistency >          *)
(*     update_module_weight_and_map > GMM (DyEPLB.md:80);                  *)
(*   - the worker thread of every rank (expert_info_transfer_pool), which  *)
(*     takes instructions from the rank's FIFO and stages new layouts      *)
(*     through an asynchronous transfer stream;                            *)
(*   - the scheduler process (run_scheduler), which sweeps the upload      *)
(*     queues, computes a layout when every rank has reported, and sends   *)
(*     it to the ranks one after the other.                                *)
(*                                                                         *)
(* One MoE layer is modelled: layers share the queues and the threads but  *)
(* no other state.  A layout is the number of the computation that made    *)
(* it; 0 is the layout of init_expert_map, and 0 in `staged' is the None   *)
(* of the first module_state.  What a layout contains is in EplbTables.  *)
(*                                                                         *)
(* `lost' and `taken' are history variables: the program does not keep     *)
(* them and no guard reads them.                                           *)
(***************************************************************************)
EXTENDS Naturals, Sequences, FiniteSets

CONSTANTS
  WorldSize,     \* number of expert-parallel ranks
  LbInterval,    \* collections per PROFILE instruction (lb_interval)
  MaxLayouts,    \* bound: layouts the scheduler computes
  MaxProfiles,   \* bound: PROFILEs that wait in a queue
  MaxReports,    \* bound: reports waiting in an upload queue
  Exchange,      \* TRUE for --mode EX: layouts computed from reported lists
  Exits,         \* ranks whose worker thread the application may end
  MayStop        \* TRUE when the scheduler may be interrupted

ASSUME WorldSizeAssumption == WorldSize \in Nat \ {0}
ASSUME LbIntervalAssumption == LbInterval \in Nat \ {0}
ASSUME BoundsAssumption ==
  MaxLayouts \in Nat /\ MaxProfiles \in Nat /\ MaxReports \in Nat
ASSUME ModeAssumption ==
  Exchange \in BOOLEAN /\ MayStop \in BOOLEAN

VARIABLES
  main,      \* main[r]: where the inference thread of rank r is; at "collect" the
             \* matmul of the last pass has used weight1, weight2 and map
  tick,      \* tick[r]: ProfileTaskTransfer.flag
  attached,  \* attached[r]: collector.task_transfer has been set
  vote,      \* vote[r]: the clone of update_valid_tensor given to all_reduce,
             \* FALSE outside check_consistency
  flag,      \* flag[r]: update_flag
  map,       \* map[r]: layout of the index maps and local_expert_list
  weight1,   \* weight1[r]: layout of the first weight list the block computes with
  weight2,   \* weight2[r]: layout of the second one
  worker,    \* worker[r]: where the worker thread is
  chosen,    \* chosen[r]: layout the worker is staging, 0 when it is not
  staged,    \* staged[r]: layout in module_state
  landing,   \* landing[r]: copies and fill_(1) of staged[r] are still queued
  valid,     \* valid[r]: update_valid_tensor is 1 on the device
  instr,     \* instr[r]: the instruction queue
  upload,    \* upload[r]: the upload queue; a report is its local_expert_list
  sched,     \* where the scheduler process is
  at,        \* rank the sweep has reached
  target,    \* rank the next UPDATE_LAYOUT goes to, 0 outside update_emit_task
  reports,   \* load_report_buffer and local_expert_buffer, layouts by rank
  layouts,   \* layouts computed so far
  lost,      \* lost[r]: layouts dropped or overwritten before use (history)
  taken      \* taken[r]: last layout the worker took (history)

mainVars  == <<main, tick, vote, flag, map, weight1, weight2>>
stageVars == <<chosen, staged, landing, valid>>
schedVars == <<sched, at, target, reports, layouts>>
vars == <<mainVars, attached, worker, stageVars, instr, upload, schedVars,
          lost, taken>>

Ranks == 0 .. WorldSize - 1
Layouts == 0 .. MaxLayouts
NoReport == MaxLayouts + 1

Profile == [task |-> "PROFILE", layout |-> 0]
Exit == [task |-> "exit", layout |-> 0]
UpdateLayout(n) == [task |-> "UPDATE_LAYOUT", layout |-> n]
Instructions == [task : {"PROFILE", "exit", "UPDATE_LAYOUT"}, layout : Layouts]

Profiles(q) == {i \in DOMAIN q : q[i] = Profile}

Init ==
  /\ main = [r \in Ranks |-> "collect"]
  /\ tick = [r \in Ranks |-> 0]
  /\ attached = [r \in Ranks |-> FALSE]
  /\ vote = [r \in Ranks |-> FALSE]
  /\ flag = [r \in Ranks |-> FALSE]
  /\ map = [r \in Ranks |-> 0]
  /\ weight1 = [r \in Ranks |-> 0]
  /\ weight2 = [r \in Ranks |-> 0]
  /\ worker = [r \in Ranks |-> "start"]
  /\ chosen = [r \in Ranks |-> 0]
  /\ staged = [r \in Ranks |-> 0]
  /\ landing = [r \in Ranks |-> FALSE]
  /\ valid = [r \in Ranks |-> FALSE]
  /\ instr = [r \in Ranks |-> <<>>]
  /\ upload = [r \in Ranks |-> <<>>]
  /\ sched = "sweep"
  /\ at = 0
  /\ target = 0
  /\ reports = [r \in Ranks |-> NoReport]
  /\ layouts = 0
  /\ lost = [r \in Ranks |-> {}]
  /\ taken = [r \in Ranks |-> 0]

-----------------------------------------------------------------------------
(***************************************************************************)
(* The inference thread.                                                   *)
(***************************************************************************)

Goto(r, place) == main' = [main EXCEPT ![r] = place]

(* collect_expert_load on a collection that emits no instruction: there is
   no task transfer yet, or the interval is not over. *)
CollectQuietly(r) ==
  /\ main[r] = "collect"
  /\ ~attached[r] \/ tick[r] + 1 # LbInterval
  /\ tick' = [tick EXCEPT ![r] = IF attached[r] THEN @ + 1 ELSE @]
  /\ Goto(r, "check")
  /\ UNCHANGED <<vote, flag, map, weight1, weight2, attached, worker, stageVars,
                 instr, upload, schedVars, lost, taken>>

(* profile_emit_task puts a PROFILE into the queue, which has no capacity; that of the
   model is a bound, at which a pass is not begun.  A queue whose worker has ended is
   read by nobody, and what is put there need not be kept. *)
BelowBound(r) == Cardinality(Profiles(instr[r])) < MaxProfiles

PutProfile(r) ==
  \/ worker[r] # "dead" /\ BelowBound(r) /\ instr' = [instr EXCEPT ![r] = Append(@, Profile)]
  \/ worker[r] = "dead" /\ UNCHANGED instr

(* collect_expert_load at the end of an interval.  A queue whose process has
   gone raises in the inference thread. *)
CollectAndProfile(r) ==
  /\ main[r] = "collect"
  /\ attached[r]
  /\ tick[r] + 1 = LbInterval
  /\ tick' = [tick EXCEPT ![r] = 0]
  /\ \/ /\ sched # "dead"
        /\ PutProfile(r)
        /\ Goto(r, "check")
     \/ /\ sched = "dead"
        /\ Goto(r, "dead")
        /\ UNCHANGED instr
  /\ UNCHANGED <<vote, flag, map, weight1, weight2, attached, worker, stageVars,
                 upload, schedVars, lost, taken>>

(* check_consistency up to the collective: the flag on the device is cloned. *)
CheckIfValid(r) ==
  /\ main[r] = "check"
  /\ vote' = [vote EXCEPT ![r] = valid[r]]
  /\ Goto(r, IF valid[r] THEN "reduce" ELSE "collect")
  /\ UNCHANGED <<tick, flag, map, weight1, weight2, attached, worker, stageVars,
                 instr, upload, schedVars, lost, taken>>

CheckConsistency(r) ==
  /\ main[r] = "check"
  /\ vote' = [vote EXCEPT ![r] = valid[r]]
  /\ Goto(r, "reduce")
  /\ UNCHANGED <<tick, flag, map, weight1, weight2, attached, worker, stageVars,
                 instr, upload, schedVars, lost, taken>>

(* The result of an all_reduce with MIN over the votes. *)
AnyVote == \E q \in Ranks : vote[q]
AllVote == \A q \in Ranks : vote[q]

(* The all_reduce completes when every rank has entered it, and every
   rank sets update_flag from the same result.  The caller's `if
   self.dispatcher.update_flag' is part of the step: nobody else writes the
   flag, and without it the pass goes on to its matmul. *)
AllReduce ==
  /\ \A r \in Ranks : main[r] = "reduce"
  /\ flag' = [r \in Ranks |-> AllVote]
  /\ main' = [r \in Ranks |-> IF AllVote THEN "reduced" ELSE "collect"]
  /\ vote' = [r \in Ranks |-> FALSE]
  /\ UNCHANGED <<tick, map, weight1, weight2, attached, worker, stageVars,
                 instr, upload, schedVars, lost, taken>>

(* update_module_weight_and_map, the part under update_lock. *)
SwitchMaps(r) ==
  /\ main[r] = "reduced"
  /\ flag[r]
  /\ valid' = [valid EXCEPT ![r] = FALSE]
  /\ map' = [map EXCEPT ![r] = staged[r]]
  /\ flag' = [flag EXCEPT ![r] = FALSE]
  /\ Goto(r, "weight1")
  /\ UNCHANGED <<tick, vote, weight1, weight2, attached, worker, chosen, staged,
                 landing, instr, upload, schedVars, lost, taken>>

(* The part after the lock is released: module_state is read again for each
   of the two weight lists of the result. *)
ReadWeight1(r) ==
  /\ main[r] = "weight1"
  /\ weight1' = [weight1 EXCEPT ![r] = staged[r]]
  /\ Goto(r, "weight2")
  /\ UNCHANGED <<tick, vote, flag, map, weight2, attached, worker, stageVars,
                 instr, upload, schedVars, lost, taken>>

ReadFirstListOnly(r) ==
  /\ main[r] = "weight2"
  /\ Goto(r, "collect")
  /\ UNCHANGED <<tick, vote, flag, map, weight1, weight2, attached, worker, stageVars,
                 instr, upload, schedVars, lost, taken>>

ReadWeight2(r) ==
  /\ main[r] = "weight2"
  /\ weight2' = [weight2 EXCEPT ![r] = staged[r]]
  /\ Goto(r, "collect")
  /\ UNCHANGED <<tick, vote, flag, map, weight1, attached, worker, stageVars,
                 instr, upload, schedVars, lost, taken>>

-----------------------------------------------------------------------------
(***************************************************************************)
(* The worker thread and its transfer stream.                              *)
(***************************************************************************)

WorkerGoto(r, place) == worker' = [worker EXCEPT ![r] = place]

(* The thread's prologue hands the queue to the collectors. *)
StartWorker(r) ==
  /\ worker[r] = "start"
  /\ attached' = [attached EXCEPT ![r] = TRUE]
  /\ WorkerGoto(r, "wait")
  /\ UNCHANGED <<mainVars, stageVars, instr, upload, schedVars, lost, taken>>

(* instruction_queue.get() returns an instruction with the given task. *)
Takes(r, task) ==
  /\ worker[r] = "wait"
  /\ sched # "dead"
  /\ instr[r] # <<>>
  /\ Head(instr[r]).task = task
  /\ instr' = [instr EXCEPT ![r] = Tail(@)]

(* handle_profile_task up to the collected load. *)
TakeProfile(r) ==
  /\ Takes(r, "PROFILE")
  /\ WorkerGoto(r, "report")
  /\ UNCHANGED <<mainVars, attached, stageVars, upload, schedVars, lost, taken>>

(* What the local_expert_list of a report tells the algorithms: EX computes from
   the lists, A2A and AG from the loads alone. *)
Reported(r) == IF Exchange THEN map[r] ELSE 0

(* The rest of it: local_expert_list is read under update_lock, later than the
   load, and the report is put. *)
Report(r) ==
  /\ worker[r] = "report"
  /\ sched # "dead"
  /\ Len(upload[r]) < MaxReports
  /\ upload' = [upload EXCEPT ![r] = Append(@, Reported(r))]
  /\ WorkerGoto(r, "wait")
  /\ UNCHANGED <<mainVars, attached, stageVars, instr, schedVars, lost, taken>>

(* handle_update_layout_task returns at once when a layout is pending ... *)
DropUpdate(r) ==
  /\ Takes(r, "UPDATE_LAYOUT")
  /\ valid[r]
  /\ taken' = [taken EXCEPT ![r] = Head(instr[r]).layout]
  /\ lost' = [lost EXCEPT ![r] = @ \union {Head(instr[r]).layout}]
  /\ UNCHANGED <<mainVars, attached, worker, stageVars, upload, schedVars>>

(* ... and otherwise goes on to build the maps and gather the weights. *)
TakeUpdate(r) ==
  /\ Takes(r, "UPDATE_LAYOUT")
  /\ ~valid[r]
  /\ taken' = [taken EXCEPT ![r] = Head(instr[r]).layout]
  /\ chosen' = [chosen EXCEPT ![r] = Head(instr[r]).layout]
  /\ WorkerGoto(r, "stage")
  /\ UNCHANGED <<mainVars, attached, staged, landing, valid, upload, schedVars,
                 lost>>

(* The fill_(1) is queued behind the copies, not executed. *)
FillAtOnce(r) ==
  /\ landing' = [landing EXCEPT ![r] = TRUE]
  /\ valid' = [valid EXCEPT ![r] = TRUE]

QueueFill(r) ==
  /\ landing' = [landing EXCEPT ![r] = TRUE]
  /\ UNCHANGED valid

(* The maps are copied to the device synchronously, which drains the transfer
   stream; the weights and the fill_(1) of update_valid_tensor are only queued
   on it.  module_state is replaced under update_lock whatever it held. *)
Stage(r) ==
  /\ worker[r] = "stage"
  /\ ~landing[r]
  /\ lost' = [lost EXCEPT ![r] =
                IF staged[r] # map[r] THEN @ \union {staged[r]} ELSE @]
  /\ staged' = [staged EXCEPT ![r] = chosen[r]]
  /\ QueueFill(r)
  /\ chosen' = [chosen EXCEPT ![r] = 0]
  /\ WorkerGoto(r, "wait")
  /\ UNCHANGED <<mainVars, attached, instr, upload, schedVars, taken>>

(* The transfer stream reaches the fill_(1), all copies before it are done. *)
Land(r) ==
  /\ landing[r]
  /\ landing' = [landing EXCEPT ![r] = FALSE]
  /\ valid' = [valid EXCEPT ![r] = TRUE]
  /\ UNCHANGED <<mainVars, attached, worker, chosen, staged, instr, upload,
                 schedVars, lost, taken>>

(* The application may put 'exit' in the queue it was given. *)
RequestExit(r) ==
  /\ r \in Exits
  /\ attached[r]
  /\ sched # "dead"
  /\ \A i \in DOMAIN instr[r] : instr[r][i] # Exit
  /\ worker[r] # "dead"
  /\ instr' = [instr EXCEPT ![r] = Append(@, Exit)]
  /\ UNCHANGED <<mainVars, attached, worker, stageVars, upload, schedVars, lost,
                 taken>>

TakeExit(r) ==
  /\ Takes(r, "exit")
  /\ WorkerGoto(r, "dead")
  /\ UNCHANGED <<mainVars, attached, stageVars, upload, schedVars, lost, taken>>

(* A get or put on a queue whose process has gone raises in the worker. *)
WorkerFails(r) ==
  /\ worker[r] \in {"wait", "report"}
  /\ sched = "dead"
  /\ WorkerGoto(r, "dead")
  /\ UNCHANGED <<mainVars, attached, stageVars, instr, upload, schedVars, lost,
                 taken>>

-----------------------------------------------------------------------------
(***************************************************************************)
(* The scheduler process.                                                  *)
(***************************************************************************)

NextRankUnwrapped(r) == r + 1
NextRank(r) == (r + 1) % WorldSize

(* get_nowait on the queue of the rank the sweep has reached. *)
PollEmpty ==
  /\ sched = "sweep"
  /\ upload[at] = <<>>
  /\ at' = NextRank(at)
  /\ UNCHANGED <<mainVars, attached, worker, stageVars, instr, upload, sched,
                 target, reports, layouts, lost, taken>>

(* The buffers once the report at the head of the queue is in them: a second
   report of a rank replaces its first. *)
Received == [reports EXCEPT ![at] = Head(upload[at])]
AllReported == \A r \in Ranks : Received[r] # NoReport
ReportsAgree == \A q, r \in Ranks : Received[q] = Received[r]

TakeReport ==
  /\ sched = "sweep"
  /\ upload[at] # <<>>
  /\ upload' = [upload EXCEPT ![at] = Tail(@)]

StoreReport ==
  /\ TakeReport
  /\ ~AllReported
  /\ reports' = Received
  /\ at' = NextRank(at)
  /\ UNCHANGED <<mainVars, attached, worker, stageVars, instr, sched, target,
                 layouts, lost, taken>>

(* The end of the process: everything it keeps, the queues included, is gone. *)
SchedulerEnds ==
  /\ sched' = "dead"
  /\ at' = 0
  /\ target' = 0
  /\ reports' = [r \in Ranks |-> NoReport]
  /\ instr' = [r \in Ranks |-> <<>>]
  /\ upload' = [r \in Ranks |-> <<>>]
  /\ UNCHANGED layouts

(* The last report is in: the buffers are cleared and eplb_greedy decides
   between no update and a new layout. *)
ComputeLayout ==
  /\ TakeReport
  /\ AllReported
  /\ reports' = [r \in Ranks |-> NoReport]
  /\ \/ /\ at' = NextRank(at)
        /\ UNCHANGED <<sched, layouts>>
     \/ /\ layouts < MaxLayouts
        /\ layouts' = layouts + 1
        /\ sched' = "emit"
        /\ UNCHANGED at
  /\ UNCHANGED <<mainVars, attached, worker, stageVars, instr, target, lost, taken>>

(* In EX mode lists that belong to different layouts may leave an expert without
   a rank; eplb_greedy then raises, and the error ends the scheduler. *)
ComputeRaises ==
  /\ Exchange
  /\ sched = "sweep"
  /\ upload[at] # <<>>
  /\ AllReported /\ ~ReportsAgree
  /\ SchedulerEnds
  /\ UNCHANGED <<mainVars, attached, worker, stageVars, lost, taken>>

(* A queue is FIFO. *)
PutInFront(q, e) == <<e>> \o q
Put(q, e) == Append(q, e)

ExclusiveLastRank == WorldSize - 2
LastRank == WorldSize - 1

(* update_emit_task puts the layout into one instruction queue after another. *)
EmitUpdate ==
  /\ sched = "emit"
  /\ instr' = [instr EXCEPT ![target] = Put(@, UpdateLayout(layouts))]
  /\ \/ /\ target # LastRank
        /\ target' = target + 1
        /\ UNCHANGED <<sched, at>>
     \/ /\ target = LastRank
        /\ sched' = "sweep"
        /\ at' = NextRank(at)
        /\ target' = 0
  /\ UNCHANGED <<mainVars, attached, worker, stageVars, upload, reports, layouts,
                 lost, taken>>

(* KeyboardInterrupt or SystemExit ends the loop. *)
StopScheduler ==
  /\ MayStop
  /\ sched # "dead"
  /\ SchedulerEnds
  /\ UNCHANGED <<mainVars, attached, worker, stageVars, lost, taken>>

-----------------------------------------------------------------------------
MainThread(r) ==
  \/ CollectQuietly(r) \/ CollectAndProfile(r) \/ CheckConsistency(r)
  \/ SwitchMaps(r) \/ ReadWeight1(r) \/ ReadWeight2(r)

WorkerThread(r) ==
  \/ StartWorker(r) \/ TakeProfile(r) \/ Report(r) \/ DropUpdate(r)
  \/ TakeUpdate(r) \/ Stage(r) \/ TakeExit(r) \/ WorkerFails(r)

Scheduler ==
  PollEmpty \/ StoreReport \/ ComputeLayout \/ ComputeRaises \/ EmitUpdate

Next ==
  \/ \E r \in Ranks : MainThread(r) \/ WorkerThread(r) \/ Land(r) \/ RequestExit(r)
  \/ AllReduce
  \/ Scheduler
  \/ StopScheduler

(* Threads and the scheduler process are scheduled by the operating system, a
   stream executes what is queued on it, a collective all ranks have entered
   completes.  Nobody has to stop anything, and which of its results
   eplb_greedy returns is not a matter of fairness. *)
Fairness ==
  /\ \A r \in Ranks : WF_vars(MainThread(r))
  /\ \A r \in Ranks : WF_vars(WorkerThread(r))
  /\ \A r \in Ranks : WF_vars(Land(r))
  /\ WF_vars(AllReduce)
  /\ WF_vars(Scheduler)

Spec == Init /\ [][Next]_vars
FairSpec == Spec /\ Fairness

-----------------------------------------------------------------------------
(***************************************************************************)
(* Properties.                                                             *)
(***************************************************************************)

(* Every variable has its type. *)
TypeOK ==
  /\ main \in [Ranks -> {"collect", "check", "reduce", "reduced", "weight1",
                         "weight2", "dead"}]
  /\ tick \in [Ranks -> Nat]
  /\ attached \in [Ranks -> BOOLEAN]
  /\ vote \in [Ranks -> BOOLEAN]
  /\ flag \in [Ranks -> BOOLEAN]
  /\ map \in [Ranks -> Layouts]
  /\ weight1 \in [Ranks -> Layouts]
  /\ weight2 \in [Ranks -> Layouts]
  /\ worker \in [Ranks -> {"start", "wait", "report", "stage", "dead"}]
  /\ chosen \in [Ranks -> Layouts]
  /\ staged \in [Ranks -> Layouts]
  /\ landing \in [Ranks -> BOOLEAN]
  /\ valid \in [Ranks -> BOOLEAN]
  /\ instr \in [Ranks -> Seq(Instructions)]
  /\ upload \in [Ranks -> Seq(Layouts)]
  /\ sched \in {"sweep", "emit", "dead"}
  /\ at \in Ranks
  /\ target \in Ranks
  /\ reports \in [Ranks -> Layouts \union {NoReport}]
  /\ layouts \in Layouts
  /\ lost \in [Ranks -> SUBSET Layouts]
  /\ taken \in [Ranks -> Layouts]

(* No rank has dropped or overwritten a layout it had not applied. *)
NothingLost == \A r \in Ranks : lost[r] = {}

(* A rank about to switch has a module_state to switch to: update_flag is never
   TRUE while module_state holds the None of the constructor. *)
SwitchesToALayout == \A r \in Ranks : flag[r] => staged[r] # 0

(* As long as no rank has lost a layout, ranks that meet in the all_reduce of a
   pass route their tokens with the same layout.  The flag is one bit and
   says that a layout is pending, not which: only the absence of losses makes
   it the same one everywhere. *)
AgreementUnlessLost ==
  NothingLost /\ (\A r \in Ranks : main[r] = "reduce")
    => \A q, r \in Ranks : map[q] = map[r]

(* As long as no rank has lost a layout, the weights of the applied layout have
   arrived on the device: the flag lands after the copies it announces. *)
AppliedHasLanded ==
  NothingLost => \A r \in Ranks : landing[r] => staged[r] # map[r]

(* The matmul of a finished pass may see weights of a newer layout than the maps, for they are read
   after update_lock is released, but never of an older one. *)
WeightsNotOlderThanMaps ==
  \A r \in Ranks : main[r] = "collect" =>
    map[r] <= weight1[r] /\ weight1[r] <= weight2[r]

(* Layouts a rank has been sent and has not applied, staged or counted as lost
   are waiting in its queue or in the worker's hands: the asynchronous path
   forgets none of them in silence. *)
Pending(r) ==
  {instr[r][i].layout : i \in {j \in DOMAIN instr[r] :
                                  instr[r][j].task = "UPDATE_LAYOUT"}}
  \union (IF worker[r] = "stage" THEN {chosen[r]} ELSE {})

Sent(r) == IF sched = "emit" /\ target <= r THEN layouts - 1 ELSE layouts

LaterLayoutsPending ==
  sched # "dead" =>
    \A r \in Ranks : \A n \in 1 .. Sent(r) :
      n > staged[r] => n \in Pending(r) \union lost[r]

(* The maps of a rank never go back to an earlier layout. *)
LayoutNeverGoesBack == [][\A r \in Ranks : map'[r] >= map[r]]_vars

(* The threads, queues and streams implement EplbReplica: an update_flag is a step that was
   decided, the index maps are the layout in use. *)
Replica ==
  INSTANCE EplbReplica
    WITH due <- flag, lossy <- {r \in Ranks : lost[r] # {}}

ReplicatesLayouts == Replica!Spec

(* While nothing is stopped and no layout is lost, a layout the scheduler has
   computed is applied by every rank. *)
Stopped ==
  sched = "dead" \/ \E r \in Ranks : main[r] = "dead" \/ worker[r] = "dead"

ComputedIsApplied ==
  \A r \in Ranks : \A n \in 1 .. MaxLayouts :
    layouts >= n ~> map[r] >= n \/ ~NothingLost \/ Stopped

(* As long as the scheduler process is up every pass of every rank comes to its end: no
   rank waits in the all_reduce for one that does not enter it, whether layouts have
   arrived on all of them, on some, or, where a worker has ended, never will.  (Without
   the scheduler the next PROFILE raises in the inference thread.) *)
InferenceProgresses ==
  \A r \in Ranks : []<>(main[r] = "collect" \/ sched = "dead")

(* What DyEPLB.md:139 promises of check_consistency, that it verifies the
   synchronization status across ranks: after it, ranks use one layout. *)
RanksAgreeOnLayout ==
  (\A r \in Ranks : main[r] = "reduce")
    => \A q, r \in Ranks : map[q] = map[r]

(* What DyEPLB.md:149 says of local_expert_indices_map, that it gives positions
   in the local expert-weight tensor: maps and weights are of one layout. *)
MapsDescribeWeights ==
  \A r \in Ranks : main[r] = "collect" =>
    weight1[r] = map[r] /\ weight2[r] = map[r]
=============================================================================
