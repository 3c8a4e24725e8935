------------------------- MODULE EplbProtocolProofs -------------------------
(***************************************************************************)
(* Proofs about EplbProtocol, for any number of ranks and any bounds.      *)
(*                                                                         *)
(* The properties are not inductive: that ranks agree rests on what the    *)
(* one-bit flag stands for, which rests on the order of the instruction    *)
(* queue.  IInv spells the chain out.                                      *)
(***************************************************************************)
EXTENDS EplbProtocol, SequenceTheorems, TLAPS

Updates(q) == {i \in DOMAIN q : q[i].task = "UPDATE_LAYOUT"}

(* Queue q holds the layouts t + 1 .. s, all of them, in this order. *)
HoldsLayouts(q, t, s) ==
  /\ t <= s
  /\ \A i \in Updates(q) : t < q[i].layout /\ q[i].layout <= s
  /\ \A i, j \in Updates(q) : i < j => q[i].layout < q[j].layout
  /\ \A n \in t + 1 .. s : \E i \in Updates(q) : q[i].layout = n

(* The queue of a rank holds the layouts sent to it and not yet taken. *)
QueueInv ==
  /\ sched = "emit" => layouts > 0
  /\ sched # "emit" => target = 0
  /\ \A r \in Ranks :
       IF sched = "dead" THEN instr[r] = <<>>
       ELSE HoldsLayouts(instr[r], taken[r], Sent(r))

(* Layouts only move forward: what the worker takes is newer than what is staged,
   which is at least as new as what the inference thread reads. *)
OrderInv ==
  \A r \in Ranks :
    /\ map[r] <= staged[r]
    /\ staged[r] <= taken[r]
    /\ worker[r] = "stage" => chosen[r] = taken[r] /\ staged[r] < taken[r]
    /\ weight1[r] <= staged[r] /\ weight2[r] <= staged[r]
    /\ main[r] # "weight1" => map[r] <= weight1[r]
    /\ main[r] \notin {"weight1", "weight2"} => weight1[r] <= weight2[r]
    /\ \A n \in staged[r] + 1 .. taken[r] :
         n \in lost[r] \/ (worker[r] = "stage" /\ n = chosen[r])

(* A vote or an update_flag that says yes is backed by a staged layout, and the
   flag on the device is taken back by the inference thread alone. *)
FlagInv ==
  \A r \in Ranks :
    /\ valid[r] \/ landing[r] => staged[r] > 0
    /\ vote[r] => valid[r] /\ main[r] = "reduce"
    /\ flag[r] => valid[r] /\ main[r] = "reduced"

Bit(b) == IF b THEN 1 ELSE 0

(* Without losses the one bit says it all: what is staged is the next layout
   exactly while its flag is on the way or set, and ranks differ by a layout
   only while some of them still have to act on the common result. *)
CleanInv ==
  NothingLost =>
    /\ \A r \in Ranks :
         /\ ~(landing[r] /\ valid[r])
         /\ staged[r] = map[r] + Bit(landing[r] \/ valid[r])
    /\ \A q, r \in Ranks : map[q] + Bit(flag[q]) = map[r] + Bit(flag[r])

(* No rank has what has not been computed, dead queues or not. *)
KnownInv == \A r \in Ranks : taken[r] <= layouts

IInv == TypeOK /\ QueueInv /\ KnownInv /\ OrderInv /\ FlagInv /\ CleanInv

-----------------------------------------------------------------------------
(* Everything the proofs assume of the constants. *)
Constants ==
  /\ WorldSize \in Nat \ {0}
  /\ LbInterval \in Nat \ {0}
  /\ MaxLayouts \in Nat /\ MaxProfiles \in Nat /\ MaxReports \in Nat
  /\ Exchange \in BOOLEAN /\ MayStop \in BOOLEAN

LEMMA ConstantsTyped == Constants
  BY WorldSizeAssumption, LbIntervalAssumption, BoundsAssumption, ModeAssumption
     DEF Constants

(* The sweep stays within the ranks. *)
LEMMA NextRankTyped ==
  ASSUME NEW r \in Ranks
  PROVE  NextRank(r) \in Ranks
  BY WorldSizeAssumption, SMT DEF Ranks, NextRank

(* Taking the head of a queue and putting at its end, position by position. *)
LEMMA TailOf ==
  ASSUME NEW S, NEW s \in Seq(S), s # <<>>
  PROVE  /\ Head(s) \in S
         /\ Head(s) = s[1]
         /\ 1 \in DOMAIN s
         /\ Tail(s) \in Seq(S)
         /\ \A i \in DOMAIN Tail(s) : i + 1 \in DOMAIN s /\ Tail(s)[i] = s[i + 1]
         /\ \A i \in DOMAIN s :
              i # 1 => i - 1 \in DOMAIN Tail(s) /\ Tail(s)[i - 1] = s[i]
         /\ DOMAIN s \subseteq Nat \ {0} /\ DOMAIN Tail(s) \subseteq Nat \ {0}
  BY HeadTailProperties

LEMMA AppendTo ==
  ASSUME NEW S, NEW s \in Seq(S), NEW e \in S
  PROVE  /\ Append(s, e) \in Seq(S)
         /\ DOMAIN Append(s, e) = DOMAIN s \union {Len(s) + 1}
         /\ Append(s, e)[Len(s) + 1] = e
         /\ \A i \in DOMAIN s : i < Len(s) + 1 /\ Append(s, e)[i] = s[i]
  BY AppendProperties

-----------------------------------------------------------------------------
(***************************************************************************)
(* Type correctness.                                                       *)
(***************************************************************************)

LEMMA InstructionsTyped ==
  /\ Profile \in Instructions
  /\ Exit \in Instructions
  /\ \A n \in Layouts : UpdateLayout(n) \in Instructions
  BY BoundsAssumption DEF Profile, Exit, UpdateLayout, Instructions, Layouts

LEMMA InitTyped == Init => TypeOK
  BY ConstantsTyped DEF Constants, Init, TypeOK, Ranks, Layouts, NoReport

(* The inference thread. *)
LEMMA MainThreadTyped ==
  ASSUME TypeOK, NEW r \in Ranks, MainThread(r)
  PROVE  TypeOK'
  <1>. USE DEF TypeOK, mainVars, stageVars, schedVars, Goto
  <1>1. CASE CollectQuietly(r)
    BY <1>1, SMTT(30) DEF CollectQuietly
  <1>2. CASE CollectAndProfile(r)
    <2>1. Append(instr[r], Profile) \in Seq(Instructions)
      BY InstructionsTyped, AppendTo
    <2>2. /\ main' = [main EXCEPT ![r] = "check"] \/ main' = [main EXCEPT ![r] = "dead"]
          /\ instr' = instr \/ instr' = [instr EXCEPT ![r] = Append(@, Profile)]
      BY <1>2, SMTT(30) DEF CollectAndProfile, PutProfile
    <2>3. main' \in [Ranks -> {"collect", "check", "reduce", "reduced", "weight1",
                               "weight2", "dead"}]
      BY <2>2
    <2>4. instr' \in [Ranks -> Seq(Instructions)]
      <3>1. CASE instr' = instr
        BY <3>1
      <3>2. CASE instr' = [instr EXCEPT ![r] = Append(@, Profile)]
        BY <2>1, <3>2
      <3>. QED  BY <2>2, <3>1, <3>2
    <2>5. tick' \in [Ranks -> Nat]
      BY <1>2 DEF CollectAndProfile, PutProfile
    <2>6. UNCHANGED <<vote, flag, map, weight1, weight2, attached, worker, stageVars,
                      upload, schedVars, lost, taken>>
      BY <1>2 DEF CollectAndProfile, PutProfile
    <2>. QED  BY <2>3, <2>4, <2>5, <2>6
  <1>3. CASE CheckConsistency(r)
    BY <1>3 DEF CheckConsistency
  <1>4. CASE SwitchMaps(r)
    BY <1>4 DEF SwitchMaps
  <1>5. CASE ReadWeight1(r)
    BY <1>5 DEF ReadWeight1
  <1>6. CASE ReadWeight2(r)
    BY <1>6 DEF ReadWeight2
  <1>. QED
    BY <1>1, <1>2, <1>3, <1>4, <1>5, <1>6, Zenon DEF MainThread

(* The worker thread, its stream and the application that ends it. *)
LEMMA WorkerThreadTyped ==
  ASSUME TypeOK, NEW r \in Ranks,
         WorkerThread(r) \/ Land(r) \/ RequestExit(r)
  PROVE  TypeOK'
  <1>. USE DEF TypeOK, mainVars, stageVars, schedVars, WorkerGoto
  <1>1. ASSUME NEW task, Takes(r, task)
        PROVE  /\ Head(instr[r]).layout \in Layouts
               /\ instr' \in [Ranks -> Seq(Instructions)]
    <2>1. Head(instr[r]) \in Instructions /\ Tail(instr[r]) \in Seq(Instructions)
      BY <1>1, TailOf DEF Takes
    <2>. QED  BY <1>1, <2>1 DEF Takes, Instructions
  <1>2. CASE StartWorker(r)
    BY <1>2 DEF StartWorker
  <1>3. CASE TakeProfile(r)
    BY <1>3, <1>1 DEF TakeProfile
  <1>4. CASE Report(r)
    <2>1. Reported(r) \in Layouts
      BY BoundsAssumption DEF Reported, Layouts
    <2>2. upload' \in [Ranks -> Seq(Layouts)]
      BY <1>4, <2>1, AppendTo DEF Report
    <2>. QED  BY <1>4, <2>2 DEF Report
  <1>5. CASE DropUpdate(r)
    BY <1>5, <1>1 DEF DropUpdate
  <1>6. CASE TakeUpdate(r)
    BY <1>6, <1>1 DEF TakeUpdate
  <1>7. CASE Stage(r)
    <2>1. chosen' \in [Ranks -> Layouts]
      BY <1>7, BoundsAssumption DEF Stage, QueueFill, Layouts
    <2>2. lost' \in [Ranks -> SUBSET Layouts]
      BY <1>7 DEF Stage, QueueFill
    <2>. QED  BY <1>7, <2>1, <2>2 DEF Stage, QueueFill
  <1>8. CASE TakeExit(r)
    BY <1>8, <1>1 DEF TakeExit
  <1>9. CASE WorkerFails(r)
    BY <1>9 DEF WorkerFails
  <1>10. CASE Land(r)
    BY <1>10 DEF Land
  <1>11. CASE RequestExit(r)
    <2>1. instr' \in [Ranks -> Seq(Instructions)]
      BY <1>11, InstructionsTyped, AppendTo DEF RequestExit
    <2>. QED  BY <1>11, <2>1 DEF RequestExit
  <1>. QED
    BY <1>2, <1>3, <1>4, <1>5, <1>6, <1>7, <1>8, <1>9, <1>10, <1>11, Zenon
       DEF WorkerThread

(* The scheduler process. *)
LEMMA SchedulerTyped ==
  ASSUME TypeOK, Scheduler \/ StopScheduler
  PROVE  TypeOK'
  <1>. USE DEF TypeOK, mainVars, stageVars, schedVars
  <1>1. NextRank(at) \in Ranks /\ 0 \in Ranks
    <2>1. at \in Ranks
      OBVIOUS
    <2>. HIDE DEF TypeOK
    <2>. QED  BY <2>1, NextRankTyped, WorldSizeAssumption DEF Ranks
  <1>2. [r \in Ranks |-> NoReport] \in [Ranks -> Layouts \union {NoReport}]
    OBVIOUS
  <1>3. ASSUME upload[at] # <<>>
        PROVE  /\ Head(upload[at]) \in Layouts
               /\ [upload EXCEPT ![at] = Tail(@)] \in [Ranks -> Seq(Layouts)]
    BY <1>3, TailOf
  <1>4. SchedulerEnds => /\ sched' = "dead" /\ at' \in Ranks /\ target' \in Ranks
                         /\ reports' \in [Ranks -> Layouts \union {NoReport}]
                         /\ instr' \in [Ranks -> Seq(Instructions)]
                         /\ upload' \in [Ranks -> Seq(Layouts)]
                         /\ layouts' \in Layouts
    BY <1>1, <1>2 DEF SchedulerEnds
  <1>5. CASE PollEmpty
    BY <1>5, <1>1 DEF PollEmpty
  <1>6. CASE StoreReport
    BY <1>6, <1>1, <1>3 DEF StoreReport, TakeReport, Received
  <1>7. CASE ComputeLayout
    <2>1. layouts' \in Layouts /\ sched' \in {"sweep", "emit", "dead"}
      <3>1. /\ layouts' = layouts \/ (layouts < MaxLayouts /\ layouts' = layouts + 1)
            /\ sched' = sched \/ sched' = "emit"
        BY <1>7 DEF ComputeLayout
      <3>2. layouts \in 0 .. MaxLayouts /\ sched \in {"sweep", "emit", "dead"}
        BY DEF Layouts
      <3>. HIDE DEF TypeOK
      <3>. QED  BY <3>1, <3>2, BoundsAssumption DEF Layouts
    <2>2. at' \in Ranks
      BY <1>7, <1>1 DEF ComputeLayout
    <2>. QED  BY <1>7, <1>2, <1>3, <2>1, <2>2 DEF ComputeLayout, TakeReport
  <1>8. CASE ComputeRaises
    BY <1>8, <1>4 DEF ComputeRaises
  <1>9. CASE EmitUpdate
    <2>1. instr' \in [Ranks -> Seq(Instructions)]
      BY <1>9, InstructionsTyped, AppendTo DEF EmitUpdate, Put
    <2>2. target' \in Ranks /\ at' \in Ranks /\ sched' \in {"sweep", "emit", "dead"}
      <3>1. \/ target # LastRank /\ target' = target + 1 /\ at' = at /\ sched' = sched
            \/ target' = 0 /\ at' = NextRank(at) /\ sched' = "sweep"
        BY <1>9 DEF EmitUpdate
      <3>2. target \in Ranks /\ at \in Ranks /\ sched \in {"sweep", "emit", "dead"}
        OBVIOUS
      <3>. HIDE DEF TypeOK
      <3>3. ASSUME target # LastRank PROVE target + 1 \in Ranks
        BY <3>2, <3>3, WorldSizeAssumption DEF Ranks, LastRank
      <3>. QED  BY <3>1, <3>2, <3>3, <1>1
    <2>. QED  BY <1>9, <2>1, <2>2 DEF EmitUpdate
  <1>10. CASE StopScheduler
    BY <1>10, <1>4 DEF StopScheduler
  <1>. QED
    BY <1>5, <1>6, <1>7, <1>8, <1>9, <1>10, Zenon DEF Scheduler

LEMMA TypeStep == TypeOK /\ [Next]_vars => TypeOK'
  <1>. SUFFICES ASSUME TypeOK, [Next]_vars PROVE TypeOK'
    OBVIOUS
  <1>1. CASE AllReduce
    BY <1>1 DEF AllReduce, AllVote, TypeOK, stageVars, schedVars
  <1>2. CASE UNCHANGED vars
    BY <1>2 DEF vars, TypeOK, mainVars, stageVars, schedVars
  <1>. QED
    BY <1>1, <1>2, MainThreadTyped, WorkerThreadTyped, SchedulerTyped DEF Next

(* Every variable of the protocol keeps its type, for any number of ranks,
   any bounds and either way of stopping. *)
THEOREM TypeCorrect == Spec => []TypeOK
  BY InitTyped, TypeStep, PTL DEF Spec

-----------------------------------------------------------------------------
(***************************************************************************)
(* The instruction queue.                                                  *)
(***************************************************************************)

(* A PROFILE or an exit at the end of a queue changes nothing. *)
LEMMA HoldsAppendOther ==
  ASSUME NEW q \in Seq(Instructions), NEW t \in Nat, NEW s \in Nat,
         NEW e \in Instructions, e.task # "UPDATE_LAYOUT", HoldsLayouts(q, t, s)
  PROVE  HoldsLayouts(Append(q, e), t, s)
  <1>1. Updates(Append(q, e)) = Updates(q)
    BY AppendTo DEF Updates
  <1>2. \A i \in Updates(q) : Append(q, e)[i] = q[i]
    BY AppendTo DEF Updates
  <1>. QED  BY <1>1, <1>2 DEF HoldsLayouts

(* The next layout at the end of a queue. *)
LEMMA HoldsAppendUpdate ==
  ASSUME NEW q \in Seq(Instructions), NEW t \in Nat, NEW s \in Nat,
         s + 1 \in Layouts, HoldsLayouts(q, t, s)
  PROVE  HoldsLayouts(Append(q, UpdateLayout(s + 1)), t, s + 1)
  <1>. DEFINE e == UpdateLayout(s + 1)
              p == Append(q, e)
              k == Len(q) + 1
  <1>1. e \in Instructions /\ e.task = "UPDATE_LAYOUT" /\ e.layout = s + 1
    BY InstructionsTyped DEF UpdateLayout
  <1>. HIDE DEF e
  <1>2. /\ Updates(p) = Updates(q) \union {k}
        /\ p[k] = e
        /\ \A i \in Updates(q) : i < k /\ p[i] = q[i]
    BY <1>1, AppendTo DEF Updates
  <1>3. k \in Nat /\ \A i \in Updates(q) : i \in Nat /\ q[i].layout \in Nat
    <2>1. \A i \in DOMAIN q : i \in Nat /\ q[i] \in Instructions
      OBVIOUS
    <2>2. \A x \in Instructions : x.layout \in Nat
      BY BoundsAssumption DEF Instructions, Layouts
    <2>. QED  BY <2>1, <2>2 DEF Updates
  <1>. HIDE DEF p, k
  <1>4. t <= s + 1 /\ \A i \in Updates(p) : t < p[i].layout /\ p[i].layout <= s + 1
    BY <1>1, <1>2, <1>3 DEF HoldsLayouts
  <1>5. ASSUME NEW i \in Updates(p), NEW j \in Updates(p), i < j
        PROVE  p[i].layout < p[j].layout
    <2>1. i \in Updates(q) /\ p[i] = q[i]
      BY <1>2, <1>3, <1>5
    <2>2. CASE j = k
      <3>1. q[i].layout \in Nat /\ q[i].layout <= s
        BY <1>3, <2>1 DEF HoldsLayouts
      <3>2. p[j].layout = s + 1
        BY <1>1, <1>2, <2>2
      <3>. QED  BY <2>1, <3>1, <3>2
    <2>3. CASE j \in Updates(q)
      BY <1>2, <1>5, <2>1, <2>3 DEF HoldsLayouts
    <2>. QED  BY <1>2, <2>2, <2>3
  <1>6. \A n \in t + 1 .. s + 1 : \E i \in Updates(p) : p[i].layout = n
    <2>. TAKE n \in t + 1 .. s + 1
    <2>1. CASE n = s + 1
      BY <1>1, <1>2, <2>1
    <2>2. CASE n \in t + 1 .. s
      BY <1>2, <2>2 DEF HoldsLayouts
    <2>. QED  BY <2>1, <2>2
  <1>. QED  BY <1>4, <1>5, <1>6 DEF HoldsLayouts, p, e

(* Positions of the layouts behind the head. *)
Shifted(q) ==
  /\ \A i \in Updates(Tail(q)) :
       i \in Nat \ {0} /\ i + 1 \in Updates(q) /\ Tail(q)[i] = q[i + 1]
  /\ \A i \in Updates(q) : i \in Nat \ {0} /\ q[i].layout \in Nat
  /\ \A i \in Updates(q) :
       i # 1 => i - 1 \in Updates(Tail(q)) /\ Tail(q)[i - 1] = q[i]
  /\ Head(q).task = "UPDATE_LAYOUT" <=> 1 \in Updates(q)
  /\ Head(q) = q[1]

LEMMA TailShifts ==
  ASSUME NEW q \in Seq(Instructions), q # <<>>
  PROVE  Shifted(q)
  <1>1. \A i \in DOMAIN q : q[i].layout \in Nat
    <2>. TAKE i \in DOMAIN q
    <2>1. q[i] \in Instructions
      OBVIOUS
    <2>. QED  BY <2>1, BoundsAssumption DEF Instructions, Layouts
  <1>2. /\ Head(q) = q[1]
        /\ 1 \in DOMAIN q
        /\ \A i \in DOMAIN Tail(q) : i + 1 \in DOMAIN q /\ Tail(q)[i] = q[i + 1]
        /\ \A i \in DOMAIN q :
             i # 1 => i - 1 \in DOMAIN Tail(q) /\ Tail(q)[i - 1] = q[i]
        /\ DOMAIN q \subseteq Nat \ {0} /\ DOMAIN Tail(q) \subseteq Nat \ {0}
    BY TailOf
  <1>3. ASSUME NEW i \in Updates(Tail(q))
        PROVE  i \in Nat \ {0} /\ i + 1 \in Updates(q) /\ Tail(q)[i] = q[i + 1]
    BY <1>2, <1>3, Zenon DEF Updates
  <1>4. ASSUME NEW i \in Updates(q)
        PROVE  /\ i \in Nat \ {0} /\ q[i].layout \in Nat
               /\ i # 1 => i - 1 \in Updates(Tail(q)) /\ Tail(q)[i - 1] = q[i]
    BY <1>1, <1>2, <1>4, Zenon DEF Updates
  <1>5. Head(q).task = "UPDATE_LAYOUT" <=> 1 \in Updates(q)
    BY <1>2, Zenon DEF Updates
  <1>. QED  BY <1>2, <1>3, <1>4, <1>5, Zenon DEF Shifted

(* Taking a PROFILE or an exit changes nothing. *)
LEMMA HoldsTailOther ==
  ASSUME NEW q \in Seq(Instructions), NEW t \in Nat, NEW s \in Nat,
         q # <<>>, Head(q).task # "UPDATE_LAYOUT", HoldsLayouts(q, t, s)
  PROVE  HoldsLayouts(Tail(q), t, s)
  <1>0. Shifted(q)
    BY TailShifts
  <1>1. \A i \in Updates(q) : i # 1
    BY <1>0 DEF Shifted
  <1>2. \A n \in t + 1 .. s : \E i \in Updates(Tail(q)) : Tail(q)[i].layout = n
    <2>. TAKE n \in t + 1 .. s
    <2>1. PICK i \in Updates(q) : q[i].layout = n
      BY DEF HoldsLayouts
    <2>2. i - 1 \in Updates(Tail(q)) /\ Tail(q)[i - 1] = q[i]
      BY <1>0, <1>1 DEF Shifted
    <2>. QED  BY <2>1, <2>2
  <1>3. \A i \in Updates(Tail(q)) :
          t < Tail(q)[i].layout /\ Tail(q)[i].layout <= s
    BY <1>0 DEF HoldsLayouts, Shifted
  <1>4. ASSUME NEW i \in Updates(Tail(q)), NEW j \in Updates(Tail(q)), i < j
        PROVE  Tail(q)[i].layout < Tail(q)[j].layout
    <2>1. /\ i \in Nat /\ i + 1 \in Updates(q) /\ Tail(q)[i] = q[i + 1]
          /\ j \in Nat /\ j + 1 \in Updates(q) /\ Tail(q)[j] = q[j + 1]
      BY <1>0, Zenon DEF Shifted
    <2>2. i + 1 < j + 1
      BY <1>4, <2>1
    <2>. QED  BY <2>1, <2>2 DEF HoldsLayouts
  <1>. QED  BY <1>2, <1>3, <1>4 DEF HoldsLayouts

(* Taking a layout takes the next one: no layout is skipped or repeated. *)
LEMMA HoldsTailUpdate ==
  ASSUME NEW q \in Seq(Instructions), NEW t \in Nat, NEW s \in Nat,
         q # <<>>, Head(q).task = "UPDATE_LAYOUT", HoldsLayouts(q, t, s)
  PROVE  Head(q).layout = t + 1 /\ HoldsLayouts(Tail(q), t + 1, s)
  <1>0. Shifted(q)
    BY TailShifts
  <1>1. 1 \in Updates(q) /\ Head(q) = q[1] /\ Head(q).layout \in Nat
    BY <1>0 DEF Shifted
  <1>2. t < Head(q).layout /\ Head(q).layout <= s
    BY <1>1 DEF HoldsLayouts
  <1>3. PICK i \in Updates(q) : q[i].layout = t + 1
    BY <1>1, <1>2 DEF HoldsLayouts
  <1>4. i = 1
    <2>. SUFFICES ASSUME i # 1 PROVE FALSE
      OBVIOUS
    <2>1. 1 < i
      BY <1>0 DEF Shifted
    <2>. QED  BY <1>1, <1>2, <1>3, <2>1 DEF HoldsLayouts
  <1>5. Head(q).layout = t + 1
    BY <1>1, <1>3, <1>4
  <1>6. \A n \in (t + 1) + 1 .. s : \E j \in Updates(Tail(q)) : Tail(q)[j].layout = n
    <2>. TAKE n \in (t + 1) + 1 .. s
    <2>1. PICK j \in Updates(q) : q[j].layout = n
      BY DEF HoldsLayouts
    <2>2. j # 1
      BY <1>1, <1>5, <2>1
    <2>3. j - 1 \in Updates(Tail(q)) /\ Tail(q)[j - 1] = q[j]
      BY <1>0, <2>2 DEF Shifted
    <2>. QED  BY <2>1, <2>3
  <1>7. \A j \in Updates(Tail(q)) :
          t + 1 < Tail(q)[j].layout /\ Tail(q)[j].layout <= s
    <2>. TAKE j \in Updates(Tail(q))
    <2>1. j \in Nat \ {0} /\ j + 1 \in Updates(q) /\ Tail(q)[j] = q[j + 1]
      BY <1>0, Zenon DEF Shifted
    <2>2. 1 < j + 1
      BY <2>1
    <2>3. q[j + 1].layout \in Nat /\ q[j + 1].layout <= s
      <3>1. q[j + 1].layout \in Nat
        BY <1>0, <2>1, Zenon DEF Shifted
      <3>2. q[j + 1].layout <= s
        BY <2>1 DEF HoldsLayouts
      <3>. QED  BY <3>1, <3>2
    <2>4. t + 1 < q[j + 1].layout
      BY <1>1, <1>5, <2>1, <2>2, SMTT(30) DEF HoldsLayouts
    <2>. QED  BY <2>1, <2>3, <2>4
  <1>8. ASSUME NEW j \in Updates(Tail(q)), NEW k \in Updates(Tail(q)), j < k
        PROVE  Tail(q)[j].layout < Tail(q)[k].layout
    <2>1. /\ j \in Nat /\ j + 1 \in Updates(q) /\ Tail(q)[j] = q[j + 1]
          /\ k \in Nat /\ k + 1 \in Updates(q) /\ Tail(q)[k] = q[k + 1]
      BY <1>0, Zenon DEF Shifted
    <2>2. j + 1 < k + 1
      BY <1>8, <2>1
    <2>. QED  BY <2>1, <2>2 DEF HoldsLayouts
  <1>9. t + 1 <= s
    BY <1>2, <1>5
  <1>. QED  BY <1>5, <1>6, <1>7, <1>8, <1>9, Zenon DEF HoldsLayouts

(* What a queue is before a step, with the types the lemmas above ask for. *)
LEMMA QueuesBefore ==
  ASSUME TypeOK, QueueInv, sched # "dead", NEW r \in Ranks
  PROVE  /\ instr[r] \in Seq(Instructions)
         /\ taken[r] \in Nat
         /\ layouts \in Nat
         /\ Sent(r) \in Nat
         /\ HoldsLayouts(instr[r], taken[r], Sent(r))
  BY BoundsAssumption DEF TypeOK, QueueInv, Layouts, Sent

(* Whatever the worker takes, it takes in order. *)
LEMMA TakesInOrder ==
  ASSUME TypeOK, QueueInv, NEW r \in Ranks, NEW task, Takes(r, task)
  PROVE  /\ sched # "dead"
         /\ instr' = [instr EXCEPT ![r] = Tail(instr[r])]
         /\ task # "UPDATE_LAYOUT"
              => HoldsLayouts(Tail(instr[r]), taken[r], Sent(r))
         /\ task = "UPDATE_LAYOUT"
              => /\ Head(instr[r]).layout = taken[r] + 1
                 /\ HoldsLayouts(Tail(instr[r]), taken[r] + 1, Sent(r))
  <1>1. /\ sched # "dead" /\ instr[r] # <<>> /\ Head(instr[r]).task = task
        /\ instr' = [instr EXCEPT ![r] = Tail(instr[r])]
    BY DEF Takes
  <1>2. /\ instr[r] \in Seq(Instructions) /\ taken[r] \in Nat /\ Sent(r) \in Nat
        /\ HoldsLayouts(instr[r], taken[r], Sent(r))
    BY <1>1, QueuesBefore
  <1>. QED  BY <1>1, <1>2, HoldsTailOther, HoldsTailUpdate

LEMMA QueueStep ==
  ASSUME TypeOK, QueueInv, [Next]_vars
  PROVE  QueueInv'
  <1>. DEFINE Same == UNCHANGED <<taken, sched, layouts, target>>
  <1>1. ASSUME Same, UNCHANGED instr
        PROVE  QueueInv'
    BY <1>1 DEF QueueInv, Sent
  <1>2. ASSUME Same, NEW r \in Ranks, sched # "dead", NEW q \in Seq(Instructions),
               HoldsLayouts(q, taken[r], Sent(r)), instr' = [instr EXCEPT ![r] = q]
        PROVE  QueueInv'
    BY <1>2 DEF QueueInv, Sent, TypeOK
  <1>3. ASSUME NEW r \in Ranks, NEW e \in Instructions, e.task # "UPDATE_LAYOUT",
               Same, sched # "dead", instr' = [instr EXCEPT ![r] = Append(@, e)]
        PROVE  QueueInv'
    <2>1. HoldsLayouts(Append(instr[r], e), taken[r], Sent(r))
      BY <1>3, QueuesBefore, HoldsAppendOther
    <2>2. Append(instr[r], e) \in Seq(Instructions)
      BY <1>3, AppendTo DEF TypeOK
    <2>. QED  BY <1>2, <1>3, <2>1, <2>2
  <1>4. ASSUME NEW r \in Ranks, MainThread(r)
        PROVE  QueueInv'
    <2>1. CASE CollectAndProfile(r)
      <3>1. Profile \in Instructions /\ Profile.task # "UPDATE_LAYOUT" /\ Same
        BY <2>1, InstructionsTyped DEF CollectAndProfile, Profile, schedVars
      <3>. QED  BY <1>1, <1>3, <2>1, <3>1 DEF CollectAndProfile, PutProfile
    <2>. QED
      BY <1>1, <1>4, <2>1 DEF MainThread, CollectQuietly, CheckConsistency,
         SwitchMaps, ReadWeight1, ReadWeight2, schedVars
  <1>5. ASSUME NEW r \in Ranks, TakeProfile(r) \/ TakeExit(r)
        PROVE  QueueInv'
    <2>1. PICK task : task # "UPDATE_LAYOUT" /\ Takes(r, task)
      BY <1>5 DEF TakeProfile, TakeExit
    <2>2. Same
      BY <1>5 DEF TakeProfile, TakeExit, schedVars
    <2>3. Tail(instr[r]) \in Seq(Instructions)
      BY <2>1, TailOf DEF Takes, TypeOK
    <2>. QED  BY <1>2, <2>1, <2>2, <2>3, TakesInOrder
  <1>6. ASSUME NEW r \in Ranks, DropUpdate(r) \/ TakeUpdate(r)
        PROVE  QueueInv'
    <2>1. /\ Takes(r, "UPDATE_LAYOUT")
          /\ taken' = [taken EXCEPT ![r] = Head(instr[r]).layout]
          /\ UNCHANGED <<sched, layouts, target>>
      BY <1>6 DEF DropUpdate, TakeUpdate, schedVars
    <2>2. /\ sched # "dead"
          /\ instr' = [instr EXCEPT ![r] = Tail(instr[r])]
          /\ Head(instr[r]).layout = taken[r] + 1
          /\ HoldsLayouts(Tail(instr[r]), taken[r] + 1, Sent(r))
      BY <2>1, TakesInOrder
    <2>. QED  BY <2>1, <2>2 DEF QueueInv, Sent, TypeOK
  <1>7. CASE \E r \in Ranks : RequestExit(r)
    <2>1. Exit \in Instructions /\ Exit.task # "UPDATE_LAYOUT" /\ Same
      BY <1>7, InstructionsTyped DEF RequestExit, Exit, schedVars
    <2>. QED  BY <1>3, <1>7, <2>1 DEF RequestExit
  <1>8. CASE ComputeLayout
    <2>1. sched = "sweep" /\ target = 0 /\ layouts \in Nat
      BY <1>8, BoundsAssumption DEF ComputeLayout, TakeReport, QueueInv, TypeOK, Layouts
    <2>2. \A r \in Ranks : 0 <= r
      BY DEF Ranks
    <2>3. /\ UNCHANGED <<instr, taken, target>>
          /\ \/ UNCHANGED <<sched, layouts>>
             \/ layouts' = layouts + 1 /\ sched' = "emit"
      BY <1>8 DEF ComputeLayout
    <2>. QED  BY <2>1, <2>2, <2>3 DEF QueueInv, Sent
  <1>9. CASE EmitUpdate
    <2>1. /\ sched = "emit" /\ layouts \in Nat /\ layouts > 0 /\ target \in Ranks
          /\ instr' = [instr EXCEPT ![target] = Append(@, UpdateLayout(layouts))]
          /\ UNCHANGED <<taken, layouts>>
      BY <1>9, BoundsAssumption DEF EmitUpdate, Put, QueueInv, TypeOK, Layouts
    <2>2. \/ target' = target + 1 /\ sched' = "emit"
          \/ target + 1 = WorldSize /\ target' = 0 /\ sched' = "sweep"
      BY <1>9, <2>1, WorldSizeAssumption DEF EmitUpdate, LastRank
    <2>. PICK t \in Ranks : t = target
      BY <2>1
    <2>3. Sent(t) = layouts - 1 /\ Sent(t)' = layouts
      BY <2>1, <2>2 DEF Sent, Ranks
    <2>4. \A r \in Ranks \ {t} : Sent(r)' = Sent(r)
      BY <2>1, <2>2, WorldSizeAssumption DEF Sent, Ranks
    <2>5. HoldsLayouts(Append(instr[t], UpdateLayout(layouts)), taken[t], layouts)
      <3>1. layouts - 1 \in Nat /\ layouts = (layouts - 1) + 1 /\ layouts \in Layouts
        BY <2>1 DEF TypeOK
      <3>2. /\ instr[t] \in Seq(Instructions) /\ taken[t] \in Nat
            /\ HoldsLayouts(instr[t], taken[t], layouts - 1)
        BY <2>1, <2>3, QueuesBefore
      <3>. QED  BY <3>1, <3>2, HoldsAppendUpdate
    <2>6. ASSUME NEW r \in Ranks
          PROVE  HoldsLayouts(instr'[r], taken'[r], Sent(r)')
      <3>1. CASE r = t
        BY <2>1, <2>3, <2>5, <3>1 DEF TypeOK
      <3>2. CASE r # t
        BY <2>1, <2>4, <3>2 DEF QueueInv, TypeOK
      <3>. QED  BY <3>1, <3>2
    <2>. QED
      BY <2>1, <2>2, <2>6 DEF QueueInv
  <1>10. CASE ComputeRaises \/ StopScheduler
    BY <1>10 DEF ComputeRaises, StopScheduler, SchedulerEnds, QueueInv
  <1>11. CASE PollEmpty \/ StoreReport
    BY <1>1, <1>11 DEF PollEmpty, StoreReport
  <1>12. ASSUME NEW r \in Ranks,
                \/ StartWorker(r) \/ Report(r) \/ Stage(r) \/ WorkerFails(r) \/ Land(r)
         PROVE  QueueInv'
    BY <1>1, <1>12 DEF StartWorker, Report, Stage, QueueFill, WorkerFails, Land, schedVars
  <1>13. CASE AllReduce \/ UNCHANGED vars
    BY <1>1, <1>13 DEF AllReduce, vars, schedVars
  <1>. QED
    BY <1>4, <1>5, <1>6, <1>7, <1>8, <1>9, <1>10, <1>11, <1>12, <1>13
       DEF Next, WorkerThread, Scheduler

-----------------------------------------------------------------------------
(***************************************************************************)
(* Layouts move forward.                                                   *)
(***************************************************************************)

LEMMA LayoutsAreNumbers ==
  ASSUME TypeOK
  PROVE  \A r \in Ranks :
           /\ map[r] \in Nat /\ staged[r] \in Nat /\ taken[r] \in Nat
           /\ chosen[r] \in Nat /\ weight1[r] \in Nat /\ weight2[r] \in Nat
  BY BoundsAssumption DEF TypeOK, Layouts

(* OrderInv for one rank. *)
Ordered(r) ==
  /\ map[r] <= staged[r]
  /\ staged[r] <= taken[r]
  /\ worker[r] = "stage" => chosen[r] = taken[r] /\ staged[r] < taken[r]
  /\ weight1[r] <= staged[r] /\ weight2[r] <= staged[r]
  /\ main[r] # "weight1" => map[r] <= weight1[r]
  /\ main[r] \notin {"weight1", "weight2"} => weight1[r] <= weight2[r]
  /\ \A n \in staged[r] + 1 .. taken[r] :
       n \in lost[r] \/ (worker[r] = "stage" /\ n = chosen[r])

LEMMA OrderInvIsOrdered == OrderInv <=> \A r \in Ranks : Ordered(r)
  BY DEF OrderInv, Ordered

(* The inference thread reads what is staged. *)
LEMMA MainThreadOrdered ==
  ASSUME TypeOK, NEW r \in Ranks, Ordered(r), MainThread(r)
  PROVE  Ordered(r)'
  <1>1. UNCHANGED <<staged, taken, worker, chosen, lost>>
    BY DEF MainThread, CollectQuietly, CollectAndProfile, CheckConsistency,
       SwitchMaps, ReadWeight1, ReadWeight2, stageVars
  <1>2. CASE SwitchMaps(r)
    <2>1. /\ map'[r] = staged[r] /\ main'[r] = "weight1" /\ main[r] = "reduced"
          /\ UNCHANGED <<weight1, weight2>>
      BY <1>2 DEF SwitchMaps, Goto, TypeOK
    <2>. QED  BY <1>1, <2>1, LayoutsAreNumbers DEF Ordered
  <1>3. CASE ReadWeight1(r)
    <2>1. /\ weight1'[r] = staged[r] /\ main'[r] = "weight2"
          /\ UNCHANGED <<map, weight2>>
      BY <1>3 DEF ReadWeight1, Goto, TypeOK
    <2>. QED  BY <1>1, <2>1, LayoutsAreNumbers DEF Ordered
  <1>4. CASE ReadWeight2(r)
    <2>1. /\ weight2'[r] = staged[r] /\ main[r] = "weight2" /\ main'[r] = "collect"
          /\ UNCHANGED <<map, weight1>>
      BY <1>4 DEF ReadWeight2, Goto, TypeOK
    <2>. QED  BY <1>1, <2>1, LayoutsAreNumbers DEF Ordered
  <1>5. CASE CollectQuietly(r) \/ CollectAndProfile(r) \/ CheckConsistency(r)
    <2>1. UNCHANGED <<map, weight1, weight2>>
      BY <1>5 DEF CollectQuietly, CollectAndProfile, CheckConsistency
    <2>2. main[r] \notin {"weight1", "weight2"} /\ main'[r] \notin {"weight1", "weight2"}
      BY <1>5 DEF CollectQuietly, CollectAndProfile, CheckConsistency, Goto, TypeOK
    <2>. QED  BY <1>1, <2>1, <2>2 DEF Ordered
  <1>. QED  BY <1>2, <1>3, <1>4, <1>5 DEF MainThread

(* The worker stages what it takes, in the order of the queue. *)
LEMMA WorkerThreadOrdered ==
  ASSUME TypeOK, QueueInv, NEW r \in Ranks, Ordered(r), WorkerThread(r)
  PROVE  Ordered(r)'
  <1>1. UNCHANGED <<main, map, weight1, weight2>>
    BY DEF WorkerThread, StartWorker, TakeProfile, Report, DropUpdate, TakeUpdate,
       Stage, QueueFill, TakeExit, WorkerFails, mainVars
  <1>2. CASE Stage(r)
    <2>1. /\ staged'[r] = chosen[r] /\ worker[r] = "stage" /\ worker'[r] = "wait"
          /\ UNCHANGED taken
      BY <1>2 DEF Stage, QueueFill, WorkerGoto, TypeOK
    <2>. QED  BY <1>1, <2>1, LayoutsAreNumbers DEF Ordered
  <1>3. CASE TakeUpdate(r)
    <2>1. Head(instr[r]).layout = taken[r] + 1
      BY <1>3, TakesInOrder DEF TakeUpdate
    <2>2. /\ taken'[r] = taken[r] + 1 /\ chosen'[r] = taken[r] + 1
          /\ worker[r] = "wait" /\ worker'[r] = "stage"
          /\ UNCHANGED <<staged, lost>>
      BY <1>3, <2>1 DEF TakeUpdate, Takes, WorkerGoto, TypeOK
    <2>. QED  BY <1>1, <2>2, LayoutsAreNumbers DEF Ordered
  <1>4. CASE DropUpdate(r)
    <2>1. Head(instr[r]).layout = taken[r] + 1
      BY <1>4, TakesInOrder DEF DropUpdate
    <2>2. /\ taken'[r] = taken[r] + 1 /\ lost'[r] = lost[r] \union {taken[r] + 1}
          /\ worker[r] = "wait" /\ worker'[r] = "wait"
          /\ UNCHANGED staged
      BY <1>4, <2>1 DEF DropUpdate, Takes, TypeOK, stageVars
    <2>. QED  BY <1>1, <2>2, LayoutsAreNumbers DEF Ordered
  <1>5. CASE StartWorker(r) \/ TakeProfile(r) \/ Report(r) \/ TakeExit(r)
             \/ WorkerFails(r)
    <2>1. UNCHANGED <<staged, taken, chosen, lost>>
      BY <1>5 DEF StartWorker, TakeProfile, Report, TakeExit, WorkerFails, stageVars
    <2>2. worker[r] # "stage" /\ worker'[r] # "stage"
      BY <1>5 DEF StartWorker, TakeProfile, Report, TakeExit, WorkerFails, Takes,
         WorkerGoto, TypeOK
    <2>. QED  BY <1>1, <2>1, <2>2 DEF Ordered
  <1>. QED  BY <1>2, <1>3, <1>4, <1>5 DEF WorkerThread

(* A thread of rank q leaves the layouts of the other ranks alone. *)
OfRank(r) == <<main[r], map[r], weight1[r], weight2[r], worker[r], chosen[r],
               staged[r], taken[r], lost[r], valid[r], landing[r], vote[r], flag[r]>>

LEMMA OtherRanksUntouched ==
  ASSUME TypeOK, NEW q \in Ranks, NEW r \in Ranks \ {q},
         MainThread(q) \/ WorkerThread(q) \/ Land(q) \/ RequestExit(q)
  PROVE  UNCHANGED OfRank(r)
  <1>. USE DEF OfRank, mainVars, stageVars, TypeOK
  <1>1. CASE MainThread(q)
    BY <1>1 DEF MainThread, CollectQuietly, CollectAndProfile, CheckConsistency,
       SwitchMaps, ReadWeight1, ReadWeight2, Goto
  <1>2. CASE WorkerThread(q)
    BY <1>2 DEF WorkerThread, StartWorker, TakeProfile, Report, DropUpdate, TakeUpdate,
       Stage, QueueFill, TakeExit, WorkerFails, Takes, WorkerGoto
  <1>3. CASE Land(q) \/ RequestExit(q)
    BY <1>3 DEF Land, RequestExit
  <1>. QED  BY <1>1, <1>2, <1>3

LEMMA OrderStep ==
  ASSUME TypeOK, QueueInv, OrderInv, [Next]_vars
  PROVE  OrderInv'
  <1>1. \A r \in Ranks : Ordered(r)
    BY OrderInvIsOrdered
  <1>2. ASSUME NEW r \in Ranks, UNCHANGED OfRank(r)
        PROVE  Ordered(r)'
    BY <1>1, <1>2 DEF OfRank, Ordered
  <1>3. ASSUME NEW q \in Ranks,
               MainThread(q) \/ WorkerThread(q) \/ Land(q) \/ RequestExit(q),
               NEW r \in Ranks
        PROVE  Ordered(r)'
    <2>1. CASE r # q
      BY <1>2, <1>3, <2>1, OtherRanksUntouched
    <2>2. CASE r = q /\ (Land(q) \/ RequestExit(q))
      BY <1>1, <2>2 DEF Land, RequestExit, Ordered, mainVars, stageVars
    <2>. QED
      BY <1>1, <1>3, <2>1, <2>2, MainThreadOrdered, WorkerThreadOrdered
  <1>4. CASE AllReduce
    BY <1>1, <1>4 DEF AllReduce, Ordered, OrderInv, stageVars
  <1>5. CASE Scheduler \/ StopScheduler \/ UNCHANGED vars
    BY <1>2, <1>5, OrderInvIsOrdered DEF Scheduler, PollEmpty, StoreReport, ComputeLayout,
       ComputeRaises, EmitUpdate, StopScheduler, vars, OfRank, mainVars, stageVars,
       OrderInv, Ordered
  <1>. QED
    BY <1>3, <1>4, <1>5, OrderInvIsOrdered DEF Next, OrderInv, Ordered

-----------------------------------------------------------------------------
(***************************************************************************)
(* What a flag stands for.                                                 *)
(***************************************************************************)

Flagged(r) ==
  /\ valid[r] \/ landing[r] => staged[r] > 0
  /\ vote[r] => valid[r] /\ main[r] = "reduce"
  /\ flag[r] => valid[r] /\ main[r] = "reduced"

LEMMA FlagStep ==
  ASSUME TypeOK, OrderInv, FlagInv, [Next]_vars
  PROVE  FlagInv'
  <1>1. \A r \in Ranks : Flagged(r)
    BY DEF FlagInv, Flagged
  <1>2. ASSUME NEW r \in Ranks, UNCHANGED OfRank(r)
        PROVE  Flagged(r)'
    BY <1>1, <1>2 DEF OfRank, Flagged
  <1>3. ASSUME NEW r \in Ranks, MainThread(r)
        PROVE  Flagged(r)'
    <2>1. UNCHANGED <<staged, landing>>
      BY <1>3 DEF MainThread, CollectQuietly, CollectAndProfile, CheckConsistency,
         SwitchMaps, ReadWeight1, ReadWeight2, stageVars
    <2>2. CASE SwitchMaps(r)
      <3>1. /\ ~valid'[r] /\ ~flag'[r] /\ UNCHANGED vote /\ main[r] = "reduced"
        BY <2>2 DEF SwitchMaps, TypeOK
      <3>. QED  BY <1>1, <2>1, <3>1 DEF Flagged
    <2>3. CASE CheckConsistency(r)
      <3>1. /\ vote'[r] = valid[r] /\ UNCHANGED <<valid, flag>>
            /\ main[r] = "check" /\ main'[r] = "reduce"
        BY <2>3 DEF CheckConsistency, Goto, TypeOK, stageVars
      <3>. QED  BY <1>1, <2>1, <3>1 DEF Flagged
    <2>4. CASE CollectQuietly(r) \/ CollectAndProfile(r)
               \/ ReadWeight1(r) \/ ReadWeight2(r)
      <3>1. UNCHANGED <<valid, vote, flag>> /\ ~flag[r] /\ ~vote[r]
        BY <1>1, <2>4 DEF CollectQuietly, CollectAndProfile, ReadWeight1,
           ReadWeight2, stageVars, Flagged
      <3>. QED  BY <1>1, <2>1, <3>1 DEF Flagged
    <2>. QED  BY <1>3, <2>2, <2>3, <2>4 DEF MainThread
  <1>4. ASSUME NEW r \in Ranks, WorkerThread(r)
        PROVE  Flagged(r)'
    <2>1. UNCHANGED <<main, vote, flag>> /\ UNCHANGED valid
      BY <1>4 DEF WorkerThread, StartWorker, TakeProfile, Report, DropUpdate, TakeUpdate,
         Stage, QueueFill, TakeExit, WorkerFails, mainVars, stageVars
    <2>2. CASE Stage(r)
      <3>1. staged'[r] = chosen[r] /\ worker[r] = "stage"
        BY <2>2 DEF Stage, QueueFill, TypeOK
      <3>2. staged'[r] > 0
        BY <3>1, LayoutsAreNumbers DEF OrderInv
      <3>. QED  BY <1>1, <2>1, <3>2 DEF Flagged
    <2>3. CASE ~Stage(r)
      <3>1. UNCHANGED <<staged, landing>>
        BY <1>4, <2>3 DEF WorkerThread, StartWorker, TakeProfile, Report, DropUpdate,
           TakeUpdate, TakeExit, WorkerFails, stageVars
      <3>. QED  BY <1>1, <2>1, <3>1 DEF Flagged
    <2>. QED  BY <2>2, <2>3
  <1>5. ASSUME NEW r \in Ranks, Land(r) \/ RequestExit(r)
        PROVE  Flagged(r)'
    BY <1>1, <1>5 DEF Land, RequestExit, Flagged, mainVars, stageVars, TypeOK
  <1>6. ASSUME NEW q \in Ranks,
               MainThread(q) \/ WorkerThread(q) \/ Land(q) \/ RequestExit(q),
               NEW r \in Ranks
        PROVE  Flagged(r)'
    BY <1>2, <1>3, <1>4, <1>5, <1>6, OtherRanksUntouched
  <1>7. ASSUME AllReduce, NEW r \in Ranks
        PROVE  Flagged(r)'
    <2>1. /\ ~vote'[r] /\ (flag'[r] => vote[r] /\ main'[r] = "reduced")
          /\ UNCHANGED <<valid, landing, staged>>
      BY <1>7 DEF AllReduce, AllVote, stageVars
    <2>. QED  BY <1>1, <2>1 DEF Flagged
  <1>8. ASSUME Scheduler \/ StopScheduler \/ UNCHANGED vars, NEW r \in Ranks
        PROVE  Flagged(r)'
    <2>1. UNCHANGED OfRank(r)
      BY <1>8 DEF Scheduler, PollEmpty, StoreReport, ComputeLayout, ComputeRaises,
         EmitUpdate, StopScheduler, vars, OfRank, mainVars, stageVars
    <2>. QED  BY <1>2, <2>1
  <1>9. \A r \in Ranks : Flagged(r)'
    BY <1>6, <1>7, <1>8 DEF Next
  <1>. QED  BY <1>9 DEF FlagInv, Flagged

-----------------------------------------------------------------------------
(***************************************************************************)
(* Without losses, what is staged is the next layout.                      *)
(***************************************************************************)

(* CleanInv for one rank, and the number of switches a rank has made once it has
   acted on the result of the last all_reduce. *)
InStep(r) ==
  /\ ~(landing[r] /\ valid[r])
  /\ staged[r] = map[r] + Bit(landing[r] \/ valid[r])

Switches(r) == map[r] + Bit(flag[r])

LEMMA LossesRemain == TypeOK /\ [Next]_vars /\ NothingLost' => NothingLost
  <1>. SUFFICES ASSUME TypeOK, [Next]_vars
                PROVE  \A r \in Ranks : lost[r] \subseteq lost'[r]
    BY DEF NothingLost
  <1>1. ASSUME NEW q \in Ranks,
               MainThread(q) \/ WorkerThread(q) \/ Land(q) \/ RequestExit(q),
               NEW r \in Ranks
        PROVE  lost[r] \subseteq lost'[r]
    <2>1. CASE UNCHANGED lost
      BY <2>1
    <2>2. CASE DropUpdate(q)
      <3>1. lost' = [lost EXCEPT ![q] = @ \union {Head(instr[q]).layout}]
        BY <2>2 DEF DropUpdate
      <3>. QED  BY <3>1 DEF TypeOK
    <2>3. CASE Stage(q)
      <3>1. lost' = [lost EXCEPT ![q] =
                       IF staged[q] # map[q] THEN @ \union {staged[q]} ELSE @]
        BY <2>3 DEF Stage
      <3>. QED  BY <3>1 DEF TypeOK
    <2>. QED
      BY <1>1, <2>1, <2>2, <2>3 DEF MainThread, CollectQuietly, CollectAndProfile,
         CheckConsistency, SwitchMaps, ReadWeight1, ReadWeight2,
         WorkerThread, StartWorker, TakeProfile, Report, TakeUpdate, TakeExit,
         WorkerFails, Land, RequestExit
  <1>2. CASE AllReduce \/ Scheduler \/ StopScheduler \/ UNCHANGED vars
    BY <1>2 DEF AllReduce, Scheduler, PollEmpty, StoreReport, ComputeLayout,
       ComputeRaises, EmitUpdate, StopScheduler, vars
  <1>. QED  BY <1>1, <1>2 DEF Next

LEMMA CleanStep ==
  ASSUME TypeOK, OrderInv, FlagInv, CleanInv, [Next]_vars
  PROVE  CleanInv'
  <1>. SUFFICES ASSUME NothingLost'
                PROVE  /\ \A r \in Ranks : InStep(r)'
                       /\ \A q, r \in Ranks : Switches(q)' = Switches(r)'
    BY DEF CleanInv, InStep, Switches
  <1>0. /\ NothingLost
        /\ \A r \in Ranks : InStep(r)
        /\ \A q, r \in Ranks : Switches(q) = Switches(r)
    BY LossesRemain DEF CleanInv, InStep, Switches
  <1>1. \A r \in Ranks : lost[r] = {} /\ lost'[r] = {}
    BY <1>0 DEF NothingLost
  <1>2. ASSUME NEW r \in Ranks, UNCHANGED OfRank(r)
        PROVE  InStep(r)' /\ Switches(r)' = Switches(r)
    BY <1>0, <1>2 DEF OfRank, InStep, Switches, Bit
  <1>3. ASSUME NEW r \in Ranks, MainThread(r)
        PROVE  InStep(r)' /\ Switches(r)' = Switches(r)
    <2>1. UNCHANGED <<staged, landing>>
      BY <1>3 DEF MainThread, CollectQuietly, CollectAndProfile, CheckConsistency,
         SwitchMaps, ReadWeight1, ReadWeight2, stageVars
    <2>2. CASE SwitchMaps(r)
      <3>1. /\ flag[r] /\ ~flag'[r] /\ ~valid'[r] /\ map'[r] = staged[r]
        BY <2>2 DEF SwitchMaps, TypeOK
      <3>2. valid[r]
        BY <3>1 DEF FlagInv
      <3>3. ~landing[r] /\ staged[r] = map[r] + 1
        BY <1>0, <3>2 DEF InStep, Bit
      <3>. QED  BY <2>1, <3>1, <3>3, LayoutsAreNumbers DEF InStep, Switches, Bit
    <2>3. CASE ~SwitchMaps(r)
      <3>1. UNCHANGED <<map, flag, valid>>
        BY <1>3, <2>3 DEF MainThread, CollectQuietly, CollectAndProfile,
           CheckConsistency, ReadWeight1, ReadWeight2, stageVars
      <3>. QED  BY <1>0, <2>1, <3>1 DEF InStep, Switches, Bit
    <2>. QED  BY <2>2, <2>3
  <1>4. ASSUME NEW r \in Ranks, WorkerThread(r)
        PROVE  InStep(r)' /\ Switches(r)' = Switches(r)
    <2>1. UNCHANGED <<map, flag, valid>>
      BY <1>4 DEF WorkerThread, StartWorker, TakeProfile, Report, DropUpdate, TakeUpdate,
         Stage, QueueFill, TakeExit, WorkerFails, mainVars, stageVars
    <2>2. CASE Stage(r)
      <3>1. /\ worker[r] = "stage" /\ ~landing[r] /\ landing'[r]
            /\ staged'[r] = chosen[r]
            /\ staged[r] # map[r] => staged[r] \in lost'[r]
        BY <2>2 DEF Stage, QueueFill, TypeOK
      <3>2. staged[r] = map[r]
        BY <1>1, <3>1
      <3>3. ~valid[r]
        BY <1>0, <3>2, LayoutsAreNumbers DEF InStep, Bit
      <3>4. chosen[r] = taken[r] /\ staged[r] < taken[r]
            /\ \A n \in staged[r] + 1 .. taken[r] : n = chosen[r]
        BY <1>1, <3>1 DEF OrderInv
      <3>5. chosen[r] = staged[r] + 1
        BY <3>4, LayoutsAreNumbers
      <3>. QED
        BY <2>1, <3>1, <3>2, <3>3, <3>5 DEF InStep, Switches, Bit
    <2>3. CASE ~Stage(r)
      <3>1. UNCHANGED <<staged, landing>>
        BY <1>4, <2>3 DEF WorkerThread, StartWorker, TakeProfile, Report, DropUpdate,
           TakeUpdate, TakeExit, WorkerFails, stageVars
      <3>. QED  BY <1>0, <2>1, <3>1 DEF InStep, Switches, Bit
    <2>. QED  BY <2>2, <2>3
  <1>5. ASSUME NEW r \in Ranks, Land(r) \/ RequestExit(r)
        PROVE  InStep(r)' /\ Switches(r)' = Switches(r)
    <2>1. CASE Land(r)
      <3>1. /\ landing[r] /\ ~landing'[r] /\ valid'[r]
            /\ UNCHANGED <<map, staged, flag>>
        BY <2>1 DEF Land, TypeOK, mainVars
      <3>. QED  BY <1>0, <3>1 DEF InStep, Switches, Bit
    <2>2. CASE RequestExit(r)
      BY <1>0, <2>2 DEF RequestExit, mainVars, stageVars, InStep, Switches, Bit
    <2>. QED  BY <1>5, <2>1, <2>2
  <1>6. ASSUME NEW q \in Ranks,
               MainThread(q) \/ WorkerThread(q) \/ Land(q) \/ RequestExit(q),
               NEW r \in Ranks
        PROVE  InStep(r)' /\ Switches(r)' = Switches(r)
    BY <1>2, <1>3, <1>4, <1>5, <1>6, OtherRanksUntouched
  <1>7. ASSUME AllReduce
        PROVE  /\ \A r \in Ranks : InStep(r)'
               /\ \A q, r \in Ranks : Switches(q)' = Switches(r)'
    <2>1. UNCHANGED <<map, staged, landing, valid>>
      BY <1>7 DEF AllReduce, AllVote, stageVars
    <2>2. \A r \in Ranks : ~flag[r]
      BY <1>7 DEF AllReduce, FlagInv
    <2>3. \A q, r \in Ranks : map[q] = map[r]
      BY <1>0, <2>2, LayoutsAreNumbers DEF Switches, Bit
    <2>4. \A q, r \in Ranks : flag'[q] = flag'[r]
      BY <1>7 DEF AllReduce, AllVote
    <2>. QED  BY <1>0, <2>1, <2>3, <2>4 DEF InStep, Switches, Bit
  <1>8. ASSUME Scheduler \/ StopScheduler \/ UNCHANGED vars, NEW r \in Ranks
        PROVE  InStep(r)' /\ Switches(r)' = Switches(r)
    <2>1. UNCHANGED OfRank(r)
      BY <1>8 DEF Scheduler, PollEmpty, StoreReport, ComputeLayout, ComputeRaises,
         EmitUpdate, StopScheduler, vars, OfRank, mainVars, stageVars
    <2>. QED  BY <1>2, <2>1
  <1>9. CASE \A r \in Ranks : InStep(r)' /\ Switches(r)' = Switches(r)
    BY <1>0, <1>9
  <1>. QED  BY <1>6, <1>7, <1>8, <1>9 DEF Next

-----------------------------------------------------------------------------
(***************************************************************************)
(* Ranks are not ahead of the scheduler.                                   *)
(***************************************************************************)

LEMMA KnownStep ==
  ASSUME TypeOK, QueueInv, KnownInv, TypeOK', QueueInv', [Next]_vars
  PROVE  KnownInv'
  <1>. SUFFICES ASSUME NEW r \in Ranks PROVE taken'[r] <= layouts'
    BY DEF KnownInv
  <1>1. CASE sched' # "dead"
    <2>1. HoldsLayouts(instr'[r], taken'[r], Sent(r)')
      BY <1>1 DEF QueueInv
    <2>2. taken'[r] <= Sent(r)' /\ taken'[r] \in Nat /\ layouts' \in Nat
      BY <2>1, BoundsAssumption DEF HoldsLayouts, TypeOK, Layouts
    <2>3. Sent(r)' = layouts' \/ Sent(r)' = layouts' - 1
      BY DEF Sent
    <2>. QED  BY <2>2, <2>3
  <1>2. CASE sched' = "dead"
    <2>1. UNCHANGED <<taken, layouts>>
      BY <1>2 DEF Next, MainThread, CollectQuietly, CollectAndProfile, CheckConsistency,
         SwitchMaps, ReadWeight1, ReadWeight2, WorkerThread, StartWorker,
         TakeProfile, Report, DropUpdate, TakeUpdate, Takes, Stage, QueueFill, TakeExit,
         WorkerFails, Land, RequestExit, AllReduce, Scheduler, PollEmpty, StoreReport,
         TakeReport, ComputeLayout, ComputeRaises, SchedulerEnds, EmitUpdate, StopScheduler,
         schedVars, vars
    <2>. QED  BY <2>1 DEF KnownInv
  <1>. QED  BY <1>1, <1>2

-----------------------------------------------------------------------------
(***************************************************************************)
(* The theorems.                                                           *)
(***************************************************************************)

LEMMA InitInductive == Init => IInv
  <1>. SUFFICES ASSUME Init PROVE IInv
    OBVIOUS
  <1>1. TypeOK
    BY InitTyped
  <1>2. HoldsLayouts(<<>>, 0, 0)
    BY DEF HoldsLayouts, Updates
  <1>3. QueueInv
    <2>1. \A r \in Ranks : Sent(r) = 0
      BY DEF Init, Sent
    <2>. QED  BY <1>2, <2>1 DEF Init, QueueInv
  <1>4. KnownInv /\ OrderInv /\ FlagInv
    BY DEF Init, KnownInv, OrderInv, FlagInv
  <1>5. CleanInv
    BY DEF Init, CleanInv, Bit
  <1>. QED  BY <1>1, <1>3, <1>4, <1>5 DEF IInv

(* The inductive invariant of the protocol. *)
THEOREM Inductive == Spec => []IInv
  <1>1. IInv /\ [Next]_vars => IInv'
    <2>1. TypeOK /\ [Next]_vars => TypeOK'
      BY TypeStep
    <2>. QED  BY <2>1, QueueStep, KnownStep, OrderStep, FlagStep, CleanStep DEF IInv
  <1>. QED  BY <1>1, InitInductive, PTL DEF Spec

(* Ranks that meet in the all_reduce route with the same layout as long as
   none of them has dropped or overwritten one. *)
THEOREM Agreement == Spec => []AgreementUnlessLost
  <1>1. IInv => AgreementUnlessLost
    <2>. SUFFICES ASSUME IInv, NothingLost, \A r \in Ranks : main[r] = "reduce",
                         NEW q \in Ranks, NEW r \in Ranks
                  PROVE  map[q] = map[r]
      BY DEF AgreementUnlessLost
    <2>1. ~flag[q] /\ ~flag[r]
      BY DEF IInv, FlagInv
    <2>2. map[q] + Bit(flag[q]) = map[r] + Bit(flag[r])
      BY DEF IInv, CleanInv
    <2>. QED  BY <2>1, <2>2, LayoutsAreNumbers DEF Bit, IInv
  <1>. QED  BY <1>1, Inductive, PTL

(* The weights of the layout in use have arrived, as long as no layout is lost. *)
THEOREM Landed == Spec => []AppliedHasLanded
  <1>1. IInv => AppliedHasLanded
    <2>. SUFFICES ASSUME IInv, NothingLost, NEW r \in Ranks, landing[r]
                  PROVE  staged[r] # map[r]
      BY DEF AppliedHasLanded
    <2>1. staged[r] = map[r] + 1
      BY DEF IInv, CleanInv, Bit
    <2>. QED  BY <2>1, LayoutsAreNumbers DEF IInv
  <1>. QED  BY <1>1, Inductive, PTL

(* update_flag is never raised over a module_state of None. *)
THEOREM Switchable == Spec => []SwitchesToALayout
  <1>1. IInv => SwitchesToALayout
    <2>1. IInv => \A r \in Ranks : flag[r] => staged[r] > 0
      BY DEF IInv, FlagInv
    <2>. QED  BY <2>1 DEF SwitchesToALayout
  <1>. QED  BY <1>1, Inductive, PTL

(* The matmul of a pass sees weights at least as new as its maps. *)
THEOREM WeightsFollow == Spec => []WeightsNotOlderThanMaps
  <1>1. IInv => WeightsNotOlderThanMaps
    <2>. SUFFICES ASSUME OrderInv, NEW r \in Ranks, main[r] = "collect"
                  PROVE  map[r] <= weight1[r] /\ weight1[r] <= weight2[r]
      BY DEF IInv, WeightsNotOlderThanMaps
    <2>. QED  BY DEF OrderInv
  <1>. QED  BY <1>1, Inductive, PTL

(* No layout a rank has been sent disappears without being counted as lost. *)
THEOREM NothingForgotten == Spec => []LaterLayoutsPending
  <1>1. ASSUME IInv, sched # "dead", NEW r \in Ranks, NEW n \in 1 .. Sent(r),
               n > staged[r]
        PROVE  n \in Pending(r) \union lost[r]
    <2>1. /\ HoldsLayouts(instr[r], taken[r], Sent(r))
          /\ taken[r] \in Nat /\ Sent(r) \in Nat
      BY <1>1, QueuesBefore DEF IInv
    <2>2. n \in Nat /\ staged[r] \in Nat /\ taken[r] \in Nat /\ Sent(r) \in Nat
      BY <1>1, <2>1, LayoutsAreNumbers DEF IInv
    <2>3. CASE n > taken[r]
      <3>1. n \in taken[r] + 1 .. Sent(r)
        BY <2>2, <2>3
      <3>2. \E i \in Updates(instr[r]) : instr[r][i].layout = n
        BY <2>1, <3>1 DEF HoldsLayouts
      <3>. QED  BY <3>2 DEF Updates, Pending
    <2>4. CASE n <= taken[r]
      <3>1. n \in staged[r] + 1 .. taken[r]
        BY <1>1, <2>2, <2>4
      <3>2. n \in lost[r] \/ (worker[r] = "stage" /\ n = chosen[r])
        BY <1>1, <3>1 DEF IInv, OrderInv
      <3>. QED  BY <3>2 DEF Pending
    <2>. QED  BY <2>2, <2>3, <2>4
  <1>2. IInv => LaterLayoutsPending
    BY <1>1 DEF LaterLayoutsPending
  <1>. QED  BY <1>2, Inductive, PTL

(* The maps of a rank never return to an earlier layout, lost layouts or not. *)
THEOREM NeverBack == Spec => LayoutNeverGoesBack
  <1>1. IInv /\ [Next]_vars => [\A r \in Ranks : map'[r] >= map[r]]_vars
    <2>. SUFFICES ASSUME IInv, Next, NEW r \in Ranks PROVE map'[r] >= map[r]
      OBVIOUS
    <2>1. map[r] \in Nat /\ map[r] <= staged[r] /\ staged[r] \in Nat
      BY LayoutsAreNumbers DEF IInv, OrderInv
    <2>2. CASE UNCHANGED map
      BY <2>1, <2>2
    <2>3. ASSUME NEW q \in Ranks, SwitchMaps(q) PROVE map'[r] >= map[r]
      <3>1. map'[r] = staged[r] \/ map'[r] = map[r]
        BY <2>3 DEF SwitchMaps, IInv, TypeOK
      <3>. QED  BY <2>1, <3>1
    <2>4. UNCHANGED map \/ \E q \in Ranks : SwitchMaps(q)
      BY DEF Next, MainThread, CollectQuietly, CollectAndProfile, CheckConsistency,
         ReadWeight1, ReadWeight2, WorkerThread, StartWorker, TakeProfile,
         Report, DropUpdate, TakeUpdate, Stage, QueueFill, TakeExit, WorkerFails, Land,
         RequestExit, AllReduce, Scheduler, PollEmpty, StoreReport, ComputeLayout,
         ComputeRaises, EmitUpdate, StopScheduler, mainVars
    <2>. QED  BY <2>2, <2>3, <2>4
  <1>. QED  BY <1>1, Inductive, PTL DEF Spec, LayoutNeverGoesBack

-----------------------------------------------------------------------------
(***************************************************************************)
(* The refinement: what a step of the protocol is to EplbReplica.          *)
(***************************************************************************)

Lossy == {r \in Ranks : lost[r] # {}}

LEMMA ReplicaStutters ==
  ASSUME UNCHANGED <<layouts, map, flag, lost>>
  PROVE  UNCHANGED Replica!vars
  BY DEF Replica!vars

LEMMA MainThreadReplicates ==
  ASSUME IInv, NEW r \in Ranks, MainThread(r)
  PROVE  Replica!Next \/ UNCHANGED Replica!vars
  <1>1. CASE ~SwitchMaps(r)
    <2>1. UNCHANGED <<layouts, map, flag, lost>>
      BY <1>1 DEF MainThread, CollectQuietly, CollectAndProfile, CheckConsistency,
         ReadWeight1, ReadWeight2, schedVars
    <2>. QED  BY <2>1, ReplicaStutters
  <1>2. CASE SwitchMaps(r)
    <2>1. /\ flag[r] /\ flag' = [flag EXCEPT ![r] = FALSE]
          /\ map' = [map EXCEPT ![r] = staged[r]]
          /\ UNCHANGED <<layouts, lost>>
      BY <1>2 DEF SwitchMaps, schedVars
    <2>2. staged[r] \in map[r] .. layouts
      <3>1. map[r] <= staged[r] /\ staged[r] <= taken[r] /\ taken[r] <= layouts
        BY DEF IInv, OrderInv, KnownInv
      <3>2. map[r] \in Nat /\ staged[r] \in Nat /\ taken[r] \in Nat /\ layouts \in Nat
        BY LayoutsAreNumbers, BoundsAssumption DEF IInv, TypeOK, Layouts
      <3>. QED  BY <3>1, <3>2
    <2>3. ASSUME Lossy = {} PROVE staged[r] = map[r] + 1
      <3>1. NothingLost
        BY <2>3 DEF Lossy, NothingLost
      <3>2. valid[r]
        BY <2>1 DEF IInv, FlagInv
      <3>. QED  BY <3>1, <3>2 DEF IInv, CleanInv, Bit
    <2>4. Lossy' = Lossy
      BY <2>1 DEF Lossy
    <2>5. Replica!Switch(r)
      BY <2>1, <2>2, <2>3, <2>4 DEF Replica!Switch, Lossy
    <2>. QED  BY <2>5 DEF Replica!Next
  <1>. QED  BY <1>1, <1>2

LEMMA WorkerThreadReplicates ==
  ASSUME IInv, NEW r \in Ranks, WorkerThread(r) \/ Land(r) \/ RequestExit(r)
  PROVE  Replica!Next \/ UNCHANGED Replica!vars
  <1>1. UNCHANGED <<layouts, map, flag>>
    BY DEF WorkerThread, StartWorker, TakeProfile, Report, DropUpdate, TakeUpdate, Stage,
       QueueFill, TakeExit, WorkerFails, Land, RequestExit, mainVars, schedVars
  <1>2. CASE UNCHANGED lost
    BY <1>1, <1>2, ReplicaStutters
  <1>3. ASSUME NEW n, lost' = [lost EXCEPT ![r] = @ \union {n}]
        PROVE  Replica!Next
    <2>1. Lossy' = Lossy \union {r}
      BY <1>3 DEF Lossy, IInv, TypeOK
    <2>2. Replica!Lose(r)
      BY <1>1, <2>1 DEF Replica!Lose, Lossy
    <2>. QED  BY <2>2 DEF Replica!Next
  <1>4. UNCHANGED lost \/ \E n : lost' = [lost EXCEPT ![r] = @ \union {n}]
    <2>1. CASE Stage(r)
      <3>1. lost' = [lost EXCEPT ![r] =
                       IF staged[r] # map[r] THEN lost[r] \union {staged[r]} ELSE lost[r]]
        BY <2>1 DEF Stage
      <3>. QED  BY <3>1 DEF IInv, TypeOK
    <2>2. CASE DropUpdate(r)
      BY <2>2 DEF DropUpdate
    <2>3. CASE ~Stage(r) /\ ~DropUpdate(r)
      BY <2>3 DEF WorkerThread, StartWorker, TakeProfile, Report, TakeUpdate, TakeExit,
         WorkerFails, Land, RequestExit
    <2>. QED  BY <2>1, <2>2, <2>3
  <1>. QED  BY <1>2, <1>3, <1>4

LEMMA AllReduceReplicates ==
  ASSUME IInv, AllReduce
  PROVE  Replica!Next \/ UNCHANGED Replica!vars
  <1>1. UNCHANGED <<layouts, map, lost>> /\ flag' = [r \in Ranks |-> AllVote]
    BY DEF AllReduce, schedVars
  <1>2. \A r \in Ranks : ~flag[r]
    BY DEF AllReduce, IInv, FlagInv
  <1>3. CASE ~AllVote
    <2>1. flag' = [r \in Ranks |-> FALSE]
      BY <1>1, <1>3 DEF AllVote
    <2>2. flag \in [Ranks -> BOOLEAN] /\ \A r \in Ranks : flag[r] = FALSE
      BY <1>2 DEF IInv, TypeOK
    <2>3. flag = [r \in Ranks |-> FALSE]
      BY <2>2
    <2>. QED  BY <1>1, <2>1, <2>3, ReplicaStutters
  <1>4. CASE AllVote
    <2>1. ASSUME Lossy = {}, NEW r \in Ranks PROVE map[r] < layouts
      <3>1. NothingLost
        BY <2>1 DEF Lossy, NothingLost
      <3>2. valid[r]
        BY <1>4 DEF AllVote, IInv, FlagInv
      <3>3. staged[r] = map[r] + 1
        BY <3>1, <3>2 DEF IInv, CleanInv, Bit
      <3>4. staged[r] <= taken[r] /\ taken[r] <= layouts
        BY DEF IInv, OrderInv, KnownInv
      <3>5. map[r] \in Nat /\ staged[r] \in Nat /\ taken[r] \in Nat /\ layouts \in Nat
        BY LayoutsAreNumbers, BoundsAssumption DEF IInv, TypeOK, Layouts
      <3>. QED  BY <3>3, <3>4, <3>5
    <2>2. Lossy' = Lossy
      BY <1>1 DEF Lossy
    <2>3. flag' = [r \in Ranks |-> TRUE]
      BY <1>1, <1>4
    <2>4. Replica!Decide
      BY <1>1, <1>2, <2>1, <2>2, <2>3 DEF Replica!Decide, Lossy
    <2>. QED  BY <2>4 DEF Replica!Next
  <1>. QED  BY <1>3, <1>4

LEMMA SchedulerReplicates ==
  ASSUME Scheduler \/ StopScheduler
  PROVE  Replica!Next \/ UNCHANGED Replica!vars
  <1>1. UNCHANGED <<map, flag, lost>>
    BY DEF Scheduler, PollEmpty, StoreReport, ComputeLayout, ComputeRaises, EmitUpdate,
       StopScheduler, mainVars
  <1>2. UNCHANGED layouts \/ layouts' = layouts + 1
    BY DEF Scheduler, PollEmpty, StoreReport, ComputeLayout, ComputeRaises, SchedulerEnds,
       EmitUpdate, StopScheduler
  <1>3. CASE UNCHANGED layouts
    BY <1>1, <1>3, ReplicaStutters
  <1>4. CASE layouts' = layouts + 1
    <2>1. Replica!Compute
      BY <1>1, <1>4 DEF Replica!Compute
    <2>. QED  BY <2>1 DEF Replica!Next
  <1>. QED  BY <1>2, <1>3, <1>4

(* The balancer implements EplbReplica: all ranks take the steps they decide together, each
   to the next layout, in the order of one sequence, until a rank loses a layout; and none
   ever goes back, or uses a layout nobody has computed. *)
THEOREM Implements == Spec => ReplicatesLayouts
  <1>1. Init => Replica!Init
    BY DEF Init, Replica!Init
  <1>2. IInv /\ [Next]_vars => [Replica!Next]_Replica!vars
    <2>. SUFFICES ASSUME IInv, [Next]_vars PROVE Replica!Next \/ UNCHANGED Replica!vars
      OBVIOUS
    <2>1. CASE UNCHANGED vars
      <3>1. UNCHANGED <<layouts, map, flag, lost>>
        BY <2>1 DEF vars, mainVars, schedVars
      <3>. QED  BY <3>1, ReplicaStutters
    <2>2. CASE Next
      BY <2>2, MainThreadReplicates, WorkerThreadReplicates, AllReduceReplicates,
         SchedulerReplicates DEF Next
    <2>. QED  BY <2>1, <2>2
  <1>. QED  BY <1>1, <1>2, Inductive, PTL DEF Spec, Replica!Spec, ReplicatesLayouts
=============================================================================
