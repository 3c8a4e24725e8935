---------------------------- MODULE OperatorCalls ----------------------------
(***************************************************************************)
(* Calls of the operators, from the Python thread that makes them to the   *)
(* end of their kernels (csrc/plugin/pytorch_npu_helper.h, EXEC_NPU_CMD).  *)
(* The caller's thread looks the operator up, converts its arguments, asks *)
(* the library for the size of the workspace, which runs the tiling        *)
(* function, and puts a task on a queue; the queue's thread runs the task, *)
(* which puts the kernel on the stream of the device; the device runs the  *)
(* kernels of the stream one after the other.                              *)
(*                                                                         *)
(* The queue, the stream and the device are external: torch_npu and CANN.  *)
(* One thread makes calls.                                                 *)
(***************************************************************************)
EXTENDS AscendCore, OperatorPlugin

CONSTANTS
  Scripts,   \* what may happen: a sequence of [env, calls], calls being a sequence
  IdleKernel \* the program before the first kernel, which is empty

ASSUME ScriptAssumption ==
  /\ IdleKernel \in Kernels
  /\ Program[IdleKernel] = <<>>
  /\ \A s \in DOMAIN Scripts : \A i \in DOMAIN Scripts[s].calls :
       Scripts[s].calls[i].kernel \in Kernels

VARIABLES
  script, \* which of the scripts happens
  status, \* of each call
  hugeMem,\* the thread's huge memory is set up
  held,   \* calls whose converted arguments are not released
  queue,  \* calls whose task is to be run
  stream, \* calls whose kernel is to be run
  current,\* the call whose kernel runs, at most one
  baseSizes   \* SINGLE_CORE_MBASE and SINGLE_CORE_NBASE of the estimate's library

hostVars == <<script, status, hugeMem, held, queue, stream, current, baseSizes>>
vars == <<kernel, pos, busy, script, status, hugeMem, held, queue, stream, current, baseSizes>>

Laser == INSTANCE LaserTiling
Sparse == INSTANCE SparseTiling
Ada == INSTANCE AdaRing

Statuses == {"new", "rejected", "queued", "launched", "running", "finished", "failed"}
Settled == {"rejected", "finished", "failed"}

Calls == DOMAIN status
Env == Scripts[script].env
Call(i) == Scripts[script].calls[i]

(* Calls are made in order, the next when the one before has returned or raised. *)
Next1(i) == /\ i \in Calls
            /\ status[i] = "new"
            /\ \A h \in 1 .. i - 1 : status[h] # "new"

-----------------------------------------------------------------------------
(* What the library's tiling function makes of a call. *)
SparseAccepts(c) ==
  /\ \A i \in 1 .. 2 : AclType(c.types[i]) \in {"Half", "BFloat16"}
  /\ c.layouts[1] \in {"BNSD", "BSND", "BSH"} \/ (c.layouts[1] = "TND" /\ c.lengths)

(* Operators of the toolkit, whose tiling functions are not in the repository, may
   do either. *)
Accepts(c) ==
  CASE c.op = "LaserAttention" -> {Laser!CheckTiling(c.request)}
    [] c.op = "LaPreprocess" -> {TRUE}
    [] c.op = "SparseBlockEstimate" -> {SparseAccepts(c)}
    [] c.op = "AdaBlockSparseAttention" -> {Ada!TilingAccepts(c.request)}
    [] OTHER -> BOOLEAN

SizesAfter(c) ==
  IF c.op = "SparseBlockEstimate" THEN Sparse!Shrink(baseSizes, c.request) ELSE baseSizes

-----------------------------------------------------------------------------
Init ==
  /\ script \in DOMAIN Scripts
  /\ status = [i \in DOMAIN Scripts[script].calls |-> "new"]
  /\ hugeMem = FALSE
  /\ held = {}
  /\ queue = <<>>
  /\ stream = <<>>
  /\ current = <<>>
  /\ baseSizes = Sparse!Sizes0
  /\ kernel = IdleKernel
  /\ pos = AtStart(kernel)
  /\ busy = {}

(* The converted arguments of a call, which its task needs. *)
DroppedAtReturn(i) == held
Kept(i) == held \union {i}

Rejected(i) == status' = [status EXCEPT ![i] = "rejected"]

(* The operator's function raises before anything is set up: an argument is wrong,
   its outputs cannot be allocated, or the library has no such operator. *)
RaiseAtOnce(i) ==
  /\ Next1(i)
  /\ \/ ~PluginChecks(Call(i))
     \/ ~ShapesKnown(Call(i))
     \/ ~ValidateApiAddresses(Env, Call(i).op)
  /\ Rejected(i)
  /\ UNCHANGED <<coreVars, script, hugeMem, held, queue, stream, current, baseSizes>>

Prepared(i) ==
  /\ Next1(i)
  /\ PluginChecks(Call(i))
  /\ ValidateApiAddresses(Env, Call(i).op)

SetsUp == hugeMem \/ HasFunction(Env, "InitHugeMemThreadLocal")

(* An argument cannot be converted.  Those converted before it stay, and in which
   order they are is up to the compiler. *)
RaiseInConversion(i) ==
  /\ Prepared(i)
  /\ ~ConvertTypes(Call(i))
  /\ Rejected(i)
  /\ hugeMem' = SetsUp
  /\ held' \in {held, Kept(i)}
  /\ UNCHANGED <<coreVars, script, queue, stream, current, baseSizes>>

(* GetWorkspaceSize fails: nothing is released, and the huge memory stays. *)
RaiseInTiling(i) ==
  /\ Prepared(i)
  /\ ConvertTypes(Call(i))
  /\ FALSE \in Accepts(Call(i))
  /\ Rejected(i)
  /\ hugeMem' = SetsUp
  /\ held' = Kept(i)
  /\ UNCHANGED <<coreVars, script, queue, stream, current, baseSizes>>

(* AllocateWorkspace finds no memory on the device, after the tiling function has done
   its work.  Whether a call needs any is decided by the library around that function
   as well, and so left open. *)
RaiseInAllocation(i) ==
  /\ Prepared(i)
  /\ ConvertTypes(Call(i))
  /\ TRUE \in Accepts(Call(i))
  /\ Rejected(i)
  /\ hugeMem' = SetsUp
  /\ held' = Kept(i)
  /\ baseSizes' = SizesAfter(Call(i))
  /\ UNCHANGED <<coreVars, script, queue, stream, current>>

Enqueue(i) ==
  /\ Prepared(i)
  /\ ConvertTypes(Call(i))
  /\ TRUE \in Accepts(Call(i))
  /\ status' = [status EXCEPT ![i] = "queued"]
  /\ hugeMem' = (SetsUp /\ ~HasFunction(Env, "UnInitHugeMemThreadLocal"))
  /\ held' = Kept(i)
  /\ queue' = Append(queue, i)
  /\ baseSizes' = SizesAfter(Call(i))
  /\ UNCHANGED <<coreVars, script, stream, current>>

-----------------------------------------------------------------------------
(* The task of a call: the operator's function puts the kernel on the stream, and
   the arguments are released. *)
RunTask ==
  /\ queue # <<>>
  /\ status' = [status EXCEPT ![Head(queue)] = "launched"]
  /\ stream' = Append(stream, Head(queue))
  /\ held' = held \ {Head(queue)}
  /\ queue' = Tail(queue)
  /\ UNCHANGED <<coreVars, script, hugeMem, current, baseSizes>>

(* It reports an error, and the task raises: nothing is released. *)
FailTask ==
  /\ queue # <<>>
  /\ status' = [status EXCEPT ![Head(queue)] = "failed"]
  /\ queue' = Tail(queue)
  /\ UNCHANGED <<coreVars, script, hugeMem, held, stream, current, baseSizes>>

StartKernel ==
  /\ current = <<>>
  /\ stream # <<>>
  /\ Launch(Call(Head(stream)).kernel)
  /\ status' = [status EXCEPT ![Head(stream)] = "running"]
  /\ current' = <<Head(stream)>>
  /\ stream' = Tail(stream)
  /\ UNCHANGED <<script, hugeMem, held, queue, baseSizes>>

EndKernel ==
  /\ current # <<>>
  /\ Finished
  /\ status' = [status EXCEPT ![current[1]] = "finished"]
  /\ current' = <<>>
  /\ UNCHANGED <<coreVars, script, hugeMem, held, queue, stream, baseSizes>>

RunKernel == Step /\ UNCHANGED hostVars

Next ==
  \/ \E i \in Calls : \/ RaiseAtOnce(i)
                      \/ RaiseInConversion(i)
                      \/ RaiseInTiling(i)
                      \/ RaiseInAllocation(i)
                      \/ Enqueue(i)
  \/ RunTask
  \/ FailTask
  \/ StartKernel
  \/ EndKernel
  \/ RunKernel

(* The caller makes its calls, the queue's thread runs, and so do the pipes. *)
Spec == Init /\ [][Next]_vars /\ WF_vars(Next)

-----------------------------------------------------------------------------
(***************************************************************************)
(* Properties.                                                             *)
(***************************************************************************)

(* Type invariant: a call is at one place, the one its status says; and as long as its
   task is to be run, the arguments it was converted to are there. *)
TypeOK ==
  /\ CoreTypeOK
  /\ script \in DOMAIN Scripts
  /\ status \in [DOMAIN Scripts[script].calls -> Statuses]
  /\ hugeMem \in BOOLEAN
  /\ \A s \in {queue, stream, current} : \A g, h \in DOMAIN s : s[g] = s[h] => g = h
  /\ ToSet(queue) = {i \in Calls : status[i] = "queued"}
  /\ ToSet(stream) = {i \in Calls : status[i] = "launched"}
  /\ ToSet(current) = {i \in Calls : status[i] = "running"}
  /\ ToSet(queue) \subseteq held
  /\ held \subseteq {i \in Calls : status[i] \in {"queued", "rejected", "failed"}}
  /\ current # <<>> => kernel = Call(current[1]).kernel
  /\ current = <<>> => Finished

(* Every call comes to an end: it is rejected, its task fails, or its kernel runs to
   its last instruction, with no pipe left waiting for a flag nobody raises. *)
EveryCallSettles == <>(\A i \in Calls : status[i] \in Settled)
=============================================================================
