----------------------------- MODULE AscendCore -----------------------------
(***************************************************************************)
(* The machine the AscendC kernels are written for.  A core reads its      *)
(* program in order and hands every instruction to the pipe that executes  *)
(* it: the scalar unit (S), the matrix unit (M), the vector unit (V), the  *)
(* copies into and out of the local buffers (MTE1, MTE2, MTE3, FIX).  A    *)
(* pipe takes its instructions in order, one after the other, but pipes    *)
(* run beside each other, and nothing orders two of them except            *)
(* set_flag(src, dst, id), which pipe src executes after all it was given  *)
(* before, and wait_flag(src, dst, id), at which pipe dst stops until then.*)
(* A wait of the scalar unit stops the dispatch of everything that         *)
(* follows.  The cores of a group synchronise in the same way              *)
(* (ffts_cross_core_sync, wait_flag_dev).                                  *)
(*                                                                         *)
(* A program is a sequence of AscendInstructions; those of the kernels are *)
(* in modules of their own.                                                *)
(***************************************************************************)
EXTENDS AscendInstructions

CONSTANTS
  Kernels,  \* names of programs
  Program,  \* the program of each
  Unordered \* what the program leaves unordered: pairs of pipes and a buffer

(* A program is a sequence, and a flag touches no buffer. *)
ASSUME ProgramAssumption ==
  \A k \in Kernels :
    LET p == Program[k]
    IN /\ Len(p) \in Nat
       /\ DOMAIN p = 1 .. Len(p)
       /\ \A i \in DOMAIN p : p[i].op # "exec" => p[i].reads = {} /\ p[i].writes = {}

VARIABLES
  kernel, \* the program that is executed
  pos,    \* how many instructions each unit has completed
  busy    \* units that have begun their next instruction

coreVars == <<kernel, pos, busy>>

-----------------------------------------------------------------------------
UnitsOf(p) == {p[i].unit : i \in DOMAIN p}

(* The place of instruction i in its unit. *)
Place(p, i) == Cardinality({h \in 1 .. i : p[h].unit = p[i].unit})

(* The last instruction of the scalar unit of the core before instruction i,
   which has to be complete before i is dispatched. *)
Fences(p, i) ==
  LET before == {h \in 1 .. i - 1 : p[h].unit = <<p[i].unit[1], "S">>}
  IN {h \in before : \A g \in before : g <= h}

(* The buffers for which two instructions may not be swapped. *)
Contended(p, i, j) ==
  (p[i].writes \intersect (p[j].reads \union p[j].writes))
    \union (p[i].reads \intersect p[j].writes)

(* Instructions i of a program that have to be complete before j begins.  The races
   the code is known to leave are not among them. *)
Earlier(p, unordered, j) ==
  {i \in 1 .. j - 1 :
    \E b \in Contended(p, i, j) : <<p[i].unit[2], p[j].unit[2], b>> \notin unordered}

(* What the units look up of every program: where and what an instruction is, *)
InUnit(p, u) == {i \in DOMAIN p : p[i].unit = u}
Placed(p, u) == {<<i, Place(p, i)>> : i \in InUnit(p, u)}

UnitOf == [k \in Kernels |-> LET p == Program[k] IN [i \in DOMAIN p |-> p[i].unit]]
OpOf == [k \in Kernels |-> LET p == Program[k] IN [i \in DOMAIN p |-> p[i].op]]
PlaceOf == [k \in Kernels |-> LET p == Program[k] IN [i \in DOMAIN p |-> Place(p, i)]]

(* how many instructions a unit has, which is its n-th, and which of its first n are
   more than flags, *)
LengthOf ==
  [k \in Kernels |-> LET p == Program[k] IN [u \in UnitsOf(p) |-> Cardinality(InUnit(p, u))]]
Nth ==
  [k \in Kernels |-> LET p == Program[k] IN [u \in UnitsOf(p) |->
    LET placed == Placed(p, u)
    IN [n \in 1 .. Cardinality(InUnit(p, u)) + 1 |->
         {x[1] : x \in {y \in placed : y[2] = n}}]]]
ExecOf == [k \in Kernels |-> LET p == Program[k] IN {i \in DOMAIN p : p[i].op = "exec"}]
ExecUpto ==
  [k \in Kernels |-> LET p == Program[k] IN [u \in UnitsOf(p) |->
    LET placed == {y \in Placed(p, u) : p[y[1]].op = "exec"}
    IN [n \in 0 .. Cardinality(InUnit(p, u)) |-> {x[1] : x \in {y \in placed : y[2] <= n}}]]]

(* which of the sets or of the waits of its flag an instruction is, *)
RankOf ==
  [k \in Kernels |-> LET p == Program[k] IN [i \in DOMAIN p |->
    Cardinality({h \in 1 .. i : p[h].op = p[i].op /\ p[h].event = p[i].event})]]

(* what raises the flag a wait takes: its r-th wait takes what its r-th set has
   raised, and a wait that has no such set waits for itself, *)
PartnerOf ==
  [k \in Kernels |-> LET p == Program[k] IN [j \in DOMAIN p |->
    LET raises == {i \in DOMAIN p : /\ p[i].op = "set" /\ p[i].event = p[j].event
                                    /\ RankOf[k][i] = RankOf[k][j]}
    IN IF p[j].op # "wait" THEN {} ELSE IF raises = {} THEN {j} ELSE raises]]

(* what an instruction is dispatched or stopped by, *)
Needs ==
  [k \in Kernels |->
    LET p == Program[k] IN [i \in DOMAIN p |-> Fences(p, i) \union PartnerOf[k][i]]]

(* the flags nobody takes, and what has to be over before an instruction begins. *)
Left ==
  [k \in Kernels |->
    LET p == Program[k]
    IN {i \in DOMAIN p : p[i].op = "set"} \ UNION {PartnerOf[k][j] : j \in DOMAIN p}]
EarlierOf ==
  [k \in Kernels |->
    LET p == Program[k] IN [j \in DOMAIN p |-> Earlier(p, Unordered[k], j)]]

-----------------------------------------------------------------------------
AtStart(k) == [u \in DOMAIN LengthOf[k] |-> 0]

CoreInit ==
  /\ kernel \in Kernels
  /\ pos = AtStart(kernel)
  /\ busy = {}

Done(i) == PlaceOf[kernel][i] <= pos[UnitOf[kernel][i]]

Current(u) == Nth[kernel][u][pos[u] + 1]

(* Unit u is free and i is its next instruction, the scalar unit has dispatched it,
   and the flag that it waits for, if it does, is raised. *)
Ready(u, i) ==
  /\ u \notin busy
  /\ i \in Current(u)
  /\ \A h \in Needs[kernel][i] : Done(h)

Begin(u) ==
  /\ \E i \in Current(u) : Ready(u, i) /\ OpOf[kernel][i] = "exec"
  /\ busy' = busy \union {u}
  /\ UNCHANGED <<kernel, pos>>

Complete(u) ==
  /\ u \in busy
  /\ pos' = [pos EXCEPT ![u] = @ + 1]
  /\ busy' = busy \ {u}
  /\ UNCHANGED kernel

(* A set or a wait takes effect at once. *)
Pass(u) ==
  /\ \E i \in Current(u) : Ready(u, i) /\ OpOf[kernel][i] # "exec"
  /\ pos' = [pos EXCEPT ![u] = @ + 1]
  /\ UNCHANGED <<kernel, busy>>

Finished == \A u \in DOMAIN pos : pos[u] = LengthOf[kernel][u]

(* The stream starts its next kernel when the one before is over. *)
Launch(k) ==
  /\ Finished
  /\ kernel' = k
  /\ pos' = AtStart(k)
  /\ busy' = {}

Step == \E u \in DOMAIN pos : Begin(u) \/ Complete(u) \/ Pass(u)

CoreNext == Step \/ \E k \in Kernels : Launch(k)

CoreSpec == CoreInit /\ [][CoreNext]_coreVars

-----------------------------------------------------------------------------
(***************************************************************************)
(* Properties.                                                             *)
(***************************************************************************)

(* Type invariant: every unit of the running kernel is at one of its instructions,
   and a unit at work has one left. *)
CoreTypeOK ==
  /\ kernel \in Kernels
  /\ DOMAIN pos = DOMAIN LengthOf[kernel]
  /\ \A u \in DOMAIN pos : pos[u] \in 0 .. LengthOf[kernel][u]
  /\ busy \subseteq {u \in DOMAIN pos : pos[u] < LengthOf[kernel][u]}

(* What an instruction reads and overwrites is what the instructions before it in
   the program have left: no pipe is still at work on one of its buffers. *)
NoRace ==
  \A u \in busy : \A j \in Current(u) : \A i \in EarlierOf[kernel][j] : Done(i)

(* A kernel takes every flag it raises: one that is left would let a wait of the
   next kernel pass too early. *)
FlagsTaken == Finished => Left[kernel] = {}

(* Under the pipes and their flags, a kernel is a set of instructions each of which
   is executed once, after those it depends on. *)
Order == INSTANCE AscendDataflow WITH
  Instructions <- ExecOf,
  Dependence <- EarlierOf,
  done <- UNION {ExecUpto[kernel][u][pos[u]] : u \in DOMAIN pos}
InOrder == Order!Spec
=============================================================================
