--------------------------- MODULE AscendDataflow ---------------------------
(***************************************************************************)
(* What the author of a kernel may rely on: the instructions of a kernel   *)
(* are executed once each, none before those it depends on, and a kernel   *)
(* begins when the one before is over.  There are no pipes and no flags.   *)
(***************************************************************************)
EXTENDS FiniteSets

CONSTANTS
  Kernels,      \* names of kernels
  Instructions, \* the instructions of each
  Dependence    \* for each of them, those it depends on

VARIABLES
  kernel, \* the kernel that is executed
  done    \* its instructions that are over

vars == <<kernel, done>>

Init == kernel \in Kernels /\ done = {}

Execute ==
  /\ \E i \in done' \ done :
       /\ i \in Instructions[kernel]
       /\ Dependence[kernel][i] \subseteq done
       /\ done' = done \union {i}
  /\ UNCHANGED kernel

Launch ==
  /\ done = Instructions[kernel]
  /\ kernel' \in Kernels
  /\ done' = {}

Next == Execute \/ Launch

Spec == Init /\ [][Next]_vars
=============================================================================
