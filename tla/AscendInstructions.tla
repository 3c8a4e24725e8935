-------------------------- MODULE AscendInstructions --------------------------
(***************************************************************************)
(* The instructions of a kernel, as far as their order goes.  A program is *)
(* a sequence of them.  An instruction has                                 *)
(*   unit           where it is executed: a core and a pipe,               *)
(*   op             "exec", "set" or "wait",                               *)
(*   event          the flag of a set or wait,                             *)
(*   reads, writes  the buffers an exec touches.                           *)
(***************************************************************************)
EXTENDS Integers, Sequences, FiniteSets

(* The cores of a group: a matrix core and a vector core. *)
AIC == "aic"
AIV == "aiv"

(* Constructors.  A flag is named by its two pipes and its number. *)
Exec(core, pipe, reads, writes) ==
  <<[unit |-> <<core, pipe>>, op |-> "exec", event |-> <<>>,
     reads |-> reads, writes |-> writes]>>

SetFlag(core, src, dst, id) ==
  <<[unit |-> <<core, src>>, op |-> "set", event |-> <<core, src, dst, id>>,
     reads |-> {}, writes |-> {}]>>

WaitFlag(core, src, dst, id) ==
  <<[unit |-> <<core, dst>>, op |-> "wait", event |-> <<core, src, dst, id>>,
     reads |-> {}, writes |-> {}]>>

SetWait(core, src, dst, id) == SetFlag(core, src, dst, id) \o WaitFlag(core, src, dst, id)

(* ffts_cross_core_sync from a pipe of one core, wait_flag_dev on another. *)
Signal(from, pipe, to, id) ==
  <<[unit |-> <<from, pipe>>, op |-> "set", event |-> <<from, to, id>>,
     reads |-> {}, writes |-> {}]>>

Await(to, from, id) ==
  <<[unit |-> <<to, "S">>, op |-> "wait", event |-> <<from, to, id>>,
     reads |-> {}, writes |-> {}]>>

=============================================================================
