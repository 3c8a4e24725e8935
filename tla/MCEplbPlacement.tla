-------------------------- MODULE MCEplbPlacement ---------------------------
(***************************************************************************)
(* EplbPlacement for TLC: every expert is wanted by a device or is not, or *)
(* the last device, which has room for copies, wants some experts more     *)
(* than others while the rest agree on what they want.                     *)
(***************************************************************************)
EXTENDS EplbPlacement

MCTraffics ==
  TrafficOf({0, 1})
    \union {[d \in Devices |-> IF d = WorldSize - 1 THEN last ELSE rest] :
               last \in [Experts -> 0 .. 2], rest \in [Experts -> {0, 1}]}
=============================================================================
