-------------------------- MODULE MCEplbExchange ----------------------------
(***************************************************************************)
(* EplbExchange for TLC: a device sends an expert nothing or enough tokens *)
(* to be worth a move.                                                     *)
(***************************************************************************)
EXTENDS EplbExchange

MCTraffics == TrafficOf({0, 150})
=============================================================================
