----------------------------- MODULE EplbTables -----------------------------
(***************************************************************************)
(* What the three algorithms of mindiesd/eplb/greedy_algorithm.py share:   *)
(* the inputs of eplb_greedy, and process_final_placement, which turns the *)
(* expert list of every device into the tables an UPDATE_LAYOUT carries.   *)
(*                                                                         *)
(* Expert memory is 1 and every device has room for the same number of     *)
(* experts, as eplb_greedy sets them; there is no shared expert, for       *)
(* placement_greedy is called without one.                                 *)
(***************************************************************************)
EXTENDS Integers, Sequences, FiniteSets

CONSTANTS
  WorldSize,      \* number of devices (world_size)
  ExpertNum,      \* number of routed experts (expert_num)
  Traffics        \* the traffic there may be

ASSUME TablesAssumption ==
  /\ WorldSize \in Nat \ {0}
  /\ ExpertNum \in Nat \ {0}

Devices == 0 .. WorldSize - 1
Experts == 0 .. ExpertNum - 1

(* traffic[d][e]: tokens device d has sent to expert e, process_expert_num
   having taken the differences of the cumulative counts. *)
TrafficOf(tokens) == [Devices -> [Experts -> tokens]]

ASSUME TrafficAssumption == Traffics \subseteq TrafficOf(Nat)

(* expert_per_rank: the experts a device has memory for, with so many redundant
   ones. *)
PerRank(redundant) == ExpertNum \div WorldSize + redundant

(* The experts on device d of the expert lists l. *)
On(l, d) == {l[d][i] : i \in DOMAIN l[d]}

(* revert_list: the devices that hold expert e. *)
Holders(l, e) == {d \in Devices : e \in On(l, d)}

(* local_expert_indices: where the tokens of expert e go on device d, counted
   from 0; a later position replaces an earlier one, -1 stands for none. *)
InitialIndex(l, d, e) ==
  IF e \notin On(l, d) THEN -1 ELSE e % PerRank(0)

LocalIndex(l, d, e) ==
  IF e \notin On(l, d) THEN -1
  ELSE CHOOSE i \in 0 .. Len(l[d]) - 1 :
         l[d][i + 1] = e /\ \A k \in i + 2 .. Len(l[d]) : l[d][k] # e

(* device_indices: a device keeps the tokens of its own experts and sends those
   of any other to one of its holders at random. *)
Targets(l, d, e) == IF e \in On(l, d) THEN {d} ELSE Holders(l, e)

(* random.choice raises on the empty revert_list of an expert without a holder. *)
Routable(l) == \A e \in Experts : Holders(l, e) # {}

(* The tables are right for lists l when wherever the tokens of an expert are
   sent, the local index found there is a position that holds it. *)
ArrivesAtExpert(l) ==
  \A d \in Devices, e \in Experts :
    /\ Targets(l, d, e) # {}
    /\ \A h \in Targets(l, d, e) :
         /\ LocalIndex(l, h, e) \in 0 .. Len(l[h]) - 1
         /\ l[h][LocalIndex(l, h, e) + 1] = e

(* No device lists an expert twice: the copy that is not in the tables would be
   memory for nothing. *)
NoCopyTwice(l) ==
  \A d \in Devices : \A i, k \in DOMAIN l[d] : l[d][i] = l[d][k] => i = k
=============================================================================
