---------------------------- MODULE EplbExchange ----------------------------
(***************************************************************************)
(* eplb_greedy with --mode EX: ExpertExchangeService starts from the       *)
(* expert lists the ranks reported and, in at most max_move rounds, swaps  *)
(* one expert of the most loaded device against one of the least loaded.   *)
(*                                                                         *)
(* The reported lists have the same length on every device, but they may   *)
(* belong to different layouts, so that an expert may be on no device (see *)
(* EplbProtocol).  Pairs of equal rank are tried in any order: numpy's     *)
(* argsort is not stable.                                                  *)
(***************************************************************************)
EXTENDS EplbTables, Functions, FiniteSetsExt

CONSTANTS
  Redundant,    \* redundant experts per device (redundant)
  MaxMove,      \* rounds (max_move)
  Threshold     \* load_balance_threshold; eplb_greedy sets 100

ASSUME ExchangeAssumption ==
  Redundant \in Nat /\ MaxMove \in Nat /\ Threshold \in Nat \ {0}

ExpertPerRank == PerRank(Redundant)

Slots == 0 .. WorldSize * ExpertPerRank - 1
Positions == 1 .. ExpertPerRank

(* A device has no expert twice. *)
Lists == {l \in [Positions -> Experts] : IsInjective(l)}

VARIABLES
  traffic,   \* total_traffic
  origin,    \* the lists the ranks reported
  list,      \* device_to_expert
  loads,     \* device_loads
  source,    \* expert_trans_tensor: column s has its 1 in row source[s]
  round,     \* move_num
  phase      \* "swap", "done", or "raised" for the IndexError of random.choice

vars == <<traffic, origin, list, loads, source, round, phase>>

(* The load of device d as the initial loads are computed: the tokens it has seen
   for the experts it holds. *)
ListLoad(l, d) == SumFunction([i \in Positions |-> traffic[d][l[d][i]]])

Init ==
  /\ origin \in [Devices -> Lists]
  /\ traffic \in Traffics
  /\ list = origin
  /\ loads = [d \in Devices |-> ListLoad(origin, d)]
  /\ source = [s \in Slots |-> s]
  /\ round = 0
  /\ phase = "swap"

AbsDiff(a, b) == IF a >= b THEN a - b ELSE b - a

(* The first device of maximal and the first of minimal load. *)
MostLoaded(a) ==
  \A d \in Devices : loads[d] < loads[a] \/ (loads[d] = loads[a] /\ a <= d)
LeastLoaded(b) ==
  \A d \in Devices : loads[d] > loads[b] \/ (loads[d] = loads[b] /\ b <= d)

(* The two devices of a round. *)
Extremes == {m \in Devices \X Devices : MostLoaded(m[1]) /\ LeastLoaded(m[2])}

DeltaLoad(a, b) == (loads[a] - loads[b]) \div 2

(* What swapping position i of device a against position k of b is taken to move. *)
MoveLoad(a, i, b, k) == traffic[a][list[a][i]] - traffic[b][list[b][k]]

(* Neither expert may be on its new device already. *)
SwappableOneWay(a, i, b, k) == list[b][k] \notin On(list, a)

Swappable(a, i, b, k) ==
  list[b][k] \notin On(list, a) /\ list[a][i] \notin On(list, b)

Swaps(a, b) == {p \in Positions \X Positions : Swappable(a, p[1], b, p[2])}

(* Of the possible swaps, one that comes closest to moving half the gap. *)
BestSwap(a, i, b, k) ==
  /\ Swappable(a, i, b, k)
  /\ \A q \in Swaps(a, b) :
       AbsDiff(MoveLoad(a, i, b, k), DeltaLoad(a, b))
         <= AbsDiff(MoveLoad(a, q[1], b, q[2]), DeltaLoad(a, b))

GainUnchecked(a, i, b, k) == 1
Gain(a, i, b, k) ==
  DeltaLoad(a, b) - AbsDiff(loads[a] - MoveLoad(a, i, b, k),
                            loads[b] + MoveLoad(a, i, b, k)) \div 2

(* A position in the flattened lists, as the columns of the tensor are numbered. *)
SlotByPosition(d, i) == (i - 1) * WorldSize + d
Slot(d, i) == d * ExpertPerRank + i - 1

OneRoundMore == phase = "swap" /\ round <= MaxMove
MoreRounds == phase = "swap" /\ round < MaxMove
Balanced(a, b) == DeltaLoad(a, b) * 2 < Threshold

(* f with its values at a and b exchanged. *)
Exchanged(f, a, b) == [f EXCEPT ![a] = f[b], ![b] = f[a]]

(* Position i of device a against position k of device b. *)
ExchangeOneWay(a, i, b, k) ==
  /\ list' = [list EXCEPT ![a][i] = list[b][k]]
  /\ loads' = [loads EXCEPT ![a] = @ - MoveLoad(a, i, b, k), ![b] = @ + MoveLoad(a, i, b, k)]
  /\ source' = Exchanged(source, Slot(a, i), Slot(b, k))

Exchange(a, i, b, k) ==
  /\ list' = [list EXCEPT ![a][i] = list[b][k], ![b][k] = list[a][i]]
  /\ loads' = [loads EXCEPT ![a] = @ - MoveLoad(a, i, b, k), ![b] = @ + MoveLoad(a, i, b, k)]
  /\ source' = Exchanged(source, Slot(a, i), Slot(b, k))

(* A round that executes its best swap. *)
SwapExperts ==
  /\ MoreRounds
  /\ \E m \in Extremes, i, k \in Positions :
       /\ ~Balanced(m[1], m[2])
       /\ BestSwap(m[1], i, m[2], k)
       /\ Gain(m[1], i, m[2], k) > 0
       /\ Exchange(m[1], i, m[2], k)
  /\ round' = round + 1
  /\ UNCHANGED <<traffic, origin, phase>>

(* The best swap gains nothing: the round passes. *)
PassRound ==
  /\ MoreRounds
  /\ \E m \in Extremes, i, k \in Positions :
       /\ ~Balanced(m[1], m[2])
       /\ BestSwap(m[1], i, m[2], k)
       /\ Gain(m[1], i, m[2], k) <= 0
  /\ round' = round + 1
  /\ UNCHANGED <<traffic, origin, list, loads, source, phase>>

(* The rounds are over, the loads are balanced, or no swap is possible; then
   process_final_placement builds the tables, unless an expert has no holder. *)
Finish ==
  /\ phase = "swap"
  /\ \/ round = MaxMove
     \/ \E m \in Extremes : Balanced(m[1], m[2]) \/ Swaps(m[1], m[2]) = {}
  /\ phase' = IF Routable(list) THEN "done" ELSE "raised"
  /\ UNCHANGED <<traffic, origin, list, loads, source, round>>

Next == SwapExperts \/ PassRound \/ Finish

Spec == Init /\ [][Next]_vars

-----------------------------------------------------------------------------
(***************************************************************************)
(* Properties.                                                             *)
(***************************************************************************)

TypeOK ==
  /\ traffic \in TrafficOf(Nat)
  /\ origin \in [Devices -> Lists]
  /\ list \in [Devices -> [Positions -> Experts]]
  /\ loads \in [Devices -> Int]
  /\ source \in [Slots -> Slots]
  /\ round \in 0 .. MaxMove
  /\ phase \in {"swap", "done", "raised"}

(* The expert at slot s of the flattened lists l. *)
AtSlot(l, s) == l[s \div ExpertPerRank][(s % ExpertPerRank) + 1]

(* The original distribution times expert_trans_tensor is the new distribution,
   as the docstring of eplb_greedy has it (greedy_algorithm.py:564). *)
TransformGivesList ==
  \A s \in Slots : AtSlot(list, s) = AtSlot(origin, source[s])

(* The tensor stays a permutation: no score is dropped or counted twice. *)
TransformIsPermutation == IsInjective(source)

(* Swapping keeps the experts of a device distinct. *)
DevicesStayDistinct == NoCopyTwice(list)

(* Swapping loses no expert: if the reported lists cover the experts the tables
   are built and right, and random.choice raises only if they do not. *)
CoverDecides ==
  /\ phase = "done" => Routable(origin) /\ ArrivesAtExpert(list)
  /\ phase = "raised" => ~Routable(origin)

(* `The load difference between the two devices after the simulated move' gets
   smaller by every move that is executed (greedy_algorithm.py:468), where the
   load of a device is what the initial loads are computed by. *)
Narrower ==
  \A m \in Extremes : AbsDiff(ListLoad(list', m[1]), ListLoad(list', m[2]))
                         < AbsDiff(ListLoad(list, m[1]), ListLoad(list, m[2]))

MoveNarrowsGap == [][list' # list => Narrower]_vars

(* It does when every device has seen the same tokens, as after an all-gather. *)
Uniform == \A c, d \in Devices : traffic[c] = traffic[d]

UniformMoveNarrowsGap == [][Uniform /\ list' # list => Narrower]_vars
=============================================================================
