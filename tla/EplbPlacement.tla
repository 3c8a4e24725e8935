--------------------------- MODULE EplbPlacement ----------------------------
(***************************************************************************)
(* eplb_greedy with --mode A2A or AG: experts are placed one by one in the *)
(* order of their demand (initial_placement), then replicated into the     *)
(* memory that is left, one copy a round, while a copy still pays off      *)
(* (optimize_min_max of A2ARedundantExpertService and                      *)
(* AGRedundantExpertService).                                              *)
(*                                                                         *)
(* Equal demands are placed in any order, for numpy's argsort is not       *)
(* stable.  A round with several best copies takes any of them: in the     *)
(* code the scan order decides in A2A, and in AG the rounding of the loads *)
(* as well.  AG's loads are fractions; they are multiplied by Scale here,  *)
(* which makes every share a whole number, and the factor 1 / world_size   *)
(* of the mean is left out: neither changes a comparison.                  *)
(***************************************************************************)
EXTENDS EplbTables, Functions, FiniteSetsExt

CONSTANTS
  Redundancies, \* values of --redundant, the redundant experts per device
  Scale         \* a multiple of k * (k + 1) for every k < WorldSize

ASSUME PlacementAssumption ==
  /\ Redundancies \subseteq Nat
  /\ Scale \in Nat \ {0}
  /\ \A k \in 1 .. WorldSize - 1 : Scale % (k * (k + 1)) = 0

CostLocal == 1
CostRemote == 10

VARIABLES
  mode,      \* --mode: "A2A" or "AG"
  redundant, \* --redundant
  traffic,   \* total_traffic
  phase,     \* "place", "replicate", "done", or "raised" for MemoryError
  waiting,   \* experts initial_placement has not placed yet
  list,      \* device_to_expert; placement[d, e] = 1 iff e is on list[d]
  used,      \* used_mems
  home       \* experts of each device after initial_placement (history)

input == <<mode, redundant, traffic>>
vars == <<input, phase, waiting, list, used, home>>

ExpertPerRank == PerRank(redundant)

Init ==
  /\ mode \in {"A2A", "AG"}
  /\ redundant \in Redundancies
  /\ traffic \in Traffics
  /\ phase = "place"
  /\ waiting = Experts
  /\ list = [d \in Devices |-> <<>>]
  /\ used = [d \in Devices |-> 0]
  /\ home = [d \in Devices |-> {}]

(* expert_total_demand *)
Demand(e) == SumFunction([d \in Devices |-> traffic[d][e]])

WithRoomOffByOne == {d \in Devices : used[d] <= ExpertPerRank}
WithRoom == {d \in Devices : used[d] + 1 <= ExpertPerRank}

PutReleasing(e, d) ==
  /\ list' = [list EXCEPT ![d] = Append(@, e)]
  /\ used' = [used EXCEPT ![d] = @ - 1]

Put(e, d) ==
  /\ list' = [list EXCEPT ![d] = Append(@, e)]
  /\ used' = [used EXCEPT ![d] = @ + 1]

(* Best device of initial_placement: the first of the least used ones. *)
LeastUsed(d) ==
  /\ d \in WithRoom
  /\ \A k \in WithRoom : used[d] < used[k] \/ (used[d] = used[k] /\ d <= k)

MostDemanded(e) == e \in waiting /\ \A f \in waiting : Demand(f) <= Demand(e)

PlaceExpert ==
  /\ phase = "place"
  /\ \E e \in waiting, d \in Devices :
       /\ MostDemanded(e)
       /\ LeastUsed(d)
       /\ Put(e, d)
       /\ waiting' = waiting \ {e}
  /\ UNCHANGED <<input, phase, home>>

(* No device has room for the next expert. *)
RaiseMemoryError ==
  /\ phase = "place"
  /\ waiting # {}
  /\ WithRoom = {}
  /\ phase' = "raised"
  /\ UNCHANGED <<input, waiting, list, used, home>>

AllPlaced ==
  /\ phase = "place"
  /\ waiting = {}
  /\ phase' = "replicate"
  /\ home' = [d \in Devices |-> On(list, d)]
  /\ UNCHANGED <<input, waiting, list, used>>

-----------------------------------------------------------------------------
Replicas(l, e) == Cardinality(Holders(l, e))

(* A2A: what tokens of device d cost when the lists are l. *)
A2ALoad(l, d) ==
  SumFunction([e \in Experts |->
    traffic[d][e] * IF e \in On(l, d) THEN CostLocal ELSE CostRemote])

(* AG: the tokens device d computes when the lists are l. *)
Share(e, k) == Demand(e) * (Scale \div k) * CostLocal

AGLoad(l, d) == SumFunctionOnSet([e \in On(l, d) |-> Share(e, Replicas(l, e))], On(l, d))

StaleMaxLoad(e, d) ==
  LET k == Replicas(list, e)
  IN Max({IF c \in {d} \union Holders(list, e) THEN AGLoad(list, c) - Share(e, k + 1) \div k
          ELSE AGLoad(list, c) : c \in Devices})

(* The maximum load AG expects once expert e is copied to device d, computed from
   the loads before: the new holder gains a share, the old ones lose. *)
NewMaxLoad(e, d) ==
  LET k == Replicas(list, e)
  IN Max({IF c = d THEN AGLoad(list, c) + Share(e, k + 1)
          ELSE IF e \in On(list, c)
               THEN AGLoad(list, c) - Share(e, k + 1) \div k
               ELSE AGLoad(list, c) : c \in Devices})

Gain(e, d) ==
  IF mode = "AG"
  THEN Max({AGLoad(list, c) : c \in Devices}) - NewMaxLoad(e, d)
  ELSE traffic[d][e] * (CostRemote - CostLocal)

(* The copies a round considers: an expert and a device that lacks it and has room. *)
CopiesAnywhere == Experts \X WithRoom

Copies == {c \in Experts \X WithRoom : c[1] \notin On(list, c[2])}

PayingCopies == {c \in Copies : Gain(c[1], c[2]) > 0}

(* The copies of the highest score: the gain, for every expert takes the same
   memory. *)
FirstCopies == {c \in PayingCopies : \A b \in PayingCopies : c[1] <= b[1]}

BestCopies ==
  LET scored == {[copy |-> c, gain |-> Gain(c[1], c[2])] : c \in PayingCopies}
  IN {s.copy : s \in {s \in scored : \A b \in scored : b.gain <= s.gain}}

Replicate ==
  /\ phase = "replicate"
  /\ \E c \in BestCopies : Put(c[1], c[2])
  /\ UNCHANGED <<input, phase, waiting, home>>

(* best_move is None: the loop ends. *)
NoMoveLeft == PayingCopies = {}

(* process_final_placement builds the tables from the lists. *)
Finish ==
  /\ phase = "replicate"
  /\ NoMoveLeft
  /\ phase' = "done"
  /\ UNCHANGED <<input, waiting, list, used, home>>

Next == PlaceExpert \/ RaiseMemoryError \/ AllPlaced \/ Replicate \/ Finish

Spec == Init /\ [][Next]_vars

-----------------------------------------------------------------------------
(***************************************************************************)
(* Properties.                                                             *)
(***************************************************************************)

TypeOK ==
  /\ mode \in {"A2A", "AG"}
  /\ redundant \in Redundancies
  /\ traffic \in TrafficOf(Nat)
  /\ phase \in {"place", "replicate", "done", "raised"}
  /\ waiting \subseteq Experts
  /\ list \in [Devices -> Seq(Experts)]
  /\ used \in [Devices -> Nat]
  /\ home \in [Devices -> SUBSET Experts]

(* The memory accounted for is the memory the lists take, and the lists of no
   device outgrow it. *)
MemoryRespected ==
  \A d \in Devices : Len(list[d]) = used[d] /\ used[d] <= ExpertPerRank

(* A layout that is returned sends every token to a device and a position
   that hold its expert, and wastes no memory on a second copy. *)
TablesRight ==
  phase = "done" => ArrivesAtExpert(list) /\ NoCopyTwice(list)

(* A2A's round by round choice is the best choice: no other set of copies that
   fits into the memory a device has left would serve more of its traffic. *)
CopiesServeMost ==
  phase = "done" /\ mode = "A2A" =>
    \A d \in Devices : \A S \in SUBSET (Experts \ home[d]) :
      Cardinality(S) <= ExpertPerRank - Cardinality(home[d]) =>
        SumFunctionOnSet(traffic[d], S)
          <= SumFunctionOnSet(traffic[d], On(list, d) \ home[d])

(* Every copy AG makes lowers the maximum load, and no other copy that could be made
   then would leave a smaller one.  Both are computed afresh from the lists with the
   copy: what AG expects of a copy is what it gets. *)
MaxAGLoad(l) == Max({AGLoad(l, d) : d \in Devices})

WithCopy(c) == [list EXCEPT ![c[2]] = Append(@, c[1])]

LowersMost ==
  mode = "AG" /\ phase = "replicate" /\ list' # list =>
    /\ MaxAGLoad(list') < MaxAGLoad(list)
    /\ \A c \in Copies : MaxAGLoad(list') <= MaxAGLoad(WithCopy(c))

CopiesLowerMaxLoad == [][LowersMost]_vars
=============================================================================
