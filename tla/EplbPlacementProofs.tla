------------------------ MODULE EplbPlacementProofs -------------------------
(***************************************************************************)
(* Proofs about EplbPlacement, for any number of devices and experts, any  *)
(* traffic and any memory.  That the tables are right holds whichever copy *)
(* is made; what the choice of copies achieves is proved from the sums of  *)
(* EplbTablesProofs.                                                       *)
(***************************************************************************)
EXTENDS EplbPlacement, EplbTablesProofs

(* An expert is waiting or has a holder, never both, and no device holds one
   twice: the next expert placed is new everywhere, a copy where it goes. *)
CoverInv ==
  /\ \A e \in Experts : e \in waiting <=> Holders(list, e) = {}
  /\ NoCopyTwice(list)
  /\ phase \in {"replicate", "done"} => waiting = {}

(* No expert is moved away from where initial_placement put it. *)
HomeKept ==
  phase \in {"replicate", "done"} => \A d \in Devices : home[d] \subseteq On(list, d)

(* A2A: no expert a device still lacks has more of its traffic than a copy it got. *)
CopiesChosenBest ==
  mode = "A2A" /\ phase \in {"replicate", "done"} =>
    \A d \in Devices : \A x \in On(list, d) \ home[d] : \A y \in Experts \ On(list, d) :
      traffic[d][y] <= traffic[d][x]

(* A2A stops when a device is full or wants no token of the experts it lacks. *)
NothingLeft ==
  mode = "A2A" /\ phase = "done" =>
    \A d \in Devices : \/ used[d] = ExpertPerRank
                       \/ \A y \in Experts \ On(list, d) : traffic[d][y] = 0

ChoiceInv == HomeKept /\ CopiesChosenBest /\ NothingLeft

IInv == TypeOK /\ MemoryRespected /\ CoverInv /\ ChoiceInv

LEMMA RoomIsNumber == ASSUME TypeOK PROVE ExpertPerRank \in Nat
  <1>1. redundant \in Nat
    BY PlacementAssumption DEF TypeOK
  <1>2. ExpertNum \div WorldSize \in Nat
    BY TablesAssumption
  <1>. QED  BY <1>1, <1>2 DEF ExpertPerRank, PerRank

(* What Put does to the lists. *)
LEMMA PutAdds ==
  ASSUME TypeOK, NEW e \in Experts, NEW d \in Devices, Put(e, d)
  PROVE  /\ list' \in [Devices -> Seq(Experts)]
         /\ used' \in [Devices -> Nat]
         /\ On(list', d) = On(list, d) \union {e}
         /\ Len(list'[d]) = Len(list[d]) + 1 /\ used'[d] = used[d] + 1
         /\ \A c \in Devices \ {d} : list'[c] = list[c] /\ used'[c] = used[c]
  <1>1. list[d] \in Seq(Experts) /\ Append(list[d], e) \in Seq(Experts)
    BY AppendProperties DEF TypeOK
  <1>2. list' = [list EXCEPT ![d] = Append(list[d], e)]
        /\ used' = [used EXCEPT ![d] = used[d] + 1]
    BY DEF Put
  <1>3. list'[d] = Append(list[d], e)
    BY <1>2 DEF TypeOK
  <1>4. On(list', d) = On(list, d) \union {e}
    <2>1. /\ DOMAIN list'[d] = DOMAIN list[d] \union {Len(list[d]) + 1}
          /\ list'[d][Len(list[d]) + 1] = e
          /\ \A i \in DOMAIN list[d] : list'[d][i] = list[d][i]
      BY <1>1, <1>3, AppendProperties
    <2>. QED  BY <2>1 DEF On
  <1>5. Len(list'[d]) = Len(list[d]) + 1
    BY <1>1, <1>3, AppendProperties
  <1>6. list' \in [Devices -> Seq(Experts)] /\ used' \in [Devices -> Nat]
    BY <1>1, <1>2 DEF TypeOK
  <1>7. used'[d] = used[d] + 1
    BY <1>2 DEF TypeOK
  <1>8. \A c \in Devices \ {d} : list'[c] = list[c] /\ used'[c] = used[c]
    BY <1>2 DEF TypeOK
  <1>. QED  BY <1>4, <1>5, <1>6, <1>7, <1>8

(* An expert put on a device that lacks it is not there twice. *)
LEMMA PutKeepsDistinct ==
  ASSUME TypeOK, NEW e \in Experts, NEW d \in Devices, Put(e, d),
         NoCopyTwice(list), e \notin On(list, d)
  PROVE  NoCopyTwice(list')
  <1>1. list[d] \in Seq(Experts) /\ list'[d] = Append(list[d], e)
    BY DEF Put, TypeOK
  <1>2. /\ DOMAIN list'[d] = DOMAIN list[d] \union {Len(list[d]) + 1}
        /\ list'[d][Len(list[d]) + 1] = e
        /\ \A i \in DOMAIN list[d] : list'[d][i] = list[d][i]
    BY <1>1, AppendProperties
  <1>3. \A i \in DOMAIN list[d] : list[d][i] # e
    BY DEF On
  <1>4. \A i, k \in DOMAIN list'[d] : list'[d][i] = list'[d][k] => i = k
    BY <1>2, <1>3 DEF NoCopyTwice
  <1>5. \A c \in Devices \ {d} : list'[c] = list[c]
    BY PutAdds
  <1>. QED  BY <1>4, <1>5 DEF NoCopyTwice

LEMMA PutKeepsMemory ==
  ASSUME TypeOK, MemoryRespected, NEW e \in Experts, NEW d \in WithRoom, Put(e, d),
         UNCHANGED redundant
  PROVE  MemoryRespected'
  <1>1. d \in Devices /\ used[d] + 1 <= ExpertPerRank
    BY DEF WithRoom
  <1>2. /\ Len(list'[d]) = Len(list[d]) + 1 /\ used'[d] = used[d] + 1
        /\ \A c \in Devices \ {d} : list'[c] = list[c] /\ used'[c] = used[c]
    BY <1>1, PutAdds
  <1>3. ExpertPerRank' = ExpertPerRank
    BY DEF ExpertPerRank
  <1>. QED  BY <1>1, <1>2, <1>3, RoomIsNumber DEF MemoryRespected, TypeOK

LEMMA InitInductive == Init => IInv
  <1>. SUFFICES ASSUME Init PROVE IInv
    OBVIOUS
  <1>. TypeOK
    BY TrafficAssumption DEF Init, TypeOK
  <1>1. MemoryRespected
    BY RoomIsNumber DEF Init, MemoryRespected
  <1>2. CoverInv
    BY DEF Init, CoverInv, Holders, On, NoCopyTwice
  <1>3. ChoiceInv
    BY DEF Init, ChoiceInv, HomeKept, CopiesChosenBest, NothingLeft
  <1>. QED  BY <1>1, <1>2, <1>3 DEF IInv

LEMMA PlaceStep == IInv /\ PlaceExpert => IInv'
  <1>. SUFFICES ASSUME IInv, PlaceExpert PROVE IInv'
    OBVIOUS
  <1>. USE DEF IInv
  <1>1. PICK e \in waiting, d \in WithRoom :
          Put(e, d) /\ waiting' = waiting \ {e}
    BY DEF PlaceExpert, LeastUsed
  <1>2. /\ e \in Experts /\ d \in Devices /\ phase = "place"
        /\ UNCHANGED <<mode, redundant, traffic, phase, home>>
    BY <1>1 DEF TypeOK, WithRoom, PlaceExpert, input
  <1>3. /\ list' \in [Devices -> Seq(Experts)] /\ used' \in [Devices -> Nat]
        /\ On(list', d) = On(list, d) \union {e}
        /\ \A c \in Devices \ {d} : list'[c] = list[c]
    BY <1>1, <1>2, PutAdds
  <1>4. TypeOK'
    BY <1>1, <1>2, <1>3 DEF TypeOK
  <1>5. \A c \in Devices \ {d} : On(list', c) = On(list, c)
    BY <1>3 DEF On
  <1>6. e \notin On(list, d)
    BY <1>1, <1>2 DEF CoverInv, Holders
  <1>7. \A f \in Experts : f \in waiting' <=> Holders(list', f) = {}
    <2>1. Holders(list', e) # {}
      BY <1>2, <1>3 DEF Holders
    <2>2. \A f \in Experts \ {e} : Holders(list', f) = Holders(list, f)
      BY <1>3, <1>5 DEF Holders
    <2>. QED  BY <1>1, <2>1, <2>2 DEF CoverInv
  <1>8. NoCopyTwice(list')
    BY <1>1, <1>2, <1>6, PutKeepsDistinct DEF CoverInv
  <1>9. CoverInv'
    BY <1>2, <1>7, <1>8 DEF CoverInv
  <1>10. ChoiceInv'
    BY <1>2 DEF ChoiceInv, HomeKept, CopiesChosenBest, NothingLeft
  <1>. QED  BY <1>1, <1>2, <1>4, <1>9, <1>10, PutKeepsMemory

(* The copy of the highest gain is one that pays. *)
LEMMA BestIsBest ==
  ASSUME NEW c \in BestCopies
  PROVE  /\ c \in PayingCopies
         /\ \A b \in PayingCopies : Gain(b[1], b[2]) <= Gain(c[1], c[2])
  <1>. DEFINE row(b) == [copy |-> b, gain |-> Gain(b[1], b[2])]
              scored == {row(b) : b \in PayingCopies}
              best == {s \in scored : \A b \in scored : b.gain <= s.gain}
  <1>1. PICK s \in best : c = s.copy
    BY DEF BestCopies
  <1>2. s \in scored /\ \A b \in scored : b.gain <= s.gain
    BY <1>1
  <1>3. PICK r \in PayingCopies : s = row(r)
    BY <1>2
  <1>4. r = c /\ s.gain = Gain(c[1], c[2])
    BY <1>1, <1>3
  <1>5. ASSUME NEW b \in PayingCopies
        PROVE  Gain(b[1], b[2]) <= Gain(c[1], c[2])
    <2>1. row(b) \in scored
      OBVIOUS
    <2>2. row(b).gain = Gain(b[1], b[2])
      OBVIOUS
    <2>. HIDE DEF row, scored
    <2>. QED  BY <1>2, <1>4, <2>1, <2>2
  <1>. QED  BY <1>3, <1>4, <1>5

(* A best copy, with what its gain says of the device's other choices. *)
LEMMA ReplicateMakes ==
  ASSUME TypeOK, Replicate
  PROVE  \E e \in Experts, d \in WithRoom :
           /\ Put(e, d) /\ e \notin On(list, d) /\ Gain(e, d) > 0
           /\ \A y \in Experts \ On(list, d) : Gain(y, d) > 0 => Gain(y, d) <= Gain(e, d)
  <1>1. PICK c \in BestCopies : Put(c[1], c[2])
    BY DEF Replicate
  <1>2. c \in PayingCopies /\ \A b \in PayingCopies : Gain(b[1], b[2]) <= Gain(c[1], c[2])
    BY BestIsBest
  <1>3. /\ c \in Experts \X WithRoom /\ c[1] \notin On(list, c[2])
        /\ Gain(c[1], c[2]) > 0
    BY <1>2 DEF PayingCopies, Copies
  <1>4. c[1] \in Experts /\ c[2] \in WithRoom
    BY <1>3
  <1>5. ASSUME NEW y \in Experts \ On(list, c[2]), Gain(y, c[2]) > 0
        PROVE  Gain(y, c[2]) <= Gain(c[1], c[2])
    <2>1. <<y, c[2]>> \in Copies
      BY <1>4 DEF Copies
    <2>2. <<y, c[2]>> \in PayingCopies
      BY <1>5, <2>1 DEF PayingCopies
    <2>3. \A b \in PayingCopies : b = <<y, c[2]>> => Gain(y, c[2]) <= Gain(c[1], c[2])
      BY <1>2
    <2>. QED  BY <2>2, <2>3
  <1>. QED  BY <1>1, <1>3, <1>4, <1>5

(* A2A: the gain of a copy is nine times the traffic it serves. *)
LEMMA GainIsTraffic ==
  ASSUME TypeOK, mode = "A2A", NEW d \in Devices, NEW y \in Experts
  PROVE  traffic[d][y] \in Nat /\ Gain(y, d) = 9 * traffic[d][y]
  <1>1. traffic[d][y] \in Nat
    BY DEF TypeOK, TrafficOf
  <1>. QED  BY <1>1 DEF Gain, CostRemote, CostLocal

LEMMA ReplicateKeepsChoice ==
  ASSUME IInv, Replicate, NEW e \in Experts, NEW d \in Devices,
         On(list', d) = On(list, d) \union {e},
         \A c \in Devices \ {d} : On(list', c) = On(list, c),
         \A y \in Experts \ On(list, d) : Gain(y, d) > 0 => Gain(y, d) <= Gain(e, d)
  PROVE  ChoiceInv'
  <1>1. phase = "replicate" /\ UNCHANGED <<mode, redundant, traffic, phase, home>>
    BY DEF Replicate, input
  <1>2. HomeKept'
    BY <1>1 DEF IInv, ChoiceInv, HomeKept
  <1>3. NothingLeft'
    BY <1>1 DEF NothingLeft
  <1>4. ASSUME mode = "A2A", NEW c \in Devices,
               NEW x \in On(list', c) \ home[c], NEW y \in Experts \ On(list', c)
        PROVE  traffic[c][y] <= traffic[c][x]
    <2>1. x \in On(list, c) => traffic[c][y] <= traffic[c][x]
      BY <1>1, <1>4 DEF IInv, ChoiceInv, CopiesChosenBest
    <2>2. CASE x \notin On(list, c)
      <3>1. c = d /\ x = e /\ y \notin On(list, d)
        BY <2>2
      <3>2. /\ traffic[d][y] \in Nat /\ Gain(y, d) = 9 * traffic[d][y]
            /\ traffic[d][e] \in Nat /\ Gain(e, d) = 9 * traffic[d][e]
        BY <1>4, GainIsTraffic DEF IInv
      <3>3. Gain(y, d) > 0 => Gain(y, d) <= Gain(e, d)
        BY <3>1
      <3>. QED  BY <3>1, <3>2, <3>3
    <2>. QED  BY <2>1, <2>2
  <1>5. CopiesChosenBest'
    BY <1>1, <1>4 DEF CopiesChosenBest
  <1>. QED  BY <1>2, <1>3, <1>5 DEF ChoiceInv

LEMMA ReplicateStep == IInv /\ Replicate => IInv'
  <1>. SUFFICES ASSUME IInv, Replicate PROVE IInv'
    OBVIOUS
  <1>. USE DEF IInv
  <1>2. PICK e \in Experts, d \in WithRoom :
          /\ Put(e, d) /\ e \notin On(list, d)
          /\ \A y \in Experts \ On(list, d) : Gain(y, d) > 0 => Gain(y, d) <= Gain(e, d)
    BY ReplicateMakes
  <1>3. /\ d \in Devices /\ phase = "replicate"
        /\ UNCHANGED <<mode, redundant, traffic, phase, waiting, home>>
    BY DEF WithRoom, Replicate, input
  <1>4. /\ list' \in [Devices -> Seq(Experts)] /\ used' \in [Devices -> Nat]
        /\ On(list', d) = On(list, d) \union {e}
        /\ \A b \in Devices \ {d} : list'[b] = list[b]
    BY <1>2, <1>3, PutAdds
  <1>5. TypeOK'
    BY <1>3, <1>4 DEF TypeOK
  <1>6. \A f \in Experts : Holders(list', f) # {}
    <2>1. \A b \in Devices : On(list, b) \subseteq On(list', b)
      <3>. TAKE b \in Devices
      <3>1. CASE b = d
        BY <1>4, <3>1
      <3>2. CASE b # d
        BY <1>4, <3>2 DEF On
      <3>. QED  BY <3>1, <3>2
    <2>2. \A f \in Experts : Holders(list, f) # {}
      BY <1>3 DEF CoverInv
    <2>. QED  BY <2>1, <2>2 DEF Holders
  <1>7. NoCopyTwice(list')
    BY <1>2, <1>3, PutKeepsDistinct DEF CoverInv
  <1>8. CoverInv'
    BY <1>3, <1>6, <1>7 DEF CoverInv
  <1>9. ChoiceInv'
    <2>1. \A c \in Devices \ {d} : On(list', c) = On(list, c)
      BY <1>4 DEF On
    <2>. QED  BY <1>2, <1>3, <1>4, <2>1, ReplicateKeepsChoice
  <1>. QED  BY <1>2, <1>3, <1>5, <1>8, <1>9, PutKeepsMemory

LEMMA AllPlacedKeepsChoice == TypeOK /\ AllPlaced => ChoiceInv'
  <1>. SUFFICES ASSUME TypeOK, AllPlaced PROVE ChoiceInv'
    OBVIOUS
  <1>1. phase' = "replicate" /\ list' = list /\ \A d \in Devices : home'[d] = On(list, d)
    BY DEF AllPlaced
  <1>. QED  BY <1>1 DEF ChoiceInv, HomeKept, CopiesChosenBest, NothingLeft

LEMMA FinishKeepsChoice == IInv /\ Finish => ChoiceInv'
  <1>. SUFFICES ASSUME IInv, Finish PROVE ChoiceInv'
    OBVIOUS
  <1>1. /\ phase = "replicate" /\ phase' = "done" /\ PayingCopies = {}
        /\ UNCHANGED <<mode, redundant, traffic, list, used, home>>
    BY DEF Finish, NoMoveLeft, input
  <1>2. HomeKept' /\ CopiesChosenBest'
    BY <1>1 DEF IInv, ChoiceInv, HomeKept, CopiesChosenBest
  <1>3. ASSUME mode = "A2A", NEW d \in Devices, used[d] # ExpertPerRank,
               NEW y \in Experts \ On(list, d)
        PROVE  traffic[d][y] = 0
    <2>1. used[d] <= ExpertPerRank /\ used[d] \in Nat /\ ExpertPerRank \in Nat
      BY RoomIsNumber DEF IInv, MemoryRespected, TypeOK
    <2>2. d \in WithRoom
      BY <1>3, <2>1 DEF WithRoom
    <2>3. <<y, d>> \in Copies
      BY <2>2 DEF Copies
    <2>4. ~ Gain(y, d) > 0
      BY <1>1, <2>3 DEF PayingCopies
    <2>. QED  BY <1>3, <2>4, GainIsTraffic DEF IInv
  <1>4. NothingLeft'
    BY <1>1, <1>3 DEF NothingLeft, ExpertPerRank
  <1>. QED  BY <1>2, <1>4 DEF ChoiceInv

(* The memory account is right and respected, and experts get lost neither in
   the placement nor in the replication. *)
THEOREM Inductive == Spec => []IInv
  <1>1. ASSUME IInv, RaiseMemoryError \/ AllPlaced \/ Finish \/ UNCHANGED vars
        PROVE  IInv'
    <2>1. UNCHANGED <<mode, redundant, traffic, waiting, list, used>>
      BY <1>1 DEF RaiseMemoryError, AllPlaced, Finish, vars, input
    <2>2. /\ phase' \in {"place", "replicate", "done", "raised"}
          /\ phase' \in {"replicate", "done"} => waiting = {}
      BY <1>1 DEF IInv, TypeOK, CoverInv, RaiseMemoryError, AllPlaced, Finish, vars
    <2>3. home' \in [Devices -> SUBSET Experts]
      <3>1. \A d \in Devices : On(list, d) \subseteq Experts
        BY <1>1 DEF IInv, TypeOK, On
      <3>. QED
        BY <1>1, <3>1 DEF IInv, TypeOK, RaiseMemoryError, AllPlaced, Finish, vars
    <2>4. ChoiceInv'
      <3>1. CASE RaiseMemoryError
        BY <3>1 DEF RaiseMemoryError, ChoiceInv, HomeKept, CopiesChosenBest, NothingLeft
      <3>2. CASE UNCHANGED vars
        BY <1>1, <3>2 DEF vars, input, IInv, ChoiceInv, HomeKept, CopiesChosenBest,
           NothingLeft, ExpertPerRank
      <3>. QED  BY <1>1, <3>1, <3>2, AllPlacedKeepsChoice, FinishKeepsChoice DEF IInv
    <2>. QED
      BY <1>1, <2>1, <2>2, <2>3, <2>4
      DEF IInv, TypeOK, MemoryRespected, CoverInv, ExpertPerRank
  <1>2. IInv /\ [Next]_vars => IInv'
    BY <1>1, PlaceStep, ReplicateStep DEF Next
  <1>. QED  BY <1>2, InitInductive, PTL DEF Spec

(* greedy_algorithm.py: lists hold experts, memory is counted in whole places, and the phases
   follow one another, whatever the traffic. *)
THEOREM TypeCorrect == Spec => []TypeOK
  BY Inductive, PTL DEF IInv

(* used_mems is what the lists take, and no device is overfilled. *)
THEOREM MemoryHolds == Spec => []MemoryRespected
  BY Inductive, PTL DEF IInv

(* The tables of A2A and AG send every token to its expert, at any load. *)
THEOREM Covered == Spec => []TablesRight
  <1>1. IInv => TablesRight
    <2>. SUFFICES ASSUME IInv, phase = "done"
                  PROVE  ArrivesAtExpert(list) /\ NoCopyTwice(list)
      BY DEF TablesRight
    <2>1. Routable(list) /\ NoCopyTwice(list) /\ list \in [Devices -> Seq(Experts)]
      BY DEF IInv, CoverInv, TypeOK, Routable
    <2>. QED  BY <2>1, TablesArrive
  <1>. QED  BY <1>1, Inductive, PTL

-----------------------------------------------------------------------------
(* What the choice of copies achieves. *)

LEMMA ExpertsFinite == IsFiniteSet(Experts) /\ IsFiniteSet(Devices)
  <1>1. 0 \in Int /\ ExpertNum - 1 \in Int /\ WorldSize - 1 \in Int
    BY TablesAssumption
  <1>. QED  BY <1>1, FS_Interval DEF Experts, Devices

(* A list without repetition has as many experts as places. *)
LEMMA ListSize ==
  ASSUME TypeOK, CoverInv, NEW d \in Devices
  PROVE  /\ IsFiniteSet(On(list, d)) /\ On(list, d) \subseteq Experts
         /\ Cardinality(On(list, d)) = Len(list[d])
  <1>. DEFINE l == list[d]
  <1>1. l \in Seq(Experts) /\ Len(l) \in Nat /\ DOMAIN l = 1 .. Len(l)
    BY LenProperties DEF TypeOK
  <1>2. l \in Bijection(1 .. Len(l), On(list, d))
    <2>1. On(list, d) = {l[i] : i \in 1 .. Len(l)}
      BY <1>1 DEF On
    <2>2. \A i, k \in 1 .. Len(l) : l[i] = l[k] => i = k
      BY <1>1 DEF CoverInv, NoCopyTwice
    <2>3. l \in [1 .. Len(l) -> On(list, d)]
      BY <1>1, <2>1
    <2>4. DOMAIN l = 1 .. Len(l) /\ \A x \in On(list, d) : \E i \in 1 .. Len(l) : l[i] = x
      BY <1>1, <2>1
    <2>. HIDE DEF l
    <2>5. l \in Injection(1 .. Len(l), On(list, d))
      BY <2>2, <2>3, <2>4 DEF Injection, IsInjective
    <2>6. l \in Surjection(1 .. Len(l), On(list, d))
      BY <2>3, <2>4 DEF Surjection
    <2>. QED  BY <2>5, <2>6 DEF Bijection
  <1>3. IsFiniteSet(1 .. Len(l)) /\ Cardinality(1 .. Len(l)) = Len(l)
    BY <1>1, FS_Interval
  <1>4. IsFiniteSet(On(list, d)) /\ Cardinality(On(list, d)) = Len(l)
    BY <1>2, <1>3, FS_Bijection DEF ExistsBijection
  <1>5. On(list, d) \subseteq Experts
    BY <1>1 DEF On
  <1>. QED  BY <1>4, <1>5

(* optimize_min_max of A2A: one copy a round, each the best at the time, is the best
   use of the memory every device has left, for any traffic. *)
THEOREM ServesMost == Spec => []CopiesServeMost
  <1>1. ASSUME IInv, phase = "done", mode = "A2A", NEW d \in Devices,
               NEW S \in SUBSET (Experts \ home[d]),
               Cardinality(S) <= ExpertPerRank - Cardinality(home[d])
        PROVE  SumFunctionOnSet(traffic[d], S)
                 <= SumFunctionOnSet(traffic[d], On(list, d) \ home[d])
    <2>. DEFINE f == traffic[d]
                C == On(list, d) \ home[d]
    <2>1. /\ home[d] \subseteq On(list, d) /\ On(list, d) \subseteq Experts
          /\ IsFiniteSet(On(list, d)) /\ Cardinality(On(list, d)) = used[d]
      BY <1>1, ListSize DEF IInv, ChoiceInv, HomeKept, MemoryRespected
    <2>2. S \in SUBSET Experts /\ C \in SUBSET Experts
      BY <2>1
    <2>3. \A x \in Experts : f[x] \in Nat
      BY <1>1 DEF IInv, TypeOK, TrafficOf
    <2>4. \A y \in S \ C : y \in Experts \ On(list, d)
      OBVIOUS
    <2>5. CASE used[d] = ExpertPerRank
      <3>1. IsFiniteSet(home[d]) /\ Cardinality(home[d]) \in Nat
        BY <2>1, FS_Subset, FS_CardinalityType
      <3>2. Cardinality(C) = used[d] - Cardinality(home[d])
        <4>1. On(list, d) \cap home[d] = home[d]
          BY <2>1
        <4>. QED  BY <2>1, <4>1, FS_Difference
      <3>3. Cardinality(S) <= Cardinality(C)
        BY <1>1, <2>5, <3>2
      <3>4. \A x \in C, y \in S \ C : f[y] <= f[x]
        BY <1>1, <2>4 DEF IInv, ChoiceInv, CopiesChosenBest
      <3>. HIDE DEF f, C
      <3>5. SumFunctionOnSet(f, S) <= SumFunctionOnSet(f, C)
        BY <2>2, <2>3, <3>3, <3>4, ExpertsFinite, SumOfLargest
      <3>. QED  BY <3>5 DEF f, C
    <2>6. CASE used[d] # ExpertPerRank
      <3>1. \A y \in S \ C : f[y] = 0
        BY <1>1, <2>4, <2>6 DEF IInv, ChoiceInv, NothingLeft
      <3>. HIDE DEF f, C
      <3>2. SumFunctionOnSet(f, S) <= SumFunctionOnSet(f, C)
        BY <2>2, <2>3, <3>1, ExpertsFinite, SumOfPositive
      <3>. QED  BY <3>2 DEF f, C
    <2>. QED  BY <2>5, <2>6
  <1>2. IInv => CopiesServeMost
    BY <1>1 DEF CopiesServeMost
  <1>. QED  BY <1>2, Inductive, PTL

-----------------------------------------------------------------------------
(* The loads of AG. *)

(* A number times another and its successor, divided by either. *)
LEMMA QuotientOf ==
  ASSUME NEW n \in Nat \ {0}, NEW q \in Nat
  PROVE  (q * n) \div n = q
  <1>1. 0 \in 0 .. n - 1 /\ q * n + 0 = q * n
    OBVIOUS
  <1>2. (q * n + 0) \div n = q
    BY <1>1, Row
  <1>. QED  BY <1>1, <1>2

LEMMA DemandType == ASSUME TypeOK, NEW e \in Experts PROVE Demand(e) \in Nat
  <1>. DEFINE f == [d \in Devices |-> traffic[d][e]]
  <1>1. \A d \in Devices : f[d] \in Nat
    BY DEF TypeOK, TrafficOf
  <1>2. Demand(e) = SumFunctionOnSet(f, Devices)
    BY DEF Demand, SumFunction
  <1>. HIDE DEF f
  <1>3. \A d \in Devices : f[d] \in Int
    BY <1>1
  <1>. QED  BY <1>1, <1>2, <1>3, ExpertsFinite, SumType

LEMMA ShareType ==
  ASSUME TypeOK, NEW e \in Experts, NEW k \in Nat \ {0}
  PROVE  Share(e, k) \in Nat
  <1>1. Scale \div k \in Nat
    BY PlacementAssumption
  <1>2. Demand(e) \in Nat
    BY DemandType
  <1>. HIDE DEF Share
  <1>3. Demand(e) * (Scale \div k) \in Nat
    BY <1>1, <1>2
  <1>. QED  BY <1>3 DEF Share, CostLocal

(* One holder more: what the k holders there were give up makes the new one's
   share. *)
LEMMA ShareMoves ==
  ASSUME TypeOK, NEW e \in Experts, NEW k \in 1 .. WorldSize - 1
  PROVE  /\ Share(e, k + 1) \div k \in Nat
         /\ Share(e, k) - Share(e, k + 1) \div k = Share(e, k + 1)
  <1>. DEFINE D == Demand(e)
              n == k * (k + 1)
              m == Scale \div n
  <1>1. D \in Nat /\ k \in Nat \ {0} /\ k + 1 \in Nat \ {0}
    BY DemandType, TablesAssumption
  <1>2. n \in Nat \ {0}
    BY <1>1
  <1>3. Scale \in Nat /\ Scale % n = 0
    BY PlacementAssumption
  <1>. HIDE DEF n
  <1>4. m \in Nat /\ Scale = m * n
    BY <1>2, <1>3
  <1>. HIDE DEF m, D
  <1>5. Scale = (m * (k + 1)) * k /\ Scale = (m * k) * (k + 1)
    BY <1>1, <1>4 DEF n
  <1>6. m * (k + 1) \in Nat /\ m * k \in Nat
    BY <1>1, <1>4
  <1>7. Scale \div k = m * (k + 1) /\ Scale \div (k + 1) = m * k
    BY <1>1, <1>5, <1>6, QuotientOf
  <1>8. Share(e, k) = D * (m * (k + 1)) /\ Share(e, k + 1) = D * (m * k)
    <2>1. D * (m * (k + 1)) \in Int /\ D * (m * k) \in Int
      BY <1>1, <1>6
    <2>2. Share(e, k) = (D * (m * (k + 1))) * 1 /\ Share(e, k + 1) = (D * (m * k)) * 1
      BY <1>7 DEF Share, CostLocal, D
    <2>. QED  BY <2>1, <2>2
  <1>9. D * m \in Nat
    BY <1>1, <1>4
  <1>10. D * (m * k) = (D * m) * k /\ D * (m * (k + 1)) = (D * m) * k + D * m
    BY <1>1, <1>4
  <1>11. Share(e, k + 1) \div k = D * m
    BY <1>1, <1>8, <1>9, <1>10, QuotientOf
  <1>. QED  BY <1>1, <1>8, <1>9, <1>10, <1>11

LEMMA ReplicasType ==
  ASSUME NEW l, NEW c \in Devices, NEW x \in On(l, c)
  PROVE  Replicas(l, x) \in Nat \ {0}
  <1>1. Holders(l, x) \subseteq Devices /\ c \in Holders(l, x)
    BY DEF Holders
  <1>2. IsFiniteSet(Holders(l, x))
    BY <1>1, ExpertsFinite, FS_Subset
  <1>. QED  BY <1>1, <1>2, FS_CardinalityType, FS_EmptySet DEF Replicas

LEMMA AGLoadType ==
  ASSUME TypeOK, NEW l, NEW c \in Devices, IsFiniteSet(On(l, c)), On(l, c) \subseteq Experts
  PROVE  AGLoad(l, c) \in Int
  <1>. DEFINE f == [x \in On(l, c) |-> Share(x, Replicas(l, x))]
  <1>1. \A x \in On(l, c) : f[x] \in Int
    BY ReplicasType, ShareType
  <1>2. AGLoad(l, c) = SumFunctionOnSet(f, On(l, c))
    BY DEF AGLoad
  <1>. HIDE DEF f
  <1>. QED  BY <1>1, <1>2, SumType

(* The loads after a copy are the ones NewMaxLoad computes from those before it. *)
LEMMA CopyMovesLoads ==
  ASSUME IInv, phase = "replicate", NEW e \in Experts, NEW d \in Devices,
         e \notin On(list, d), NEW after, after = WithCopy(<<e, d>>), NEW c \in Devices
  PROVE  LET k == Replicas(list, e)
         IN AGLoad(after, c) = IF c = d THEN AGLoad(list, c) + Share(e, k + 1)
                               ELSE IF e \in On(list, c)
                                    THEN AGLoad(list, c) - Share(e, k + 1) \div k
                                    ELSE AGLoad(list, c)
  <1>. DEFINE k == Replicas(list, e)
              f == [x \in On(list, c) |-> Share(x, Replicas(list, x))]
              g == [x \in On(after, c) |-> Share(x, Replicas(after, x))]
  <1>1. /\ On(after, d) = On(list, d) \union {e}
        /\ \A b \in Devices \ {d} : On(after, b) = On(list, b)
    <2>1. list[d] \in Seq(Experts) /\ after[d] = Append(list[d], e)
      <3>1. after = [list EXCEPT ![d] = Append(list[d], e)]
        BY DEF WithCopy
      <3>. QED  BY <3>1 DEF IInv, TypeOK
    <2>2. /\ DOMAIN after[d] = DOMAIN list[d] \union {Len(list[d]) + 1}
          /\ after[d][Len(list[d]) + 1] = e
          /\ \A i \in DOMAIN list[d] : after[d][i] = list[d][i]
      <3>1. PICK l \in Seq(Experts) : l = list[d]
        BY <2>1
      <3>2. /\ DOMAIN Append(l, e) = DOMAIN l \union {Len(l) + 1}
            /\ Append(l, e)[Len(l) + 1] = e
            /\ \A i \in DOMAIN l : Append(l, e)[i] = l[i]
        BY AppendProperties
      <3>. QED  BY <2>1, <3>1, <3>2
    <2>3. On(after, d) = On(list, d) \union {e}
      BY <2>2 DEF On
    <2>4. \A b \in Devices \ {d} : after[b] = list[b]
      BY DEF IInv, TypeOK, WithCopy
    <2>. QED  BY <2>3, <2>4 DEF On
  <1>2. /\ Holders(after, e) = Holders(list, e) \union {d} /\ d \notin Holders(list, e)
        /\ \A x \in Experts \ {e} : Holders(after, x) = Holders(list, x)
    <2>1. Holders(after, e) = Holders(list, e) \union {d}
      BY <1>1 DEF Holders
    <2>2. \A x \in Experts \ {e} : Holders(after, x) = Holders(list, x)
      BY <1>1 DEF Holders
    <2>. QED  BY <2>1, <2>2 DEF Holders
  <1>3. Replicas(after, e) = k + 1 /\ k \in 1 .. WorldSize - 1
    <2>1. Holders(list, e) # {} /\ Holders(list, e) \subseteq Devices \ {d}
      BY <1>2 DEF IInv, CoverInv, Holders
    <2>2. IsFiniteSet(Devices \ {d}) /\ Cardinality(Devices \ {d}) = WorldSize - 1
      <3>1. 0 \in Int /\ WorldSize - 1 \in Int /\ ~ 0 > WorldSize - 1
        BY TablesAssumption
      <3>2. Cardinality(Devices) = (WorldSize - 1) - 0 + 1
        BY <3>1, FS_Interval DEF Devices
      <3>3. Cardinality(Devices \ {d}) = Cardinality(Devices) - 1
        BY ExpertsFinite, FS_RemoveElement
      <3>4. IsFiniteSet(Devices \ {d})
        BY ExpertsFinite, FS_Subset
      <3>. QED  BY <3>2, <3>3, <3>4, TablesAssumption
    <2>3. /\ IsFiniteSet(Holders(list, e)) /\ k \in Nat
          /\ k <= WorldSize - 1
      BY <2>1, <2>2, FS_Subset, FS_CardinalityType DEF Replicas
    <2>4. k # 0
      BY <2>1, <2>3, FS_EmptySet DEF Replicas
    <2>5. Replicas(after, e) = k + 1
      BY <1>2, <2>3, FS_AddElement DEF Replicas
    <2>. QED  BY <2>3, <2>4, <2>5, TablesAssumption
  <1>4. \A x \in Experts \ {e} : Replicas(after, x) = Replicas(list, x)
    BY <1>2 DEF Replicas
  <1>5. /\ IsFiniteSet(On(list, c)) /\ On(list, c) \subseteq Experts
        /\ IsFiniteSet(On(after, c)) /\ On(after, c) \subseteq Experts
    <2>1. IsFiniteSet(On(list, c)) /\ On(list, c) \subseteq Experts
      BY ListSize DEF IInv
    <2>2. On(after, c) \subseteq Experts
      BY <1>1, <2>1
    <2>. QED  BY <2>1, <2>2, ExpertsFinite, FS_Subset
  <1>6. /\ \A x \in On(list, c) : f[x] \in Int
        /\ \A x \in On(after, c) : g[x] \in Int
    BY <1>5, ReplicasType, ShareType DEF IInv
  <1>7. AGLoad(list, c) = SumFunctionOnSet(f, On(list, c))
        /\ AGLoad(after, c) = SumFunctionOnSet(g, On(after, c))
    BY DEF AGLoad
  <1>8. \A x \in On(list, c) \ {e} : g[x] = f[x]
    BY <1>1, <1>4, <1>5
  <1>9. AGLoad(list, c) \in Int
    BY <1>5, AGLoadType DEF IInv
  <1>10. Share(e, k + 1) \in Nat /\ Share(e, k + 1) \div k \in Nat
         /\ Share(e, k) \in Nat
         /\ Share(e, k) - Share(e, k + 1) \div k = Share(e, k + 1)
    BY <1>3, ShareMoves, ShareType, TablesAssumption DEF IInv
  <1>11. CASE c = d
    <2>1. e \in On(after, c) /\ On(after, c) \ {e} = On(list, c)
      BY <1>1, <1>11
    <2>2. g[e] = Share(e, k + 1)
      BY <1>3, <2>1
    <2>3. \A x \in On(list, c) : g[x] = f[x]
      BY <1>8, <1>11
    <2>. HIDE DEF f, g, k
    <2>4. SumFunctionOnSet(g, On(after, c))
            = g[e] + SumFunctionOnSet(g, On(after, c) \ {e})
      BY <1>5, <1>6, <2>1, SumRemove
    <2>5. SumFunctionOnSet(g, On(list, c)) = SumFunctionOnSet(f, On(list, c))
      BY <1>5, <2>3, SumSame
    <2>6. AGLoad(after, c) = Share(e, k + 1) + AGLoad(list, c)
      BY <1>7, <2>1, <2>2, <2>4, <2>5
    <2>7. AGLoad(after, c) = AGLoad(list, c) + Share(e, k + 1)
      BY <1>9, <1>10, <2>6
    <2>. QED  BY <1>11, <2>7 DEF k
  <1>12. CASE c # d /\ e \in On(list, c)
    <2>1. On(after, c) = On(list, c)
      BY <1>1, <1>12
    <2>2. g[e] = Share(e, k + 1) /\ f[e] = Share(e, k)
      BY <1>3, <1>12, <2>1
    <2>. HIDE DEF f, g, k
    <2>3. SumFunctionOnSet(g, On(list, c)) = SumFunctionOnSet(f, On(list, c)) - f[e] + g[e]
      BY <1>5, <1>6, <1>8, <1>12, <2>1, SumOneChange
    <2>4. AGLoad(after, c) = AGLoad(list, c) - Share(e, k + 1) \div k
      BY <1>7, <1>9, <1>10, <2>1, <2>2, <2>3
    <2>. QED  BY <1>12, <2>4 DEF k
  <1>13. CASE c # d /\ e \notin On(list, c)
    <2>1. On(after, c) = On(list, c) /\ \A x \in On(list, c) : g[x] = f[x]
      BY <1>1, <1>8, <1>13
    <2>. HIDE DEF f, g
    <2>2. AGLoad(after, c) = AGLoad(list, c)
      BY <1>5, <1>7, <2>1, SumSame
    <2>. QED  BY <1>13, <2>2
  <1>. QED  BY <1>11, <1>12, <1>13

(* The maximum load of any lists is a number. *)
LEMMA MaxLoadType ==
  ASSUME NEW l, \A c \in Devices : AGLoad(l, c) \in Int
  PROVE  MaxAGLoad(l) \in Int
  <1>. DEFINE S == {AGLoad(l, c) : c \in Devices}
              h == [c \in Devices |-> AGLoad(l, c)]
  <1>1. S \subseteq Int /\ S # {}
    BY TablesAssumption DEF Devices
  <1>2. h \in Surjection(Devices, S)
    BY DEF Surjection
  <1>3. IsFiniteSet(S)
    BY <1>2, ExpertsFinite, FS_Surjection
  <1>4. MaxAGLoad(l) = Max(S)
    BY DEF MaxAGLoad
  <1>. HIDE DEF S, h
  <1>5. \E m \in S : \A x \in S : m >= x
    BY <1>1, <1>3, LargestOf
  <1>6. Max(S) \in S
    BY <1>5 DEF Max
  <1>. QED  BY <1>1, <1>4, <1>6

(* What AG expects of a copy is the maximum load of the lists with the copy. *)
LEMMA ExpectedIsRight ==
  ASSUME IInv, phase = "replicate", NEW b \in Copies
  PROVE  /\ MaxAGLoad(WithCopy(b)) = NewMaxLoad(b[1], b[2])
         /\ MaxAGLoad(WithCopy(b)) \in Int
  <1>1. PICK e \in Experts, d \in Devices : b = <<e, d>> /\ e \notin On(list, d)
    BY DEF Copies, WithRoom
  <1>2. PICK after : after = WithCopy(<<e, d>>)
    OBVIOUS
  <1>. DEFINE k == Replicas(list, e)
              After(c) == IF c = d THEN AGLoad(list, c) + Share(e, k + 1)
                          ELSE IF e \in On(list, c)
                               THEN AGLoad(list, c) - Share(e, k + 1) \div k
                               ELSE AGLoad(list, c)
  <1>3. \A c \in Devices : AGLoad(after, c) = After(c)
    BY <1>1, <1>2, CopyMovesLoads
  <1>4. NewMaxLoad(e, d) = Max({After(c) : c \in Devices})
    BY DEF NewMaxLoad
  <1>5. \A c \in Devices : AGLoad(after, c) \in Int
    <2>. TAKE c \in Devices
    <2>1. after \in [Devices -> Seq(Experts)]
      BY <1>1, <1>2 DEF WithCopy, IInv, TypeOK
    <2>2. On(after, c) \subseteq Experts
      BY <2>1 DEF On
    <2>3. IsFiniteSet(On(after, c))
      BY <2>2, ExpertsFinite, FS_Subset
    <2>. QED  BY <2>2, <2>3, AGLoadType DEF IInv
  <1>. HIDE DEF After
  <1>6. {AGLoad(after, c) : c \in Devices} = {After(c) : c \in Devices}
    BY <1>3
  <1>7. MaxAGLoad(after) = NewMaxLoad(e, d)
    BY <1>4, <1>6 DEF MaxAGLoad
  <1>8. MaxAGLoad(after) \in Int
    BY <1>5, MaxLoadType
  <1>. QED  BY <1>1, <1>2, <1>7, <1>8

(* optimize_min_max of AG: the maximum load computed anew from the lists after a
   copy is less than the one before it, and no other copy that could have been made
   in that round would have left a smaller one, for any number of devices and
   copies. *)
THEOREM LowersMaxLoad == Spec => CopiesLowerMaxLoad
  <1>1. ASSUME IInv, Next, mode = "AG", phase = "replicate", list' # list
        PROVE  /\ MaxAGLoad(list') < MaxAGLoad(list)
               /\ \A b \in Copies : MaxAGLoad(list') <= MaxAGLoad(WithCopy(b))
    <2>1. Replicate
      BY <1>1 DEF Next, PlaceExpert, RaiseMemoryError, AllPlaced, Finish
    <2>2. PICK c \in BestCopies : Put(c[1], c[2])
      BY <2>1 DEF Replicate
    <2>3. /\ c \in PayingCopies
          /\ \A b \in PayingCopies : Gain(b[1], b[2]) <= Gain(c[1], c[2])
      BY BestIsBest
    <2>4. c \in Copies /\ Gain(c[1], c[2]) > 0
      BY <2>3 DEF PayingCopies
    <2>5. list' = WithCopy(c)
      BY <2>2 DEF Put, WithCopy
    <2>6. PICK before : before = MaxAGLoad(list)
      OBVIOUS
    <2>7. before \in Int
      <3>1. \A a \in Devices : AGLoad(list, a) \in Int
        BY <1>1, ListSize, AGLoadType DEF IInv
      <3>. QED  BY <2>6, <3>1, MaxLoadType
    <2>8. PICK made : made = MaxAGLoad(WithCopy(c))
      OBVIOUS
    <2>9. made \in Int /\ made = NewMaxLoad(c[1], c[2])
      BY <1>1, <2>4, <2>8, ExpectedIsRight
    <2>10. \A b \in Copies : Gain(b[1], b[2]) = before - NewMaxLoad(b[1], b[2])
      BY <1>1, <2>6 DEF Gain, MaxAGLoad
    <2>11. made < before
      BY <2>4, <2>7, <2>9, <2>10
    <2>12. ASSUME NEW b \in Copies
           PROVE  made <= MaxAGLoad(WithCopy(b))
      <3>1. PICK other : other = MaxAGLoad(WithCopy(b))
        OBVIOUS
      <3>2. other \in Int /\ other = NewMaxLoad(b[1], b[2])
        BY <1>1, <3>1, ExpectedIsRight
      <3>3. Gain(b[1], b[2]) = before - other /\ Gain(c[1], c[2]) = before - made
        BY <2>4, <2>9, <2>10, <3>2
      <3>4. CASE b \in PayingCopies
        BY <2>3, <2>7, <2>9, <3>1, <3>2, <3>3, <3>4
      <3>5. CASE b \notin PayingCopies
        <4>1. ~(before - other > 0)
          BY <3>3, <3>5 DEF PayingCopies
        <4>. QED  BY <2>7, <2>9, <2>11, <3>1, <3>2, <4>1
      <3>. QED  BY <3>4, <3>5
    <2>. QED  BY <2>5, <2>6, <2>8, <2>11, <2>12
  <1>2. IInv /\ [Next]_vars => [LowersMost]_vars
    BY <1>1 DEF LowersMost
  <1>. QED  BY <1>2, Inductive, PTL DEF Spec, CopiesLowerMaxLoad
=============================================================================
