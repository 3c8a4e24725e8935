------------------------- MODULE EplbExchangeProofs -------------------------
(***************************************************************************)
(* Proofs about EplbExchange, for any number of devices and experts, any   *)
(* reported lists, traffic and number of rounds.  The lists and the tensor *)
(* stay right whichever swap Swappable allows is taken; that the gap       *)
(* narrows needs the loads, and that all devices saw the same traffic.     *)
(***************************************************************************)
EXTENDS EplbExchange, EplbTablesProofs

(* What the proofs about lists need of the variables' types. *)
Shape ==
  /\ origin \in [Devices -> Lists]
  /\ list \in [Devices -> [Positions -> Experts]]
  /\ source \in [Slots -> Slots]

(* The loads the rounds update are those of the lists, when it does not matter on
   which device the tokens of an expert were counted. *)
LoadsTrue == Uniform => \A d \in Devices : loads[d] = ListLoad(list, d)

(* The experts that have a holder are those that had one in the reports. *)
SameCover ==
  \A e \in Experts : Holders(list, e) # {} <=> Holders(origin, e) # {}

(* The tables are built from the lists the last round left. *)
Ended ==
  /\ phase = "done" => Routable(list)
  /\ phase = "raised" => ~Routable(list)

IInv ==
  /\ TypeOK
  /\ LoadsTrue
  /\ Shape
  /\ TransformGivesList
  /\ TransformIsPermutation
  /\ DevicesStayDistinct
  /\ SameCover
  /\ Ended

-----------------------------------------------------------------------------
(* The load of a list. *)

LEMMA ListLoadSum ==
  ASSUME NEW l, NEW d
  PROVE  ListLoad(l, d)
           = SumFunctionOnSet([i \in Positions |-> traffic[d][l[d][i]]], Positions)
  BY DEF ListLoad, SumFunction

LEMMA PositionsFinite == IsFiniteSet(Positions)
  <1>1. ExpertPerRank \in Int
    BY TablesAssumption, ExchangeAssumption DEF ExpertPerRank, PerRank
  <1>. QED  BY <1>1, FS_Interval DEF Positions

LEMMA ListLoadType ==
  ASSUME traffic \in TrafficOf(Nat), NEW l \in [Devices -> [Positions -> Experts]],
         NEW d \in Devices
  PROVE  ListLoad(l, d) \in Nat
  <1>. DEFINE f == [i \in Positions |-> traffic[d][l[d][i]]]
  <1>1. \A i \in Positions : f[i] \in Nat
    BY DEF TrafficOf
  <1>2. \A i \in Positions : f[i] \in Int
    BY <1>1
  <1>. HIDE DEF f
  <1>3. SumFunctionOnSet(f, Positions) \in Nat
    BY <1>1, <1>2, PositionsFinite, SumType
  <1>. QED  BY <1>3, ListLoadSum DEF f

(* Another expert at one position changes the load by the difference of the two. *)
LEMMA ListLoadMoves ==
  ASSUME traffic \in TrafficOf(Nat),
         NEW l \in [Devices -> [Positions -> Experts]],
         NEW m \in [Devices -> [Positions -> Experts]],
         NEW d \in Devices, NEW i \in Positions,
         \A j \in Positions \ {i} : m[d][j] = l[d][j]
  PROVE  ListLoad(m, d) = ListLoad(l, d) - traffic[d][l[d][i]] + traffic[d][m[d][i]]
  <1>. DEFINE f == [j \in Positions |-> traffic[d][l[d][j]]]
              g == [j \in Positions |-> traffic[d][m[d][j]]]
  <1>1. \A j \in Positions : f[j] \in Int /\ g[j] \in Int
    BY DEF TrafficOf
  <1>2. \A j \in Positions \ {i} : f[j] = g[j]
    OBVIOUS
  <1>3. f[i] = traffic[d][l[d][i]] /\ g[i] = traffic[d][m[d][i]]
    OBVIOUS
  <1>. HIDE DEF f, g
  <1>4. SumFunctionOnSet(g, Positions) = SumFunctionOnSet(f, Positions) - f[i] + g[i]
    BY <1>1, <1>2, PositionsFinite, SumOneChange
  <1>. QED  BY <1>3, <1>4, ListLoadSum DEF f, g

-----------------------------------------------------------------------------
(* The numbering of the flattened lists. *)

LEMMA RoomIsNumber == ExpertPerRank \in Nat /\ WorldSize \in Nat
  BY TablesAssumption, ExchangeAssumption DEF ExpertPerRank, PerRank

(* Slot numbers the positions of all devices, each once. *)
LEMMA SlotsNumbered ==
  ASSUME NEW d \in Devices, NEW i \in Positions
  PROVE  /\ Slot(d, i) \in Slots
         /\ Slot(d, i) \div ExpertPerRank = d
         /\ (Slot(d, i) % ExpertPerRank) + 1 = i
  <1>. DEFINE n == ExpertPerRank
  <1>1. n \in Nat /\ WorldSize \in Nat /\ d \in 0 .. WorldSize - 1 /\ i \in 1 .. n
    BY RoomIsNumber DEF Devices, Positions
  <1>2. i - 1 \in 0 .. n - 1 /\ Slot(d, i) = d * n + (i - 1)
    BY <1>1 DEF Slot
  <1>. HIDE DEF n
  <1>3. Slot(d, i) \div n = d /\ Slot(d, i) % n = i - 1
    <2>. DEFINE j == i - 1
    <2>1. d \in Nat /\ j \in 0 .. n - 1
      BY <1>1, <1>2
    <2>. HIDE DEF j
    <2>2. (d * n + j) \div n = d /\ (d * n + j) % n = j
      BY <1>1, <2>1, Row
    <2>. QED  BY <1>2, <2>2 DEF j
  <1>4. Slot(d, i) \in 0 .. WorldSize * n - 1
    <2>1. (d + 1) * n <= WorldSize * n
      <3>1. WorldSize - (d + 1) \in Nat
        BY <1>1
      <3>2. (WorldSize - (d + 1)) * n \in Nat
        BY <1>1, <3>1
      <3>. QED  BY <1>1, <3>2
    <2>2. d * n \in Nat /\ (d + 1) * n = d * n + n
      BY <1>1
    <2>. QED  BY <1>1, <1>2, <2>1, <2>2
  <1>. QED  BY <1>1, <1>3, <1>4 DEF n, Slots

(* Every slot is a position of a device. *)
LEMMA SlotsCovered ==
  ASSUME NEW s \in Slots
  PROVE  /\ s \div ExpertPerRank \in Devices
         /\ (s % ExpertPerRank) + 1 \in Positions
         /\ Slot(s \div ExpertPerRank, (s % ExpertPerRank) + 1) = s
  <1>. DEFINE n == ExpertPerRank
              q == s \div n
              r == s % n
  <1>1. n \in Nat /\ WorldSize \in Nat /\ s \in 0 .. WorldSize * n - 1
    BY RoomIsNumber DEF Slots
  <1>. HIDE DEF n
  <1>2. n > 0
    <2>1. n = 0 => WorldSize * n = 0
      BY <1>1
    <2>. QED  BY <1>1, <2>1
  <1>3. q \in Int /\ r \in 0 .. n - 1 /\ s = n * q + r
    BY <1>1, <1>2
  <1>. HIDE DEF q, r
  <1>4. q >= 0
    <2>1. q <= -1 => n * q <= 0 - n
      BY <1>1, <1>2, <1>3
    <2>. QED  BY <1>1, <1>3, <2>1
  <1>5. q < WorldSize
    <2>1. q >= WorldSize => n * (q - WorldSize) >= 0
      BY <1>1, <1>3
    <2>. QED  BY <1>1, <1>3, <2>1
  <1>6. q \in Devices /\ r + 1 \in 1 .. n
    BY <1>1, <1>3, <1>4, <1>5 DEF Devices
  <1>7. q * n + (r + 1) - 1 = s
    BY <1>1, <1>3
  <1>. QED  BY <1>6, <1>7 DEF n, q, r, Positions, Slot

LEMMA PositionOfSlot ==
  ASSUME NEW l, NEW d \in Devices, NEW i \in Positions
  PROVE  AtSlot(l, Slot(d, i)) = l[d][i]
  BY SlotsNumbered DEF AtSlot

-----------------------------------------------------------------------------
(* One swap. *)

(* What Exchange does, position by position, between two devices. *)
LEMMA ExchangeMoves ==
  ASSUME Shape, NEW a \in Devices, NEW b \in Devices, a # b,
         NEW i \in Positions, NEW k \in Positions, Exchange(a, i, b, k)
  PROVE  /\ list' \in [Devices -> [Positions -> Experts]]
         /\ list'[a][i] = list[b][k] /\ list'[b][k] = list[a][i]
         /\ \A j \in Positions \ {i} : list'[a][j] = list[a][j]
         /\ \A j \in Positions \ {k} : list'[b][j] = list[b][j]
         /\ \A c \in Devices \ {a, b} : list'[c] = list[c]
  <1>1. list' = [list EXCEPT ![a][i] = list[b][k], ![b][k] = list[a][i]]
    BY DEF Exchange
  <1>2. /\ list[a] \in [Positions -> Experts] /\ list[b] \in [Positions -> Experts]
        /\ list[a][i] \in Experts /\ list[b][k] \in Experts
    BY DEF Shape
  <1>3. /\ list'[a] = [list[a] EXCEPT ![i] = list[b][k]]
        /\ list'[b] = [list[b] EXCEPT ![k] = list[a][i]]
        /\ \A c \in Devices \ {a, b} : list'[c] = list[c]
        /\ DOMAIN list' = Devices
    BY <1>1 DEF Shape
  <1>4. list' \in [Devices -> [Positions -> Experts]]
    <2>1. /\ [list[a] EXCEPT ![i] = list[b][k]] \in [Positions -> Experts]
          /\ [list[b] EXCEPT ![k] = list[a][i]] \in [Positions -> Experts]
      BY <1>2
    <2>. QED  BY <1>1, <2>1 DEF Shape
  <1>. QED  BY <1>2, <1>3, <1>4

(* The tensor is exchanged in the same two places. *)
LEMMA ColumnsMove ==
  ASSUME Shape, NEW a \in Devices, NEW b \in Devices,
         NEW i \in Positions, NEW k \in Positions, Exchange(a, i, b, k)
  PROVE  /\ source' \in [Slots -> Slots]
         /\ source'[Slot(a, i)] = source[Slot(b, k)]
         /\ source'[Slot(b, k)] = source[Slot(a, i)]
         /\ \A s \in Slots \ {Slot(a, i), Slot(b, k)} : source'[s] = source[s]
  <1>. DEFINE x == Slot(a, i)
              y == Slot(b, k)
  <1>1. x \in Slots /\ y \in Slots
    BY SlotsNumbered
  <1>2. source' = [source EXCEPT ![x] = source[y], ![y] = source[x]]
    BY DEF Exchange, Exchanged
  <1>. HIDE DEF x, y
  <1>3. /\ source' \in [Slots -> Slots]
        /\ source'[x] = source[y] /\ source'[y] = source[x]
        /\ \A s \in Slots \ {x, y} : source'[s] = source[s]
    BY <1>1, <1>2 DEF Shape
  <1>. QED  BY <1>3 DEF x, y

LEMMA SwapKeepsTransform ==
  ASSUME Shape, TransformGivesList, TransformIsPermutation,
         NEW a \in Devices, NEW b \in Devices, a # b,
         NEW i \in Positions, NEW k \in Positions, Exchange(a, i, b, k),
         UNCHANGED origin
  PROVE  TransformGivesList' /\ TransformIsPermutation'
  <1>1. TransformIsPermutation'
    <2>1. /\ Slot(a, i) \in Slots /\ Slot(b, k) \in Slots
          /\ DOMAIN source = Slots /\ DOMAIN source' = Slots
      BY SlotsNumbered, ColumnsMove DEF Shape
    <2>2. \A s, t \in Slots : source[s] = source[t] => s = t
      BY <2>1 DEF TransformIsPermutation, IsInjective
    <2>3. \A s, t \in Slots : source'[s] = source'[t] => s = t
      BY <2>1, <2>2, ColumnsMove
    <2>. QED  BY <2>1, <2>3 DEF TransformIsPermutation, IsInjective
  <1>2. ASSUME NEW s \in Slots
        PROVE  AtSlot(list', s) = AtSlot(origin, source'[s])
    <2>. PICK d \in Devices, j \in Positions : s = Slot(d, j)
      BY SlotsCovered
    <2>1. AtSlot(list', s) = list'[d][j] /\ AtSlot(list, s) = list[d][j]
      BY PositionOfSlot
    <2>2. \A c \in Devices, l \in Positions :
            /\ Slot(c, l) \in Slots
            /\ list[c][l] = AtSlot(origin, source[Slot(c, l)])
      BY SlotsNumbered, PositionOfSlot DEF TransformGivesList
    <2>3. CASE d = a /\ j = i
      BY <2>1, <2>2, <2>3, ExchangeMoves, ColumnsMove
    <2>4. CASE d = b /\ j = k
      BY <2>1, <2>2, <2>4, ExchangeMoves, ColumnsMove
    <2>5. CASE ~(d = a /\ j = i) /\ ~(d = b /\ j = k)
      <3>1. list'[d][j] = list[d][j]
        BY <2>5, ExchangeMoves
      <3>2. s # Slot(a, i) /\ s # Slot(b, k)
        BY <2>5, SlotsNumbered
      <3>3. source'[s] = source[s]
        BY <3>2, ColumnsMove
      <3>. QED  BY <2>1, <2>2, <3>1, <3>3
    <2>. QED  BY <2>3, <2>4, <2>5
  <1>. QED  BY <1>1, <1>2 DEF TransformGivesList

(* A swap Swappable allows leaves the experts of every device distinct. *)
LEMMA SwapKeepsDistinct ==
  ASSUME Shape, DevicesStayDistinct,
         NEW a \in Devices, NEW b \in Devices, a # b,
         NEW i \in Positions, NEW k \in Positions,
         Swappable(a, i, b, k), Exchange(a, i, b, k)
  PROVE  DevicesStayDistinct'
  <1>1. \A c \in Devices : DOMAIN list[c] = Positions /\ DOMAIN list'[c] = Positions
    BY ExchangeMoves DEF Shape
  <1>2. \A c \in Devices : \A j, l \in Positions : list[c][j] = list[c][l] => j = l
    BY <1>1 DEF DevicesStayDistinct, NoCopyTwice
  <1>3. /\ \A j \in Positions : list[a][j] # list[b][k]
        /\ \A j \in Positions : list[b][j] # list[a][i]
    BY <1>1 DEF Swappable, On
  <1>4. \A j, l \in Positions : list'[a][j] = list'[a][l] => j = l
    BY <1>2, <1>3, ExchangeMoves
  <1>5. \A j, l \in Positions : list'[b][j] = list'[b][l] => j = l
    BY <1>2, <1>3, ExchangeMoves
  <1>6. \A c \in Devices : \A j, l \in Positions : list'[c][j] = list'[c][l] => j = l
    BY <1>2, <1>4, <1>5, ExchangeMoves
  <1>. QED  BY <1>1, <1>6 DEF DevicesStayDistinct, NoCopyTwice

(* A swap gives the experts other holders, but takes the last one from none. *)
LEMMA SwapKeepsCover ==
  ASSUME Shape, NEW a \in Devices, NEW b \in Devices, a # b,
         NEW i \in Positions, NEW k \in Positions, Exchange(a, i, b, k),
         NEW e \in Experts
  PROVE  Holders(list, e) # {} <=> Holders(list', e) # {}
  <1>. DEFINE At(l) == \E d \in Devices, j \in Positions : l[d][j] = e
  <1>1. /\ \A c \in Devices : DOMAIN list[c] = Positions /\ DOMAIN list'[c] = Positions
    BY ExchangeMoves DEF Shape
  <1>2. Holders(list, e) # {} <=> At(list)
    BY <1>1 DEF Holders, On
  <1>3. Holders(list', e) # {} <=> At(list')
    BY <1>1 DEF Holders, On
  <1>4. At(list) => At(list')
    <2>. SUFFICES ASSUME NEW d \in Devices, NEW j \in Positions, list[d][j] = e
                  PROVE  \E c \in Devices, l \in Positions : list'[c][l] = e
      OBVIOUS
    <2>1. CASE d = a /\ j = i
      BY <2>1, ExchangeMoves
    <2>2. CASE d = b /\ j = k
      BY <2>2, ExchangeMoves
    <2>3. CASE ~(d = a /\ j = i) /\ ~(d = b /\ j = k)
      <3>1. list'[d][j] = list[d][j]
        BY <2>3, ExchangeMoves
      <3>. QED  BY <3>1
    <2>. QED  BY <2>1, <2>2, <2>3
  <1>5. At(list') => At(list)
    <2>. SUFFICES ASSUME NEW d \in Devices, NEW j \in Positions, list'[d][j] = e
                  PROVE  \E c \in Devices, l \in Positions : list[c][l] = e
      OBVIOUS
    <2>1. CASE d = a /\ j = i
      BY <2>1, ExchangeMoves
    <2>2. CASE d = b /\ j = k
      BY <2>2, ExchangeMoves
    <2>3. CASE ~(d = a /\ j = i) /\ ~(d = b /\ j = k)
      <3>1. list'[d][j] = list[d][j]
        BY <2>3, ExchangeMoves
      <3>. QED  BY <3>1
    <2>. QED  BY <2>1, <2>2, <2>3
  <1>. QED  BY <1>2, <1>3, <1>4, <1>5, Zenon

(* What the round takes a swap to move between the two loads. *)
LEMMA LoadsMove ==
  ASSUME TypeOK, NEW a \in Devices, NEW b \in Devices, a # b,
         NEW i \in Positions, NEW k \in Positions, Exchange(a, i, b, k)
  PROVE  /\ MoveLoad(a, i, b, k) \in Int
         /\ loads' \in [Devices -> Int]
         /\ loads'[a] = loads[a] - MoveLoad(a, i, b, k)
         /\ loads'[b] = loads[b] + MoveLoad(a, i, b, k)
         /\ \A c \in Devices \ {a, b} : loads'[c] = loads[c]
  <1>. DEFINE ml == MoveLoad(a, i, b, k)
  <1>1. ml \in Int
    <2>1. list[a][i] \in Experts /\ list[b][k] \in Experts
      BY DEF TypeOK
    <2>2. traffic[a][list[a][i]] \in Nat /\ traffic[b][list[b][k]] \in Nat
      BY <2>1 DEF TypeOK, TrafficOf
    <2>. QED  BY <2>2 DEF MoveLoad
  <1>2. loads' = [loads EXCEPT ![a] = loads[a] - ml, ![b] = loads[b] + ml]
    BY DEF Exchange
  <1>3. loads \in [Devices -> Int]
    BY DEF TypeOK
  <1>. HIDE DEF ml
  <1>4. /\ loads' \in [Devices -> Int]
        /\ loads'[a] = loads[a] - ml
        /\ loads'[b] = loads[b] + ml
        /\ \A c \in Devices \ {a, b} : loads'[c] = loads[c]
    BY <1>1, <1>2, <1>3
  <1>. QED  BY <1>1, <1>4 DEF ml

(* What it does move between the loads of the lists, if an expert's tokens are the
   same number on either device. *)
LEMMA ListLoadsMove ==
  ASSUME TypeOK, Shape, Uniform, NEW a \in Devices, NEW b \in Devices, a # b,
         NEW i \in Positions, NEW k \in Positions, Exchange(a, i, b, k)
  PROVE  /\ ListLoad(list', a) = ListLoad(list, a) - MoveLoad(a, i, b, k)
         /\ ListLoad(list', b) = ListLoad(list, b) + MoveLoad(a, i, b, k)
         /\ \A c \in Devices \ {a, b} : ListLoad(list', c) = ListLoad(list, c)
  <1>. DEFINE x == list[a][i]
              y == list[b][k]
  <1>1. /\ list \in [Devices -> [Positions -> Experts]]
        /\ list' \in [Devices -> [Positions -> Experts]]
        /\ traffic \in TrafficOf(Nat)
    BY ExchangeMoves DEF TypeOK, Shape
  <1>2. x \in Experts /\ y \in Experts
    BY <1>1
  <1>3. /\ traffic[a][x] \in Nat /\ traffic[b][y] \in Nat
        /\ traffic[a][y] = traffic[b][y] /\ traffic[b][x] = traffic[a][x]
    BY <1>1, <1>2 DEF TrafficOf, Uniform
  <1>4. MoveLoad(a, i, b, k) = traffic[a][x] - traffic[b][y]
    BY DEF MoveLoad
  <1>5. /\ list'[a][i] = y /\ list'[b][k] = x
        /\ \A j \in Positions \ {i} : list'[a][j] = list[a][j]
        /\ \A j \in Positions \ {k} : list'[b][j] = list[b][j]
        /\ \A c \in Devices \ {a, b} : list'[c] = list[c]
    BY ExchangeMoves
  <1>6. ListLoad(list', a) = ListLoad(list, a) - traffic[a][x] + traffic[a][list'[a][i]]
    BY <1>1, <1>5, ListLoadMoves
  <1>7. ListLoad(list', b) = ListLoad(list, b) - traffic[b][y] + traffic[b][list'[b][k]]
    BY <1>1, <1>5, ListLoadMoves
  <1>10. ListLoad(list, a) \in Int /\ ListLoad(list, b) \in Int
    BY <1>1, ListLoadType
  <1>8. ASSUME NEW c \in Devices \ {a, b}
        PROVE  ListLoad(list', c) = ListLoad(list, c)
    BY <1>5, ListLoadSum
  <1>. HIDE DEF x, y
  <1>9. /\ ListLoad(list', a) = ListLoad(list, a) - (traffic[a][x] - traffic[b][y])
        /\ ListLoad(list', b) = ListLoad(list, b) + (traffic[a][x] - traffic[b][y])
    BY <1>3, <1>5, <1>6, <1>7, <1>10
  <1>. QED  BY <1>4, <1>8, <1>9

LEMMA SwapKeepsLoads ==
  ASSUME TypeOK, Shape, LoadsTrue, NEW a \in Devices, NEW b \in Devices, a # b,
         NEW i \in Positions, NEW k \in Positions, Exchange(a, i, b, k),
         UNCHANGED traffic
  PROVE  LoadsTrue'
  <1>. SUFFICES ASSUME Uniform, NEW d \in Devices
                PROVE  loads'[d] = ListLoad(list', d)
    <2>1. Uniform' <=> Uniform
      BY DEF Uniform
    <2>2. \A d \in Devices : ListLoad(list', d) = ListLoad(list, d)'
      BY DEF ListLoad
    <2>. QED  BY <2>1, <2>2 DEF LoadsTrue
  <1>1. \A c \in Devices : loads[c] = ListLoad(list, c)
    BY DEF LoadsTrue
  <1>2. CASE d = a
    BY <1>1, <1>2, LoadsMove, ListLoadsMove
  <1>3. CASE d = b
    BY <1>1, <1>3, LoadsMove, ListLoadsMove
  <1>4. CASE d \notin {a, b}
    BY <1>1, <1>4, LoadsMove, ListLoadsMove
  <1>. QED  BY <1>2, <1>3, <1>4

-----------------------------------------------------------------------------
LEMMA InitInductive == Init => IInv
  <1>. SUFFICES ASSUME Init PROVE IInv
    OBVIOUS
  <1>1. origin \in [Devices -> Lists] /\ list = origin /\ source = [s \in Slots |-> s]
    BY DEF Init
  <1>2. \A d \in Devices : origin[d] \in [Positions -> Experts] /\ IsInjective(origin[d])
    BY <1>1 DEF Lists
  <1>3. origin \in [Devices -> [Positions -> Experts]]
    BY <1>1, <1>2
  <1>4. Shape
    BY <1>1, <1>3 DEF Shape
  <1>5. TransformGivesList /\ TransformIsPermutation
    BY <1>1 DEF TransformGivesList, TransformIsPermutation, IsInjective
  <1>6. DevicesStayDistinct
    BY <1>1, <1>2 DEF DevicesStayDistinct, NoCopyTwice, IsInjective
  <1>7. SameCover /\ Ended
    BY <1>1 DEF Init, SameCover, Ended
  <1>8. traffic \in TrafficOf(Nat)
    BY TrafficAssumption DEF Init
  <1>9. \A d \in Devices : ListLoad(list, d) \in Int
    BY <1>1, <1>3, <1>8, ListLoadType
  <1>10. loads = [d \in Devices |-> ListLoad(list, d)]
    BY <1>1 DEF Init
  <1>11. TypeOK
    <2>1. loads \in [Devices -> Int]
      BY <1>9, <1>10
    <2>2. round \in 0 .. MaxMove /\ phase \in {"swap", "done", "raised"}
      BY ExchangeAssumption DEF Init
    <2>. QED  BY <1>4, <1>8, <2>1, <2>2 DEF TypeOK, Shape
  <1>12. LoadsTrue
    BY <1>10 DEF LoadsTrue
  <1>. QED  BY <1>4, <1>5, <1>6, <1>7, <1>11, <1>12 DEF IInv

LEMMA SwapStep == IInv /\ SwapExperts => IInv'
  <1>. SUFFICES ASSUME IInv, SwapExperts PROVE IInv'
    OBVIOUS
  <1>1. PICK m \in Extremes, i \in Positions, k \in Positions :
          Swappable(m[1], i, m[2], k) /\ Exchange(m[1], i, m[2], k)
    BY DEF SwapExperts, BestSwap
  <1>2. PICK a \in Devices, b \in Devices :
          Swappable(a, i, b, k) /\ Exchange(a, i, b, k)
    BY <1>1 DEF Extremes
  <1>3. /\ UNCHANGED <<traffic, origin, phase>> /\ phase = "swap"
        /\ round < MaxMove /\ round' = round + 1
    BY DEF SwapExperts, MoreRounds
  <1>4. a # b
    <2>1. list[b][k] \in On(list, b)
      BY DEF IInv, Shape, On
    <2>. QED  BY <1>2, <2>1 DEF Swappable
  <1>. USE DEF IInv
  <1>5. Shape'
    BY <1>2, <1>3, <1>4, ExchangeMoves, ColumnsMove DEF Shape
  <1>6. TransformGivesList' /\ TransformIsPermutation'
    BY <1>2, <1>3, <1>4, SwapKeepsTransform
  <1>7. DevicesStayDistinct'
    BY <1>2, <1>4, SwapKeepsDistinct
  <1>8. SameCover'
    <2>1. \A e \in Experts : Holders(list, e) # {} <=> Holders(list', e) # {}
      BY <1>2, <1>4, SwapKeepsCover
    <2>. QED  BY <1>3, <2>1 DEF SameCover
  <1>9. Ended'
    BY <1>3 DEF Ended
  <1>10. TypeOK'
    <2>1. loads' \in [Devices -> Int]
      BY <1>2, <1>4, LoadsMove
    <2>2. round' \in 0 .. MaxMove
      BY <1>3, ExchangeAssumption DEF TypeOK
    <2>. QED  BY <1>3, <1>5, <2>1, <2>2 DEF TypeOK, Shape
  <1>11. LoadsTrue'
    BY <1>2, <1>3, <1>4, SwapKeepsLoads
  <1>. QED  BY <1>5, <1>6, <1>7, <1>8, <1>9, <1>10, <1>11

(* Swaps keep the lists, the tensor and the cover in step. *)
THEOREM Inductive == Spec => []IInv
  <1>1. ASSUME IInv, PassRound \/ Finish \/ UNCHANGED vars
        PROVE  IInv'
    <2>1. UNCHANGED <<traffic, origin, list, loads, source>>
      BY <1>1 DEF PassRound, Finish, vars
    <2>3. TypeOK'
      <3>1. round' \in 0 .. MaxMove
        BY <1>1, ExchangeAssumption DEF PassRound, MoreRounds, Finish, vars, IInv, TypeOK
      <3>2. phase' \in {"swap", "done", "raised"}
        BY <1>1 DEF PassRound, Finish, vars, IInv, TypeOK
      <3>. QED  BY <1>1, <2>1, <3>1, <3>2 DEF IInv, TypeOK
    <2>4. LoadsTrue'
      BY <1>1, <2>1 DEF IInv, LoadsTrue, Uniform, ListLoad
    <2>2. Ended'
      BY <1>1, <2>1 DEF PassRound, Finish, vars, IInv, Ended, Routable
    <2>. QED
      BY <1>1, <2>1, <2>2, <2>3, <2>4 DEF IInv, Shape, TransformGivesList, TransformIsPermutation,
         DevicesStayDistinct, SameCover, AtSlot
  <1>2. IInv /\ [Next]_vars => IInv'
    BY <1>1, SwapStep DEF Next
  <1>. QED  BY <1>2, InitInductive, PTL DEF Spec

(* After any number of swaps the tensor still turns the original distribution
   into the new one, and it is a permutation. *)
THEOREM TransformHolds == Spec => []TransformGivesList
  BY Inductive, PTL DEF IInv

THEOREM PermutationHolds == Spec => []TransformIsPermutation
  BY Inductive, PTL DEF IInv

THEOREM DistinctHolds == Spec => []DevicesStayDistinct
  BY Inductive, PTL DEF IInv

(* The tables are built exactly when the reports cover the experts, and then
   they are right. *)
THEOREM CoverHolds == Spec => []CoverDecides
  <1>1. IInv => CoverDecides
    <2>. SUFFICES ASSUME IInv PROVE CoverDecides
      OBVIOUS
    <2>1. Routable(list) <=> Routable(origin)
      BY DEF IInv, SameCover, Routable
    <2>2. list \in [Devices -> Seq(Experts)]
      <3>1. [Positions -> Experts] \subseteq Seq(Experts)
        BY RoomIsNumber DEF Positions
      <3>. QED  BY <3>1 DEF IInv, Shape
    <2>3. Routable(list) => ArrivesAtExpert(list)
      BY <2>2, TablesArrive DEF IInv, DevicesStayDistinct
    <2>. QED  BY <2>1, <2>3 DEF IInv, Ended, CoverDecides
  <1>. QED  BY <1>1, Inductive, PTL

(* greedy_algorithm.py, ExpertExchangeService: the loads stay numbers, the tensor
   keeps its shape and the rounds are counted to max_move, for any traffic. *)
THEOREM TypeCorrect == Spec => []TypeOK
  BY Inductive, PTL DEF IInv

(* The most and the least loaded device are one each. *)
LEMMA ExtremesUnique ==
  ASSUME TypeOK, NEW m \in Extremes, NEW q \in Extremes
  PROVE  m[1] = q[1] /\ m[2] = q[2]
  <1>1. /\ m[1] \in Devices /\ m[2] \in Devices /\ q[1] \in Devices /\ q[2] \in Devices
        /\ MostLoaded(m[1]) /\ MostLoaded(q[1]) /\ LeastLoaded(m[2]) /\ LeastLoaded(q[2])
    BY DEF Extremes
  <1>2. \A d \in Devices : loads[d] \in Int /\ d \in Int
    BY TablesAssumption DEF TypeOK, Devices
  <1>3. m[1] = q[1]
    BY <1>1, <1>2 DEF MostLoaded
  <1>4. m[2] = q[2]
    BY <1>1, <1>2 DEF LeastLoaded
  <1>. QED  BY <1>3, <1>4

(* A move with a gain brings the two numbers nearer to each other. *)
LEMMA GainNarrows ==
  ASSUME NEW x \in Int, NEW y \in Int, NEW u \in Int, NEW v \in Int, y <= x,
         (x - y) \div 2 - AbsDiff(u, v) \div 2 > 0
  PROVE  AbsDiff(u, v) < AbsDiff(x, y)
  BY DEF AbsDiff

(* greedy_algorithm.py:468, where all devices have seen the same tokens: the lists'
   loads of the most and the least loaded device come closer by every swap, for any
   number of devices, experts and rounds. *)
THEOREM UniformNarrows == Spec => UniformMoveNarrowsGap
  <1>1. ASSUME IInv, Next, Uniform, list' # list
        PROVE  Narrower
    <2>1. SwapExperts
      BY <1>1 DEF Next, PassRound, Finish
    <2>2. PICK m \in Extremes, i \in Positions, k \in Positions :
            /\ Swappable(m[1], i, m[2], k) /\ Gain(m[1], i, m[2], k) > 0
            /\ Exchange(m[1], i, m[2], k)
      BY <2>1 DEF SwapExperts, BestSwap
    <2>. DEFINE a == m[1]
                b == m[2]
                ml == MoveLoad(a, i, b, k)
    <2>3. a \in Devices /\ b \in Devices /\ MostLoaded(a)
      BY DEF Extremes
    <2>4. TypeOK /\ Shape /\ LoadsTrue
      BY <1>1 DEF IInv
    <2>5. a # b
      <3>1. list[b][k] \in On(list, b)
        BY <2>3, <2>4 DEF Shape, On
      <3>. QED  BY <2>2, <3>1 DEF Swappable
    <2>6. loads[a] \in Int /\ loads[b] \in Int /\ loads[b] <= loads[a]
      BY <2>3, <2>4 DEF TypeOK, MostLoaded
    <2>7. /\ ml \in Int
          /\ ListLoad(list, a) = loads[a] /\ ListLoad(list, b) = loads[b]
          /\ ListLoad(list', a) = loads[a] - ml /\ ListLoad(list', b) = loads[b] + ml
      <3>1. Exchange(a, i, b, k)
        BY <2>2
      <3>2. ListLoad(list, a) = loads[a] /\ ListLoad(list, b) = loads[b]
        BY <1>1, <2>3, <2>4 DEF LoadsTrue
      <3>. HIDE DEF a, b
      <3>3. ml \in Int
        BY <2>3, <2>4, <2>5, <3>1, LoadsMove
      <3>4. /\ ListLoad(list', a) = ListLoad(list, a) - ml
            /\ ListLoad(list', b) = ListLoad(list, b) + ml
        BY <1>1, <2>3, <2>4, <2>5, <3>1, ListLoadsMove
      <3>. QED  BY <3>2, <3>3, <3>4
    <2>8. (loads[a] - loads[b]) \div 2 - AbsDiff(loads[a] - ml, loads[b] + ml) \div 2 > 0
      BY <2>2 DEF Gain, DeltaLoad
    <2>9. AbsDiff(loads[a] - ml, loads[b] + ml) < AbsDiff(loads[a], loads[b])
      <3>. DEFINE u == loads[a] - ml
                  v == loads[b] + ml
      <3>1. u \in Int /\ v \in Int
        BY <2>6, <2>7
      <3>2. (loads[a] - loads[b]) \div 2 - AbsDiff(u, v) \div 2 > 0
        BY <2>8
      <3>. HIDE DEF u, v, a, b
      <3>3. AbsDiff(u, v) < AbsDiff(loads[a], loads[b])
        BY <2>6, <3>1, <3>2, GainNarrows
      <3>. QED  BY <3>3 DEF u, v
    <2>10. \A q \in Extremes : q[1] = a /\ q[2] = b
      BY <2>4, ExtremesUnique
    <2>. HIDE DEF a, b, ml
    <2>. QED  BY <2>7, <2>9, <2>10 DEF Narrower
  <1>2. IInv /\ [Next]_vars => [Uniform /\ list' # list => Narrower]_vars
    BY <1>1
  <1>. QED  BY <1>2, Inductive, PTL DEF Spec, UniformMoveNarrowsGap
=============================================================================
