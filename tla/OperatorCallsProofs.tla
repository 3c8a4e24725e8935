------------------------ MODULE OperatorCallsProofs ------------------------
(***************************************************************************)
(* What holds of every kernel, whatever its length, its pipes and its      *)
(* flags, and of calls of the operators, for any number of calls, any      *)
(* kernels and any scripts.                                                *)
(*                                                                         *)
(* That a program leaves no race is a question about its text: every pair  *)
(* of instructions that share a buffer has to be linked by a chain of      *)
(* flags, of instructions of one pipe and of stops of the scalar unit      *)
(* (WellOrdered).  The first theorems say that this is enough: such a      *)
(* program has no race in any interleaving of its pipes, and executes like *)
(* a set of instructions and their dependences.  What the device does in a *)
(* call is a behaviour of that machine, so that they hold of every call.   *)
(* A call itself is at one place at a time, and its arguments outlive its  *)
(* task.  The last two theorems are about what calls compute: how the rows *)
(* of la_preprocess and the workspace of the adaptive attention are        *)
(* divided, on any number of cores.                                        *)
(***************************************************************************)
EXTENDS OperatorResults, FiniteSetTheorems, SequenceTheorems, WellFoundedInduction, TLAPS

-----------------------------------------------------------------------------
(* Places.  The instructions of a unit are numbered from 1, in order. *)

LEMMA UnitFinite ==
  ASSUME NEW k \in Kernels, NEW u
  PROVE  /\ InUnit(Program[k], u) \subseteq 1 .. Len(Program[k])
         /\ IsFiniteSet(InUnit(Program[k], u))
         /\ Cardinality(InUnit(Program[k], u)) \in Nat
  <1>1. Len(Program[k]) \in Nat /\ DOMAIN Program[k] = 1 .. Len(Program[k])
    BY ProgramAssumption
  <1>2. IsFiniteSet(1 .. Len(Program[k]))
    BY <1>1, FS_Interval
  <1>3. InUnit(Program[k], u) \subseteq 1 .. Len(Program[k])
    BY <1>1 DEF InUnit
  <1>. QED  BY <1>2, <1>3, FS_Subset, FS_CardinalityType

LEMMA PlaceBounds ==
  ASSUME NEW k \in Kernels, NEW i \in DOMAIN Program[k]
  PROVE  /\ Place(Program[k], i) \in Nat
         /\ 1 <= Place(Program[k], i)
         /\ Place(Program[k], i) <= Cardinality(InUnit(Program[k], Program[k][i].unit))
  <1>. DEFINE p == Program[k]
              upto == {h \in 1 .. i : p[h].unit = p[i].unit}
              all == InUnit(p, p[i].unit)
  <1>1. Len(p) \in Nat /\ DOMAIN p = 1 .. Len(p) /\ i \in 1 .. Len(p)
    BY ProgramAssumption
  <1>2. upto \in SUBSET all
    BY <1>1 DEF InUnit
  <1>3. IsFiniteSet(all) /\ Cardinality(all) \in Nat
    BY UnitFinite
  <1>4. IsFiniteSet(upto) /\ Cardinality(upto) <= Cardinality(all)
    BY <1>2, <1>3, FS_Subset
  <1>5. {i} \in SUBSET upto
    BY <1>1
  <1>6. Cardinality({i}) = 1 /\ Cardinality({i}) <= Cardinality(upto)
    BY <1>4, <1>5, FS_Subset, FS_Singleton
  <1>7. Cardinality(upto) \in Nat
    BY <1>4, FS_CardinalityType
  <1>8. Place(p, i) = Cardinality(upto)
    BY DEF Place
  <1>. QED  BY <1>4, <1>6, <1>7, <1>8

LEMMA PlaceGrows ==
  ASSUME NEW k \in Kernels, NEW i \in DOMAIN Program[k], NEW j \in DOMAIN Program[k],
         Program[k][i].unit = Program[k][j].unit, i < j
  PROVE  Place(Program[k], i) < Place(Program[k], j)
  <1>. DEFINE p == Program[k]
              before == {h \in 1 .. i : p[h].unit = p[i].unit}
              upto == {h \in 1 .. j : p[h].unit = p[j].unit}
  <1>1. Len(p) \in Nat /\ DOMAIN p = 1 .. Len(p) /\ i \in 1 .. Len(p) /\ j \in 1 .. Len(p)
    BY ProgramAssumption
  <1>2. IsFiniteSet(1 .. i) /\ IsFiniteSet(1 .. j)
    BY <1>1, FS_Interval
  <1>3. before \in SUBSET (1 .. i) /\ upto \in SUBSET (1 .. j)
    OBVIOUS
  <1>4. IsFiniteSet(before) /\ IsFiniteSet(upto)
    BY <1>2, <1>3, FS_Subset
  <1>5. Cardinality(before) \in Nat /\ Cardinality(upto) \in Nat
    BY <1>4, FS_CardinalityType
  <1>6. before \in SUBSET upto /\ j \in upto /\ j \notin before
    BY <1>1
  <1>7. Cardinality(before) <= Cardinality(upto) /\ Cardinality(before) # Cardinality(upto)
    BY <1>4, <1>6, FS_Subset
  <1>8. Place(p, i) = Cardinality(before) /\ Place(p, j) = Cardinality(upto)
    BY DEF Place
  <1>. QED  BY <1>5, <1>7, <1>8

LEMMA PlaceIsOne ==
  ASSUME NEW k \in Kernels, NEW i \in DOMAIN Program[k], NEW j \in DOMAIN Program[k],
         Program[k][i].unit = Program[k][j].unit,
         Place(Program[k], i) = Place(Program[k], j)
  PROVE  i = j
  <1>1. i \in Int /\ j \in Int
    BY ProgramAssumption
  <1>2. ~(i < j)
    BY PlaceGrows, PlaceBounds
  <1>3. ~(j < i)
    BY PlaceGrows, PlaceBounds
  <1>. QED  BY <1>1, <1>2, <1>3

-----------------------------------------------------------------------------
(* The tables of a program that the actions look up. *)

LEMMA Tables ==
  ASSUME NEW k \in Kernels
  PROVE  /\ DOMAIN LengthOf[k] = UnitsOf(Program[k])
         /\ \A u \in UnitsOf(Program[k]) :
              /\ LengthOf[k][u] = Cardinality(InUnit(Program[k], u))
              /\ LengthOf[k][u] \in Nat
         /\ \A i \in DOMAIN Program[k] :
              /\ UnitOf[k][i] = Program[k][i].unit
              /\ UnitOf[k][i] \in UnitsOf(Program[k])
              /\ OpOf[k][i] = Program[k][i].op
              /\ PlaceOf[k][i] = Place(Program[k], i)
              /\ PlaceOf[k][i] \in 1 .. LengthOf[k][UnitOf[k][i]]
  <1>1. LengthOf[k] = [u \in UnitsOf(Program[k]) |-> Cardinality(InUnit(Program[k], u))]
    BY DEF LengthOf
  <1>2. \A u \in UnitsOf(Program[k]) : Cardinality(InUnit(Program[k], u)) \in Nat
    BY UnitFinite
  <1>3. ASSUME NEW i \in DOMAIN Program[k]
        PROVE  /\ UnitOf[k][i] = Program[k][i].unit
               /\ UnitOf[k][i] \in UnitsOf(Program[k])
               /\ OpOf[k][i] = Program[k][i].op
               /\ PlaceOf[k][i] = Place(Program[k], i)
    BY DEF UnitOf, UnitsOf, OpOf, PlaceOf
  <1>4. ASSUME NEW i \in DOMAIN Program[k]
        PROVE  PlaceOf[k][i] \in 1 .. LengthOf[k][UnitOf[k][i]]
    BY <1>1, <1>2, <1>3, PlaceBounds
  <1>. QED  BY <1>1, <1>2, <1>3, <1>4

(* An instruction is among the first components of placed instructions when it is
   one of them with its place. *)
LEMMA FirstOf ==
  ASSUME NEW p, NEW u, NEW T, T \subseteq Placed(p, u), NEW i
  PROVE  i \in {x[1] : x \in T} <=> i \in InUnit(p, u) /\ <<i, Place(p, i)>> \in T
  <1>1. ASSUME NEW x \in T, i = x[1]
        PROVE  i \in InUnit(p, u) /\ <<i, Place(p, i)>> \in T
    <2>1. PICK h \in InUnit(p, u) : x = <<h, Place(p, h)>>
      BY DEF Placed
    <2>2. h = i
      BY <1>1, <2>1
    <2>. QED  BY <2>1, <2>2
  <1>2. <<i, Place(p, i)>>[1] = i
    OBVIOUS
  <1>3. i \in {x[1] : x \in T} <=> \E x \in T : i = x[1]
    OBVIOUS
  <1>. QED  BY <1>1, <1>2, <1>3

(* The instruction a unit is at is the one whose place follows the completed ones. *)
LEMMA CurrentIs ==
  ASSUME CoreTypeOK, NEW u \in DOMAIN pos
  PROVE  /\ u \in UnitsOf(Program[kernel])
         /\ pos[u] \in Nat
         /\ \A i : i \in Current(u) <=>
              /\ i \in DOMAIN Program[kernel]
              /\ UnitOf[kernel][i] = u
              /\ PlaceOf[kernel][i] = pos[u] + 1
  <1>. DEFINE p == Program[kernel]
              n == Cardinality(InUnit(p, u))
  <1>1. kernel \in Kernels /\ u \in UnitsOf(p) /\ LengthOf[kernel][u] = n /\ n \in Nat
    BY Tables DEF CoreTypeOK
  <1>2. pos[u] \in 0 .. n
    BY <1>1 DEF CoreTypeOK
  <1>3. pos[u] + 1 \in 1 .. n + 1
    BY <1>1, <1>2
  <1>4. Nth[kernel][u] = [m \in 1 .. n + 1 |-> {x[1] : x \in {y \in Placed(p, u) : y[2] = m}}]
    BY <1>1 DEF Nth
  <1>5. Current(u) = {x[1] : x \in {y \in Placed(p, u) : y[2] = pos[u] + 1}}
    BY <1>3, <1>4 DEF Current
  <1>6. \A i : i \in Current(u) <=> i \in InUnit(p, u) /\ Place(p, i) = pos[u] + 1
    <2>. DEFINE T == {y \in Placed(p, u) : y[2] = pos[u] + 1}
    <2>1. \A i : i \in Current(u) <=> i \in InUnit(p, u) /\ <<i, Place(p, i)>> \in T
      BY <1>5, FirstOf
    <2>2. \A i \in InUnit(p, u) : <<i, Place(p, i)>> \in T <=> Place(p, i) = pos[u] + 1
      BY DEF Placed
    <2>. QED  BY <2>1, <2>2
  <1>7. \A i : i \in InUnit(p, u) <=> i \in DOMAIN p /\ UnitOf[kernel][i] = u
    BY <1>1, Tables DEF InUnit
  <1>. QED  BY <1>1, <1>2, <1>6, <1>7, Tables

(* What was executed is what is executed and over. *)
LEMMA ExecutedIs ==
  ASSUME NEW k \in Kernels, NEW at, DOMAIN at = DOMAIN LengthOf[k],
         \A u \in DOMAIN at : at[u] \in 0 .. LengthOf[k][u]
  PROVE  UNION {ExecUpto[k][u][at[u]] : u \in DOMAIN at}
           = {i \in ExecOf[k] : PlaceOf[k][i] <= at[UnitOf[k][i]]}
  <1>. DEFINE p == Program[k]
              placed(u) == {y \in Placed(p, u) : p[y[1]].op = "exec"}
  <1>1. ASSUME NEW u \in DOMAIN at
        PROVE  \A i : i \in ExecUpto[k][u][at[u]] <=>
                 i \in ExecOf[k] /\ UnitOf[k][i] = u /\ PlaceOf[k][i] <= at[u]
    <2>1. u \in UnitsOf(p) /\ at[u] \in 0 .. Cardinality(InUnit(p, u))
      BY Tables
    <2>2. ExecUpto[k][u]
            = [n \in 0 .. Cardinality(InUnit(p, u)) |-> {x[1] : x \in {y \in placed(u) : y[2] <= n}}]
      BY <2>1 DEF ExecUpto
    <2>3. ExecUpto[k][u][at[u]] = {x[1] : x \in {y \in placed(u) : y[2] <= at[u]}}
      BY <2>1, <2>2
    <2>. DEFINE T == {y \in placed(u) : y[2] <= at[u]}
    <2>4. \A i : i \in ExecUpto[k][u][at[u]]
                 <=> i \in InUnit(p, u) /\ <<i, Place(p, i)>> \in T
      <3>1. T \subseteq Placed(p, u) /\ ExecUpto[k][u][at[u]] = {x[1] : x \in T}
        BY <2>3
      <3>. HIDE DEF T
      <3>. QED  BY <3>1, FirstOf
    <2>5. \A i \in InUnit(p, u) :
            <<i, Place(p, i)>> \in T <=> p[i].op = "exec" /\ Place(p, i) <= at[u]
      BY DEF Placed
    <2>6. \A i : i \in ExecUpto[k][u][at[u]] <=>
            i \in InUnit(p, u) /\ p[i].op = "exec" /\ Place(p, i) <= at[u]
      BY <2>4, <2>5
    <2>7. \A i : i \in InUnit(p, u) <=> i \in DOMAIN p /\ UnitOf[k][i] = u
      BY Tables DEF InUnit
    <2>8. ExecOf[k] = {i \in DOMAIN p : p[i].op = "exec"}
      BY DEF ExecOf
    <2>. QED  BY <2>6, <2>7, <2>8, Tables
  <1>2. \A i \in ExecOf[k] : UnitOf[k][i] \in DOMAIN at
    BY Tables DEF ExecOf
  <1>. QED  BY <1>1, <1>2

-----------------------------------------------------------------------------
(* Each step leaves the units at instructions they have. *)
LEMMA StartTyped ==
  ASSUME NEW k \in Kernels, kernel = k, pos = AtStart(k), busy = {}
  PROVE  CoreTypeOK
  BY Tables DEF CoreTypeOK, AtStart

LEMMA CompleteTyped ==
  ASSUME CoreTypeOK, NEW u \in DOMAIN pos, Complete(u)
  PROVE  CoreTypeOK'
  <1>1. pos[u] < LengthOf[kernel][u] /\ LengthOf[kernel][u] \in Nat /\ pos[u] \in Nat
    BY Tables DEF CoreTypeOK, Complete
  <1>. QED  BY <1>1 DEF CoreTypeOK, Complete

LEMMA PassTyped ==
  ASSUME CoreTypeOK, NEW u \in DOMAIN pos, Pass(u)
  PROVE  CoreTypeOK'
  <1>1. PICK i \in Current(u) : Ready(u, i)
    BY DEF Pass
  <1>2. pos[u] + 1 <= LengthOf[kernel][u] /\ LengthOf[kernel][u] \in Nat /\ pos[u] \in Nat
    BY <1>1, CurrentIs, Tables DEF CoreTypeOK
  <1>3. u \notin busy
    BY <1>1 DEF Ready
  <1>. QED  BY <1>2, <1>3 DEF CoreTypeOK, Pass

LEMMA BeginTyped ==
  ASSUME CoreTypeOK, NEW u \in DOMAIN pos, Begin(u)
  PROVE  CoreTypeOK'
  <1>1. PICK i \in Current(u) : Ready(u, i)
    BY DEF Begin
  <1>2. pos[u] < LengthOf[kernel][u]
    BY <1>1, CurrentIs, Tables DEF CoreTypeOK
  <1>. QED  BY <1>2 DEF CoreTypeOK, Begin

LEMMA LaunchTyped ==
  ASSUME NEW k \in Kernels, Launch(k)
  PROVE  CoreTypeOK'
  BY Tables DEF Launch, CoreTypeOK, AtStart

(* THEOREM: in every kernel, whatever its program, each unit is at an instruction it
   has, and works only on one (Begin, Complete, Pass, Launch of the machine the
   kernels under csrc/ops run on). *)
THEOREM CoreTyped == CoreSpec => []CoreTypeOK
  <1>1. CoreInit => CoreTypeOK
    BY StartTyped DEF CoreInit
  <1>2. CoreTypeOK /\ [CoreNext]_coreVars => CoreTypeOK'
    <2>. SUFFICES ASSUME CoreTypeOK, [CoreNext]_coreVars PROVE CoreTypeOK'
      OBVIOUS
    <2>1. CASE Step
      BY <2>1, BeginTyped, CompleteTyped, PassTyped DEF Step
    <2>2. CASE \E k \in Kernels : Launch(k)
      BY <2>2, LaunchTyped
    <2>3. CASE UNCHANGED coreVars
      BY <2>3 DEF coreVars, CoreTypeOK
    <2>. QED  BY <2>1, <2>2, <2>3 DEF CoreNext
  <1>. QED  BY <1>1, <1>2, PTL DEF CoreSpec

-----------------------------------------------------------------------------
(* A static criterion of race freedom.  What is over when instruction j begins: *)
Directly(k, j) ==
  {i \in DOMAIN Program[k] :
    i \in Needs[k][j] \/ (UnitOf[k][i] = UnitOf[k][j] /\ i < j)}

(* "before" names for each instruction some of those that are linked to it by a chain
   of such steps, and all that it shares a buffer with are among them. *)
Orders(k, before) ==
  /\ before \in [DOMAIN Program[k] -> SUBSET DOMAIN Program[k]]
  /\ \A j \in DOMAIN Program[k] :
       /\ before[j] \subseteq Directly(k, j) \union UNION {before[h] : h \in Directly(k, j)}
       /\ EarlierOf[k][j] \subseteq before[j]

WellOrdered == \A k \in Kernels : \E before : Orders(k, before)

Before == [k \in Kernels |-> CHOOSE before : Orders(k, before)]

Started(j) == Done(j) \/ \E u \in busy : j \in Current(u)

(* The inductive invariant: what is before an instruction is over when it begins. *)
BeforeOver ==
  \A j \in DOMAIN Program[kernel] : Started(j) => \A i \in Before[kernel][j] : Done(i)

(* A unit at work has an instruction to complete. *)
BusyWithOne == \A u \in busy : Current(u) # {}

OrderInv == CoreTypeOK /\ BeforeOver /\ BusyWithOne

LEMMA BeforeOrders ==
  ASSUME WellOrdered, NEW k \in Kernels
  PROVE  Orders(k, Before[k])
  BY DEF WellOrdered, Before

(* A unit that may take its next instruction finds all that is before it over. *)
LEMMA ReadyFinds ==
  ASSUME WellOrdered, OrderInv, NEW u \in DOMAIN pos, NEW j \in Current(u), Ready(u, j)
  PROVE  \A i \in Before[kernel][j] : Done(i)
  <1>. DEFINE p == Program[kernel]
  <1>1. kernel \in Kernels /\ j \in DOMAIN p /\ UnitOf[kernel][j] = u
          /\ PlaceOf[kernel][j] = pos[u] + 1 /\ pos[u] \in Nat
    BY CurrentIs DEF OrderInv, CoreTypeOK
  <1>2. ASSUME NEW h \in Directly(kernel, j)
        PROVE  h \in DOMAIN p /\ Done(h)
    <2>1. h \in DOMAIN p
      BY DEF Directly
    <2>2. CASE h \in Needs[kernel][j]
      BY <2>1, <2>2 DEF Ready
    <2>3. CASE UnitOf[kernel][h] = UnitOf[kernel][j] /\ h < j
      <3>1. p[h].unit = p[j].unit
        BY <1>1, <2>1, <2>3, Tables
      <3>2. Place(p, h) < Place(p, j) /\ Place(p, h) \in Nat
        BY <1>1, <2>1, <2>3, <3>1, PlaceGrows, PlaceBounds
      <3>3. PlaceOf[kernel][h] = Place(p, h) /\ PlaceOf[kernel][j] = Place(p, j)
        BY <1>1, <2>1, Tables
      <3>4. PlaceOf[kernel][h] <= pos[u] /\ UnitOf[kernel][h] = u
        BY <1>1, <2>3, <3>2, <3>3
      <3>. QED  BY <2>1, <3>4 DEF Done
    <2>. QED  BY <2>1, <2>2, <2>3 DEF Directly
  <1>3. \A h \in Directly(kernel, j) : \A i \in Before[kernel][h] : Done(i)
    BY <1>2 DEF OrderInv, BeforeOver, Started
  <1>4. Before[kernel][j]
          \subseteq Directly(kernel, j) \union UNION {Before[kernel][h] : h \in Directly(kernel, j)}
    BY <1>1, BeforeOrders DEF Orders
  <1>. QED  BY <1>2, <1>3, <1>4

(* When unit u completes its next instruction, that one is over as well. *)
LEMMA MovesOne ==
  ASSUME CoreTypeOK, NEW u \in DOMAIN pos, CoreTypeOK', kernel' = kernel,
         pos' = [pos EXCEPT ![u] = @ + 1]
  PROVE  /\ \A i \in DOMAIN Program[kernel] : Done(i)' <=> Done(i) \/ i \in Current(u)
         /\ \A w \in DOMAIN pos : w # u => (Current(w)' = Current(w))
  <1>1. ASSUME NEW i \in DOMAIN Program[kernel]
        PROVE  Done(i)' <=> Done(i) \/ i \in Current(u)
    <2>1. PlaceOf[kernel][i] \in Nat /\ UnitOf[kernel][i] \in DOMAIN pos
      BY Tables DEF CoreTypeOK
    <2>2. pos[u] \in Nat
      BY CurrentIs
    <2>3. CASE UnitOf[kernel][i] = u
      <3>1. i \in Current(u) <=> PlaceOf[kernel][i] = pos[u] + 1
        BY <2>3, CurrentIs
      <3>2. Done(i)' <=> PlaceOf[kernel][i] <= pos[u] + 1
        BY <2>1, <2>3 DEF Done
      <3>. QED  BY <2>1, <2>2, <2>3, <3>1, <3>2 DEF Done
    <2>4. CASE UnitOf[kernel][i] # u
      BY <2>1, <2>4, CurrentIs DEF Done
    <2>. QED  BY <2>3, <2>4
  <1>2. ASSUME NEW w \in DOMAIN pos, w # u
        PROVE  Current(w)' = Current(w)
    BY <1>2 DEF Current
  <1>. QED  BY <1>1, <1>2

LEMMA BeginOrders ==
  ASSUME WellOrdered, OrderInv, NEW u \in DOMAIN pos, Begin(u)
  PROVE  BeforeOver' /\ BusyWithOne'
  <1>1. PICK c \in Current(u) : Ready(u, c)
    BY DEF Begin
  <1>2. \A i : Done(i)' = Done(i)
    BY DEF Begin, Done
  <1>3. \A w : Current(w)' = Current(w)
    BY DEF Begin, Current
  <1>4. \A j \in Current(u) : j = c
    <2>1. \A j \in Current(u) : /\ j \in DOMAIN Program[kernel] /\ kernel \in Kernels
                               /\ Program[kernel][j].unit = u
                               /\ Place(Program[kernel], j) = pos[u] + 1
      BY CurrentIs, Tables DEF OrderInv, CoreTypeOK
    <2>. QED  BY <1>1, <2>1, PlaceIsOne
  <1>5. \A j : Started(j)' => Started(j) \/ j = c
    BY <1>2, <1>3, <1>4 DEF Started, Begin
  <1>6. \A i \in Before[kernel][c] : Done(i)
    BY <1>1, ReadyFinds
  <1>7. kernel' = kernel
    BY DEF Begin
  <1>8. BusyWithOne'
    BY <1>1, <1>3 DEF Begin, OrderInv, BusyWithOne
  <1>. QED  BY <1>2, <1>5, <1>6, <1>7, <1>8 DEF OrderInv, BeforeOver

LEMMA CompleteOrders ==
  ASSUME WellOrdered, OrderInv, NEW u \in DOMAIN pos, Complete(u)
  PROVE  BeforeOver' /\ BusyWithOne'
  <1>1. CoreTypeOK /\ CoreTypeOK' /\ kernel' = kernel /\ u \in busy
    BY CompleteTyped DEF OrderInv, Complete
  <1>2. /\ \A i \in DOMAIN Program[kernel] : Done(i)' <=> Done(i) \/ i \in Current(u)
        /\ \A w \in DOMAIN pos : w # u => (Current(w)' = Current(w))
    BY <1>1, MovesOne DEF Complete
  <1>3. \A w \in busy' : w \in busy /\ w # u /\ w \in DOMAIN pos
    BY <1>1 DEF Complete, CoreTypeOK
  <1>4. \A j \in DOMAIN Program[kernel] : Started(j)' => Started(j)
    BY <1>1, <1>2, <1>3 DEF Started
  <1>5. \A j \in DOMAIN Program[kernel] : Before[kernel][j] \subseteq DOMAIN Program[kernel]
    BY <1>1, BeforeOrders DEF Orders, CoreTypeOK
  <1>6. BusyWithOne'
    BY <1>2, <1>3 DEF OrderInv, BusyWithOne
  <1>. QED  BY <1>1, <1>2, <1>4, <1>5, <1>6 DEF OrderInv, BeforeOver

LEMMA PassOrders ==
  ASSUME WellOrdered, OrderInv, NEW u \in DOMAIN pos, Pass(u)
  PROVE  BeforeOver' /\ BusyWithOne'
  <1>1. PICK c \in Current(u) : Ready(u, c)
    BY DEF Pass
  <1>2. CoreTypeOK /\ CoreTypeOK' /\ kernel' = kernel /\ busy' = busy /\ u \notin busy
    BY <1>1, PassTyped DEF OrderInv, Pass, Ready
  <1>3. /\ \A i \in DOMAIN Program[kernel] : Done(i)' <=> Done(i) \/ i \in Current(u)
        /\ \A w \in DOMAIN pos : w # u => (Current(w)' = Current(w))
    BY <1>2, MovesOne DEF Pass
  <1>4. \A j \in Current(u) : j = c
    <2>1. \A j \in Current(u) : /\ j \in DOMAIN Program[kernel] /\ kernel \in Kernels
                               /\ Program[kernel][j].unit = u
                               /\ Place(Program[kernel], j) = pos[u] + 1
      BY <1>2, CurrentIs, Tables DEF CoreTypeOK
    <2>. QED  BY <1>1, <2>1, PlaceIsOne
  <1>5. \A j \in DOMAIN Program[kernel] : Started(j)' => Started(j) \/ j = c
    <2>1. busy \subseteq DOMAIN pos
      BY <1>2 DEF CoreTypeOK
    <2>. QED  BY <1>2, <1>3, <1>4, <2>1 DEF Started
  <1>6. \A i \in Before[kernel][c] : Done(i)
    BY <1>1, ReadyFinds
  <1>7. \A j \in DOMAIN Program[kernel] : Before[kernel][j] \subseteq DOMAIN Program[kernel]
    BY <1>2, BeforeOrders DEF Orders, CoreTypeOK
  <1>8. BusyWithOne'
    BY <1>2, <1>3 DEF OrderInv, BusyWithOne, CoreTypeOK
  <1>. QED  BY <1>2, <1>3, <1>5, <1>6, <1>7, <1>8 DEF OrderInv, BeforeOver

(* At the start nothing is over and no unit is at work. *)
LEMMA StartOrders ==
  ASSUME NEW k \in Kernels, kernel = k, pos = AtStart(k), busy = {}
  PROVE  BeforeOver /\ BusyWithOne
  <1>1. \A i \in DOMAIN Program[kernel] : ~Done(i)
    <2>1. \A i \in DOMAIN Program[kernel] :
            UnitOf[kernel][i] \in DOMAIN LengthOf[kernel] /\ PlaceOf[kernel][i] >= 1
              /\ PlaceOf[kernel][i] \in Int
      BY Tables
    <2>. QED  BY <2>1 DEF Done, AtStart
  <1>. QED  BY <1>1 DEF BeforeOver, Started, BusyWithOne

LEMMA LaunchOrders ==
  ASSUME NEW k \in Kernels, Launch(k)
  PROVE  OrderInv'
  <1>1. CoreTypeOK'
    BY LaunchTyped
  <1>2. \A i \in DOMAIN Program[kernel'] : ~Done(i)'
    <2>1. \A i \in DOMAIN Program[k] :
            UnitOf[k][i] \in DOMAIN LengthOf[k] /\ PlaceOf[k][i] >= 1 /\ PlaceOf[k][i] \in Int
      BY Tables
    <2>. QED  BY <2>1 DEF Done, AtStart, Launch
  <1>3. busy' = {}
    BY DEF Launch
  <1>. QED  BY <1>1, <1>2, <1>3 DEF OrderInv, BeforeOver, Started, BusyWithOne

LEMMA OrderKept ==
  ASSUME WellOrdered
  PROVE  /\ CoreInit => OrderInv
         /\ OrderInv /\ [CoreNext]_coreVars => OrderInv'
  <1>1. CoreInit => OrderInv
    BY StartTyped, StartOrders DEF CoreInit, OrderInv
  <1>2. ASSUME OrderInv, [CoreNext]_coreVars PROVE OrderInv'
    <2>1. CASE Step
      <3>1. PICK u \in DOMAIN pos : Begin(u) \/ Complete(u) \/ Pass(u)
        BY <2>1 DEF Step
      <3>2. CoreTypeOK'
        BY <1>2, <3>1, BeginTyped, CompleteTyped, PassTyped DEF OrderInv
      <3>3. BeforeOver' /\ BusyWithOne'
        BY <1>2, <3>1, BeginOrders, CompleteOrders, PassOrders
      <3>. QED  BY <3>2, <3>3 DEF OrderInv
    <2>2. CASE \E k \in Kernels : Launch(k)
      BY <2>2, LaunchOrders
    <2>3. CASE UNCHANGED coreVars
      BY <1>2, <2>3 DEF coreVars, OrderInv, CoreTypeOK, BeforeOver, BusyWithOne, Started, Done, Current
    <2>. QED  BY <1>2, <2>1, <2>2, <2>3 DEF CoreNext
  <1>. QED  BY <1>1, <1>2

LEMMA OrderedHasNoRace ==
  ASSUME WellOrdered, OrderInv
  PROVE  NoRace
  <1>. SUFFICES ASSUME NEW u \in busy, NEW j \in Current(u), NEW i \in EarlierOf[kernel][j]
                PROVE  Done(i)
    BY DEF NoRace
  <1>1. kernel \in Kernels /\ u \in DOMAIN pos
    BY DEF OrderInv, CoreTypeOK
  <1>2. j \in DOMAIN Program[kernel]
    BY <1>1, CurrentIs DEF OrderInv
  <1>3. i \in Before[kernel][j]
    BY <1>1, <1>2, BeforeOrders DEF Orders
  <1>. QED  BY <1>2, <1>3 DEF OrderInv, BeforeOver, Started

(* THEOREM: no pipe is at work on a buffer that an instruction begun later in the
   program reads or overwrites, in any interleaving of the pipes, if the programs are
   well ordered (the flags of the kernels under csrc/ops). *)
THEOREM WellOrderedHasNoRace ==
  ASSUME WellOrdered
  PROVE  CoreSpec => []NoRace
  <1>1. CoreInit => OrderInv
    BY OrderKept
  <1>2. OrderInv /\ [CoreNext]_coreVars => OrderInv'
    BY OrderKept
  <1>3. OrderInv => NoRace
    BY OrderedHasNoRace
  <1>. QED  BY <1>1, <1>2, <1>3, PTL DEF CoreSpec

-----------------------------------------------------------------------------
(* Flags.  The sets of a flag are numbered, and so are the waits. *)
Raising(k, e) == {i \in DOMAIN Program[k] : Program[k][i].op = "set" /\ Program[k][i].event = e}
Taking(k, e) == {i \in DOMAIN Program[k] : Program[k][i].op = "wait" /\ Program[k][i].event = e}

(* A question about the text of the programs: no flag is set more often than it is
   waited for. *)
FlagsPaired ==
  \A k \in Kernels : \A i \in DOMAIN Program[k] :
    Cardinality(Raising(k, Program[k][i].event)) <= Cardinality(Taking(k, Program[k][i].event))

(* A wait that nothing raises its flag for is never over; a unit at work executes. *)
WaitsServed == \A j \in DOMAIN Program[kernel] : Done(j) => j \notin PartnerOf[kernel][j]
BusyExecutes == \A u \in busy : \A j \in Current(u) : OpOf[kernel][j] = "exec"

FlagInv == CoreTypeOK /\ WaitsServed /\ BusyExecutes

LEMMA RankGrows ==
  ASSUME NEW k \in Kernels, NEW i \in DOMAIN Program[k], NEW j \in DOMAIN Program[k],
         Program[k][i].op = Program[k][j].op, Program[k][i].event = Program[k][j].event, i < j
  PROVE  RankOf[k][i] \in Nat /\ RankOf[k][j] \in Nat /\ RankOf[k][i] < RankOf[k][j]
  <1>. DEFINE p == Program[k]
              before == {h \in 1 .. i : p[h].op = p[i].op /\ p[h].event = p[i].event}
              upto == {h \in 1 .. j : p[h].op = p[j].op /\ p[h].event = p[j].event}
  <1>1. Len(p) \in Nat /\ DOMAIN p = 1 .. Len(p) /\ i \in 1 .. Len(p) /\ j \in 1 .. Len(p)
    BY ProgramAssumption
  <1>2. IsFiniteSet(1 .. i) /\ IsFiniteSet(1 .. j)
    BY <1>1, FS_Interval
  <1>3. before \in SUBSET (1 .. i) /\ upto \in SUBSET (1 .. j)
    OBVIOUS
  <1>4. IsFiniteSet(before) /\ IsFiniteSet(upto)
    BY <1>2, <1>3, FS_Subset
  <1>5. Cardinality(before) \in Nat /\ Cardinality(upto) \in Nat
    BY <1>4, FS_CardinalityType
  <1>6. before \in SUBSET upto /\ j \in upto /\ j \notin before
    BY <1>1
  <1>7. Cardinality(before) <= Cardinality(upto) /\ Cardinality(before) # Cardinality(upto)
    BY <1>4, <1>6, FS_Subset
  <1>8. RankOf[k][i] = Cardinality(before) /\ RankOf[k][j] = Cardinality(upto)
    BY DEF RankOf
  <1>. QED  BY <1>5, <1>7, <1>8

LEMMA RankIsOne ==
  ASSUME NEW k \in Kernels, NEW i \in DOMAIN Program[k], NEW j \in DOMAIN Program[k],
         Program[k][i].op = Program[k][j].op, Program[k][i].event = Program[k][j].event,
         RankOf[k][i] = RankOf[k][j]
  PROVE  i = j
  <1>1. i \in Int /\ j \in Int
    BY ProgramAssumption
  <1>2. ~(i < j)
    BY RankGrows
  <1>3. ~(j < i)
    BY RankGrows
  <1>. QED  BY <1>1, <1>2, <1>3

(* The partner of a wait is the set of its number, or the wait itself. *)
LEMMA PartnerIs ==
  ASSUME NEW k \in Kernels, NEW j \in DOMAIN Program[k]
  PROVE  /\ Program[k][j].op # "wait" => PartnerOf[k][j] = {}
         /\ Program[k][j].op = "wait" /\ j \notin PartnerOf[k][j] =>
              \E i \in Raising(k, Program[k][j].event) :
                i \in PartnerOf[k][j] /\ RankOf[k][i] = RankOf[k][j]
  <1>. DEFINE p == Program[k]
              raises == {i \in DOMAIN p : /\ p[i].op = "set" /\ p[i].event = p[j].event
                                          /\ RankOf[k][i] = RankOf[k][j]}
  <1>1. PartnerOf[k][j]
          = IF p[j].op # "wait" THEN {} ELSE IF raises = {} THEN {j} ELSE raises
    BY DEF PartnerOf
  <1>2. ASSUME p[j].op = "wait", j \notin PartnerOf[k][j]
        PROVE  \E i \in Raising(k, p[j].event) :
                 i \in PartnerOf[k][j] /\ RankOf[k][i] = RankOf[k][j]
    <2>1. raises # {} /\ PartnerOf[k][j] = raises
      BY <1>1, <1>2
    <2>2. PICK i \in raises : TRUE
      BY <2>1
    <2>. QED  BY <2>1, <2>2 DEF Raising
  <1>. QED  BY <1>1, <1>2

(* The instruction a unit comes to next is one. *)
LEMMA CurrentIsOne ==
  ASSUME CoreTypeOK, NEW u \in DOMAIN pos, NEW i \in Current(u), NEW j \in Current(u)
  PROVE  i = j
  <1>1. \A h \in Current(u) : /\ h \in DOMAIN Program[kernel] /\ kernel \in Kernels
                             /\ Program[kernel][h].unit = u
                             /\ Place(Program[kernel], h) = pos[u] + 1
    BY CurrentIs, Tables DEF CoreTypeOK
  <1>. QED  BY <1>1, PlaceIsOne

LEMMA BeginServes ==
  ASSUME FlagInv, NEW u \in DOMAIN pos, Begin(u)
  PROVE  WaitsServed' /\ BusyExecutes'
  <1>1. PICK c \in Current(u) : OpOf[kernel][c] = "exec"
    BY DEF Begin
  <1>2. \A j \in Current(u) : j = c
    BY CurrentIsOne DEF FlagInv
  <1>3. /\ \A i : Done(i)' = Done(i)
        /\ \A w : Current(w)' = Current(w)
        /\ kernel' = kernel /\ busy' = busy \union {u}
    BY DEF Begin, Done, Current
  <1>4. WaitsServed'
    BY <1>3 DEF FlagInv, WaitsServed
  <1>5. BusyExecutes'
    BY <1>1, <1>2, <1>3 DEF FlagInv, BusyExecutes
  <1>. QED  BY <1>4, <1>5

LEMMA CompleteServes ==
  ASSUME FlagInv, NEW u \in DOMAIN pos, Complete(u)
  PROVE  WaitsServed' /\ BusyExecutes'
  <1>1. CoreTypeOK /\ CoreTypeOK' /\ kernel' = kernel /\ u \in busy /\ kernel \in Kernels
    BY CompleteTyped DEF FlagInv, Complete, CoreTypeOK
  <1>2. /\ \A i \in DOMAIN Program[kernel] : Done(i)' <=> Done(i) \/ i \in Current(u)
        /\ \A w \in DOMAIN pos : w # u => (Current(w)' = Current(w))
    BY <1>1, MovesOne DEF Complete
  <1>3. \A w \in busy' : w \in busy /\ w # u /\ w \in DOMAIN pos
    BY <1>1 DEF Complete, CoreTypeOK
  <1>4. BusyExecutes'
    BY <1>1, <1>2, <1>3 DEF FlagInv, BusyExecutes
  <1>5. \A j \in Current(u) : j \in DOMAIN Program[kernel] /\ Program[kernel][j].op = "exec"
    BY <1>1, CurrentIs, Tables DEF FlagInv, BusyExecutes
  <1>6. \A j \in Current(u) : PartnerOf[kernel][j] = {}
    BY <1>1, <1>5, PartnerIs
  <1>7. WaitsServed'
    BY <1>1, <1>2, <1>6 DEF FlagInv, WaitsServed
  <1>. QED  BY <1>4, <1>7

LEMMA PassServes ==
  ASSUME FlagInv, NEW u \in DOMAIN pos, Pass(u)
  PROVE  WaitsServed' /\ BusyExecutes'
  <1>1. PICK c \in Current(u) : Ready(u, c)
    BY DEF Pass
  <1>2. /\ CoreTypeOK /\ CoreTypeOK' /\ kernel' = kernel /\ busy' = busy /\ u \notin busy
        /\ kernel \in Kernels
    BY <1>1, PassTyped DEF FlagInv, Pass, Ready, CoreTypeOK
  <1>3. /\ \A i \in DOMAIN Program[kernel] : Done(i)' <=> Done(i) \/ i \in Current(u)
        /\ \A w \in DOMAIN pos : w # u => (Current(w)' = Current(w))
    BY <1>2, MovesOne DEF Pass
  <1>4. \A j \in Current(u) : j = c
    BY <1>2, CurrentIsOne
  <1>5. BusyExecutes'
    BY <1>2, <1>3 DEF FlagInv, BusyExecutes, CoreTypeOK
  <1>6. /\ c \in DOMAIN Program[kernel] /\ PlaceOf[kernel][c] = pos[u] + 1
        /\ UnitOf[kernel][c] = u /\ pos[u] \in Nat
    BY <1>2, CurrentIs
  <1>7. ~Done(c)
    BY <1>6 DEF Done
  <1>8. Needs[kernel][c] = Fences(Program[kernel], c) \union PartnerOf[kernel][c]
    BY <1>2, <1>6 DEF Needs
  <1>9. c \notin PartnerOf[kernel][c]
    BY <1>1, <1>7, <1>8 DEF Ready
  <1>10. WaitsServed'
    BY <1>2, <1>3, <1>4, <1>9 DEF FlagInv, WaitsServed
  <1>. QED  BY <1>5, <1>10

LEMMA FlagsKept ==
  /\ CoreInit => FlagInv
  /\ FlagInv /\ [CoreNext]_coreVars => FlagInv'
  <1>1. ASSUME CoreInit PROVE FlagInv
    <2>1. CoreTypeOK
      BY <1>1, StartTyped DEF CoreInit
    <2>2. \A i \in DOMAIN Program[kernel] : ~Done(i)
      <3>1. \A i \in DOMAIN Program[kernel] :
              UnitOf[kernel][i] \in DOMAIN LengthOf[kernel] /\ PlaceOf[kernel][i] >= 1
                /\ PlaceOf[kernel][i] \in Int
        BY <1>1, Tables DEF CoreInit
      <3>. QED  BY <1>1, <3>1 DEF CoreInit, Done, AtStart
    <2>. QED  BY <1>1, <2>1, <2>2 DEF CoreInit, FlagInv, WaitsServed, BusyExecutes
  <1>2. ASSUME FlagInv, [CoreNext]_coreVars PROVE FlagInv'
    <2>1. CASE Step
      <3>1. PICK u \in DOMAIN pos : Begin(u) \/ Complete(u) \/ Pass(u)
        BY <2>1 DEF Step
      <3>2. CoreTypeOK'
        BY <1>2, <3>1, BeginTyped, CompleteTyped, PassTyped DEF FlagInv
      <3>3. WaitsServed' /\ BusyExecutes'
        BY <1>2, <3>1, BeginServes, CompleteServes, PassServes
      <3>. QED  BY <3>2, <3>3 DEF FlagInv
    <2>2. ASSUME NEW k \in Kernels, Launch(k)
          PROVE  FlagInv'
      <3>1. CoreTypeOK'
        BY <2>2, LaunchTyped
      <3>2. \A i \in DOMAIN Program[kernel'] : ~Done(i)'
        <4>1. \A i \in DOMAIN Program[k] :
                UnitOf[k][i] \in DOMAIN LengthOf[k] /\ PlaceOf[k][i] >= 1 /\ PlaceOf[k][i] \in Int
          BY Tables
        <4>. QED  BY <2>2, <4>1 DEF Done, AtStart, Launch
      <3>3. busy' = {}
        BY <2>2 DEF Launch
      <3>. QED  BY <3>1, <3>2, <3>3 DEF FlagInv, WaitsServed, BusyExecutes
    <2>3. CASE UNCHANGED coreVars
      BY <1>2, <2>3
      DEF coreVars, FlagInv, CoreTypeOK, WaitsServed, BusyExecutes, Done, Current
    <2>. QED  BY <1>2, <2>1, <2>2, <2>3 DEF CoreNext
  <1>. QED  BY <1>1, <1>2

(* When all waits of a flag have found a set, there are no sets but theirs. *)
LEMMA NoneLeft ==
  ASSUME FlagsPaired, FlagInv, Finished
  PROVE  Left[kernel] = {}
  <1>. DEFINE p == Program[kernel]
  <1>1. kernel \in Kernels /\ DOMAIN p = 1 .. Len(p) /\ Len(p) \in Nat
    BY ProgramAssumption DEF FlagInv, CoreTypeOK
  <1>2. \A j \in DOMAIN p : Done(j)
    <2>. TAKE j \in DOMAIN p
    <2>1. UnitOf[kernel][j] \in DOMAIN pos
          /\ PlaceOf[kernel][j] \in 1 .. LengthOf[kernel][UnitOf[kernel][j]]
          /\ LengthOf[kernel][UnitOf[kernel][j]] \in Nat
      BY <1>1, Tables DEF FlagInv, CoreTypeOK
    <2>. QED  BY <2>1 DEF Finished, Done
  <1>3. ASSUME NEW i \in DOMAIN p, p[i].op = "set"
        PROVE  \E j \in DOMAIN p : i \in PartnerOf[kernel][j]
    <2>. DEFINE e == p[i].event
                W == Taking(kernel, e)
                R == Raising(kernel, e)
                Takes(j, r) == r \in PartnerOf[kernel][j] /\ RankOf[kernel][r] = RankOf[kernel][j]
                f == [j \in W |-> CHOOSE r \in R : Takes(j, r)]
    <2>1. \A j \in W : j \in DOMAIN p /\ p[j].op = "wait" /\ p[j].event = e
      BY DEF Taking
    <2>2. \A j \in W : \E r \in R : Takes(j, r)
      BY <1>1, <1>2, <2>1, PartnerIs DEF FlagInv, WaitsServed
    <2>3. \A j \in W : f[j] \in R /\ Takes(j, f[j])
      <3>. TAKE j \in W
      <3>1. f[j] = CHOOSE r \in R : Takes(j, r)
        OBVIOUS
      <3>2. \E r \in R : Takes(j, r)
        BY <2>2
      <3>. HIDE DEF Takes, f, W, R
      <3>. QED  BY <3>1, <3>2, Zenon
    <2>4. DOMAIN f = W
      OBVIOUS
    <2>. HIDE DEF f
    <2>5. \A j, h \in W : f[j] = f[h] => j = h
      <3>1. \A j, h \in W : f[j] = f[h] => RankOf[kernel][j] = RankOf[kernel][h]
        BY <2>3
      <3>2. \A j, h \in W : p[j].op = p[h].op /\ p[j].event = p[h].event
        BY <2>1
      <3>. QED  BY <1>1, <2>1, <3>1, <3>2, RankIsOne
    <2>6. f \in Injection(W, R)
      <3>1. f \in [W -> R]
        <4>1. f = [j \in W |-> f[j]]
          BY <2>4 DEF f
        <4>. QED  BY <2>3, <4>1
      <3>. QED  BY <2>4, <2>5, <3>1 DEF Injection, IsInjective
    <2>7. IsFiniteSet(R) /\ IsFiniteSet(W)
      <3>1. IsFiniteSet(DOMAIN p)
        BY <1>1, FS_Interval
      <3>. QED  BY <3>1, FS_Subset DEF Raising, Taking
    <2>8. Cardinality(R) <= Cardinality(W) /\ Cardinality(R) \in Nat /\ Cardinality(W) \in Nat
      BY <1>1, <2>7, FS_CardinalityType DEF FlagsPaired
    <2>9. f \in Surjection(W, R)
      <3>1. /\ Cardinality(W) <= Cardinality(R)
            /\ Cardinality(W) = Cardinality(R) <=> f \in Surjection(W, R)
        BY <2>6, <2>7, FS_Injection
      <3>. QED  BY <2>8, <3>1
    <2>10. i \in R
      BY <1>3 DEF Raising
    <2>11. PICK j \in W : f[j] = i
      BY <2>9, <2>10 DEF Surjection
    <2>. QED  BY <2>1, <2>3, <2>11
  <1>4. Left[kernel]
          = {i \in DOMAIN p : p[i].op = "set"} \ UNION {PartnerOf[kernel][j] : j \in DOMAIN p}
    BY <1>1 DEF Left
  <1>. QED  BY <1>3, <1>4

(* THEOREM: a kernel that comes to its end has taken every flag it raised, in any
   interleaving of the pipes, if no flag is set more often in its program than it is
   waited for (the flags preset before a loop and taken behind it, as in
   CubeForward.h:870). *)
THEOREM PairedTakesFlags ==
  ASSUME FlagsPaired
  PROVE  CoreSpec => []FlagsTaken
  <1>1. FlagInv => FlagsTaken
    BY NoneLeft DEF FlagsTaken
  <1>. QED  BY <1>1, FlagsKept, PTL DEF CoreSpec

-----------------------------------------------------------------------------
(* The refinement.  What the abstract variable done stands for: *)
Over == {i \in ExecOf[kernel] : Done(i)}

(* What an instruction depends on is executed; flags touch no buffer. *)
LEMMA DependsOnExecuted ==
  ASSUME NEW k \in Kernels, NEW j \in DOMAIN Program[k], NEW i \in EarlierOf[k][j]
  PROVE  i \in ExecOf[k]
  <1>. DEFINE p == Program[k]
  <1>1. /\ Len(p) \in Nat /\ DOMAIN p = 1 .. Len(p)
        /\ \A h \in DOMAIN p : p[h].op # "exec" => p[h].reads = {} /\ p[h].writes = {}
    BY ProgramAssumption
  <1>2. EarlierOf[k][j] = Earlier(p, Unordered[k], j)
    BY DEF EarlierOf
  <1>3. i \in 1 .. j - 1 /\ Contended(p, i, j) # {}
    BY <1>2 DEF Earlier
  <1>4. i \in DOMAIN p
    BY <1>1, <1>3
  <1>5. p[i].op = "exec"
    BY <1>1, <1>3, <1>4 DEF Contended
  <1>. QED  BY <1>4, <1>5 DEF ExecOf

LEMMA StepExecutes ==
  ASSUME WellOrdered, OrderInv, NEW u \in DOMAIN pos,
         CoreTypeOK', kernel' = kernel, pos' = [pos EXCEPT ![u] = @ + 1],
         NEW c \in Current(u), \A i \in Before[kernel][c] : Done(i)
  PROVE  \/ Over' = Over
         \/ /\ c \in Over' \ Over
            /\ c \in ExecOf[kernel]
            /\ EarlierOf[kernel][c] \subseteq Over
            /\ Over' = Over \union {c}
  <1>1. CoreTypeOK /\ kernel \in Kernels
    BY DEF OrderInv, CoreTypeOK
  <1>2. \A i \in DOMAIN Program[kernel] : Done(i)' <=> Done(i) \/ i \in Current(u)
    BY <1>1, MovesOne
  <1>3. c \in DOMAIN Program[kernel] /\ ~Done(c) /\ \A j \in Current(u) : j = c
    <2>1. \A j \in Current(u) : /\ j \in DOMAIN Program[kernel]
                               /\ UnitOf[kernel][j] = u
                               /\ PlaceOf[kernel][j] = pos[u] + 1
                               /\ pos[u] \in Nat
      BY <1>1, CurrentIs
    <2>2. \A j \in Current(u) : /\ Program[kernel][j].unit = u
                               /\ Place(Program[kernel], j) = pos[u] + 1
      BY <1>1, <2>1, Tables
    <2>. QED  BY <1>1, <2>1, <2>2, PlaceIsOne DEF Done
  <1>4. ExecOf[kernel] = {i \in DOMAIN Program[kernel] : Program[kernel][i].op = "exec"}
    BY <1>1 DEF ExecOf
  <1>5. \A i \in ExecOf[kernel] : Done(i)' <=> Done(i) \/ i = c
    BY <1>2, <1>3, <1>4
  <1>6. Over' = {i \in ExecOf[kernel] : Done(i) \/ i = c}
    BY <1>5 DEF Over
  <1>7. CASE c \notin ExecOf[kernel]
    BY <1>6, <1>7 DEF Over
  <1>8. CASE c \in ExecOf[kernel]
    <2>1. EarlierOf[kernel][c] \subseteq ExecOf[kernel]
      BY <1>1, <1>3, DependsOnExecuted
    <2>2. EarlierOf[kernel][c] \subseteq Before[kernel][c]
      BY <1>1, <1>3, BeforeOrders DEF Orders
    <2>3. EarlierOf[kernel][c] \subseteq Over
      BY <2>1, <2>2 DEF Over
    <2>. QED  BY <1>3, <1>6, <1>8, <2>3 DEF Over
  <1>. QED  BY <1>7, <1>8

Executed == UNION {ExecUpto[kernel][u][pos[u]] : u \in DOMAIN pos}

LEMMA ExecutedOver ==
  /\ CoreTypeOK => Executed = Over
  /\ CoreTypeOK' => Executed' = Over'
  BY ExecutedIs DEF CoreTypeOK, Executed, Over, Done

(* THEOREM: if the programs are well ordered, a core with its pipes and its flags
   implements AscendDataflow: every instruction is executed once, after those it
   depends on, and a kernel begins when the one before is over. *)
THEOREM WellOrderedInOrder ==
  ASSUME WellOrdered
  PROVE  CoreSpec => InOrder
  <1>1. CoreInit => OrderInv
    BY OrderKept
  <1>2. OrderInv /\ [CoreNext]_coreVars => OrderInv'
    BY OrderKept
  <1>3. OrderInv => Executed = Over
    BY ExecutedOver DEF OrderInv
  <1>4. OrderInv' => Executed' = Over'
    BY ExecutedOver DEF OrderInv
  <1>5. CoreInit => Order!Init
    <2>. SUFFICES ASSUME CoreInit PROVE kernel \in Kernels /\ Executed = {}
      BY DEF Order!Init, Executed
    <2>1. \A i \in DOMAIN Program[kernel] : ~Done(i)
      <3>1. kernel \in Kernels /\ pos = AtStart(kernel)
        BY DEF CoreInit
      <3>2. \A i \in DOMAIN Program[kernel] :
              /\ UnitOf[kernel][i] \in DOMAIN LengthOf[kernel]
              /\ PlaceOf[kernel][i] >= 1 /\ PlaceOf[kernel][i] \in Int
        BY <3>1, Tables
      <3>. QED  BY <3>1, <3>2 DEF Done, AtStart
    <2>2. Over = {}
      BY <2>1 DEF Over, ExecOf, CoreInit
    <2>. QED  BY <1>1, <1>3, <2>2 DEF CoreInit
  <1>6. OrderInv /\ OrderInv' /\ [CoreNext]_coreVars => [Order!Next]_(Order!vars)
    <2>. SUFFICES ASSUME OrderInv, OrderInv', [CoreNext]_coreVars
                  PROVE  [Order!Next]_(Order!vars)
      OBVIOUS
    <2>1. Executed = Over /\ Executed' = Over'
      BY <1>3, <1>4
    <2>2. CASE Step
      <3>1. PICK u \in DOMAIN pos : Begin(u) \/ Complete(u) \/ Pass(u)
        BY <2>2 DEF Step
      <3>2. CASE Begin(u)
        BY <3>2 DEF Begin, Order!vars
      <3>3. CASE Complete(u) \/ Pass(u)
        <4>1. kernel' = kernel /\ pos' = [pos EXCEPT ![u] = @ + 1]
          BY <3>3 DEF Complete, Pass
        <4>2. PICK c \in Current(u) : \A i \in Before[kernel][c] : Done(i)
          <5>1. CASE Pass(u)
            <6>1. PICK c \in Current(u) : Ready(u, c)
              BY <5>1 DEF Pass
            <6>. QED  BY <6>1, ReadyFinds
          <5>2. CASE Complete(u)
            <6>1. Current(u) # {}
              BY <5>2 DEF Complete, OrderInv, BusyWithOne
            <6>2. \A c \in Current(u) : c \in DOMAIN Program[kernel] /\ Started(c)
              BY <5>2, CurrentIs DEF Complete, Started, OrderInv
            <6>. QED  BY <6>1, <6>2 DEF OrderInv, BeforeOver
          <5>. QED  BY <3>3, <5>1, <5>2
        <4>3. \/ Over' = Over
              \/ /\ c \in Over' \ Over
                 /\ c \in ExecOf[kernel]
                 /\ EarlierOf[kernel][c] \subseteq Over
                 /\ Over' = Over \union {c}
          BY <4>1, <4>2, StepExecutes DEF OrderInv
        <4>. QED  BY <2>1, <4>1, <4>3 DEF Executed, Order!vars, Order!Next, Order!Execute
      <3>. QED  BY <3>1, <3>2, <3>3
    <2>3. CASE \E k \in Kernels : Launch(k)
      <3>1. PICK k \in Kernels : Launch(k)
        BY <2>3
      <3>2. Over = ExecOf[kernel]
        <4>1. kernel \in Kernels /\ DOMAIN pos = DOMAIN LengthOf[kernel]
          BY DEF OrderInv, CoreTypeOK
        <4>2. \A i \in ExecOf[kernel] : i \in DOMAIN Program[kernel]
          BY <4>1 DEF ExecOf
        <4>. QED  BY <3>1, <4>1, <4>2, Tables DEF Over, Done, Launch, Finished
      <3>3. Over' = {}
        <4>1. \A i \in DOMAIN Program[k] :
                /\ UnitOf[k][i] \in DOMAIN LengthOf[k]
                /\ PlaceOf[k][i] >= 1 /\ PlaceOf[k][i] \in Int
          BY Tables
        <4>2. \A i \in ExecOf[k] : i \in DOMAIN Program[k]
          BY DEF ExecOf
        <4>. QED  BY <3>1, <4>1, <4>2 DEF Over, Done, AtStart, Launch
      <3>4. kernel' \in Kernels
        BY <3>1 DEF Launch
      <3>. QED  BY <2>1, <3>2, <3>3, <3>4 DEF Executed, Order!Next, Order!Launch
    <2>4. CASE UNCHANGED coreVars
      BY <2>4 DEF coreVars, Order!vars
    <2>. QED  BY <2>2, <2>3, <2>4 DEF CoreNext
  <1>. QED  BY <1>1, <1>2, <1>5, <1>6, PTL DEF CoreSpec, InOrder, Order!Spec

-----------------------------------------------------------------------------
(* Calls. *)
Distinct(s) == \A g, h \in DOMAIN s : s[g] = s[h] => g = h

(* The inductive invariant: in addition to the types, the places are sequences of
   calls, and one kernel runs at most. *)
IInv ==
  /\ TypeOK
  /\ queue \in Seq(Calls)
  /\ stream \in Seq(Calls)
  /\ current = <<>> \/ \E i \in Calls : current = <<i>>

-----------------------------------------------------------------------------
(* Queues without repetition. *)

LEMMA Appended ==
  ASSUME NEW T, NEW s \in Seq(T), NEW x \in T, Distinct(s), x \notin ToSet(s)
  PROVE  /\ Append(s, x) \in Seq(T)
         /\ Distinct(Append(s, x))
         /\ ToSet(Append(s, x)) = ToSet(s) \union {x}
  <1>. DEFINE t == Append(s, x)
  <1>1. /\ t \in Seq(T) /\ Len(t) = Len(s) + 1 /\ Len(s) \in Nat
        /\ \A i \in 1 .. Len(s) : t[i] = s[i]
        /\ t[Len(s) + 1] = x
    BY AppendProperties, LenProperties
  <1>2. DOMAIN s = 1 .. Len(s) /\ DOMAIN t = 1 .. Len(s) + 1
    BY <1>1, LenProperties
  <1>. HIDE DEF t
  <1>3. \A i \in 1 .. Len(s) : s[i] # x
    BY <1>2 DEF ToSet
  <1>4. \A i \in 1 .. Len(s) + 1 : i \in 1 .. Len(s) \/ i = Len(s) + 1
    BY <1>1
  <1>5. Distinct(t)
    BY <1>1, <1>2, <1>3, <1>4 DEF Distinct
  <1>6. ToSet(t) = ToSet(s) \union {x}
    <2>1. ToSet(t) \subseteq ToSet(s) \union {x}
      BY <1>1, <1>2, <1>4 DEF ToSet
    <2>2. ToSet(s) \union {x} \subseteq ToSet(t)
      BY <1>1, <1>2 DEF ToSet
    <2>. QED  BY <2>1, <2>2
  <1>. QED  BY <1>1, <1>5, <1>6 DEF t

LEMMA Dropped ==
  ASSUME NEW T, NEW s \in Seq(T), s # <<>>, Distinct(s)
  PROVE  /\ Tail(s) \in Seq(T)
         /\ Distinct(Tail(s))
         /\ Head(s) \in ToSet(s) /\ Head(s) \in T
         /\ ToSet(Tail(s)) = ToSet(s) \ {Head(s)}
  <1>. DEFINE t == Tail(s)
  <1>1. /\ t \in Seq(T) /\ Len(t) = Len(s) - 1 /\ Len(s) \in Nat \ {0}
        /\ \A i \in 1 .. Len(t) : t[i] = s[i + 1]
    BY HeadTailProperties, EmptySeq
  <1>2. DOMAIN s = 1 .. Len(s) /\ DOMAIN t = 1 .. Len(s) - 1
    BY <1>1, LenProperties
  <1>. HIDE DEF t
  <1>3. Head(s) = s[1] /\ 1 \in DOMAIN s /\ Head(s) \in T
    BY <1>1, <1>2, HeadTailProperties
  <1>4. Distinct(t)
    BY <1>1, <1>2 DEF Distinct
  <1>5. ToSet(t) = ToSet(s) \ {Head(s)}
    <2>1. ASSUME NEW i \in DOMAIN t PROVE t[i] \in ToSet(s) \ {Head(s)}
      <3>1. i + 1 \in DOMAIN s /\ i + 1 # 1 /\ t[i] = s[i + 1]
        BY <1>1, <1>2
      <3>. QED  BY <1>3, <3>1 DEF ToSet, Distinct
    <2>2. ASSUME NEW i \in DOMAIN s, s[i] # Head(s) PROVE s[i] \in ToSet(t)
      <3>1. i - 1 \in DOMAIN t /\ t[i - 1] = s[i]
        BY <1>1, <1>2, <1>3, <2>2
      <3>. QED  BY <3>1 DEF ToSet
    <2>. QED  BY <2>1, <2>2 DEF ToSet
  <1>. QED  BY <1>1, <1>3, <1>4, <1>5 DEF t, ToSet

LEMMA OneIs ==
  ASSUME NEW x
  PROVE  ToSet(<<x>>) = {x} /\ Distinct(<<x>>)
  BY DEF ToSet, Distinct

LEMMA NoneIs == ToSet(<<>>) = {} /\ Distinct(<<>>)
  BY DEF ToSet, Distinct

-----------------------------------------------------------------------------
(* What the device does are steps of the machine the kernels are written for. *)
LEMMA CallKernels ==
  ASSUME script \in DOMAIN Scripts, status \in [DOMAIN Scripts[script].calls -> Statuses],
         NEW i \in Calls
  PROVE  Call(i).kernel \in Kernels
  BY ScriptAssumption DEF Calls, Call

LEMMA InitRuns == Init => CoreInit
  BY ScriptAssumption DEF Init, CoreInit

LEMMA NextRuns ==
  ASSUME IInv, [Next]_vars
  PROVE  [CoreNext]_coreVars
  <1>1. CASE StartKernel
    <2>1. Head(stream) \in Calls
      BY <1>1, HeadTailProperties DEF StartKernel, IInv
    <2>2. Call(Head(stream)).kernel \in Kernels
      BY <2>1, CallKernels DEF IInv, TypeOK
    <2>. QED  BY <1>1, <2>2 DEF StartKernel, CoreNext
  <1>2. CASE RunKernel
    BY <1>2 DEF RunKernel, CoreNext
  <1>3. CASE RunTask \/ FailTask \/ EndKernel
    BY <1>3 DEF RunTask, FailTask, EndKernel, coreVars
  <1>4. CASE \E i \in Calls : \/ RaiseAtOnce(i) \/ RaiseInConversion(i) \/ RaiseInTiling(i)
                             \/ RaiseInAllocation(i) \/ Enqueue(i)
    BY <1>4 DEF RaiseAtOnce, RaiseInConversion, RaiseInTiling, RaiseInAllocation, Enqueue,
       coreVars
  <1>5. CASE UNCHANGED vars
    BY <1>5 DEF vars, coreVars
  <1>. QED  BY <1>1, <1>2, <1>3, <1>4, <1>5 DEF Next

-----------------------------------------------------------------------------
(* Nothing moves on a core whose kernel is over. *)
LEMMA FinishedStops ==
  ASSUME CoreTypeOK, Finished
  PROVE  ~Step
  <1>1. \A u \in DOMAIN pos : pos[u] = LengthOf[kernel][u] /\ LengthOf[kernel][u] \in Nat
    BY Tables DEF CoreTypeOK, Finished
  <1>2. \A u \in DOMAIN pos : u \notin busy
    BY <1>1 DEF CoreTypeOK
  <1>3. \A u \in DOMAIN pos : Current(u) = {}
    <2>. SUFFICES ASSUME NEW u \in DOMAIN pos, NEW i \in Current(u) PROVE FALSE
      OBVIOUS
    <2>1. PlaceOf[kernel][i] = pos[u] + 1 /\ UnitOf[kernel][i] = u /\ i \in DOMAIN Program[kernel]
      BY CurrentIs
    <2>2. PlaceOf[kernel][i] \in 1 .. LengthOf[kernel][u]
      BY <2>1, Tables DEF CoreTypeOK
    <2>. QED  BY <1>1, <2>1, <2>2
  <1>. QED  BY <1>2, <1>3 DEF Step, Begin, Complete, Pass

LEMMA CoreKept ==
  ASSUME IInv, [Next]_vars
  PROVE  CoreTypeOK'
  <1>1. [CoreNext]_coreVars /\ CoreTypeOK
    BY NextRuns DEF IInv, TypeOK
  <1>2. CASE Step
    BY <1>1, <1>2, BeginTyped, CompleteTyped, PassTyped DEF Step
  <1>3. CASE \E k \in Kernels : Launch(k)
    BY <1>3, LaunchTyped
  <1>4. CASE UNCHANGED coreVars
    BY <1>1, <1>4 DEF coreVars, CoreTypeOK
  <1>. QED  BY <1>1, <1>2, <1>3, <1>4 DEF CoreNext

(* The places of the calls as facts of their own. *)
Places ==
  /\ script \in DOMAIN Scripts
  /\ status \in [DOMAIN Scripts[script].calls -> Statuses]
  /\ Calls = DOMAIN Scripts[script].calls
  /\ hugeMem \in BOOLEAN
  /\ Distinct(queue) /\ Distinct(stream)
  /\ ToSet(queue) = {i \in Calls : status[i] = "queued"}
  /\ ToSet(stream) = {i \in Calls : status[i] = "launched"}
  /\ ToSet(current) = {i \in Calls : status[i] = "running"}
  /\ ToSet(queue) \subseteq held
  /\ held \subseteq {i \in Calls : status[i] \in {"queued", "rejected", "failed"}}

(* The running call has its kernel, and an idle core has finished its own. *)
Runs ==
  /\ current # <<>> => kernel = Call(current[1]).kernel
  /\ current = <<>> => Finished

Queued == queue \in Seq(Calls)
Streamed == stream \in Seq(Calls)
OneRuns == current = <<>> \/ \E i \in Calls : current = <<i>>

LEMMA IInvParts ==
  IInv => CoreTypeOK /\ Places /\ Runs /\ Queued /\ Streamed /\ OneRuns
  BY DEF IInv, TypeOK, Places, Runs, Distinct, Calls, Queued, Streamed, OneRuns

LEMMA PartsIInv ==
  ASSUME CoreTypeOK', Places', Runs', Queued', Streamed', OneRuns'
  PROVE  IInv'
  <1>1. Distinct(current)'
    BY OneIs, NoneIs DEF OneRuns, Distinct
  <1>. QED  BY <1>1 DEF IInv, TypeOK, Places, Runs, Distinct, Queued, Streamed, OneRuns

LEMMA RaiseKeeps ==
  ASSUME IInv, CoreTypeOK', NEW i \in Calls,
         \/ RaiseAtOnce(i) \/ RaiseInConversion(i)
         \/ RaiseInTiling(i) \/ RaiseInAllocation(i)
  PROVE  IInv'
  <1>1. Places /\ Runs
    BY IInvParts
  <1>2. /\ UNCHANGED <<coreVars, script, queue, stream, current>>
        /\ status[i] = "new" /\ status' = [status EXCEPT ![i] = "rejected"]
        /\ hugeMem' \in BOOLEAN
        /\ held' \in {held, held \union {i}}
    BY <1>1 DEF RaiseAtOnce, RaiseInConversion, RaiseInTiling, RaiseInAllocation, Prepared,
       Next1, Rejected, Kept, SetsUp, HasFunction, Places
  <1>3. Calls' = Calls
    BY <1>2 DEF Calls
  <1>4. /\ status' \in [Calls -> Statuses]
        /\ \A s \in {"queued", "launched", "running"} :
             {h \in Calls : status'[h] = s} = {h \in Calls : status[h] = s}
        /\ held' \subseteq {h \in Calls : status'[h] \in {"queued", "rejected", "failed"}}
    BY <1>1, <1>2 DEF Places, Statuses
  <1>5. Places'
    BY <1>1, <1>2, <1>3, <1>4 DEF Places, Distinct
  <1>6. Runs'
    BY <1>1, <1>2 DEF Runs, Call, Finished, coreVars
  <1>7. Queued' /\ Streamed' /\ OneRuns'
    BY <1>2, <1>3, IInvParts DEF Queued, Streamed, OneRuns
  <1>. QED  BY <1>5, <1>6, <1>7, PartsIInv

LEMMA EnqueueKeeps ==
  ASSUME IInv, CoreTypeOK', NEW i \in Calls, Enqueue(i)
  PROVE  IInv'
  <1>1. Places /\ Runs /\ Queued /\ Streamed /\ OneRuns
    BY IInvParts
  <1>2. /\ UNCHANGED <<coreVars, script, stream, current>>
        /\ status[i] = "new" /\ status' = [status EXCEPT ![i] = "queued"]
        /\ hugeMem' \in BOOLEAN
        /\ held' = held \union {i}
        /\ queue' = Append(queue, i)
    BY DEF Enqueue, Prepared, Next1, Kept, SetsUp, HasFunction
  <1>3. Calls' = Calls /\ i \notin ToSet(queue)
    BY <1>1, <1>2 DEF Calls, Places
  <1>4. /\ queue' \in Seq(Calls)
        /\ Distinct(queue')
        /\ ToSet(queue') = ToSet(queue) \union {i}
    BY <1>1, <1>2, <1>3, Appended DEF Queued, Places
  <1>5. /\ status' \in [Calls -> Statuses]
        /\ \A s \in {"launched", "running"} :
             {h \in Calls : status'[h] = s} = {h \in Calls : status[h] = s}
        /\ {h \in Calls : status'[h] = "queued"} = {h \in Calls : status[h] = "queued"} \union {i}
        /\ held' \subseteq {h \in Calls : status'[h] \in {"queued", "rejected", "failed"}}
    BY <1>1, <1>2 DEF Places, Statuses
  <1>6. Places'
    BY <1>1, <1>2, <1>3, <1>4, <1>5 DEF Places, Distinct
  <1>7. Runs'
    BY <1>1, <1>2 DEF Runs, Call, Finished, coreVars
  <1>8. Queued' /\ Streamed' /\ OneRuns'
    BY <1>1, <1>2, <1>3, <1>4 DEF Queued, Streamed, OneRuns
  <1>. QED  BY <1>6, <1>7, <1>8, PartsIInv

LEMMA TaskKeeps ==
  ASSUME IInv, CoreTypeOK', RunTask \/ FailTask
  PROVE  IInv'
  <1>. DEFINE i == Head(queue)
  <1>1. Places /\ Runs /\ Queued /\ Streamed /\ OneRuns
    BY IInvParts
  <1>2. queue # <<>> /\ queue' = Tail(queue) /\ UNCHANGED <<coreVars, script, hugeMem, current>>
    BY DEF RunTask, FailTask
  <1>3. Calls' = Calls
    <2>1. DOMAIN status' = DOMAIN status
      BY DEF RunTask, FailTask
    <2>. QED  BY <2>1 DEF Calls
  <1>4. /\ queue' \in Seq(Calls) /\ Distinct(queue')
        /\ i \in ToSet(queue) /\ i \in Calls
        /\ ToSet(queue') = ToSet(queue) \ {i}
    BY <1>1, <1>2, Dropped DEF Queued, Places
  <1>5. status[i] = "queued" /\ i \notin ToSet(stream)
    BY <1>1, <1>4 DEF Places
  <1>. HIDE DEF i
  <1>6. CASE RunTask
    <2>1. /\ status' = [status EXCEPT ![i] = "launched"]
          /\ stream' = Append(stream, i)
          /\ held' = held \ {i}
      BY <1>6 DEF RunTask, i
    <2>2. /\ stream' \in Seq(Calls) /\ Distinct(stream')
          /\ ToSet(stream') = ToSet(stream) \union {i}
      BY <1>1, <1>4, <1>5, <2>1, Appended DEF Streamed, Places
    <2>3. /\ status' \in [Calls -> Statuses]
          /\ {h \in Calls : status'[h] = "running"} = {h \in Calls : status[h] = "running"}
          /\ {h \in Calls : status'[h] = "queued"} = {h \in Calls : status[h] = "queued"} \ {i}
          /\ {h \in Calls : status'[h] = "launched"}
               = {h \in Calls : status[h] = "launched"} \union {i}
          /\ held' \subseteq {h \in Calls : status'[h] \in {"queued", "rejected", "failed"}}
      BY <1>1, <1>4, <1>5, <2>1 DEF Places, Statuses
    <2>4. Places'
      BY <1>1, <1>2, <1>3, <1>4, <2>1, <2>2, <2>3 DEF Places, Distinct
    <2>5. Runs'
      BY <1>1, <1>2 DEF Runs, Call, Finished, coreVars
    <2>6. Queued' /\ Streamed' /\ OneRuns'
      BY <1>1, <1>2, <1>3, <1>4, <2>2 DEF Queued, Streamed, OneRuns
    <2>. QED  BY <2>4, <2>5, <2>6, PartsIInv
  <1>7. CASE FailTask
    <2>1. status' = [status EXCEPT ![i] = "failed"] /\ UNCHANGED <<stream, held>>
      BY <1>7 DEF FailTask, i
    <2>2. /\ status' \in [Calls -> Statuses]
          /\ \A s \in {"launched", "running"} :
               {h \in Calls : status'[h] = s} = {h \in Calls : status[h] = s}
          /\ {h \in Calls : status'[h] = "queued"} = {h \in Calls : status[h] = "queued"} \ {i}
          /\ held' \subseteq {h \in Calls : status'[h] \in {"queued", "rejected", "failed"}}
      BY <1>1, <1>4, <1>5, <2>1 DEF Places, Statuses
    <2>3. Places'
      BY <1>1, <1>2, <1>3, <1>4, <2>1, <2>2 DEF Places, Distinct
    <2>4. Runs'
      BY <1>1, <1>2 DEF Runs, Call, Finished, coreVars
    <2>5. Queued' /\ Streamed' /\ OneRuns'
      BY <1>1, <1>2, <1>3, <1>4, <2>1 DEF Queued, Streamed, OneRuns
    <2>. QED  BY <2>3, <2>4, <2>5, PartsIInv
  <1>. QED  BY <1>6, <1>7

LEMMA StartKeeps ==
  ASSUME IInv, CoreTypeOK', StartKernel
  PROVE  IInv'
  <1>. DEFINE i == Head(stream)
  <1>1. Places /\ Runs /\ Queued /\ Streamed /\ OneRuns
    BY IInvParts
  <1>2. /\ current = <<>> /\ stream # <<>> /\ stream' = Tail(stream) /\ current' = <<i>>
        /\ status' = [status EXCEPT ![i] = "running"]
        /\ UNCHANGED <<script, hugeMem, held, queue>>
        /\ kernel' = Call(i).kernel
    BY DEF StartKernel, Launch
  <1>3. Calls' = Calls
    BY <1>2 DEF Calls
  <1>4. /\ stream' \in Seq(Calls) /\ Distinct(stream')
        /\ i \in ToSet(stream) /\ i \in Calls
        /\ ToSet(stream') = ToSet(stream) \ {i}
    BY <1>1, <1>2, Dropped DEF Streamed, Places
  <1>5. status[i] = "launched" /\ ToSet(current) = {} /\ ToSet(current') = {i}
    BY <1>1, <1>2, <1>4, OneIs, NoneIs DEF Places
  <1>. HIDE DEF i
  <1>6. /\ status' \in [Calls -> Statuses]
        /\ {h \in Calls : status'[h] = "queued"} = {h \in Calls : status[h] = "queued"}
        /\ {h \in Calls : status'[h] = "launched"} = {h \in Calls : status[h] = "launched"} \ {i}
        /\ {h \in Calls : status'[h] = "running"}
             = {h \in Calls : status[h] = "running"} \union {i}
        /\ held' \subseteq {h \in Calls : status'[h] \in {"queued", "rejected", "failed"}}
    BY <1>1, <1>2, <1>4, <1>5 DEF Places, Statuses
  <1>7. Places'
    BY <1>1, <1>2, <1>3, <1>4, <1>5, <1>6 DEF Places, Distinct
  <1>8. Runs'
    <2>1. current' # <<>> /\ current'[1] = i
      BY <1>2
    <2>. QED  BY <1>2, <2>1 DEF Runs, Call
  <1>9. Queued' /\ Streamed' /\ OneRuns'
    BY <1>1, <1>2, <1>3, <1>4 DEF Queued, Streamed, OneRuns
  <1>. QED  BY <1>7, <1>8, <1>9, PartsIInv

LEMMA EndKeeps ==
  ASSUME IInv, CoreTypeOK', EndKernel
  PROVE  IInv'
  <1>1. Places /\ Runs /\ Queued /\ Streamed /\ OneRuns
    BY IInvParts
  <1>2. /\ current # <<>> /\ current' = <<>> /\ Finished
        /\ status' = [status EXCEPT ![current[1]] = "finished"]
        /\ UNCHANGED <<coreVars, script, hugeMem, held, queue, stream>>
    BY DEF EndKernel
  <1>3. PICK i \in Calls : current = <<i>>
    BY <1>1, <1>2 DEF OneRuns
  <1>4. current[1] = i /\ ToSet(current) = {i} /\ ToSet(current') = {}
    BY <1>2, <1>3, OneIs, NoneIs
  <1>5. Calls' = Calls /\ status[i] = "running"
    BY <1>1, <1>2, <1>4 DEF Calls, Places
  <1>6. /\ status' \in [Calls -> Statuses]
        /\ \A s \in {"queued", "launched"} :
             {h \in Calls : status'[h] = s} = {h \in Calls : status[h] = s}
        /\ {h \in Calls : status'[h] = "running"} = {h \in Calls : status[h] = "running"} \ {i}
        /\ held' \subseteq {h \in Calls : status'[h] \in {"queued", "rejected", "failed"}}
    BY <1>1, <1>2, <1>4, <1>5 DEF Places, Statuses
  <1>7. Places'
    BY <1>1, <1>2, <1>4, <1>5, <1>6 DEF Places, Distinct
  <1>8. Runs'
    BY <1>2 DEF Runs, Finished, coreVars
  <1>9. Queued' /\ Streamed' /\ OneRuns'
    BY <1>1, <1>2, <1>5 DEF Queued, Streamed, OneRuns
  <1>. QED  BY <1>7, <1>8, <1>9, PartsIInv

LEMMA RunKeeps ==
  ASSUME IInv, CoreTypeOK', RunKernel
  PROVE  IInv'
  <1>1. CoreTypeOK /\ Places /\ Runs /\ Queued /\ Streamed /\ OneRuns
    BY IInvParts
  <1>2. Step /\ UNCHANGED <<script, status, hugeMem, held, queue, stream, current>>
    BY DEF RunKernel, hostVars
  <1>3. current # <<>>
    BY <1>1, <1>2, FinishedStops DEF Runs
  <1>4. kernel' = kernel
    BY <1>2 DEF Step, Begin, Complete, Pass
  <1>5. Calls' = Calls
    BY <1>2 DEF Calls
  <1>6. Places'
    BY <1>1, <1>2, <1>5 DEF Places, Distinct
  <1>7. Runs'
    BY <1>1, <1>2, <1>3, <1>4 DEF Runs, Call
  <1>8. Queued' /\ Streamed' /\ OneRuns'
    BY <1>1, <1>2, <1>5 DEF Queued, Streamed, OneRuns
  <1>. QED  BY <1>6, <1>7, <1>8, PartsIInv

LEMMA IdleKeeps ==
  ASSUME IInv, CoreTypeOK', UNCHANGED vars
  PROVE  IInv'
  <1>1. Places /\ Runs /\ Queued /\ Streamed /\ OneRuns
    BY IInvParts
  <1>2. Calls' = Calls
    BY DEF Calls, vars
  <1>3. Places' /\ Runs' /\ Queued' /\ Streamed' /\ OneRuns'
    BY <1>1, <1>2 DEF vars, Places, Runs, Distinct, Call, Finished, Queued, Streamed, OneRuns
  <1>. QED  BY <1>3, PartsIInv

LEMMA InitHolds == Init => IInv
  <1>. SUFFICES ASSUME Init PROVE IInv
    OBVIOUS
  <1>1. CoreTypeOK
    BY InitRuns, StartTyped DEF CoreInit
  <1>2. status \in [DOMAIN Scripts[script].calls -> Statuses]
          /\ Calls = DOMAIN Scripts[script].calls /\ \A i \in Calls : status[i] = "new"
    BY DEF Init, Statuses, Calls
  <1>3. \A s : s = <<>> => ToSet(s) = {} /\ Distinct(s) /\ s \in Seq(Calls)
    BY NoneIs
  <1>4. Finished
    <2>1. UnitsOf(Program[IdleKernel]) = {}
      BY ScriptAssumption DEF UnitsOf
    <2>2. DOMAIN LengthOf[IdleKernel] = {}
      BY <2>1, Tables, ScriptAssumption
    <2>3. DOMAIN pos = {}
      BY <2>2 DEF Init, AtStart
    <2>. QED  BY <2>3 DEF Finished
  <1>5. TypeOK
    BY <1>1, <1>2, <1>3, <1>4 DEF Init, TypeOK, Distinct
  <1>. QED  BY <1>3, <1>5 DEF IInv, Init

LEMMA StepHolds == IInv /\ [Next]_vars => IInv'
  <1>. SUFFICES ASSUME IInv, [Next]_vars PROVE IInv'
    OBVIOUS
  <1>1. CoreTypeOK'
    BY CoreKept
  <1>2. CASE \E i \in Calls : \/ RaiseAtOnce(i) \/ RaiseInConversion(i)
                             \/ RaiseInTiling(i) \/ RaiseInAllocation(i)
    BY <1>1, <1>2, RaiseKeeps
  <1>3. CASE \E i \in Calls : Enqueue(i)
    BY <1>1, <1>3, EnqueueKeeps
  <1>4. CASE RunTask \/ FailTask
    BY <1>1, <1>4, TaskKeeps
  <1>5. CASE StartKernel
    BY <1>1, <1>5, StartKeeps
  <1>6. CASE EndKernel
    BY <1>1, <1>6, EndKeeps
  <1>7. CASE RunKernel
    BY <1>1, <1>7, RunKeeps
  <1>8. CASE UNCHANGED vars
    BY <1>1, <1>8, IdleKeeps
  <1>. QED  BY <1>2, <1>3, <1>4, <1>5, <1>6, <1>7, <1>8 DEF Next

(* THEOREM: a call is at one place, the one its status says, and its arguments are
   there as long as its task is to be run, however the caller, the queue and the device
   interleave (EXEC_NPU_CMD in pytorch_npu_helper.h). *)
THEOREM CallsTyped == Spec => []TypeOK
  <1>1. Init => IInv
    BY InitHolds
  <1>2. IInv /\ [Next]_vars => IInv'
    BY StepHolds
  <1>3. IInv => TypeOK
    BY DEF IInv
  <1>. QED  BY <1>1, <1>2, <1>3, PTL DEF Spec

(* THEOREM: what the device does under EXEC_NPU_CMD is a behaviour of the machine the
   kernels are written for: kernels are run one after the other, each from its first
   instruction to its last (the stream, pytorch_npu_helper.h). *)
THEOREM CallsRunKernels == Spec => CoreSpec
  <1>1. Init => IInv
    BY InitHolds
  <1>2. IInv /\ [Next]_vars => IInv'
    BY StepHolds
  <1>3. IInv /\ [Next]_vars => [CoreNext]_coreVars
    BY NextRuns
  <1>4. Init => CoreInit
    BY InitRuns
  <1>. QED  BY <1>1, <1>2, <1>3, <1>4, PTL DEF Spec, CoreSpec

(* THEOREM: if the kernels are well ordered, no call of an operator has a race between
   the pipes, whatever ran before it (csrc/ops, the flags of the kernels). *)
THEOREM CallsHaveNoRace ==
  ASSUME WellOrdered
  PROVE  Spec => []NoRace
  BY CallsRunKernels, WellOrderedHasNoRace, PTL

(* THEOREM: and every call executes its kernel as the set of its instructions and their
   dependences (csrc/ops, the flags of the kernels). *)
THEOREM CallsInOrder ==
  ASSUME WellOrdered
  PROVE  Spec => InOrder
  BY CallsRunKernels, WellOrderedInOrder, PTL

(* THEOREM: and no call leaves a flag to the call after it, if its kernel sets none more
   often than it waits for it (csrc/ops, the flags preset before a loop and taken after). *)
THEOREM CallsTakeFlags ==
  ASSUME FlagsPaired
  PROVE  Spec => []FlagsTaken
  BY CallsRunKernels, PairedTakesFlags, PTL

-----------------------------------------------------------------------------
(* Results.  What the cores of la_preprocess write, as sets and as numbers.  The sequences
   of the model are folds, and induction is by sets. *)
Below == {p \in Nat \X Nat : p[1] < p[2]}

(* Induction on natural numbers, of a set. *)
LEMMA Induction ==
  ASSUME NEW T, 0 \in T, \A n \in Nat : n \in T => n + 1 \in T
  PROVE  Nat \subseteq T
  <1>. SUFFICES ASSUME ~ (Nat \subseteq T) PROVE FALSE
    OBVIOUS
  <1>1. IsWellFoundedOn(Below, Nat)
    BY NatLessThanWellFounded DEF OpToRel, Below
  <1>2. Nat \ T \in SUBSET Nat /\ Nat \ T # {}
    OBVIOUS
  <1>3. PICK x \in Nat \ T : \A y \in Nat \ T : ~ (<<y, x>> \in Below)
    BY <1>1, <1>2, WFMin
  <1>4. x - 1 \in Nat /\ x - 1 < x /\ (x - 1) + 1 = x
    BY <1>3
  <1>5. x - 1 \in T
    BY <1>3, <1>4 DEF Below
  <1>. QED  BY <1>3, <1>4, <1>5

(* What FlattenSeq makes of the first so many of n sequences. *)
Joined(f, s, n) == \A i \in 1 .. n : f[i] = IF i = 1 THEN s[i] ELSE f[i - 1] \o s[i]

(* There is such a function, and only one. *)
LEMMA JoinedExists ==
  ASSUME NEW S, NEW n \in Nat, NEW s \in [1 .. n -> Seq(S)]
  PROVE  \E f \in [1 .. n -> Seq(S)] : Joined(f, s, n)
  <1>. DEFINE T == {m \in Nat : m <= n => \E f \in [1 .. m -> Seq(S)] : Joined(f, s, m)}
  <1>1. 0 \in T
    <2>1. [i \in 1 .. 0 |-> <<>>] \in [1 .. 0 -> Seq(S)]
      OBVIOUS
    <2>2. Joined([i \in 1 .. 0 |-> <<>>], s, 0)
      BY DEF Joined
    <2>. QED  BY <2>1, <2>2
  <1>2. ASSUME NEW m \in Nat, m \in T
        PROVE  m + 1 \in T
    <2>. SUFFICES ASSUME m + 1 <= n
                  PROVE  \E f \in [1 .. m + 1 -> Seq(S)] : Joined(f, s, m + 1)
      OBVIOUS
    <2>1. PICK f \in [1 .. m -> Seq(S)] : Joined(f, s, m)
      BY <1>2
    <2>. DEFINE last == IF m = 0 THEN s[m + 1] ELSE f[m] \o s[m + 1]
                g == [i \in 1 .. m + 1 |-> IF i = m + 1 THEN last ELSE f[i]]
    <2>2. s[m + 1] \in Seq(S)
      OBVIOUS
    <2>3. last \in Seq(S)
      <3>1. CASE m = 0
        BY <2>2, <3>1
      <3>2. CASE m # 0
        <4>1. f[m] \in Seq(S)
          BY <3>2
        <4>2. f[m] \o s[m + 1] \in Seq(S)
          BY <4>1, <2>2, ConcatProperties
        <4>. QED  BY <3>2, <4>2
      <3>. QED  BY <3>1, <3>2
    <2>4. g \in [1 .. m + 1 -> Seq(S)]
      BY <2>3
    <2>5. ASSUME NEW i \in 1 .. m + 1
          PROVE  g[i] = IF i = 1 THEN s[i] ELSE g[i - 1] \o s[i]
      <3>1. CASE i = m + 1
        <4>1. g[m + 1] = last
          OBVIOUS
        <4>2. m # 0 => g[m] = f[m]
          OBVIOUS
        <4>3. m = 0 <=> i = 1
          BY <3>1
        <4>4. i - 1 = m
          BY <3>1
        <4>. HIDE DEF g
        <4>5. CASE m = 0
          BY <3>1, <4>1, <4>3, <4>5
        <4>6. CASE m # 0
          <5>1. last = f[m] \o s[m + 1]
            BY <4>6
          <5>2. g[i - 1] \o s[i] = f[m] \o s[m + 1]
            BY <4>2, <4>4, <4>6, <3>1
          <5>. QED  BY <5>1, <5>2, <4>1, <4>3, <4>6, <3>1
        <4>. QED  BY <4>5, <4>6
      <3>2. CASE i # m + 1
        <4>1. i \in 1 .. m /\ g[i] = f[i] /\ (i # 1 => g[i - 1] = f[i - 1])
          BY <3>2
        <4>2. f[i] = IF i = 1 THEN s[i] ELSE f[i - 1] \o s[i]
          BY <4>1, <2>1 DEF Joined
        <4>. HIDE DEF g
        <4>. QED  BY <4>1, <4>2
      <3>. QED  BY <3>1, <3>2
    <2>6. DOMAIN g = 1 .. m + 1
      OBVIOUS
    <2>. HIDE DEF g
    <2>7. Joined(g, s, m + 1)
      BY <2>5, <2>6 DEF Joined
    <2>. QED  BY <2>4, <2>7
  <1>. HIDE DEF T
  <1>3. n \in T
    BY <1>1, <1>2, Induction
  <1>. QED  BY <1>3 DEF T

LEMMA JoinedAgree ==
  ASSUME NEW n \in Nat, NEW s, NEW f, NEW g, Joined(f, s, n), Joined(g, s, n),
         NEW k \in 1 .. n
  PROVE  f[k] = g[k]
  <1>. DEFINE T == {m \in Nat : m \in 1 .. n => f[m] = g[m]}
  <1>1. 0 \in T
    OBVIOUS
  <1>2. ASSUME NEW m \in Nat, m \in T
        PROVE  m + 1 \in T
    <2>. SUFFICES ASSUME m + 1 \in 1 .. n PROVE f[m + 1] = g[m + 1]
      OBVIOUS
    <2>1. /\ f[m + 1] = IF m + 1 = 1 THEN s[m + 1] ELSE f[(m + 1) - 1] \o s[m + 1]
          /\ g[m + 1] = IF m + 1 = 1 THEN s[m + 1] ELSE g[(m + 1) - 1] \o s[m + 1]
      BY DEF Joined
    <2>2. (m + 1) - 1 = m /\ (m + 1 # 1 => m \in 1 .. n)
      OBVIOUS
    <2>3. m + 1 # 1 => f[m] = g[m]
      BY <2>2, <1>2
    <2>. QED  BY <2>1, <2>2, <2>3
  <1>. HIDE DEF T
  <1>3. k \in T
    BY <1>1, <1>2, Induction
  <1>. QED  BY <1>3 DEF T

(* FlattenSeq is a recursive function; whatever satisfies its equation is what it is. *)
LEMMA FlattenIs ==
  ASSUME NEW S, NEW n \in Nat \ {0}, NEW s \in [1 .. n -> Seq(S)],
         NEW f \in [1 .. n -> Seq(S)], Joined(f, s, n)
  PROVE  FlattenSeq(s) = f[n]
  <1>1. Len(s) = n
    <2>1. s \in Seq(Seq(S))
      OBVIOUS
    <2>. QED  BY <2>1
  <1>. DEFINE Is(g) == g = [i \in 1 .. Len(s) |-> IF i = 1 THEN s[i] ELSE g[i - 1] \o s[i]]
              flatten == CHOOSE g : Is(g)
  <1>2. FlattenSeq(s) = flatten[Len(s)]
    <2>1. Len(s) # 0
      BY <1>1
    <2>. QED  BY <2>1, Zenon DEF FlattenSeq
  <1>3. Is(f)
    BY <1>1 DEF Joined
  <1>4. Is(flatten)
    <2>. HIDE DEF Is
    <2>. QED  BY <1>3, Zenon
  <1>. HIDE DEF flatten
  <1>5. Joined(flatten, s, n)
    BY <1>1, <1>4 DEF Joined
  <1>6. n \in 1 .. n
    OBVIOUS
  <1>7. flatten[n] = f[n]
    <2>1. n \in Nat
      OBVIOUS
    <2>. HIDE DEF Is
    <2>. QED  BY <2>1, <1>5, <1>6, JoinedAgree
  <1>. HIDE DEF Is
  <1>. QED  BY <1>1, <1>2, <1>7

-----------------------------------------------------------------------------
(* Sharing out: the shares of the cores follow each other from 0 to the end. *)
LEMMA ShareSteps ==
  ASSUME NEW rows \in Nat, NEW cores \in Nat \ {0}
  PROVE  /\ Pre!Share(rows, cores, 0).first = 0
         /\ Pre!Share(rows, cores, cores).first = rows
         /\ \A c \in 0 .. cores - 1 :
              /\ Pre!Share(rows, cores, c).first \in Nat
              /\ Pre!Share(rows, cores, c).count \in Nat
              /\ Pre!Share(rows, cores, c + 1).first
                   = Pre!Share(rows, cores, c).first + Pre!Share(rows, cores, c).count
  <1>. DEFINE q == rows \div cores
              t == rows % cores
  <1>1. q \in Nat /\ t \in 0 .. cores - 1 /\ rows = q * cores + t
    <2>1. q \in Int /\ t \in 0 .. cores - 1 /\ rows = cores * q + t
      OBVIOUS
    <2>2. q >= 0
      OBVIOUS
    <2>. QED  BY <2>1, <2>2
  <1>. HIDE DEF q, t
  <1>2. \A c \in Nat : q * c \in Nat /\ q * (c + 1) = q * c + q
    BY <1>1
  <1>3. q * 0 = 0
    BY <1>1
  <1>4. \A c \in Nat : /\ Pre!Share(rows, cores, c).first = q * c + (IF c < t THEN c ELSE t)
                       /\ Pre!Share(rows, cores, c).count = q + (IF c < t THEN 1 ELSE 0)
    BY DEF Pre!Share, q, t
  <1>5. Pre!Share(rows, cores, 0).first = 0
    BY <1>1, <1>3, <1>4
  <1>6. Pre!Share(rows, cores, cores).first = rows
    BY <1>1, <1>4
  <1>7. ASSUME NEW c \in 0 .. cores - 1
        PROVE  /\ Pre!Share(rows, cores, c).first \in Nat
               /\ Pre!Share(rows, cores, c).count \in Nat
               /\ Pre!Share(rows, cores, c + 1).first
                    = Pre!Share(rows, cores, c).first + Pre!Share(rows, cores, c).count
    <2>1. PICK x \in Nat : x = q * c /\ q * (c + 1) = x + q
      BY <1>2
    <2>2. /\ Pre!Share(rows, cores, c).first = x + (IF c < t THEN c ELSE t)
          /\ Pre!Share(rows, cores, c).count = q + (IF c < t THEN 1 ELSE 0)
          /\ Pre!Share(rows, cores, c + 1).first = x + q + (IF c + 1 < t THEN c + 1 ELSE t)
      <3>1. c \in Nat /\ c + 1 \in Nat
        OBVIOUS
      <3>. QED  BY <3>1, <2>1, <1>4
    <2>. QED  BY <2>2, <1>1
  <1>. QED  BY <1>5, <1>6, <1>7

(* Concatenations. *)
LEMMA Concatenated ==
  ASSUME NEW u \in Seq(Int), NEW v \in Seq(Int)
  PROVE  /\ u \o v \in Seq(Int)
         /\ Len(u \o v) = Len(u) + Len(v)
         /\ ToSet(u \o v) = ToSet(u) \union ToSet(v)
  <1>1. /\ u \o v \in Seq(Int)
        /\ Len(u \o v) = Len(u) + Len(v)
        /\ \A i \in 1 .. Len(u) + Len(v) :
             (u \o v)[i] = IF i <= Len(u) THEN u[i] ELSE v[i - Len(u)]
    BY ConcatProperties
  <1>2. PICK m \in Nat, n \in Nat : m = Len(u) /\ n = Len(v)
    BY LenProperties
  <1>. DEFINE w == u \o v
  <1>3. DOMAIN u = 1 .. m /\ DOMAIN v = 1 .. n /\ DOMAIN w = 1 .. m + n
    BY <1>1, <1>2, LenProperties
  <1>4. \A i \in 1 .. m + n : w[i] = IF i <= m THEN u[i] ELSE v[i - m]
    BY <1>1, <1>2
  <1>. HIDE DEF w
  <1>5. \A i \in 1 .. m : i \in DOMAIN w /\ w[i] = u[i]
    BY <1>3, <1>4
  <1>6. \A i \in 1 .. n : i + m \in DOMAIN w /\ w[i + m] = v[i]
    <2>1. \A i \in 1 .. n : i + m \in 1 .. m + n /\ ~ i + m <= m /\ (i + m) - m = i
      OBVIOUS
    <2>. QED  BY <2>1, <1>3, <1>4
  <1>7. \A i \in DOMAIN w : (i \in 1 .. m /\ w[i] = u[i]) \/ (i - m \in 1 .. n /\ w[i] = v[i - m])
    BY <1>3, <1>4
  <1>8. ToSet(w) \subseteq ToSet(u) \union ToSet(v)
    BY <1>3, <1>7 DEF ToSet
  <1>9. ToSet(u) \subseteq ToSet(w)
    BY <1>3, <1>5 DEF ToSet
  <1>10. ToSet(v) \subseteq ToSet(w)
    BY <1>3, <1>6 DEF ToSet
  <1>. QED  BY <1>1, <1>8, <1>9, <1>10 DEF w

(* A sequence of successive numbers. *)
Successive(first, count) == [i \in 1 .. count |-> first + i - 1]

LEMMA SuccessiveIs ==
  ASSUME NEW first \in Int, NEW count \in Nat
  PROVE  /\ Successive(first, count) \in Seq(Int)
         /\ Len(Successive(first, count)) = count
         /\ ToSet(Successive(first, count)) = first .. first + count - 1
  <1>. DEFINE s == Successive(first, count)
  <1>1. DOMAIN s = 1 .. count /\ \A i \in 1 .. count : s[i] = first + i - 1
    BY DEF Successive
  <1>2. s \in Seq(Int) /\ Len(s) = count
    BY DEF Successive
  <1>. HIDE DEF s
  <1>3. \A i \in first .. first + count - 1 :
          i - first + 1 \in 1 .. count /\ first + (i - first + 1) - 1 = i
    OBVIOUS
  <1>4. first .. first + count - 1 \subseteq ToSet(s)
    BY <1>1, <1>3 DEF ToSet
  <1>5. ToSet(s) \subseteq first .. first + count - 1
    BY <1>1 DEF ToSet
  <1>. QED  BY <1>2, <1>4, <1>5 DEF s

LEMMA SuccessiveJoin ==
  ASSUME NEW first \in Int, NEW a \in Nat, NEW b \in Nat
  PROVE  Successive(first, a) \o Successive(first + a, b) = Successive(first, a + b)
  <1>. DEFINE u == Successive(first, a)
              v == Successive(first + a, b)
              w == Successive(first, a + b)
  <1>1. /\ u \in Seq(Int) /\ Len(u) = a
        /\ v \in Seq(Int) /\ Len(v) = b
        /\ w \in Seq(Int) /\ Len(w) = a + b
    BY SuccessiveIs
  <1>2. /\ \A i \in 1 .. a : u[i] = first + i - 1
        /\ \A i \in 1 .. b : v[i] = first + a + i - 1
        /\ \A i \in 1 .. a + b : w[i] = first + i - 1
    BY DEF Successive
  <1>. HIDE DEF u, v, w
  <1>3. /\ u \o v \in Seq(Int) /\ Len(u \o v) = a + b
        /\ \A i \in 1 .. a + b : (u \o v)[i] = IF i <= a THEN u[i] ELSE v[i - a]
    BY <1>1, ConcatProperties
  <1>4. ASSUME NEW i \in 1 .. a + b PROVE (u \o v)[i] = w[i]
    <2>1. CASE i <= a
      BY <2>1, <1>2, <1>3
    <2>2. CASE ~ i <= a
      <3>1. i - a \in 1 .. b /\ first + a + (i - a) - 1 = first + i - 1
        BY <2>2
      <3>. QED  BY <2>2, <3>1, <1>2, <1>3
    <2>. QED  BY <2>1, <2>2
  <1>5. u \o v = w
    BY <1>1, <1>3, <1>4, SeqEqual
  <1>. QED  BY <1>5 DEF u, v, w

(* The rows a core copies, chunk by chunk, are its rows. *)
LEMMA FlattenSame == \A s : Pre!FlattenSeq(s) = FlattenSeq(s)
  BY Zenon DEF Pre!FlattenSeq, FlattenSeq

LEMMA RowsCopiedAre ==
  ASSUME NEW r, Pre!BlockSeqLen(r) \in Nat \ {0},
         NEW task, task.first \in Nat, task.count \in Nat
  PROVE  Pre!RowsCopied(r, task) = Successive(task.first, task.count)
  <1>. DEFINE size == Pre!BlockSeqLen(r)
              turns == (task.count + size - 1) \div size
              chunk(c) == LET j == task.first + (c - 1) * size
                          IN <<j, IF j + size > task.first + task.count
                                  THEN task.first + task.count - j ELSE size>>
              s == [c \in 1 .. turns |-> [i \in 1 .. chunk(c)[2] |-> chunk(c)[1] + i - 1]]
  <1>1. Pre!RowsCopied(r, task) = FlattenSeq(s)
    <2>1. Pre!Chunks(r, task) = [c \in 1 .. turns |-> chunk(c)]
      BY Zenon DEF Pre!Chunks
    <2>2. DOMAIN Pre!Chunks(r, task) = 1 .. turns
      BY <2>1
    <2>3. \A c \in 1 .. turns : Pre!Chunks(r, task)[c] = chunk(c)
      BY <2>1
    <2>4. [c \in DOMAIN Pre!Chunks(r, task) |->
             [i \in 1 .. Pre!Chunks(r, task)[c][2] |-> Pre!Chunks(r, task)[c][1] + i - 1]] = s
      <3>. HIDE DEF chunk, turns
      <3>. QED  BY <2>2, <2>3
    <2>. HIDE DEF s
    <2>. QED  BY <2>4, FlattenSame DEF Pre!RowsCopied
  <1>2. PICK first \in Nat, count \in Nat, z \in Nat \ {0} :
          first = task.first /\ count = task.count /\ z = size
    OBVIOUS
  <1>. DEFINE upto(c) == IF c * z < count THEN c * z ELSE count
  <1>3. /\ turns \in Nat
        /\ count <= turns * z
        /\ turns * z < count + z
    <2>1. turns = (count + z - 1) \div z /\ count + z - 1 \in Nat
      BY <1>2
    <2>. HIDE DEF turns
    <2>2. PICK x \in Nat : x = count + z - 1
      BY <2>1
    <2>3. x \div z \in Int /\ x % z \in 0 .. z - 1 /\ x = z * (x \div z) + (x % z)
      BY <2>2
    <2>4. x \div z >= 0
      BY <2>2
    <2>. QED  BY <2>1, <2>2, <2>3, <2>4
  <1>4. ASSUME NEW c \in 1 .. turns
        PROVE  \E a \in Nat :
                 /\ a = (c - 1) * z /\ c * z = a + z /\ a < count
                 /\ (c = 1 => a = 0)
                 /\ upto(c) \in Nat /\ upto(c) - a \in Nat
                 /\ (c # 1 => upto(c - 1) = a)
                 /\ s[c] = Successive(first + a, upto(c) - a)
    <2>1. c \in Nat /\ 1 <= c /\ c <= turns
      BY <1>3
    <2>. HIDE DEF turns
    <2>2. (c - 1) * z \in Nat /\ c * z = (c - 1) * z + z /\ (turns - c) * z \in Nat
          /\ turns * z = (c - 1) * z + z + (turns - c) * z
      BY <2>1, <1>2, <1>3
    <2>3. PICK a \in Nat : a = (c - 1) * z /\ c * z = a + z
      BY <2>2
    <2>4. a < count
      BY <2>2, <2>3, <1>3
    <2>5. c = 1 => a = 0
      BY <2>3
    <2>6. upto(c) = IF a + z < count THEN a + z ELSE count
      BY <2>3
    <2>7. upto(c) \in Nat /\ upto(c) - a \in Nat
      BY <2>4, <2>6
    <2>8. c # 1 => upto(c - 1) = a
      BY <2>3, <2>4
    <2>9. /\ chunk(c)[1] = first + a
          /\ chunk(c)[2] = IF first + a + z > first + count THEN first + count - (first + a) ELSE z
      <3>. DEFINE j == first + (c - 1) * z
      <3>1. chunk(c) = <<j, IF j + z > first + count THEN first + count - j ELSE z>>
        BY <1>2
      <3>2. j = first + a
        BY <2>3
      <3>. HIDE DEF j, chunk
      <3>. QED  BY <3>1, <3>2
    <2>10. chunk(c)[2] = upto(c) - a
      <3>. HIDE DEF chunk, upto
      <3>. QED  BY <2>4, <2>6, <2>9
    <2>11. s[c] = [i \in 1 .. chunk(c)[2] |-> chunk(c)[1] + i - 1]
      <3>. HIDE DEF chunk
      <3>. QED  OBVIOUS
    <2>12. s[c] = Successive(first + a, upto(c) - a)
      <3>. HIDE DEF chunk, s, upto
      <3>. QED  BY <2>9, <2>10, <2>11 DEF Successive
    <2>. HIDE DEF upto, s
    <2>. QED  BY <2>3, <2>4, <2>5, <2>7, <2>8, <2>12
  <1>5. DOMAIN s = 1 .. turns /\ s = [c \in 1 .. turns |-> s[c]]
    OBVIOUS
  <1>. DEFINE f == [c \in 1 .. turns |-> Successive(first, upto(c))]
  <1>6. CASE turns = 0
    <2>1. count = 0
      BY <1>3, <1>6
    <2>2. Len(s) = 0 /\ s = Successive(first, 0)
      <3>1. s = [c \in 1 .. 0 |-> first + c - 1]
        BY <1>6
      <3>. HIDE DEF s
      <3>. QED  BY <3>1 DEF Successive
    <2>. HIDE DEF s
    <2>3. FlattenSeq(s) = s
      BY <2>2, Zenon DEF FlattenSeq
    <2>. QED  BY <1>1, <1>2, <2>1, <2>2, <2>3
  <1>7. CASE turns # 0
    <2>. HIDE DEF turns, chunk, upto, s
    <2>1. turns \in Nat \ {0} /\ turns \in 1 .. turns
      BY <1>3, <1>7
    <2>2. s \in [1 .. turns -> Seq(Int)]
      <3>1. ASSUME NEW c \in 1 .. turns
            PROVE  s[c] \in Seq(Int)
        <4>1. PICK a \in Nat : upto(c) - a \in Nat /\ s[c] = Successive(first + a, upto(c) - a)
          BY <1>4
        <4>. QED  BY <4>1, SuccessiveIs
      <3>. QED  BY <3>1, <1>5
    <2>3. f \in [1 .. turns -> Seq(Int)]
      <3>1. ASSUME NEW c \in 1 .. turns
            PROVE  Successive(first, upto(c)) \in Seq(Int)
        <4>1. upto(c) \in Nat
          BY <1>4
        <4>. QED  BY <4>1, SuccessiveIs
      <3>. QED  BY <3>1
    <2>4. ASSUME NEW c \in 1 .. turns
          PROVE  f[c] = IF c = 1 THEN s[c] ELSE f[c - 1] \o s[c]
      <3>1. PICK a \in Nat :
              /\ c = 1 => a = 0
              /\ upto(c) \in Nat /\ upto(c) - a \in Nat
              /\ c # 1 => upto(c - 1) = a
              /\ s[c] = Successive(first + a, upto(c) - a)
        BY <1>4
      <3>2. f[c] = Successive(first, upto(c))
        OBVIOUS
      <3>3. CASE c = 1
        <4>1. a = 0 /\ first + a = first /\ upto(c) - a = upto(c)
          BY <3>1, <3>3
        <4>. HIDE DEF f
        <4>. QED  BY <4>1, <3>1, <3>2, <3>3
      <3>4. CASE c # 1
        <4>1. c - 1 \in 1 .. turns
          BY <3>4, <2>1
        <4>2. f[c - 1] = Successive(first, a)
          BY <4>1, <3>1, <3>4
        <4>3. a + (upto(c) - a) = upto(c)
          BY <3>1
        <4>4. Successive(first, a) \o Successive(first + a, upto(c) - a)
                = Successive(first, a + (upto(c) - a))
          <5>1. PICK b \in Nat : b = upto(c) - a
            BY <3>1
          <5>2. first \in Int
            OBVIOUS
          <5>3. Successive(first, a) \o Successive(first + a, b) = Successive(first, a + b)
            BY <5>2, SuccessiveJoin
          <5>. QED  BY <5>1, <5>3
        <4>. HIDE DEF f
        <4>. QED  BY <4>2, <4>3, <4>4, <3>1, <3>2, <3>4
      <3>. QED  BY <3>3, <3>4
    <2>5. Joined(f, s, turns)
      <3>. HIDE DEF f
      <3>. QED  BY <2>4 DEF Joined
    <2>6. f[turns] = Successive(first, upto(turns))
      BY <2>1
    <2>7. upto(turns) = count
      BY <1>3 DEF upto
    <2>. HIDE DEF f
    <2>8. FlattenSeq(s) = f[turns]
      BY <2>1, <2>2, <2>3, <2>5, FlattenIs
    <2>. QED  BY <1>1, <1>2, <2>6, <2>7, <2>8
  <1>. QED  BY <1>6, <1>7

(* The shares of a core: rows of the tensor, and rows of zeros behind them. *)
RowsOf(r, length, core) == Pre!Share(length, r.aiv, core)
ZerosOf(r, length, core) == Pre!Share(Pre!AlignUp(length, r.align) - length, r.aiv, core)

SharesItsRows(r, length, core) ==
  LET written == Pre!RowsWritten(r, length, core)
      rows == RowsOf(r, length, core)
      zeros == ZerosOf(r, length, core)
  IN /\ written \in Seq(Int)
     /\ Len(written) = zeros.count + rows.count
     /\ ToSet(written) = (rows.first .. rows.first + rows.count - 1)
          \union (length + zeros.first .. length + zeros.first + zeros.count - 1)

LEMMA RowsWrittenAre ==
  ASSUME NEW r, Pre!BlockSeqLen(r) \in Nat \ {0},
         NEW length \in Nat, NEW core,
         RowsOf(r, length, core).first \in Nat, RowsOf(r, length, core).count \in Nat,
         ZerosOf(r, length, core).first \in Nat, ZerosOf(r, length, core).count \in Nat
  PROVE  SharesItsRows(r, length, core)
  <1>0. PICK x \in Nat, k \in Nat, y \in Nat, l \in Nat :
          /\ RowsOf(r, length, core).first = x /\ RowsOf(r, length, core).count = k
          /\ ZerosOf(r, length, core).first = y /\ ZerosOf(r, length, core).count = l
    OBVIOUS
  <1>. DEFINE task == [first |-> x, count |-> k, padFirst |-> length + y, padCount |-> l]
              u == Successive(length + y, l)
              v == Successive(x, k)
  <1>1. Pre!SplitTask(r, length, core) = task
    BY <1>0 DEF Pre!SplitTask, RowsOf, ZerosOf
  <1>2. /\ task.first = x /\ task.count = k
        /\ task.padFirst = length + y /\ task.padCount = l
    OBVIOUS
  <1>. HIDE DEF task
  <1>3. Pre!RowsCopied(r, task) = v
    BY <1>2, RowsCopiedAre
  <1>4. Pre!RowsPadded(task) = u
    BY <1>2 DEF Pre!RowsPadded, Successive
  <1>5. Pre!RowsWritten(r, length, core) = u \o v
    BY <1>1, <1>3, <1>4 DEF Pre!RowsWritten
  <1>6. u \in Seq(Int) /\ Len(u) = l /\ ToSet(u) = length + y .. length + y + l - 1
    <2>1. PICK z \in Int : z = length + y
      OBVIOUS
    <2>2. /\ Successive(z, l) \in Seq(Int) /\ Len(Successive(z, l)) = l
          /\ ToSet(Successive(z, l)) = z .. z + l - 1
      BY SuccessiveIs
    <2>. QED  BY <2>1, <2>2
  <1>7. v \in Seq(Int) /\ Len(v) = k /\ ToSet(v) = x .. x + k - 1
    <2>1. x \in Int
      OBVIOUS
    <2>. QED  BY <2>1, SuccessiveIs
  <1>. HIDE DEF u, v
  <1>8. /\ u \o v \in Seq(Int) /\ Len(u \o v) = Len(u) + Len(v)
        /\ ToSet(u \o v) = ToSet(u) \union ToSet(v)
    BY <1>6, <1>7, Concatenated
  <1>. QED  BY <1>0, <1>5, <1>6, <1>7, <1>8 DEF SharesItsRows

(* The plug-in and the kernel round up alike. *)
LEMMA PaddedIsLonger ==
  ASSUME NEW length \in Nat, NEW align \in Nat \ {0}
  PROVE  /\ PaddedRows(length, align) \in Nat
         /\ length <= PaddedRows(length, align)
         /\ Pre!AlignUp(length, align) = PaddedRows(length, align)
  <1>1. PICK x \in Nat : x = length + align - 1
    OBVIOUS
  <1>2. x \div align \in Int /\ x % align \in 0 .. align - 1
        /\ x = align * (x \div align) + (x % align)
    OBVIOUS
  <1>3. align * (x \div align) = (x \div align) * align /\ (x \div align) * align \in Int
    BY <1>2
  <1>4. PaddedRows(length, align) = (x \div align) * align
        /\ Pre!AlignUp(length, align) = (x \div align) * align
    BY <1>1 DEF PaddedRows, Pre!AlignUp
  <1>. QED  BY <1>1, <1>2, <1>3, <1>4

(* THEOREM: whatever the lengths, the alignment and the number of vector cores, the cores
   write every row of the padded output, and each of them once, if a buffer holds a row at
   all (SplitTask and CopyData of la_preprocess.h).  It is what WorkOnce asks of a call of
   la_preprocess. *)
THEOREM PreprocessWritesOnce ==
  ASSUME NEW r, HoldsARow(r), Pre!BlockSeqLen(r) \in Int,
         r.aiv \in Nat \ {0}, r.align \in Nat \ {0},
         \A tensor \in 1 .. 3 : r.lengths[tensor] \in Nat
  PROVE  PreprocessWork(r)
  <1>. SUFFICES ASSUME NEW tensor \in 1 .. 3
                PROVE  LET written == FlattenSeq([core \in 1 .. r.aiv |->
                                         Pre!RowsWritten(r, r.lengths[tensor], core - 1)])
                           rows == PaddedRows(r.lengths[tensor], r.align)
                       IN ToSet(written) = 0 .. rows - 1 /\ Len(written) = rows
    BY Zenon DEF PreprocessWork
  <1>1. PICK length \in Nat, cores \in Nat \ {0}, padded \in Nat, zeros \in Nat :
          /\ length = r.lengths[tensor] /\ cores = r.aiv
          /\ padded = PaddedRows(r.lengths[tensor], r.align)
          /\ padded = Pre!AlignUp(length, r.align)
          /\ zeros = padded - length
    <2>1. r.lengths[tensor] \in Nat
      OBVIOUS
    <2>2. PICK length \in Nat, align \in Nat \ {0} : length = r.lengths[tensor] /\ align = r.align
      BY <2>1
    <2>3. /\ PaddedRows(length, align) \in Nat /\ length <= PaddedRows(length, align)
          /\ Pre!AlignUp(length, align) = PaddedRows(length, align)
      BY PaddedIsLonger
    <2>4. PICK padded \in Nat : padded = PaddedRows(length, align)
      BY <2>3
    <2>5. padded - length \in Nat
      BY <2>3, <2>4
    <2>. QED  BY <2>2, <2>3, <2>4, <2>5
  <1>. DEFINE R(c) == Pre!Share(length, cores, c)
              P(c) == Pre!Share(zeros, cores, c)
              s == [core \in 1 .. cores |-> Pre!RowsWritten(r, length, core - 1)]
  <1>2. /\ R(0).first = 0 /\ R(cores).first = length
        /\ P(0).first = 0 /\ P(cores).first = zeros
    BY ShareSteps
  <1>3. \A c \in 0 .. cores - 1 :
          /\ R(c).first \in Nat /\ R(c).count \in Nat /\ R(c + 1).first = R(c).first + R(c).count
          /\ P(c).first \in Nat /\ P(c).count \in Nat /\ P(c + 1).first = P(c).first + P(c).count
    BY ShareSteps
  <1>. HIDE DEF R, P
  <1>4. ASSUME NEW c \in 1 .. cores
        PROVE  /\ s[c] \in Seq(Int)
               /\ Len(s[c]) = P(c - 1).count + R(c - 1).count
               /\ ToSet(s[c]) = (R(c - 1).first .. R(c - 1).first + R(c - 1).count - 1)
                    \union (length + P(c - 1).first .. length + P(c - 1).first + P(c - 1).count - 1)
    <2>1. Pre!BlockSeqLen(r) \in Nat \ {0}
      BY DEF HoldsARow
    <2>2. PICK core \in Nat : core = c - 1 /\ core \in 0 .. cores - 1
      OBVIOUS
    <2>3. R(core) = RowsOf(r, length, core) /\ P(core) = ZerosOf(r, length, core)
      BY <1>1 DEF R, P, RowsOf, ZerosOf
    <2>4. /\ RowsOf(r, length, core).first \in Nat /\ RowsOf(r, length, core).count \in Nat
          /\ ZerosOf(r, length, core).first \in Nat /\ ZerosOf(r, length, core).count \in Nat
      BY <2>2, <2>3, <1>3
    <2>5. SharesItsRows(r, length, core)
      BY <2>1, <2>4, RowsWrittenAre
    <2>6. PICK w : w = Pre!RowsWritten(r, length, core)
      OBVIOUS
    <2>7. s[c] = w
      BY <2>2, <2>6
    <2>. HIDE DEF s
    <2>. QED  BY <2>2, <2>3, <2>5, <2>6, <2>7 DEF SharesItsRows
  <1>5. s \in [1 .. cores -> Seq(Int)]
    <2>1. s = [c \in 1 .. cores |-> s[c]]
      OBVIOUS
    <2>. HIDE DEF s
    <2>. QED  BY <2>1, <1>4
  <1>6. [core \in 1 .. r.aiv |-> Pre!RowsWritten(r, r.lengths[tensor], core - 1)] = s
    BY <1>1
  <1>. HIDE DEF s
  <1>7. PICK f \in [1 .. cores -> Seq(Int)] : Joined(f, s, cores)
    BY <1>5, JoinedExists
  <1>8. FlattenSeq(s) = f[cores]
    BY <1>5, <1>7, FlattenIs
  <1>. DEFINE Right(c) == /\ Len(f[c]) = P(c).first + R(c).first
                          /\ ToSet(f[c]) = (0 .. R(c).first - 1)
                                             \union (length .. length + P(c).first - 1)
              T == {c \in Nat : c \in 1 .. cores => Right(c)}
  <1>9. 0 \in T
    OBVIOUS
  <1>10. ASSUME NEW c \in Nat, c \in T
         PROVE  c + 1 \in T
    <2>. SUFFICES ASSUME c + 1 \in 1 .. cores PROVE Right(c + 1)
      OBVIOUS
    <2>1. c \in 0 .. cores - 1 /\ (c + 1) - 1 = c
      OBVIOUS
    <2>2. PICK x \in Nat, k \in Nat, y \in Nat, l \in Nat :
            /\ x = R(c).first /\ k = R(c).count /\ R(c + 1).first = x + k
            /\ y = P(c).first /\ l = P(c).count /\ P(c + 1).first = y + l
      <3>1. /\ R(c).first \in Nat /\ R(c).count \in Nat /\ R(c + 1).first = R(c).first + R(c).count
            /\ P(c).first \in Nat /\ P(c).count \in Nat /\ P(c + 1).first = P(c).first + P(c).count
        BY <2>1, <1>3
      <3>. QED  BY <3>1
    <2>3. /\ s[c + 1] \in Seq(Int) /\ Len(s[c + 1]) = l + k
          /\ ToSet(s[c + 1]) = (x .. x + k - 1) \union (length + y .. length + y + l - 1)
      <3>1. PICK d \in Nat : d = c + 1 /\ d \in 1 .. cores /\ d - 1 = c
        OBVIOUS
      <3>2. /\ s[d] \in Seq(Int)
            /\ Len(s[d]) = P(d - 1).count + R(d - 1).count
            /\ ToSet(s[d]) = (R(d - 1).first .. R(d - 1).first + R(d - 1).count - 1)
                 \union (length + P(d - 1).first .. length + P(d - 1).first + P(d - 1).count - 1)
        BY <3>1, <1>4
      <3>. QED  BY <3>1, <3>2, <2>2
    <2>4. f[c + 1] = IF c + 1 = 1 THEN s[c + 1] ELSE f[(c + 1) - 1] \o s[c + 1]
      BY <1>7 DEF Joined
    <2>5. CASE c = 0
      <3>1. x = 0 /\ y = 0
        BY <2>2, <2>5, <1>2
      <3>2. f[c + 1] = s[c + 1]
        BY <2>4, <2>5
      <3>3. /\ Len(f[c + 1]) = (y + l) + (x + k)
            /\ ToSet(f[c + 1]) = (0 .. (x + k) - 1) \union (length .. length + (y + l) - 1)
        BY <2>3, <3>1, <3>2
      <3>. QED  BY <2>2, <3>3
    <2>6. CASE c # 0
      <3>1. c \in 1 .. cores
        BY <2>1, <2>6
      <3>2. /\ f[c] \in Seq(Int) /\ Len(f[c]) = y + x
            /\ ToSet(f[c]) = (0 .. x - 1) \union (length .. length + y - 1)
        BY <3>1, <1>10, <2>2
      <3>3. f[c + 1] = f[c] \o s[c + 1]
        <4>1. c + 1 # 1 /\ (c + 1) - 1 = c
          BY <2>6
        <4>. QED  BY <4>1, <2>4
      <3>4. /\ Len(f[c + 1]) = Len(f[c]) + Len(s[c + 1])
            /\ ToSet(f[c + 1]) = ToSet(f[c]) \union ToSet(s[c + 1])
        <4>1. PICK u \in Seq(Int), v \in Seq(Int) : u = f[c] /\ v = s[c + 1]
          BY <2>3, <3>2
        <4>2. Len(u \o v) = Len(u) + Len(v) /\ ToSet(u \o v) = ToSet(u) \union ToSet(v)
          BY Concatenated
        <4>. QED  BY <4>1, <4>2, <3>3
      <3>5. (0 .. x - 1) \union (x .. x + k - 1) = 0 .. (x + k) - 1
        OBVIOUS
      <3>6. (length .. length + y - 1) \union (length + y .. length + y + l - 1)
              = length .. length + (y + l) - 1
        OBVIOUS
      <3>7. Len(f[c + 1]) = (y + l) + (x + k)
        BY <2>3, <3>2, <3>4
      <3>8. ToSet(f[c + 1]) = ((0 .. x - 1) \union (x .. x + k - 1))
              \union ((length .. length + y - 1) \union (length + y .. length + y + l - 1))
        BY <2>3, <3>2, <3>4, Zenon
      <3>. QED  BY <2>2, <3>5, <3>6, <3>7, <3>8
    <2>. QED  BY <2>5, <2>6
  <1>. HIDE DEF T
  <1>11. cores \in T
    BY <1>9, <1>10, Induction
  <1>12. Right(cores)
    BY <1>11 DEF T
  <1>13. Len(f[cores]) = padded
    BY <1>1, <1>2, <1>12
  <1>14. ToSet(f[cores]) = 0 .. padded - 1
    <2>1. ToSet(f[cores]) = (0 .. length - 1) \union (length .. length + zeros - 1)
      BY <1>2, <1>12
    <2>2. (0 .. length - 1) \union (length .. length + zeros - 1) = 0 .. length + zeros - 1
      OBVIOUS
    <2>3. length + zeros = padded
      BY <1>1
    <2>. QED  BY <2>1, <2>2, <2>3
  <1>. QED  BY <1>1, <1>6, <1>8, <1>13, <1>14

-----------------------------------------------------------------------------
(* The workspace of ada_block_sparse_attention. *)

(* Pieces of one size, one after the other. *)
LEMMA PieceEnds ==
  ASSUME NEW m \in Nat, NEW j \in Nat, NEW k \in Nat, j < k
  PROVE  j * m \in Nat /\ k * m \in Nat /\ j * m + m <= k * m
  <1>1. PICK d \in Nat : k = j + 1 + d
    <2>1. k - j - 1 \in Nat /\ k = j + 1 + (k - j - 1)
      OBVIOUS
    <2>. QED  BY <2>1
  <1>2. (j + 1 + d) * m = j * m + m + d * m /\ d * m \in Nat /\ j * m \in Nat
    OBVIOUS
  <1>. QED  BY <1>1, <1>2

(* THEOREM: however many cores there are and however large the results of a step, no two
   areas of the workspace share a byte, and all are within what the host has asked for
   (InitEachCoreWorkspace and the tiling function of ada_block_sparse_attention). *)
THEOREM AreasNeverOverlap ==
  ASSUME NEW r, r.aiv \in Nat, Ada!Mm1ResSize(r) \in Nat, Ada!Mm2ResSize(r) \in Nat
  PROVE  AreasApart(r)
  <1>. DEFINE result == Ada!ResultBytes(r)
  <1>1. PICK n \in Nat, p \in Nat, q \in Nat, mm1 \in Nat, mm2 \in Nat :
          /\ n = r.aiv /\ p = Ada!Mm1ResSize(r) /\ q = Ada!Mm2ResSize(r)
          /\ mm1 = p * result /\ mm2 = q * result /\ mm1 <= 4 * p /\ mm2 <= 4 * q
    <2>1. PICK p \in Nat, q \in Nat : p = Ada!Mm1ResSize(r) /\ q = Ada!Mm2ResSize(r)
      OBVIOUS
    <2>2. result \in {2, 4}
      BY DEF Ada!ResultBytes
    <2>3. /\ p * result \in Nat /\ p * result <= 4 * p
          /\ q * result \in Nat /\ q * result <= 4 * q
      BY <2>2
    <2>. QED  BY <2>1, <2>3
  <1>2. PICK firsts \in Nat, seconds \in Nat, all \in Nat :
          /\ firsts = n * 2 * mm1 /\ seconds = n * 2 * mm2
          /\ all = Ada!UserWorkspace(r)
          /\ firsts + seconds + n * 256 <= all
    <2>1. /\ n * 2 * mm1 \in Nat /\ n * 2 * mm1 <= n * 8 * p
          /\ n * 2 * mm2 \in Nat /\ n * 2 * mm2 <= n * 8 * q
      BY <1>1
    <2>2. Ada!UserWorkspace(r) = n * 8 * p + n * 8 * q + n * 256
      BY <1>1 DEF Ada!UserWorkspace
    <2>. QED  BY <2>1, <2>2
  <1>3. ASSUME NEW core \in 0 .. n - 1, NEW i \in 0 .. 1
        PROVE  /\ Ada!AreaOf(r, core, "bmm1Res", i) = [from |-> (2 * core + i) * mm1, size |-> mm1]
               /\ Ada!AreaOf(r, core, "bmm2Res", i)
                    = [from |-> firsts + (2 * core + i) * mm2, size |-> mm2]
               /\ Ada!AreaOf(r, core, "bmm1CB", i)
                    = [from |-> firsts + seconds + (4 * core + i) * 64, size |-> 64]
               /\ Ada!AreaOf(r, core, "bmm2CB", i)
                    = [from |-> firsts + seconds + (4 * core + 2 + i) * 64, size |-> 64]
    BY <1>1, <1>2 DEF Ada!AreaOf, Ada!StructBytes
  <1>. DEFINE region(x) == CASE x[2] = "bmm1Res" -> 1 [] x[2] = "bmm2Res" -> 2 [] OTHER -> 3
              slot(x) == CASE x[2] = "bmm1CB" -> 4 * x[1] + x[3]
                           [] x[2] = "bmm2CB" -> 4 * x[1] + 2 + x[3]
                           [] OTHER -> 2 * x[1] + x[3]
              base == <<0, firsts, firsts + seconds, firsts + seconds + n * 256>>
              size == <<mm1, mm2, 64>>
              area(x) == Ada!AreaOf(r, x[1], x[2], x[3])
  <1>4. /\ \A z \in 1 .. 4 : base[z] \in Nat
        /\ \A z \in 1 .. 3 : size[z] \in Nat
        /\ base[1] <= base[2] /\ base[2] <= base[3] /\ base[3] <= base[4] /\ base[4] <= all
    BY <1>2
  <1>5. ASSUME NEW x \in AreaIndices(r)
        PROVE  /\ region(x) \in 1 .. 3 /\ slot(x) \in Nat
               /\ area(x).size = size[region(x)]
               /\ area(x).from = base[region(x)] + slot(x) * size[region(x)]
               /\ base[region(x)] + slot(x) * size[region(x)] + size[region(x)]
                    <= base[region(x) + 1]
    <2>1. PICK core \in 0 .. n - 1, name \in Ada!AreaNames, i \in 0 .. 1 :
            x = <<core, name, i>>
      BY <1>1 DEF AreaIndices
    <2>2. x[1] = core /\ x[2] = name /\ x[3] = i /\ core \in Nat /\ core < n
      BY <2>1
    <2>3. /\ 2 * core + i < 2 * n /\ 4 * core + i < 4 * n /\ 4 * core + 2 + i < 4 * n
          /\ 2 * core + i \in Nat /\ 4 * core + i \in Nat /\ 4 * core + 2 + i \in Nat
      BY <2>2
    <2>4. CASE name = "bmm1Res"
      <3>1. region(x) = 1 /\ slot(x) = 2 * core + i
        BY <2>2, <2>4
      <3>2. (2 * core + i) * mm1 \in Nat /\ (2 * core + i) * mm1 + mm1 <= (2 * n) * mm1
        BY <2>3, PieceEnds
      <3>3. (2 * n) * mm1 = firsts
        BY <1>2
      <3>4. area(x) = [from |-> (2 * core + i) * mm1, size |-> mm1]
        <4>1. area(x) = Ada!AreaOf(r, core, "bmm1Res", i)
          BY <2>2, <2>4
        <4>. HIDE DEF area
        <4>. QED  BY <4>1, <1>3
      <3>. HIDE DEF region, slot, area
      <3>. QED  BY <3>1, <3>2, <3>3, <3>4, <2>3
    <2>5. CASE name = "bmm2Res"
      <3>1. region(x) = 2 /\ slot(x) = 2 * core + i
        BY <2>2, <2>5
      <3>2. (2 * core + i) * mm2 \in Nat /\ (2 * core + i) * mm2 + mm2 <= (2 * n) * mm2
        BY <2>3, PieceEnds
      <3>3. (2 * n) * mm2 = seconds
        BY <1>2
      <3>4. area(x) = [from |-> firsts + (2 * core + i) * mm2, size |-> mm2]
        <4>1. area(x) = Ada!AreaOf(r, core, "bmm2Res", i)
          BY <2>2, <2>5
        <4>. HIDE DEF area
        <4>. QED  BY <4>1, <1>3
      <3>. HIDE DEF region, slot, area
      <3>. QED  BY <3>1, <3>2, <3>3, <3>4, <2>3
    <2>6. CASE name = "bmm1CB"
      <3>1. region(x) = 3 /\ slot(x) = 4 * core + i
        BY <2>2, <2>6
      <3>4. area(x) = [from |-> firsts + seconds + (4 * core + i) * 64, size |-> 64]
        <4>1. area(x) = Ada!AreaOf(r, core, "bmm1CB", i)
          BY <2>2, <2>6
        <4>. HIDE DEF area
        <4>. QED  BY <4>1, <1>3
      <3>. HIDE DEF region, slot, area
      <3>. QED  BY <3>1, <3>4, <2>3
    <2>7. CASE name = "bmm2CB"
      <3>1. region(x) = 3 /\ slot(x) = 4 * core + 2 + i
        BY <2>2, <2>7
      <3>4. area(x) = [from |-> firsts + seconds + (4 * core + 2 + i) * 64, size |-> 64]
        <4>1. area(x) = Ada!AreaOf(r, core, "bmm2CB", i)
          BY <2>2, <2>7
        <4>. HIDE DEF area
        <4>. QED  BY <4>1, <1>3
      <3>. HIDE DEF region, slot, area
      <3>. QED  BY <3>1, <3>4, <2>3
    <2>. QED  BY <2>4, <2>5, <2>6, <2>7 DEF Ada!AreaNames
  <1>6. ASSUME NEW x \in AreaIndices(r), NEW y \in AreaIndices(r), x # y, region(x) = region(y)
        PROVE  slot(x) # slot(y)
    <2>1. PICK core \in 0 .. n - 1, name \in Ada!AreaNames, i \in 0 .. 1 :
            x = <<core, name, i>>
      BY <1>1 DEF AreaIndices
    <2>2. PICK other \in 0 .. n - 1, title \in Ada!AreaNames, j \in 0 .. 1 :
            y = <<other, title, j>>
      BY <1>1 DEF AreaIndices
    <2>3. core # other \/ name # title \/ i # j
      BY <1>6, <2>1, <2>2
    <2>. QED  BY <1>6, <2>1, <2>2, <2>3 DEF Ada!AreaNames
  <1>. HIDE DEF region, slot, base, size, area
  <1>7. ASSUME NEW x \in AreaIndices(r), NEW y \in AreaIndices(r), x # y
        PROVE  area(x).from + area(x).size <= area(y).from \/ area(y).from + area(y).size <= area(x).from
    <2>1. PICK f \in 1 .. 3, j \in Nat, a \in Nat, m \in Nat :
            /\ f = region(x) /\ j = slot(x) /\ a = base[f] /\ m = size[f]
            /\ area(x).from = a + j * m /\ area(x).size = m /\ a + j * m + m <= base[f + 1]
      <3>1. PICK f \in 1 .. 3 : f = region(x)
        BY <1>5
      <3>2. f \in 1 .. 4 /\ base[f] \in Nat /\ size[f] \in Nat
        <4>1. f \in 1 .. 4
          OBVIOUS
        <4>. QED  BY <4>1, <1>4
      <3>3. PICK j \in Nat, a \in Nat, m \in Nat :
              j = slot(x) /\ a = base[f] /\ m = size[f]
        BY <3>2, <1>5
      <3>. QED  BY <3>1, <3>3, <1>5
    <2>2. PICK g \in 1 .. 3, k \in Nat, b \in Nat, l \in Nat :
            /\ g = region(y) /\ k = slot(y) /\ b = base[g] /\ l = size[g]
            /\ area(y).from = b + k * l /\ area(y).size = l /\ b + k * l + l <= base[g + 1]
      <3>1. PICK g \in 1 .. 3 : g = region(y)
        BY <1>5
      <3>2. g \in 1 .. 4 /\ base[g] \in Nat /\ size[g] \in Nat
        <4>1. g \in 1 .. 4
          OBVIOUS
        <4>. QED  BY <4>1, <1>4
      <3>3. PICK k \in Nat, b \in Nat, l \in Nat :
              k = slot(y) /\ b = base[g] /\ l = size[g]
        BY <3>2, <1>5
      <3>. QED  BY <3>1, <3>3, <1>5
    <2>3. j * m \in Nat /\ k * l \in Nat
      OBVIOUS
    <2>4. CASE f = g
      <3>1. a = b /\ m = l /\ j # k
        BY <2>1, <2>2, <2>4, <1>6, <1>7
      <3>2. CASE j < k
        <4>1. j * m + m <= k * m
          BY <3>2, PieceEnds
        <4>2. PICK p1 \in Nat, p2 \in Nat : p1 = j * m /\ p2 = k * m
          BY <2>3, <3>1
        <4>3. area(x).from = a + p1 /\ area(x).size = m
          BY <4>2, <2>1
        <4>4. area(y).from = a + p2 /\ area(y).size = m
          <5>1. k * l = p2
            BY <4>2, <3>1
          <5>. QED  BY <5>1, <3>1, <2>2
        <4>5. a + p1 + m <= a + p2 \/ a + p2 + m <= a + p1
          BY <4>1, <4>2
        <4>. QED  BY <4>3, <4>4, <4>5
      <3>3. CASE k < j
        <4>1. k * m + m <= j * m
          BY <3>3, PieceEnds
        <4>2. PICK p1 \in Nat, p2 \in Nat : p1 = j * m /\ p2 = k * m
          BY <2>3, <3>1
        <4>3. area(x).from = a + p1 /\ area(x).size = m
          BY <4>2, <2>1
        <4>4. area(y).from = a + p2 /\ area(y).size = m
          <5>1. k * l = p2
            BY <4>2, <3>1
          <5>. QED  BY <5>1, <3>1, <2>2
        <4>5. a + p1 + m <= a + p2 \/ a + p2 + m <= a + p1
          BY <4>1, <4>2
        <4>. QED  BY <4>3, <4>4, <4>5
      <3>. QED  BY <3>1, <3>2, <3>3
    <2>5. CASE f < g
      <3>1. base[f + 1] <= base[g]
        BY <1>4, <2>5
      <3>. QED  BY <3>1, <2>1, <2>2, <2>3, <1>4
    <2>6. CASE g < f
      <3>1. base[g + 1] <= base[f]
        BY <1>4, <2>6
      <3>. QED  BY <3>1, <2>1, <2>2, <2>3, <1>4
    <2>. QED  BY <2>4, <2>5, <2>6
  <1>8. ASSUME NEW x \in AreaIndices(r)
        PROVE  area(x).from + area(x).size <= all
    <2>1. PICK f \in 1 .. 3 : f = region(x)
      BY <1>5
    <2>2. area(x).from + area(x).size <= base[f + 1]
      BY <1>5, <2>1
    <2>3. base[f + 1] \in Nat /\ base[f + 1] <= all
      BY <1>4
    <2>4. area(x).from + area(x).size \in Int
      BY <1>4, <1>5
    <2>. QED  BY <2>2, <2>3, <2>4
  <1>9. \A x \in AreaIndices(r) :
          [z \in AreaIndices(r) |-> Ada!AreaOf(r, z[1], z[2], z[3])][x] = area(x)
    BY DEF area
  <1>. HIDE DEF AreaIndices
  <1>. QED  BY <1>2, <1>7, <1>8, <1>9 DEF AreasApart
=============================================================================
