--------------------------- MODULE ShareMemoryProofs ---------------------------
(***************************************************************************)
(* Proofs about ShareMemory, for any number of instances, parameters and   *)
(* repeated calls.  The master counts the READYs of all children together, *)
(* so it may count one of them for a handle more often than another.  How  *)
(* much one can lag behind is how often it was not counted for a handle    *)
(* that was published; the calls that were repeated bound that, because    *)
(* only they are READYs a child sends without having built a parameter.    *)
(***************************************************************************)
EXTENDS ShareMemory, FiniteSetTheorems, SequenceTheorems, TLAPS

(* How far an instance has come where it is in the code. *)
MasterInv ==
  /\ pc[Master] \notin {"ready", "ack", "handle"}
  /\ pc[Master] = "out" => published = 0
  /\ pc[Master] = "move" => published = moved[Master] /\ moved[Master] < NumParameters
  /\ pc[Master] = "count" => published + 1 = moved[Master]
  /\ pc[Master] = "raised" => moved[Master] > 0

ChildInv(c) ==
  /\ pc[c] \notin {"move", "count"}
  /\ pc[c] = "out" => own[c] = <<>>
  /\ pc[c] \in {"ready", "ack", "handle", "raised"}
       => moved[c] = Len(own[c]) /\ moved[c] < NumParameters

TypeInv == TypeOK /\ MasterInv /\ \A c \in Children : ChildInv(c)

(* Whether the master has taken a READY of the child for its next parameter, and for how
   many parameters it has taken one. *)
Counted(c) == pc[c] \in {"handle", "raised"} \/ (pc[c] = "ack" /\ c \notin waiting)
Taken == [c \in Children |-> IF Counted(c) THEN Len(own[c]) + 1 ELSE Len(own[c])]

(* The first p handles that were published without a READY of the child for them, and
   the children that were counted for the next one. *)
Skipped(taken, p) == {t \in Children \X (1 .. p) : taken[t[1]] < t[2]}
Ahead(taken, p) == {c \in Children : taken[c] = p + 1}

RequestInv ==
  /\ \A c \in waiting : pc[c] = "ack"
  /\ \A c \in acked : pc[c] = "ack" /\ c \notin waiting

TicketInv ==
  Cardinality(Skipped(Taken, published)) + (IF pc[Master] = "count" THEN ready_count ELSE 0)
    <= Cardinality(Ahead(Taken, published)) + retries

HandleInv(c) ==
  /\ Len(own[c]) + Len(inbox[c]) <= published
  /\ \A k \in 1 .. Len(own[c]) : own[c][k] - k \in 0 .. retries
  /\ \A k \in 1 .. Len(inbox[c]) : inbox[c][k] - (Len(own[c]) + k) \in 0 .. retries

IInv ==
  /\ TypeInv
  /\ RequestInv
  /\ TicketInv
  /\ \A c \in Children : HandleInv(c)

-----------------------------------------------------------------------------
LEMMA Sizes ==
  /\ Master \in Instances /\ Children \subseteq Instances /\ Master \notin Children
  /\ WorldSize - 1 \in Nat /\ NumParameters \in Nat \ {0}
  /\ IsFiniteSet(Children) /\ Cardinality(Children) = WorldSize - 1
  <1>1. Children = 1 .. WorldSize - 1
    BY ShareMemoryAssumption DEF Children, Instances, Master
  <1>2. IsFiniteSet(1 .. WorldSize - 1) /\ Cardinality(1 .. WorldSize - 1) = WorldSize - 1
    BY FS_Interval, ShareMemoryAssumption
  <1>3. IsFiniteSet(Children) /\ Cardinality(Children) = WorldSize - 1
    BY <1>1, <1>2
  <1>4. /\ Master \in Instances /\ Children \subseteq Instances /\ Master \notin Children
        /\ WorldSize - 1 \in Nat /\ NumParameters \in Nat \ {0}
    BY ShareMemoryAssumption DEF Instances, Master, Children
  <1>. QED  BY <1>3, <1>4

LEMMA TypeInit == Init => TypeInv
  <1>. SUFFICES ASSUME Init PROVE TypeInv
    OBVIOUS
  <1>. USE Sizes, ShareMemoryAssumption DEF Init
  <1>1. TypeOK
    BY EmptySeq DEF TypeOK
  <1>2. MasterInv
    BY DEF MasterInv
  <1>3. \A c \in Children : ChildInv(c)
    BY DEF ChildInv
  <1>. QED  BY <1>1, <1>2, <1>3 DEF TypeInv

LEMMA TypeStep == TypeInv /\ [Next]_vars => TypeInv'
  <1>. SUFFICES ASSUME TypeInv, [Next]_vars PROVE TypeInv'
    OBVIOUS
  <1>. USE Sizes, ShareMemoryAssumption DEF TypeInv, Goto
  <1>1. ASSUME NEW i \in Instances, Call(i) PROVE TypeInv'
    <2>1. TypeOK'
      BY <1>1 DEF TypeOK, Call, FirstStep
    <2>2. MasterInv'
      BY <1>1 DEF TypeOK, Call, FirstStep, FallsBack, MasterInv
    <2>3. ASSUME NEW c \in Children PROVE ChildInv(c)'
      BY <1>1, <2>3 DEF TypeOK, Call, FirstStep, FallsBack, ChildInv
    <2>. QED  BY <2>1, <2>2, <2>3
  <1>2. CASE MoveParameter
    <2>1. TypeOK'
      BY <1>2 DEF TypeOK, MoveParameter, MasterInv
    <2>2. MasterInv'
      BY <1>2 DEF TypeOK, MoveParameter, MasterInv
    <2>3. ASSUME NEW c \in Children PROVE ChildInv(c)'
      BY <1>2, <2>3 DEF TypeOK, MoveParameter, ChildInv
    <2>. QED  BY <2>1, <2>2, <2>3
  <1>3. CASE CountReady
    <2>1. TypeOK'
      BY <1>3 DEF TypeOK, CountReady, Missing
    <2>2. MasterInv'
      BY <1>3 DEF CountReady, MasterInv
    <2>3. ASSUME NEW c \in Children PROVE ChildInv(c)'
      BY <1>3, <2>3 DEF CountReady, ChildInv
    <2>. QED  BY <2>1, <2>2, <2>3
  <1>4. CASE MasterTimesOut
    <2>1. TypeOK'
      BY <1>4 DEF TypeOK, MasterTimesOut
    <2>2. MasterInv'
      BY <1>4 DEF TypeOK, MasterTimesOut, MasterInv
    <2>3. ASSUME NEW c \in Children PROVE ChildInv(c)'
      BY <1>4, <2>3 DEF TypeOK, MasterTimesOut, ChildInv
    <2>. QED  BY <2>1, <2>2, <2>3
  <1>5. CASE PublishHandle
    <2>1. moved[Master] \in 1 .. NumParameters /\ published + 1 = moved[Master]
      BY <1>5 DEF TypeOK, PublishHandle, MasterInv
    <2>2. inbox' \in [Children -> Seq(1 .. NumParameters)]
      BY <1>5, <2>1, AppendProperties DEF TypeOK, PublishHandle
    <2>3. TypeOK'
      BY <1>5, <2>1, <2>2 DEF TypeOK, PublishHandle
    <2>4. MasterInv'
      BY <1>5, <2>1 DEF TypeOK, PublishHandle, MasterInv
    <2>5. ASSUME NEW c \in Children PROVE ChildInv(c)'
      BY <1>5, <2>5 DEF TypeOK, PublishHandle, ChildInv
    <2>. QED  BY <2>3, <2>4, <2>5
  <1>6. ASSUME NEW c \in Children, SendReady(c) \/ ReceiveAck(c) \/ ChildTimesOut(c) PROVE TypeInv'
    <2>1. TypeOK'
      BY <1>6 DEF TypeOK, SendReady, ReceiveAck, ChildTimesOut
    <2>2. MasterInv'
      BY <1>6 DEF TypeOK, SendReady, ReceiveAck, ChildTimesOut, MasterInv
    <2>3. ASSUME NEW d \in Children PROVE ChildInv(d)'
      BY <1>6, <2>3 DEF TypeOK, SendReady, ReceiveAck, ChildTimesOut, ChildInv
    <2>. QED  BY <2>1, <2>2, <2>3
  <1>7. ASSUME NEW c \in Children, ReceiveHandle(c) PROVE TypeInv'
    <2>1. /\ Head(inbox[c]) \in 1 .. NumParameters /\ Tail(inbox[c]) \in Seq(1 .. NumParameters)
          /\ moved[c] = Len(own[c]) /\ moved[c] < NumParameters /\ moved[c] \in Nat
      BY <1>7, HeadTailProperties DEF TypeOK, ReceiveHandle, ChildInv
    <2>2. /\ Append(own[c], Head(inbox[c])) \in Seq(1 .. NumParameters)
          /\ Len(Append(own[c], Head(inbox[c]))) = Len(own[c]) + 1
      BY <2>1, AppendProperties DEF TypeOK
    <2>3. TypeOK'
      BY <1>7, <2>1, <2>2 DEF TypeOK, ReceiveHandle
    <2>4. MasterInv'
      BY <1>7 DEF TypeOK, ReceiveHandle, MasterInv
    <2>5. ASSUME NEW d \in Children PROVE ChildInv(d)'
      <3>1. CASE d # c
        BY <1>7, <2>5, <3>1 DEF TypeOK, ReceiveHandle, ChildInv
      <3>2. CASE d = c
        BY <1>7, <2>1, <2>2, <3>2 DEF TypeOK, ReceiveHandle, ChildInv
      <3>. QED  BY <3>1, <3>2
    <2>. QED  BY <2>3, <2>4, <2>5
  <1>8. ASSUME NEW c \in Children, Join(c) PROVE TypeInv'
    BY <1>8 DEF TypeOK, Join, MasterInv, ChildInv
  <1>9. CASE UNCHANGED vars
    BY <1>9 DEF vars, TypeOK, MasterInv, ChildInv
  <1>. QED
    BY <1>1, <1>2, <1>3, <1>4, <1>5, <1>6, <1>7, <1>8, <1>9 DEF Next, MasterStep, ChildStep

(* share_memory.py: how far the calls have come is always a step of broadcast_handle
   and a number of parameters the model has. *)
THEOREM TypeCorrect == Spec => []TypeOK
  <1>1. TypeInv => TypeOK
    BY DEF TypeInv
  <1>. QED  BY <1>1, TypeInit, TypeStep, PTL DEF Spec

-----------------------------------------------------------------------------
(* Counting READYs. *)
LEMMA Counts ==
  ASSUME NEW f \in [Children -> Nat], NEW p \in Nat
  PROVE  /\ IsFiniteSet(Skipped(f, p)) /\ Cardinality(Skipped(f, p)) \in Nat
         /\ IsFiniteSet(Ahead(f, p)) /\ Cardinality(Ahead(f, p)) \in Nat
  <1>1. IsFiniteSet(1 .. p)
    BY FS_Interval
  <1>2. IsFiniteSet(Children \X (1 .. p))
    BY <1>1, Sizes, FS_Product
  <1>3. Skipped(f, p) \subseteq Children \X (1 .. p) /\ Ahead(f, p) \subseteq Children
    BY DEF Skipped, Ahead
  <1>4. IsFiniteSet(Skipped(f, p)) /\ IsFiniteSet(Ahead(f, p))
    BY <1>2, <1>3, Sizes, FS_Subset
  <1>. QED  BY <1>4, FS_CardinalityType

LEMMA OneMoreReady ==
  ASSUME NEW f \in [Children -> Nat], NEW p \in Nat, NEW c \in Children, f[c] <= p,
         NEW g, g = [f EXCEPT ![c] = @ + 1]
  PROVE  Cardinality(Skipped(f, p)) - Cardinality(Ahead(f, p))
           = Cardinality(Skipped(g, p)) - Cardinality(Ahead(g, p)) + 1
  <1>1. g \in [Children -> Nat] /\ g[c] = f[c] + 1 /\ \A d \in Children \ {c} : g[d] = f[d]
    OBVIOUS
  <1>2. CASE f[c] = p
    <2>1. Skipped(g, p) = Skipped(f, p)
      BY <1>1, <1>2 DEF Skipped
    <2>2. Ahead(g, p) = Ahead(f, p) \cup {c} /\ c \notin Ahead(f, p)
      BY <1>1, <1>2 DEF Ahead
    <2>3. Cardinality(Ahead(g, p)) = Cardinality(Ahead(f, p)) + 1
      BY <2>2, Counts, FS_AddElement
    <2>. QED  BY <2>1, <2>3, <1>1, Counts
  <1>3. CASE f[c] < p
    <2>1. Ahead(g, p) = Ahead(f, p)
      BY <1>1, <1>3 DEF Ahead
    <2>2. Skipped(g, p) = Skipped(f, p) \ {<<c, f[c] + 1>>} /\ <<c, f[c] + 1>> \in Skipped(f, p)
      BY <1>1, <1>3 DEF Skipped
    <2>3. IsFiniteSet(Skipped(f, p))
      BY Counts
    <2>4. Cardinality(Skipped(f, p) \ {<<c, f[c] + 1>>}) = Cardinality(Skipped(f, p)) - 1
      <3>1. PICK t : t = <<c, f[c] + 1>>
        OBVIOUS
      <3>2. t \in Skipped(f, p)
        BY <2>2, <3>1
      <3>3. Cardinality(Skipped(f, p) \ {t}) = Cardinality(Skipped(f, p)) - 1
        BY <2>3, <3>2, FS_RemoveElement
      <3>. QED  BY <3>1, <3>3
    <2>5. Cardinality(Skipped(g, p)) = Cardinality(Skipped(f, p)) - 1
      BY <2>2, <2>4
    <2>. QED  BY <2>1, <2>5, <1>1, Counts
  <1>. QED  BY <1>2, <1>3

LEMMA OneMoreHandle ==
  ASSUME NEW f \in [Children -> Nat], NEW p \in Nat, \A c \in Children : f[c] <= p + 1
  PROVE  /\ Cardinality(Skipped(f, p + 1))
              = Cardinality(Skipped(f, p)) + WorldSize - 1 - Cardinality(Ahead(f, p))
         /\ Cardinality(Ahead(f, p + 1)) = 0
  <1>. DEFINE New == (Children \ Ahead(f, p)) \X {p + 1}
  <1>1. Skipped(f, p + 1) = Skipped(f, p) \cup New
    BY DEF Skipped, Ahead
  <1>2. Skipped(f, p) \cap New = {}
    BY DEF Skipped
  <1>3. /\ IsFiniteSet(Children \ Ahead(f, p))
        /\ Cardinality(Children \ Ahead(f, p)) = WorldSize - 1 - Cardinality(Ahead(f, p))
    <2>1. Children \cap Ahead(f, p) = Ahead(f, p)
      BY DEF Ahead
    <2>. QED  BY <2>1, Sizes, FS_Difference
  <1>4. IsFiniteSet(New) /\ Cardinality(New) = WorldSize - 1 - Cardinality(Ahead(f, p))
    <2>1. IsFiniteSet({p + 1}) /\ Cardinality({p + 1}) = 1
      BY FS_Singleton
    <2>2. IsFiniteSet(New) /\ Cardinality(New) = Cardinality(Children \ Ahead(f, p)) * 1
      BY <1>3, <2>1, FS_Product
    <2>. QED  BY <1>3, <2>2, Sizes, Counts
  <1>5. Cardinality(Skipped(f, p) \cup New) = Cardinality(Skipped(f, p)) + Cardinality(New)
    <2>1. /\ Cardinality(Skipped(f, p) \cup New)
               = Cardinality(Skipped(f, p)) + Cardinality(New) - Cardinality(Skipped(f, p) \cap New)
      BY <1>4, Counts, FS_Union
    <2>2. Cardinality(Skipped(f, p) \cap New) = 0
      BY <1>2, FS_EmptySet
    <2>3. Cardinality(New) \in Int /\ Cardinality(Skipped(f, p)) \in Int
      BY <1>4, Counts, FS_CardinalityType
    <2>. HIDE DEF New
    <2>. QED  BY <2>1, <2>2, <2>3
  <1>6. Ahead(f, p + 1) = {}
    BY DEF Ahead
  <1>. QED  BY <1>1, <1>4, <1>5, <1>6, Counts, Sizes, FS_EmptySet

(* A child was not counted for as many handles as it lags behind. *)
LEMMA LagIsSkipped ==
  ASSUME NEW f \in [Children -> Nat], NEW p \in Nat, NEW c \in Children
  PROVE  p - f[c] <= Cardinality(Skipped(f, p))
  <1>1. CASE f[c] >= p
    BY <1>1, Counts
  <1>2. CASE f[c] < p
    <2>. DEFINE Lag == {c} \X (f[c] + 1 .. p)
    <2>1. Lag \subseteq Skipped(f, p)
      BY <1>2 DEF Skipped
    <2>2. IsFiniteSet({c}) /\ Cardinality({c}) = 1
      BY FS_Singleton
    <2>3. f[c] + 1 \in Int /\ p \in Int
      OBVIOUS
    <2>4. IsFiniteSet(f[c] + 1 .. p) /\ Cardinality(f[c] + 1 .. p) = p - f[c]
      BY <1>2, <2>3, FS_Interval
    <2>5. Cardinality(Lag) = 1 * (p - f[c])
      BY <2>2, <2>4, FS_Product
    <2>6. Cardinality(Lag) <= Cardinality(Skipped(f, p))
      BY <2>1, Counts, FS_Subset
    <2>. QED  BY <2>5, <2>6
  <1>. QED  BY <1>1, <1>2

-----------------------------------------------------------------------------
LEMMA TakenType ==
  ASSUME TypeInv
  PROVE  /\ Taken \in [Children -> Nat]
         /\ \A c \in Children : /\ Len(own[c]) \in Nat
                                /\ Counted(c) => Taken[c] = Len(own[c]) + 1
                                /\ ~Counted(c) => Taken[c] = Len(own[c])
  <1>1. ASSUME NEW c \in Children
        PROVE  /\ Len(own[c]) \in Nat /\ Taken[c] \in Nat
               /\ Counted(c) => Taken[c] = Len(own[c]) + 1
               /\ ~Counted(c) => Taken[c] = Len(own[c])
    <2>1. Len(own[c]) \in Nat
      BY DEF TypeInv, TypeOK
    <2>2. Taken[c] = IF Counted(c) THEN Len(own[c]) + 1 ELSE Len(own[c])
      BY DEF Taken
    <2>3. CASE Counted(c)
      BY <2>1, <2>2, <2>3
    <2>4. CASE ~Counted(c)
      BY <2>1, <2>2, <2>4
    <2>. QED  BY <2>3, <2>4
  <1>2. Taken = [c \in Children |-> Taken[c]]
    BY DEF Taken
  <1>. QED  BY <1>1, <1>2

LEMMA TicketInit == Init => IInv
  <1>. SUFFICES ASSUME Init PROVE IInv
    OBVIOUS
  <1>1. RequestInv /\ \A c \in Children : HandleInv(c)
    BY Sizes, ShareMemoryAssumption DEF Init, RequestInv, HandleInv
  <1>2. TypeInv
    BY TypeInit
  <1>3. Skipped(Taken, published) = {}
    BY DEF Init, Skipped
  <1>4. Cardinality(Skipped(Taken, published)) = 0
    BY <1>3, FS_EmptySet
  <1>5. Cardinality(Ahead(Taken, published)) \in Nat
    BY <1>2, TakenType, Counts DEF TypeInv, TypeOK, Init
  <1>6. TicketInv
    BY <1>4, <1>5, Sizes DEF Init, TicketInv
  <1>. QED  BY <1>1, <1>2, <1>6 DEF IInv

(* What the types say, and how much a child can be counted ahead. *)
LEMMA Bounds ==
  ASSUME IInv
  PROVE  /\ ready_count \in 0 .. WorldSize - 1 /\ published \in Nat /\ retries \in Nat
         /\ Taken \in [Children -> Nat]
         /\ \A c \in Children : /\ Len(own[c]) <= published
                                /\ Taken[c] <= published + 1 /\ Taken[c] <= Len(own[c]) + 1
  <1>1. ready_count \in 0 .. WorldSize - 1 /\ published \in Nat /\ retries \in Nat
    BY Sizes DEF IInv, TypeInv, TypeOK
  <1>2. ASSUME NEW c \in Children
        PROVE  /\ Len(own[c]) <= published
               /\ Taken[c] <= published + 1 /\ Taken[c] <= Len(own[c]) + 1
    <2>1. Len(own[c]) \in Nat /\ Len(inbox[c]) \in Nat /\ Len(own[c]) + Len(inbox[c]) <= published
      BY DEF IInv, TypeInv, TypeOK, HandleInv
    <2>2. Taken[c] = Len(own[c]) + 1 \/ Taken[c] = Len(own[c])
      BY TakenType DEF IInv
    <2>3. PICK m, n, t : m = Len(own[c]) /\ n = Len(inbox[c]) /\ t = Taken[c]
      OBVIOUS
    <2>4. m \in Nat /\ n \in Nat /\ m + n <= published /\ (t = m + 1 \/ t = m)
      BY <2>1, <2>2, <2>3
    <2>5. m <= published /\ t <= published + 1 /\ t <= m + 1
      BY <1>1, <2>4
    <2>. QED  BY <2>3, <2>5
  <1>. QED  BY <1>1, <1>2, TakenType DEF IInv

(* Steps in which the master takes no READY, and those in which no handle moves. *)
LEMMA QuietTickets ==
  ASSUME IInv, Taken' = Taken, published' = published, retries' \in {retries, retries + 1},
         pc'[Master] = "count" => ready_count' = 0 \/ (pc[Master] = "count" /\ ready_count' = ready_count)
  PROVE  TicketInv'
  <1>. DEFINE s == Cardinality(Skipped(Taken, published))
              a == Cardinality(Ahead(Taken, published))
  <1>1. s \in Nat /\ a \in Nat /\ retries \in Nat /\ ready_count \in Nat
    BY Bounds, Counts, Sizes
  <1>2. s + (IF pc[Master] = "count" THEN ready_count ELSE 0) <= a + retries
    BY DEF IInv, TicketInv
  <1>3. s' = s /\ a' = a
    OBVIOUS
  <1>4. s + (IF pc'[Master] = "count" THEN ready_count' ELSE 0) <= a + retries'
    <2>. HIDE DEF s, a
    <2>. QED  BY <1>1, <1>2
  <1>. QED  BY <1>3, <1>4 DEF TicketInv

LEMMA QuietHandles ==
  ASSUME IInv, NEW c \in Children, published' = published, retries' \in {retries, retries + 1},
         own'[c] = own[c], inbox'[c] = inbox[c]
  PROVE  HandleInv(c)'
  <1>1. \A x \in 0 .. retries : x \in 0 .. retries'
    BY Bounds
  <1>2. Len(own[c]) + Len(inbox[c]) <= published
    BY DEF IInv, HandleInv
  <1>3. \A k \in 1 .. Len(own[c]) : own[c][k] - k \in 0 .. retries'
    BY <1>1 DEF IInv, HandleInv
  <1>4. \A k \in 1 .. Len(inbox[c]) : inbox[c][k] - (Len(own[c]) + k) \in 0 .. retries'
    BY <1>1 DEF IInv, HandleInv
  <1>. QED  BY <1>2, <1>3, <1>4 DEF HandleInv

LEMMA QuietTaken ==
  ASSUME UNCHANGED own, \A c \in Children : Counted(c)' <=> Counted(c)
  PROVE  Taken' = Taken
  BY DEF Taken

-----------------------------------------------------------------------------
LEMMA CallStep ==
  ASSUME IInv, TypeInv', NEW i \in Instances, Call(i)
  PROVE  RequestInv' /\ TicketInv' /\ \A c \in Children : HandleInv(c)'
  <1>. USE Sizes DEF Goto
  <1>a. /\ pc \in [Instances -> {"out", "move", "count", "ready", "ack", "handle", "returned", "raised"}]
        /\ waiting \subseteq Children /\ acked \subseteq Children
    BY DEF IInv, TypeInv, TypeOK
  <1>b. retries' \in {retries, retries + 1} /\ UNCHANGED <<own, inbox, published>>
    BY DEF Call
  <1>1. RequestInv'
    BY <1>a DEF Call, IInv, RequestInv
  <1>2. \A c \in Children : HandleInv(c)'
    BY <1>b, QuietHandles
  <1>3. pc'[Master] # "count" \/ (pc'[Master] = pc[Master] /\ UNCHANGED ready_count)
    BY <1>a DEF Call, FirstStep
  <1>4. CASE i = Master \/ pc[i] = "out"
    <2>1. \A c \in Children : Counted(c)' <=> Counted(c)
      BY <1>a, <1>4 DEF Call, Counted, FirstStep
    <2>. QED  BY <1>1, <1>2, <1>3, <1>b, <2>1, QuietTaken, QuietTickets
  <1>5. CASE i \in Children /\ pc[i] = "raised"
    <2>1. Counted(i) /\ ~Counted(i)' /\ \A c \in Children \ {i} : Counted(c)' <=> Counted(c)
      BY <1>a, <1>5 DEF Call, Counted, FirstStep
    <2>2. Len(own[i]) \in Nat /\ Taken[i] = Len(own[i]) + 1 /\ Taken'[i] = Len(own[i])
      BY <1>5, <1>b, <2>1, TakenType DEF IInv, Taken
    <2>3. \A c \in Children \ {i} : Taken'[c] = Taken[c]
      BY <1>b, <2>1 DEF Taken
    <2>4. PICK f : f = Taken'
      OBVIOUS
    <2>5. f = [c \in Children |-> f[c]]
      BY <2>4 DEF Taken
    <2>6. f \in [Children -> Nat]
      BY <1>5, <2>2, <2>3, <2>4, <2>5, Bounds
    <2>7. Taken = [f EXCEPT ![i] = @ + 1] /\ f[i] <= published
      BY <1>5, <2>2, <2>3, <2>4, <2>6, Bounds
    <2>8. Cardinality(Skipped(f, published)) - Cardinality(Ahead(f, published))
            = Cardinality(Skipped(Taken, published)) - Cardinality(Ahead(Taken, published)) + 1
      <3>1. published \in Nat
        BY Bounds
      <3>. QED  BY <1>5, <2>6, <2>7, <3>1, OneMoreReady
    <2>9. /\ Cardinality(Skipped(f, published)) \in Nat
          /\ Cardinality(Ahead(f, published)) \in Nat
          /\ Cardinality(Skipped(Taken, published)) \in Nat
          /\ Cardinality(Ahead(Taken, published)) \in Nat
      BY <2>6, Bounds, Counts
    <2>10. retries' = retries + 1 /\ pc'[Master] = pc[Master] /\ UNCHANGED ready_count
      BY <1>5, <1>a DEF Call
    <2>11. Cardinality(Skipped(Taken, published)) + (IF pc[Master] = "count" THEN ready_count ELSE 0)
             <= Cardinality(Ahead(Taken, published)) + retries
      BY DEF IInv, TicketInv
    <2>12. Cardinality(Skipped(f, published)) + (IF pc[Master] = "count" THEN ready_count ELSE 0)
             <= Cardinality(Ahead(f, published)) + retries + 1
      <3>1. PICK r : r = IF pc[Master] = "count" THEN ready_count ELSE 0
        OBVIOUS
      <3>2. r \in Nat /\ retries \in Nat
        BY <3>1, Bounds
      <3>. QED  BY <2>8, <2>9, <2>11, <3>1, <3>2
    <2>13. TicketInv'
      <3>1. Skipped(Taken, published)' = Skipped(f, published)
        BY <1>b, <2>4 DEF Skipped
      <3>2. Ahead(Taken, published)' = Ahead(f, published)
        BY <1>b, <2>4 DEF Ahead
      <3>. QED  BY <2>9, <2>10, <2>12, <3>1, <3>2, Bounds DEF TicketInv
    <2>. QED  BY <1>1, <1>2, <2>13
  <1>. QED  BY <1>4, <1>5 DEF Call, Children

LEMMA CountStep ==
  ASSUME IInv, TypeInv', CountReady
  PROVE  RequestInv' /\ TicketInv' /\ \A c \in Children : HandleInv(c)'
  <1>a. /\ waiting \subseteq Children /\ acked \subseteq Children
        /\ UNCHANGED <<pc, own, inbox, published, retries>>
        /\ pc[Master] = "count" /\ ready_count' = ready_count + 1
    BY DEF CountReady, IInv, TypeInv, TypeOK
  <1>1. PICK c \in waiting : waiting' = waiting \ {c} /\ acked' = acked \cup {c}
    BY DEF CountReady
  <1>2. c \in Children /\ pc[c] = "ack"
    BY <1>a, <1>1 DEF IInv, RequestInv
  <1>3. RequestInv'
    BY <1>a, <1>1, <1>2 DEF IInv, RequestInv
  <1>4. \A d \in Children : HandleInv(d)'
    BY <1>a, QuietHandles
  <1>5. ~Counted(c) /\ Counted(c)' /\ \A d \in Children \ {c} : Counted(d)' <=> Counted(d)
    BY <1>a, <1>1, <1>2 DEF Counted
  <1>6. Taken' = [Taken EXCEPT ![c] = @ + 1]
    <2>1. Taken[c] = Len(own[c]) /\ Taken'[c] = Len(own[c]) + 1
      BY <1>a, <1>2, <1>5 DEF Taken
    <2>2. \A d \in Children \ {c} : Taken'[d] = Taken[d]
      BY <1>a, <1>5 DEF Taken
    <2>. QED  BY <1>2, <2>1, <2>2 DEF Taken
  <1>7. Taken[c] <= published
    <2>1. Taken[c] = Len(own[c])
      BY <1>2, <1>5, TakenType DEF IInv
    <2>. QED  BY <1>2, <2>1, Bounds
  <1>8. PICK g : g = Taken'
    OBVIOUS
  <1>9. g \in [Children -> Nat] /\ g = [Taken EXCEPT ![c] = @ + 1]
    BY <1>2, <1>6, <1>8, Bounds
  <1>10. Cardinality(Skipped(Taken, published)) - Cardinality(Ahead(Taken, published))
           = Cardinality(Skipped(g, published)) - Cardinality(Ahead(g, published)) + 1
    <2>1. published \in Nat /\ Taken \in [Children -> Nat]
      BY Bounds
    <2>2. PICK f, p : f = Taken /\ p = published
      OBVIOUS
    <2>3. f \in [Children -> Nat] /\ p \in Nat /\ f[c] <= p /\ g = [f EXCEPT ![c] = @ + 1]
      BY <1>7, <1>9, <2>1, <2>2
    <2>4. Cardinality(Skipped(f, p)) - Cardinality(Ahead(f, p))
            = Cardinality(Skipped(g, p)) - Cardinality(Ahead(g, p)) + 1
      BY <1>2, <2>3, OneMoreReady
    <2>. QED  BY <2>2, <2>4
  <1>11. /\ Cardinality(Skipped(g, published)) \in Nat
         /\ Cardinality(Ahead(g, published)) \in Nat
         /\ Cardinality(Skipped(Taken, published)) \in Nat
         /\ Cardinality(Ahead(Taken, published)) \in Nat
         /\ ready_count \in Nat /\ retries \in Nat
    <2>1. Taken \in [Children -> Nat] /\ published \in Nat /\ retries \in Nat /\ ready_count \in Nat
      BY Bounds, Sizes
    <2>. QED  BY <1>9, <2>1, Counts
  <1>12. Cardinality(Skipped(Taken, published)) + ready_count
           <= Cardinality(Ahead(Taken, published)) + retries
    BY <1>a DEF IInv, TicketInv
  <1>13. Cardinality(Skipped(g, published)) + (ready_count + 1)
           <= Cardinality(Ahead(g, published)) + retries
    BY <1>10, <1>11, <1>12
  <1>14. TicketInv'
    <2>1. Skipped(Taken, published)' = Skipped(g, published)
      BY <1>a, <1>8 DEF Skipped
    <2>2. Ahead(Taken, published)' = Ahead(g, published)
      BY <1>a, <1>8 DEF Ahead
    <2>. QED  BY <1>a, <1>13, <2>1, <2>2 DEF TicketInv
  <1>. QED  BY <1>3, <1>4, <1>14

LEMMA PublishStep ==
  ASSUME IInv, TypeInv', PublishHandle
  PROVE  RequestInv' /\ TicketInv' /\ \A c \in Children : HandleInv(c)'
  <1>a. /\ pc \in [Instances -> {"out", "move", "count", "ready", "ack", "handle", "returned", "raised"}]
        /\ pc[Master] = "count" /\ pc'[Master] # "count"
        /\ \A c \in Children : pc'[c] = pc[c]
        /\ UNCHANGED <<own, waiting, acked, retries>>
        /\ published' = published + 1 /\ moved[Master] = published + 1
    BY Sizes DEF PublishHandle, Goto, IInv, TypeInv, TypeOK, MasterInv
  <1>1. RequestInv'
    BY <1>a DEF IInv, TypeInv, TypeOK, RequestInv
  <1>2. Taken' = Taken
    <2>1. \A c \in Children : Counted(c)' <=> Counted(c)
      BY <1>a DEF Counted
    <2>. QED  BY <1>a, <2>1, QuietTaken
  <1>3. /\ Taken \in [Children -> Nat] /\ published \in Nat
        /\ \A c \in Children : Taken[c] <= published + 1
    BY Bounds
  <1>4. /\ Cardinality(Skipped(Taken, published + 1))
             = Cardinality(Skipped(Taken, published)) + WorldSize - 1
                 - Cardinality(Ahead(Taken, published))
        /\ Cardinality(Ahead(Taken, published + 1)) = 0
    BY <1>3, OneMoreHandle
  <1>5. Cardinality(Skipped(Taken, published)) + (WorldSize - 1)
          <= Cardinality(Ahead(Taken, published)) + retries
    <2>1. ready_count = WorldSize - 1
      BY Bounds, Sizes DEF PublishHandle, Missing
    <2>. QED  BY <1>a, <2>1 DEF IInv, TicketInv
  <1>6. /\ Cardinality(Skipped(Taken, published + 1)) <= retries
        /\ Cardinality(Skipped(Taken, published + 1)) \in Nat /\ retries \in Nat
    <2>1. /\ Cardinality(Skipped(Taken, published)) \in Nat
          /\ Cardinality(Ahead(Taken, published)) \in Nat
          /\ retries \in Nat /\ WorldSize \in Nat
      BY <1>3, Bounds, Counts, ShareMemoryAssumption
    <2>2. published + 1 \in Nat
      BY <1>3
    <2>3. Cardinality(Skipped(Taken, published + 1)) \in Nat
      BY <1>3, <2>2, Counts
    <2>. QED  BY <1>4, <1>5, <2>1, <2>3
  <1>7. TicketInv'
    <2>1. Cardinality(Skipped(Taken, published))' = Cardinality(Skipped(Taken, published + 1))
      BY <1>a, <1>2
    <2>2. Cardinality(Ahead(Taken, published))' = 0
      BY <1>a, <1>2, <1>4
    <2>. QED  BY <1>a, <1>6, <2>1, <2>2 DEF TicketInv
  <1>8. ASSUME NEW c \in Children PROVE HandleInv(c)'
    <2>1. PICK m, n : m = Len(own[c]) /\ n = Len(inbox[c])
      OBVIOUS
    <2>2. /\ m \in Nat /\ n \in Nat /\ m + n <= published
          /\ inbox[c] \in Seq(1 .. NumParameters) /\ published + 1 \in 1 .. NumParameters
      BY <1>a, <2>1, Sizes DEF IInv, HandleInv, TypeInv, TypeOK
    <2>3. /\ \A k \in 1 .. m : own[c][k] - k \in 0 .. retries
          /\ \A k \in 1 .. n : inbox[c][k] - (m + k) \in 0 .. retries
      BY <2>1 DEF IInv, HandleInv
    <2>4. inbox'[c] = IF c \in joined THEN Append(inbox[c], published + 1) ELSE inbox[c]
      BY <1>a DEF PublishHandle
    <2>5. CASE c \notin joined
      <3>1. m + n <= published + 1
        BY <1>3, <2>2
      <3>. QED  BY <1>a, <2>1, <2>3, <2>4, <2>5, <3>1 DEF HandleInv
    <2>6. CASE c \in joined
      <3>1. /\ inbox'[c] = Append(inbox[c], published + 1) /\ Len(inbox'[c]) = n + 1
            /\ \A k \in 1 .. n : inbox'[c][k] = inbox[c][k]
            /\ inbox'[c][n + 1] = published + 1
        BY <2>1, <2>2, <2>4, <2>6, AppendProperties
      <3>2. published + 1 - (m + n + 1) \in 0 .. retries
        <4>1. published + 1 - Taken[c] <= Cardinality(Skipped(Taken, published + 1))
          BY <1>3, LagIsSkipped
        <4>2. Taken[c] <= m + 1 /\ Taken[c] \in Nat
          BY <1>3, <2>1, Bounds
        <4>. QED  BY <1>3, <1>6, <2>2, <4>1, <4>2
      <3>3. \A k \in 1 .. n + 1 : inbox'[c][k] - (m + k) \in 0 .. retries
        <4>. TAKE k \in 1 .. n + 1
        <4>1. CASE k \in 1 .. n
          BY <2>3, <3>1, <4>1
        <4>2. CASE k = n + 1
          <5>1. inbox'[c][k] = published + 1
            BY <3>1, <4>2
          <5>2. m + k = m + n + 1
            BY <2>2, <4>2
          <5>. QED  BY <1>3, <2>2, <3>2, <5>1, <5>2
        <4>. QED  BY <2>2, <4>1, <4>2
      <3>4. m + (n + 1) <= published + 1
        BY <1>3, <2>2
      <3>. QED  BY <1>a, <2>1, <2>3, <3>1, <3>3, <3>4 DEF HandleInv
    <2>. QED  BY <2>5, <2>6
  <1>. QED  BY <1>1, <1>7, <1>8

LEMMA HandleStep ==
  ASSUME IInv, TypeInv', NEW c \in Children, ReceiveHandle(c)
  PROVE  RequestInv' /\ TicketInv' /\ \A d \in Children : HandleInv(d)'
  <1>. USE Sizes DEF Goto
  <1>a. /\ pc \in [Instances -> {"out", "move", "count", "ready", "ack", "handle", "returned", "raised"}]
        /\ pc[c] = "handle" /\ pc'[c] \in {"returned", "ready"}
        /\ \A i \in Instances \ {c} : pc'[i] = pc[i]
        /\ UNCHANGED <<ready_count, waiting, acked, published, retries>>
        /\ waiting \subseteq Children /\ acked \subseteq Children
    BY DEF ReceiveHandle, IInv, TypeInv, TypeOK
  <1>b. /\ \A d \in Children \ {c} : own'[d] = own[d] /\ inbox'[d] = inbox[d]
        /\ own'[c] = Append(own[c], Head(inbox[c])) /\ inbox'[c] = Tail(inbox[c])
        /\ own[c] \in Seq(1 .. NumParameters) /\ inbox[c] \in Seq(1 .. NumParameters)
        /\ inbox[c] # <<>>
    BY DEF ReceiveHandle, IInv, TypeInv, TypeOK
  <1>1. RequestInv'
    BY <1>a DEF IInv, RequestInv
  <1>2. PICK m, n : m = Len(own[c]) /\ n = Len(inbox[c])
    OBVIOUS
  <1>3. /\ m \in Nat /\ n \in Nat \ {0} /\ m + n <= published /\ published \in Nat
        /\ \A k \in 1 .. m : own[c][k] - k \in 0 .. retries
        /\ \A k \in 1 .. n : inbox[c][k] - (m + k) \in 0 .. retries
    <2>1. m \in Nat /\ n \in Nat \ {0}
      BY <1>b, <1>2, EmptySeq
    <2>. QED  BY <1>2, <2>1, Bounds DEF IInv, HandleInv
  <1>4. /\ Len(own'[c]) = m + 1
        /\ \A k \in 1 .. m : own'[c][k] = own[c][k]
        /\ own'[c][m + 1] = inbox[c][1]
    <2>1. Head(inbox[c]) = inbox[c][1] /\ Head(inbox[c]) \in 1 .. NumParameters
      BY <1>b, HeadTailProperties
    <2>. QED  BY <1>b, <1>2, <2>1, AppendProperties
  <1>5. /\ Len(inbox'[c]) = n - 1
        /\ \A k \in 1 .. n - 1 : inbox'[c][k] = inbox[c][k + 1]
    BY <1>b, <1>2, HeadTailProperties
  <1>6. HandleInv(c)'
    <2>1. (m + 1) + (n - 1) <= published
      BY <1>3
    <2>2. \A k \in 1 .. m + 1 : own'[c][k] - k \in 0 .. retries
      <3>1. 1 \in 1 .. n
        BY <1>3
      <3>2. inbox[c][1] - (m + 1) \in 0 .. retries
        BY <1>3, <3>1
      <3>. TAKE k \in 1 .. m + 1
      <3>3. CASE k \in 1 .. m
        BY <1>3, <1>4, <3>3
      <3>4. CASE k = m + 1
        BY <1>4, <3>2, <3>4
      <3>. QED  BY <1>3, <3>3, <3>4
    <2>3. \A k \in 1 .. n - 1 : inbox'[c][k] - ((m + 1) + k) \in 0 .. retries
      <3>. TAKE k \in 1 .. n - 1
      <3>1. k + 1 \in 1 .. n /\ m + (k + 1) = (m + 1) + k
        BY <1>3
      <3>2. inbox[c][k + 1] - (m + (k + 1)) \in 0 .. retries
        BY <1>3, <3>1
      <3>. QED  BY <1>5, <3>1, <3>2
    <2>. QED  BY <1>a, <1>4, <1>5, <2>1, <2>2, <2>3 DEF HandleInv
  <1>7. \A d \in Children : HandleInv(d)'
    BY <1>6, <1>a, <1>b, QuietHandles
  <1>8. Taken' = Taken
    <2>1. Taken[c] = m + 1 /\ Taken'[c] = m + 1
      BY <1>a, <1>2, <1>4 DEF Taken, Counted
    <2>2. \A d \in Children \ {c} : Taken'[d] = Taken[d]
      BY <1>a, <1>b DEF Taken, Counted
    <2>. QED  BY <2>1, <2>2 DEF Taken
  <1>9. TicketInv'
    BY <1>a, <1>8, QuietTickets
  <1>. QED  BY <1>1, <1>7, <1>9

(* The other steps take no READY and move no handle. *)
LEMMA OtherStep ==
  ASSUME IInv, TypeInv',
         \/ MoveParameter \/ MasterTimesOut \/ UNCHANGED vars
         \/ \E c \in Children : SendReady(c) \/ ReceiveAck(c) \/ ChildTimesOut(c) \/ Join(c)
  PROVE  RequestInv' /\ TicketInv' /\ \A d \in Children : HandleInv(d)'
  <1>. USE Sizes DEF Goto
  <1>a. /\ pc \in [Instances -> {"out", "move", "count", "ready", "ack", "handle", "returned", "raised"}]
        /\ waiting \subseteq Children /\ acked \subseteq Children
    BY DEF IInv, TypeInv, TypeOK
  <1>b. UNCHANGED <<own, inbox, published, retries>>
    BY DEF MoveParameter, MasterTimesOut, vars, SendReady, ReceiveAck, ChildTimesOut, Join
  <1>1. RequestInv'
    BY <1>a DEF IInv, RequestInv, MoveParameter, MasterTimesOut, vars, SendReady, ReceiveAck,
                ChildTimesOut, Join
  <1>2. \A d \in Children : Counted(d)' <=> Counted(d)
    BY <1>a DEF IInv, RequestInv, Counted, MoveParameter, MasterTimesOut, vars, SendReady,
                ReceiveAck, ChildTimesOut, Join
  <1>3. pc'[Master] = "count" => ready_count' = 0 \/ (pc[Master] = "count" /\ ready_count' = ready_count)
    BY <1>a DEF MoveParameter, MasterTimesOut, vars, SendReady, ReceiveAck, ChildTimesOut, Join
  <1>. QED  BY <1>1, <1>2, <1>3, <1>b, QuietTaken, QuietTickets, QuietHandles

(* share_memory.py: a child builds a parameter on the memory of that parameter, or on that
   of one at most as many places later as calls have been repeated, however many instances
   there are, whenever subscriptions take effect and whoever times out. *)
THEOREM SharesOwn == Spec => []SharesItsOwn
  <1>1. IInv /\ [Next]_vars => IInv'
    <2>. SUFFICES ASSUME IInv, [Next]_vars PROVE IInv'
      OBVIOUS
    <2>1. TypeInv'
      BY TypeStep DEF IInv
    <2>2. RequestInv' /\ TicketInv' /\ \A d \in Children : HandleInv(d)'
      BY <2>1, CallStep, CountStep, PublishStep, HandleStep, OtherStep
         DEF Next, MasterStep, ChildStep
    <2>. QED  BY <2>1, <2>2 DEF IInv
  <1>2. IInv => SharesItsOwn
    <2>. SUFFICES ASSUME IInv, NEW c \in Children, NEW k \in DOMAIN own[c]
                  PROVE  own[c][k] - k \in 0 .. retries
      BY DEF SharesItsOwn
    <2>1. DOMAIN own[c] = 1 .. Len(own[c])
      BY DEF IInv, TypeInv, TypeOK
    <2>. QED  BY <2>1 DEF IInv, HandleInv
  <1>. QED  BY TicketInit, <1>1, <1>2, PTL DEF Spec
=============================================================================
