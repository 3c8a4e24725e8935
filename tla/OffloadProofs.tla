--------------------------- MODULE OffloadProofs ----------------------------
(***************************************************************************)
(* The safety properties of Offload, for any number of blocks, passes and  *)
(* failures.  An entry of a queue is known by its position, and the order  *)
(* of two entries of different queues by the recording one of them is      *)
(* followed by and the other waits for.                                    *)
(***************************************************************************)
EXTENDS Offload, FiniteSetTheorems, SequenceTheorems, TLAPS

Numbers == Nat \ {0}
Records == [kind : {"record"}, number : Numbers]
Waits(streams) == [kind : {"wait"}, stream : streams, number : Numbers]
Transfers(kinds) == [kind : kinds, block : Blocks, at : Numbers]

ComputeOps == Records \cup Waits({"h2d", "d2h"}) \cup Transfers({"kernel"})
H2dOps == Records \cup Waits({"compute"}) \cup Transfers({"load", "save", "copy"})

QueueTyped ==
  /\ queue \in [Streams -> Seq(ComputeOps \cup H2dOps)]
  /\ queue["compute"] \in Seq(ComputeOps)
  /\ queue["h2d"] \in Seq(H2dOps)
  /\ queue["d2h"] \in Seq(Records)

-----------------------------------------------------------------------------
(* Entry p of stream t waits for the recording that entry i of stream s is. *)
IsRecord(s, i, n) == queue[s][i].kind = "record" /\ queue[s][i].number = n
IsWait(t, p, s, n) ==
  queue[t][p].kind = "wait" /\ queue[t][p].stream = s /\ queue[t][p].number = n

Awaits(t, p, s, i) ==
  /\ queue[s][i].kind = "record"
  /\ IsWait(t, p, s, queue[s][i].number)

(* Entry p of h2d_stream is executed after entry i of the caller's stream: it comes
   behind a wait for something recorded behind i; and the other way round. *)
After(i, p) ==
  \E p2 \in DOMAIN queue["h2d"], i2 \in DOMAIN queue["compute"] :
    p2 < p /\ i < i2 /\ Awaits("h2d", p2, "compute", i2)

Before(p, i) ==
  \E p2 \in DOMAIN queue["h2d"], i2 \in DOMAIN queue["compute"] :
    i2 < i /\ p < p2 /\ Awaits("compute", i2, "h2d", p2)

(* The copies into memory m, and those of them that do not wait for entry i. *)
Writes(m) ==
  {p \in DOMAIN queue["h2d"] : queue["h2d"][p].kind \in {"load", "copy"} /\ queue["h2d"][p].at = m}
Early(i, m) == {p \in Writes(m) : ~After(i, p)}

(* Once the writes of P are executed memory m holds the weights of b. *)
Fills(P, m, b) ==
  /\ content[m] = b \/ P # {}
  /\ \A p \in P : queue["h2d"][p].block = b \/ \E q \in P : p < q

-----------------------------------------------------------------------------
(* Recordings come in their order, and none is waited for that is not queued. *)
Numbered ==
  /\ \A s \in Streams : reached[s] <= recorded[s]
  /\ \A s \in Streams : \A i \in DOMAIN queue[s] :
       queue[s][i].kind = "record" => reached[s] < queue[s][i].number /\ queue[s][i].number <= recorded[s]
  /\ \A s \in Streams : \A i, j \in DOMAIN queue[s] :
       i < j /\ queue[s][i].kind = "record" /\ queue[s][j].kind = "record"
         => queue[s][i].number < queue[s][j].number
  /\ \A p \in DOMAIN queue["h2d"] :
       queue["h2d"][p].kind = "wait" => queue["h2d"][p].number <= recorded["compute"]
  /\ recorded["h2d"] >= 1

(* p_cpu of a block holds its weights before anything is copied from it. *)
SavedFirst ==
  /\ \A p, q \in DOMAIN queue["h2d"] :
       queue["h2d"][p].kind = "copy" /\ queue["h2d"][q].kind \in {"load", "save"} => q < p
  /\ \A p \in DOMAIN queue["h2d"] :
       queue["h2d"][p].kind = "copy" => queue["h2d"][p].block >= reserved
  /\ \A b \in Blocks : b >= reserved =>
       \/ pinned[b] = b
       \/ \E p \in DOMAIN queue["h2d"] : queue["h2d"][p].kind = "save" /\ queue["h2d"][p].block = b
  /\ \A p \in DOMAIN queue["h2d"] : queue["h2d"][p].kind = "save" =>
       LET op == queue["h2d"][p]
       IN IF p = 1 THEN content[op.at] = op.block
          ELSE LET previous == queue["h2d"][p - 1]
               IN previous.kind = "load" /\ previous.block = op.block /\ previous.at = op.at

Addressed ==
  /\ \A p \in DOMAIN queue["h2d"] :
       queue["h2d"][p].kind \in {"load", "save", "copy"} => queue["h2d"][p].at \in Memory
  /\ \A i \in DOMAIN queue["compute"] :
       queue["compute"][i].kind = "kernel" => queue["compute"][i].at \in Memory

(* Before anything else the caller's stream waits for enable_offload's moves, and before
   the kernels of a block for what its pre-hook found queued for it. *)
Awaited ==
  /\ \A p \in DOMAIN queue["h2d"] :
       IsRecord("h2d", p, 1) => queue["compute"] # <<>> /\ IsWait("compute", 1, "h2d", 1)
  /\ phase = "forward" /\ event[block] # 0 =>
       \A p \in DOMAIN queue["h2d"] : IsRecord("h2d", p, event[block]) =>
         \E i \in DOMAIN queue["compute"] : IsWait("compute", i, "h2d", event[block])

(* The memory a block has will hold its weights by its event. *)
Complete(b) == IF event[b] = 0 THEN 1 ELSE event[b]

Filled(b) ==
  /\ Fills(Writes(storage[b]), storage[b], b)
  /\ \A p \in Writes(storage[b]) :
       \E p2 \in DOMAIN queue["h2d"] : p < p2 /\ IsRecord("h2d", p2, Complete(b))

Trusted(b) == storage[b] # 0 /\ (b < reserved \/ raises = 0 \/ b \in loaded)

Undisturbed == raises = 0 \/ ~skipped

StorageFilled == Undisturbed => \A b \in Blocks : Trusted(b) => Filled(b)

KernelRight(i) ==
  LET op == queue["compute"][i]
  IN /\ \A p \in Early(i, op.at) : Before(p, i)
     /\ Fills(Early(i, op.at), op.at, op.block)

KernelsRight ==
  Undisturbed =>
    \A i \in DOMAIN queue["compute"] : queue["compute"][i].kind = "kernel" => KernelRight(i)

(* How far the pre-hooks of a pass have loaded. *)
InPass == phase \in {"pre", "forward", "post"}

LoadedAhead ==
  /\ \A b \in Blocks : b < reserved => storage[b] # 0
  /\ \A b \in loaded : b >= reserved
  /\ InPass => \A b \in loaded : b >= block => storage[b] # 0
  /\ phase = "post" => storage[block] # 0
  /\ InPass /\ ~skipped => \A b \in Blocks :
       b \in loaded <=> b >= reserved
                        /\ IF phase = "pre" THEN b < block + reserved ELSE b <= block + reserved

(* All memory is in use or free, and undisturbed only the blocks ahead have any. *)
Accounted ==
  /\ \A m \in Memory : m \in free \/ \E b \in Blocks : storage[b] = m
  /\ raises = 0 /\ ~skipped => \A b \in Blocks :
       storage[b] # 0 => b < reserved \/ (InPass /\ b \in loaded /\ b >= block)

IInv ==
  /\ TypeOK /\ QueueTyped /\ Numbered /\ Addressed /\ SavedFirst /\ Awaited
  /\ LoadedAhead /\ Accounted /\ MemoryBounded
  /\ StorageFilled /\ KernelsRight

-----------------------------------------------------------------------------
(* What the entries of the queues are. *)
LEMMA Entries ==
  ASSUME QueueTyped
  PROVE  /\ \A s \in Streams : /\ Len(queue[s]) \in Nat
                               /\ DOMAIN queue[s] = 1 .. Len(queue[s])
                               /\ queue[s] \in Seq(ComputeOps \cup H2dOps)
         /\ \A i \in DOMAIN queue["compute"] : queue["compute"][i] \in ComputeOps
         /\ \A p \in DOMAIN queue["h2d"] : queue["h2d"][p] \in H2dOps
         /\ \A i \in DOMAIN queue["d2h"] : queue["d2h"][i] \in Records
  <1>1. \A s \in Streams : queue[s] \in Seq(ComputeOps \cup H2dOps)
    BY DEF QueueTyped
  <1>2. \A s \in Streams : Len(queue[s]) \in Nat /\ DOMAIN queue[s] = 1 .. Len(queue[s])
    BY <1>1, LenProperties
  <1>3. \A i \in DOMAIN queue["compute"] : queue["compute"][i] \in ComputeOps
    BY <1>2, ElementOfSeq DEF QueueTyped, Streams
  <1>4. \A i \in DOMAIN queue["h2d"] : queue["h2d"][i] \in H2dOps
    BY <1>2, ElementOfSeq DEF QueueTyped, Streams
  <1>5. \A i \in DOMAIN queue["d2h"] : queue["d2h"][i] \in Records
    BY <1>2, ElementOfSeq DEF QueueTyped, Streams
  <1>. QED  BY <1>1, <1>2, <1>3, <1>4, <1>5

LEMMA ComputeKinds ==
  ASSUME NEW op \in ComputeOps
  PROVE  /\ op.kind \in {"record", "wait", "kernel"}
         /\ op.kind = "record" => op.number \in Numbers
         /\ op.kind = "wait" => op.stream \in {"h2d", "d2h"} /\ op.number \in Numbers
         /\ op.kind = "kernel" => op.block \in Blocks /\ op.at \in Numbers
  BY DEF ComputeOps, Records, Waits, Transfers

LEMMA H2dKinds ==
  ASSUME NEW op \in H2dOps
  PROVE  /\ op.kind \in {"record", "wait", "load", "save", "copy"}
         /\ op.kind = "record" => op.number \in Numbers
         /\ op.kind = "wait" => op.stream = "compute" /\ op.number \in Numbers
         /\ op.kind \in {"load", "save", "copy"} => op.block \in Blocks /\ op.at \in Numbers
  BY DEF H2dOps, Records, Waits, Transfers

LEMMA RecordKinds ==
  ASSUME NEW op \in Records
  PROVE  op.kind = "record" /\ op.number \in Numbers
  BY DEF Records

-----------------------------------------------------------------------------
(* A stream that executes an entry. *)
LEMMA Pops ==
  ASSUME QueueTyped, NEW s \in Streams, Execute(s)
  PROVE  /\ QueueTyped'
         /\ \A t \in Streams : t # s => queue'[t] = queue[t]
         /\ 1 \in DOMAIN queue[s] /\ Head(queue[s]) = queue[s][1]
         /\ \A i \in DOMAIN queue'[s] :
              i \in Nat /\ i >= 1 /\ i + 1 \in DOMAIN queue[s] /\ queue'[s][i] = queue[s][i + 1]
         /\ \A i \in DOMAIN queue[s] : i # 1 =>
              i \in Nat /\ i > 1 /\ i - 1 \in DOMAIN queue'[s] /\ queue'[s][i - 1] = queue[s][i]
  <1>. DEFINE q == queue[s]
  <1>1. q \in Seq(ComputeOps \cup H2dOps) /\ q # <<>>
    BY DEF QueueTyped, Execute, CanExecute
  <1>2. queue' = [queue EXCEPT ![s] = Tail(@)] /\ queue'[s] = Tail(q)
    BY DEF QueueTyped, Execute
  <1>3. Len(q) \in Nat \ {0} /\ DOMAIN q = 1 .. Len(q)
    BY <1>1, EmptySeq, LenProperties
  <1>4. /\ Tail(q) \in Seq(ComputeOps \cup H2dOps) /\ Len(Tail(q)) = Len(q) - 1
        /\ \A i \in 1 .. Len(q) - 1 : Tail(q)[i] = q[i + 1]
    BY <1>1, HeadTailProperties
  <1>5. DOMAIN Tail(q) = 1 .. Len(q) - 1
    BY <1>4, LenProperties
  <1>6. Head(q) = q[1]
    BY <1>1
  <1>7. QueueTyped'
    <2>1. queue' \in [Streams -> Seq(ComputeOps \cup H2dOps)]
      BY <1>2, <1>4 DEF QueueTyped
    <2>2. \A T : q \in Seq(T) => queue'[s] \in Seq(T)
      BY <1>1, <1>2, HeadTailProperties
    <2>3. \A t \in Streams : t # s => queue'[t] = queue[t]
      BY <1>2 DEF QueueTyped
    <2>. QED  BY <2>1, <2>2, <2>3 DEF QueueTyped, Streams
  <1>8. \A t \in Streams : t # s => queue'[t] = queue[t]
    BY <1>2 DEF QueueTyped
  <1>9. ASSUME NEW i \in DOMAIN Tail(q)
        PROVE  i \in Nat /\ i >= 1 /\ i + 1 \in DOMAIN q /\ Tail(q)[i] = q[i + 1]
    BY <1>3, <1>4, <1>5
  <1>10. ASSUME NEW i \in DOMAIN q, i # 1
         PROVE  i \in Nat /\ i > 1 /\ i - 1 \in DOMAIN Tail(q) /\ Tail(q)[i - 1] = q[i]
    <2>1. i \in Nat /\ i > 1 /\ i - 1 \in 1 .. Len(q) - 1 /\ (i - 1) + 1 = i
      BY <1>3, <1>10
    <2>. QED  BY <2>1, <1>4, <1>5
  <1>11. 1 \in DOMAIN q
    BY <1>3
  <1>. QED
    BY <1>2, <1>6, <1>7, <1>8, <1>9, <1>10, <1>11

(* What executing an entry does to the device. *)
LEMMA ExecuteCompute ==
  ASSUME QueueTyped, Execute("compute")
  PROVE  /\ content' = content /\ pinned' = pinned
         /\ queue["compute"][1] \in ComputeOps
         /\ \A t \in Streams : t # "compute" => reached'[t] = reached[t]
         /\ queue["compute"][1].kind = "wait" =>
              reached[queue["compute"][1].stream] >= queue["compute"][1].number
         /\ reached' = IF queue["compute"][1].kind = "record"
                       THEN [reached EXCEPT !["compute"] = queue["compute"][1].number]
                       ELSE reached
  <1>. DEFINE op == Head(queue["compute"])
  <1>1. op = queue["compute"][1] /\ 1 \in DOMAIN queue["compute"]
    BY Pops DEF Streams
  <1>2. op \in ComputeOps
    BY <1>1, Entries
  <1>3. op.kind \in {"record", "wait", "kernel"}
    BY <1>2, ComputeKinds
  <1>4. /\ reached' = IF op.kind = "record" THEN [reached EXCEPT !["compute"] = op.number] ELSE reached
        /\ content' = CASE op.kind = "load" -> [content EXCEPT ![op.at] = op.block]
                        [] op.kind = "copy" -> [content EXCEPT ![op.at] = pinned[op.block]]
                        [] OTHER -> content
        /\ pinned' = IF op.kind = "save" THEN [pinned EXCEPT ![op.block] = content[op.at]]
                     ELSE pinned
        /\ op.kind = "wait" => reached[op.stream] >= op.number
    BY Zenon DEF Execute, CanExecute
  <1>5. content' = content /\ pinned' = pinned
    BY <1>3, <1>4
  <1>. QED  BY <1>1, <1>2, <1>4, <1>5

LEMMA ExecuteH2d ==
  ASSUME QueueTyped, Execute("h2d")
  PROVE  LET op == queue["h2d"][1]
         IN /\ op \in H2dOps
            /\ op.kind = "wait" => reached["compute"] >= op.number
            /\ reached' = IF op.kind = "record" THEN [reached EXCEPT !["h2d"] = op.number]
                          ELSE reached
            /\ content' = CASE op.kind = "load" -> [content EXCEPT ![op.at] = op.block]
                            [] op.kind = "copy" -> [content EXCEPT ![op.at] = pinned[op.block]]
                            [] OTHER -> content
            /\ pinned' = IF op.kind = "save" THEN [pinned EXCEPT ![op.block] = content[op.at]]
                         ELSE pinned
  <1>. DEFINE op == Head(queue["h2d"])
  <1>1. op = queue["h2d"][1] /\ 1 \in DOMAIN queue["h2d"]
    BY Pops DEF Streams
  <1>2. op \in H2dOps
    BY <1>1, Entries
  <1>3. op.kind = "wait" => op.stream = "compute"
    BY <1>2, H2dKinds
  <1>4. /\ reached' = IF op.kind = "record" THEN [reached EXCEPT !["h2d"] = op.number] ELSE reached
        /\ content' = CASE op.kind = "load" -> [content EXCEPT ![op.at] = op.block]
                        [] op.kind = "copy" -> [content EXCEPT ![op.at] = pinned[op.block]]
                        [] OTHER -> content
        /\ pinned' = IF op.kind = "save" THEN [pinned EXCEPT ![op.block] = content[op.at]]
                     ELSE pinned
        /\ op.kind = "wait" => reached[op.stream] >= op.number
    BY Zenon DEF Execute, CanExecute
  <1>. QED  BY <1>1, <1>2, <1>3, <1>4, Zenon

LEMMA ExecuteD2h ==
  ASSUME QueueTyped, Execute("d2h")
  PROVE  /\ content' = content /\ pinned' = pinned
         /\ queue["d2h"][1].number \in Numbers
         /\ reached' = [reached EXCEPT !["d2h"] = queue["d2h"][1].number]
  <1>. DEFINE op == Head(queue["d2h"])
  <1>1. op = queue["d2h"][1] /\ 1 \in DOMAIN queue["d2h"]
    BY Pops DEF Streams
  <1>2. op.kind = "record" /\ op.number \in Numbers
    BY <1>1, Entries, RecordKinds
  <1>3. /\ reached' = IF op.kind = "record" THEN [reached EXCEPT !["d2h"] = op.number] ELSE reached
        /\ content' = CASE op.kind = "load" -> [content EXCEPT ![op.at] = op.block]
                        [] op.kind = "copy" -> [content EXCEPT ![op.at] = pinned[op.block]]
                        [] OTHER -> content
        /\ pinned' = IF op.kind = "save" THEN [pinned EXCEPT ![op.block] = content[op.at]]
                     ELSE pinned
    BY Zenon DEF Execute, CanExecute
  <1>. QED  BY <1>1, <1>2, <1>3

LEMMA Leaves ==
  ASSUME NEW s \in Streams, Execute(s)
  PROVE  UNCHANGED <<reserved, phase, block, passes, loaded, raises, skipped,
                     storage, free, recorded, event>>
  BY DEF Execute, host, memory

(* Whatever stream executes, its recordings stay numbered. *)
LEMMA PopsNumbered ==
  ASSUME TypeOK, QueueTyped, Numbered, NEW s \in Streams, Execute(s),
         \A t \in Streams : t # s => reached'[t] = reached[t],
         reached'[s] = IF queue[s][1].kind = "record" THEN queue[s][1].number ELSE reached[s]
  PROVE  Numbered'
  <1>1. recorded' = recorded
    BY Leaves
  <1>2. ASSUME NEW t \in Streams, t # s, NEW i \in DOMAIN queue'[t]
        PROVE  /\ i \in DOMAIN queue[t] /\ queue'[t][i] = queue[t][i]
               /\ reached'[t] = reached[t]
    BY <1>2, Pops
  <1>3. ASSUME NEW i \in DOMAIN queue'[s], queue'[s][i].kind = "record"
        PROVE  reached'[s] < queue'[s][i].number
    <2>1. i \in Nat /\ 1 < i + 1 /\ i + 1 \in DOMAIN queue[s] /\ queue'[s][i] = queue[s][i + 1]
      BY Pops
    <2>2. 1 \in DOMAIN queue[s]
      BY Pops
    <2>. QED  BY <2>1, <2>2, <1>3 DEF Numbered
  <1>4. ASSUME NEW i \in DOMAIN queue'[s], NEW j \in DOMAIN queue'[s], i < j,
               queue'[s][i].kind = "record", queue'[s][j].kind = "record"
        PROVE  queue'[s][i].number < queue'[s][j].number
    <2>1. /\ i \in Nat /\ j \in Nat /\ i + 1 < j + 1 /\ i + 1 \in DOMAIN queue[s]
          /\ j + 1 \in DOMAIN queue[s]
          /\ queue'[s][i] = queue[s][i + 1] /\ queue'[s][j] = queue[s][j + 1]
      BY <1>4, Pops
    <2>. QED  BY <2>1, <1>4 DEF Numbered
  <1>5. ASSUME NEW i \in DOMAIN queue'[s], queue'[s][i].kind = "record"
        PROVE  queue'[s][i].number <= recorded'[s]
    BY <1>1, <1>5, Pops DEF Numbered
  <1>6. ASSUME NEW t \in Streams
        PROVE  /\ \A i \in DOMAIN queue'[t] : queue'[t][i].kind = "record"
                    => reached'[t] < queue'[t][i].number /\ queue'[t][i].number <= recorded'[t]
               /\ \A i, j \in DOMAIN queue'[t] :
                    i < j /\ queue'[t][i].kind = "record" /\ queue'[t][j].kind = "record"
                      => queue'[t][i].number < queue'[t][j].number
    <2>1. CASE t = s
      BY <2>1, <1>3, <1>4, <1>5
    <2>2. CASE t # s
      BY <2>2, <1>1, <1>2 DEF Numbered
    <2>. QED  BY <2>1, <2>2
  <1>7. ASSUME NEW p \in DOMAIN queue'["h2d"], queue'["h2d"][p].kind = "wait"
        PROVE  queue'["h2d"][p].number <= recorded'["compute"]
    BY <1>1, <1>7, Pops DEF Numbered, Streams
  <1>8. ASSUME NEW t \in Streams
        PROVE  reached'[t] <= recorded'[t]
    <2>1. 1 \in DOMAIN queue[s]
      BY Pops
    <2>. QED  BY <2>1, <1>1 DEF Numbered
  <1>. QED  BY <1>1, <1>6, <1>7, <1>8 DEF Numbered

-----------------------------------------------------------------------------
(* The caller's stream. *)
LEMMA ComputeReached ==
  ASSUME IInv, Execute("compute")
  PROVE  /\ reached' \in [Streams -> Nat] /\ Numbered'
         /\ \A p \in DOMAIN queue["h2d"] : ~ Awaits("compute", 1, "h2d", p)
  <1>. USE DEF Streams
  <1>1. TypeOK /\ QueueTyped /\ Numbered
    BY DEF IInv
  <1>2. queue["compute"][1].kind = "record" => queue["compute"][1].number \in Nat
    BY <1>1, ExecuteCompute, ComputeKinds DEF Numbers
  <1>3. /\ \A t \in Streams : t # "compute" => reached'[t] = reached[t]
        /\ reached'["compute"] = IF queue["compute"][1].kind = "record"
                                 THEN queue["compute"][1].number ELSE reached["compute"]
        /\ reached' \in [Streams -> Nat]
    BY <1>1, <1>2, ExecuteCompute DEF TypeOK
  <1>4. Numbered'
    BY <1>1, <1>3, PopsNumbered
  <1>5. ASSUME NEW p \in DOMAIN queue["h2d"], Awaits("compute", 1, "h2d", p)
        PROVE  FALSE
    <2>1. /\ queue["compute"][1].kind = "wait" /\ queue["compute"][1].stream = "h2d"
          /\ queue["compute"][1].number = queue["h2d"][p].number
          /\ queue["h2d"][p].kind = "record"
      BY <1>5 DEF Awaits, IsWait
    <2>2. reached["h2d"] >= queue["h2d"][p].number
      BY <1>1, <2>1, ExecuteCompute
    <2>3. reached["h2d"] < queue["h2d"][p].number
      BY <1>1, <2>1 DEF Numbered
    <2>4. queue["h2d"][p].number \in Nat /\ reached["h2d"] \in Nat
      BY <1>1, <2>1, Entries, H2dKinds DEF Numbers, TypeOK
    <2>. QED  BY <2>2, <2>3, <2>4
  <1>. QED  BY <1>3, <1>4, <1>5

LEMMA ComputeKeepsKernels ==
  ASSUME IInv, Execute("compute")
  PROVE  KernelsRight'
  <1>. USE DEF Streams
  <1>. DEFINE Q == queue["compute"]
              H == queue["h2d"]
  <1>1. QueueTyped
    BY DEF IInv
  <1>2. H' = H /\ content' = content
    BY <1>1, Pops, ExecuteCompute
  <1>3. /\ \A i \in DOMAIN Q' : i \in Nat /\ i >= 1 /\ i + 1 \in DOMAIN Q /\ Q'[i] = Q[i + 1]
        /\ \A i \in DOMAIN Q : i # 1 => i \in Nat /\ i > 1 /\ i - 1 \in DOMAIN Q' /\ Q'[i - 1] = Q[i]
    BY <1>1, Pops
  <1>4. \A p, i : i \in DOMAIN Q' => (Awaits("h2d", p, "compute", i)' <=> Awaits("h2d", p, "compute", i + 1))
    BY <1>2, <1>3 DEF Awaits, IsWait
  <1>5. \A p, i : i \in DOMAIN Q' => (Awaits("compute", i, "h2d", p)' <=> Awaits("compute", i + 1, "h2d", p))
    BY <1>2, <1>3 DEF Awaits, IsWait
  <1>6. ASSUME NEW i \in DOMAIN Q', NEW p \in DOMAIN H
        PROVE  After(i, p)' <=> After(i + 1, p)
    <2>0. i \in Nat /\ i >= 1
      BY <1>3
    <2>1. ASSUME After(i, p)' PROVE After(i + 1, p)
      <3>1. PICK p2 \in DOMAIN H, i2 \in DOMAIN Q' :
              p2 < p /\ i < i2 /\ Awaits("h2d", p2, "compute", i2)'
        BY <2>1, <1>2 DEF After
      <3>2. i2 + 1 \in DOMAIN Q /\ i + 1 < i2 + 1
        BY <3>1, <1>3
      <3>. QED  BY <3>1, <3>2, <1>4 DEF After
    <2>2. ASSUME After(i + 1, p) PROVE After(i, p)'
      <3>1. PICK p2 \in DOMAIN H, i2 \in DOMAIN Q :
              p2 < p /\ i + 1 < i2 /\ Awaits("h2d", p2, "compute", i2)
        BY <2>2 DEF After
      <3>2. i2 # 1 /\ i2 - 1 \in DOMAIN Q' /\ i < i2 - 1 /\ (i2 - 1) + 1 = i2
        <4>1. i2 # 1
          BY <3>1, <2>0
        <4>. QED  BY <4>1, <3>1, <2>0, <1>3
      <3>3. Awaits("h2d", p2, "compute", i2 - 1)'
        BY <3>1, <3>2, <1>4
      <3>. QED  BY <3>1, <3>2, <3>3, <1>2 DEF After
    <2>. QED  BY <2>1, <2>2
  <1>7. ASSUME NEW i \in DOMAIN Q', NEW p \in DOMAIN H, Before(p, i + 1)
        PROVE  Before(p, i)'
    <2>1. PICK p2 \in DOMAIN H, i2 \in DOMAIN Q :
            i2 < i + 1 /\ p < p2 /\ Awaits("compute", i2, "h2d", p2)
      BY <1>7 DEF Before
    <2>2. i2 # 1
      BY <2>1, ComputeReached
    <2>3. i2 - 1 \in DOMAIN Q' /\ i2 - 1 < i /\ (i2 - 1) + 1 = i2
      BY <2>1, <2>2, <1>3
    <2>4. Awaits("compute", i2 - 1, "h2d", p2)'
      BY <2>1, <2>3, <1>5
    <2>. QED  BY <2>1, <2>3, <2>4, <1>2 DEF Before
  <1>8. ASSUME NEW i \in DOMAIN Q', NEW m
        PROVE  Early(i, m)' = Early(i + 1, m)
    BY <1>2, <1>6 DEF Early, Writes
  <1>9. ASSUME Undisturbed', NEW i \in DOMAIN Q', Q'[i].kind = "kernel"
        PROVE  KernelRight(i)'
    <2>1. Undisturbed
      BY <1>9, Leaves DEF Undisturbed
    <2>2. Q[i + 1].kind = "kernel" /\ Q'[i] = Q[i + 1] /\ i + 1 \in DOMAIN Q
      BY <1>3, <1>9
    <2>3. KernelRight(i + 1)
      BY <2>1, <2>2 DEF IInv, KernelsRight
    <2>4. \A p \in Early(i + 1, Q[i + 1].at) : p \in DOMAIN H /\ Before(p, i + 1)
      BY <2>3 DEF KernelRight, Early, Writes
    <2>5. Fills(Early(i + 1, Q[i + 1].at), Q[i + 1].at, Q[i + 1].block)
      BY <2>3 DEF KernelRight
    <2>6. \A P, m, b : Fills(P, m, b) => Fills(P, m, b)'
      BY <1>2 DEF Fills
    <2>. QED  BY <2>2, <2>4, <2>5, <2>6, <1>7, <1>8 DEF KernelRight
  <1>. QED  BY <1>9 DEF KernelsRight

LEMMA ComputeKeeps ==
  ASSUME IInv, Execute("compute")
  PROVE  IInv'
  <1>. USE DEF Streams
  <1>. DEFINE Q == queue["compute"]
              H == queue["h2d"]
  <1>1. TypeOK /\ QueueTyped /\ Numbered
    BY DEF IInv
  <1>2. H' = H /\ content' = content /\ pinned' = pinned
    BY <1>1, Pops, ExecuteCompute
  <1>3. UNCHANGED <<reserved, phase, block, passes, loaded, raises, skipped,
                    storage, free, recorded, event>>
    BY Leaves
  <1>4. /\ \A i \in DOMAIN Q' : i \in Nat /\ i >= 1 /\ i + 1 \in DOMAIN Q /\ Q'[i] = Q[i + 1]
        /\ \A i \in DOMAIN Q : i # 1 => i \in Nat /\ i > 1 /\ i - 1 \in DOMAIN Q' /\ Q'[i - 1] = Q[i]
    BY <1>1, Pops
  <1>5. TypeOK'
    BY <1>1, <1>2, <1>3, ComputeReached DEF TypeOK, Memory, Nobody
  <1>6. Addressed'
    BY <1>2, <1>4 DEF IInv, Addressed, Memory
  <1>7. SavedFirst'
    BY <1>2, <1>3 DEF IInv, SavedFirst
  <1>8. LoadedAhead' /\ Accounted' /\ MemoryBounded'
    BY <1>2, <1>3 DEF IInv, LoadedAhead, Accounted, MemoryBounded, InPass, Memory
  <1>9. StorageFilled'
    BY <1>2, <1>3 DEF IInv, StorageFilled, Undisturbed, Trusted, Filled, Fills, Writes, Complete, IsRecord
  <1>10. Awaited'
    <2>1. ASSUME NEW p \in DOMAIN H', IsRecord("h2d", p, 1)'
          PROVE  FALSE
      <3>1. p \in DOMAIN H /\ IsRecord("h2d", p, 1)
        BY <2>1, <1>2 DEF IsRecord
      <3>2. IsWait("compute", 1, "h2d", 1)
        BY <3>1 DEF IInv, Awaited
      <3>. QED  BY <3>1, <3>2, ComputeReached DEF Awaits, IsRecord, IsWait
    <2>2. ASSUME phase' = "forward", event'[block'] # 0,
                 NEW p \in DOMAIN H', IsRecord("h2d", p, event[block])'
          PROVE  \E i \in DOMAIN Q' : IsWait("compute", i, "h2d", event[block])'
      <3>1. p \in DOMAIN H /\ IsRecord("h2d", p, event[block]) /\ phase = "forward" /\ event[block] # 0
        BY <2>2, <1>2, <1>3 DEF IsRecord
      <3>2. PICK i \in DOMAIN Q : IsWait("compute", i, "h2d", event[block])
        BY <3>1 DEF IInv, Awaited
      <3>3. i # 1
        BY <3>1, <3>2, ComputeReached DEF Awaits, IsRecord, IsWait
      <3>4. i - 1 \in DOMAIN Q' /\ Q'[i - 1] = Q[i]
        BY <3>3, <1>4
      <3>. QED  BY <3>2, <3>4, <1>3 DEF IsWait
    <2>. QED  BY <2>1, <2>2 DEF Awaited
  <1>. QED
    BY <1>1, <1>5, <1>6, <1>7, <1>8, <1>9, <1>10, Pops, ComputeReached, ComputeKeepsKernels DEF IInv

(* d2h_stream: what nobody waits for. *)
LEMMA D2hKeeps ==
  ASSUME IInv, Execute("d2h")
  PROVE  IInv'
  <1>. USE DEF Streams
  <1>. DEFINE Q == queue["compute"]
              H == queue["h2d"]
  <1>1. TypeOK /\ QueueTyped /\ Numbered
    BY DEF IInv
  <1>2. Q' = Q /\ H' = H /\ content' = content /\ pinned' = pinned
    BY <1>1, Pops, ExecuteD2h
  <1>3. UNCHANGED <<reserved, phase, block, passes, loaded, raises, skipped,
                    storage, free, recorded, event>>
    BY Leaves
  <1>4. /\ reached' \in [Streams -> Nat]
        /\ \A t \in Streams : t # "d2h" => reached'[t] = reached[t]
        /\ reached'["d2h"] = queue["d2h"][1].number
    BY <1>1, ExecuteD2h DEF TypeOK, Numbers
  <1>5. Numbered'
    <2>1. queue["d2h"][1].kind = "record"
      BY <1>1, Pops, Entries, RecordKinds
    <2>. QED  BY <2>1, <1>1, <1>4, PopsNumbered
  <1>6. TypeOK'
    BY <1>1, <1>2, <1>3, <1>4 DEF TypeOK, Memory, Nobody
  <1>7. Addressed' /\ SavedFirst' /\ Awaited'
    BY <1>2, <1>3 DEF IInv, Addressed, SavedFirst, Awaited, IsRecord, IsWait, Memory
  <1>8. LoadedAhead' /\ Accounted' /\ MemoryBounded'
    BY <1>2, <1>3 DEF IInv, LoadedAhead, Accounted, MemoryBounded, InPass, Memory
  <1>9. StorageFilled'
    BY <1>2, <1>3 DEF IInv, StorageFilled, Undisturbed, Trusted, Filled, Fills, Writes, Complete, IsRecord
  <1>10. KernelsRight'
    BY <1>2, <1>3 DEF IInv, KernelsRight, Undisturbed, KernelRight, Early, Writes, Fills,
                      After, Before, Awaits, IsWait
  <1>. QED  BY <1>1, <1>5, <1>6, <1>7, <1>8, <1>9, <1>10, Pops DEF IInv

-----------------------------------------------------------------------------
(* h2d_stream. *)
LEMMA H2dReached ==
  ASSUME IInv, Execute("h2d")
  PROVE  /\ reached' \in [Streams -> Nat] /\ Numbered'
         /\ \A i \in DOMAIN queue["compute"] : ~ Awaits("h2d", 1, "compute", i)
  <1>. USE DEF Streams
  <1>1. TypeOK /\ QueueTyped /\ Numbered
    BY DEF IInv
  <1>2. queue["h2d"][1].kind = "record" => queue["h2d"][1].number \in Nat
    BY <1>1, ExecuteH2d, H2dKinds DEF Numbers
  <1>3. /\ \A t \in Streams : t # "h2d" => reached'[t] = reached[t]
        /\ reached'["h2d"] = IF queue["h2d"][1].kind = "record"
                             THEN queue["h2d"][1].number ELSE reached["h2d"]
        /\ reached' \in [Streams -> Nat]
    BY <1>1, <1>2, ExecuteH2d DEF TypeOK
  <1>4. Numbered'
    BY <1>1, <1>3, PopsNumbered
  <1>5. ASSUME NEW i \in DOMAIN queue["compute"], Awaits("h2d", 1, "compute", i)
        PROVE  FALSE
    <2>1. /\ queue["h2d"][1].kind = "wait"
          /\ queue["h2d"][1].number = queue["compute"][i].number
          /\ queue["compute"][i].kind = "record"
      BY <1>5 DEF Awaits, IsWait
    <2>2. reached["compute"] >= queue["compute"][i].number
      BY <1>1, <2>1, ExecuteH2d
    <2>3. reached["compute"] < queue["compute"][i].number
      BY <1>1, <2>1 DEF Numbered
    <2>4. queue["compute"][i].number \in Nat /\ reached["compute"] \in Nat
      BY <1>1, <2>1, Entries, ComputeKinds DEF Numbers, TypeOK
    <2>. QED  BY <2>2, <2>3, <2>4
  <1>. QED  BY <1>3, <1>4, <1>5

(* A copy brings the weights of the block it is for, and a save keeps them. *)
LEMMA H2dWrites ==
  ASSUME IInv, Execute("h2d")
  PROVE  LET op == queue["h2d"][1]
         IN /\ content' \in Seq(Blocks \cup {Nobody}) /\ Memory' = Memory
            /\ \A m \in Memory : content'[m] = IF 1 \in Writes(m) THEN op.block ELSE content[m]
            /\ pinned' \in [Blocks -> Blocks \cup {Nobody}]
            /\ \A b \in Blocks : pinned'[b] = IF op.kind = "save" /\ op.block = b THEN b ELSE pinned[b]
  <1>. DEFINE op == queue["h2d"][1]
  <1>1. TypeOK /\ QueueTyped /\ Addressed /\ SavedFirst
    BY DEF IInv
  <1>2. 1 \in DOMAIN queue["h2d"] /\ op \in H2dOps
    BY <1>1, Pops, ExecuteH2d DEF Streams
  <1>3. op.kind \in {"load", "save", "copy"} => op.block \in Blocks /\ op.at \in Memory
    BY <1>1, <1>2, H2dKinds DEF Addressed
  <1>4. content \in Seq(Blocks \cup {Nobody}) /\ Memory = 1 .. Len(content)
    BY <1>1, LenProperties DEF TypeOK, Memory
  <1>5. op.kind = "copy" => pinned[op.block] = op.block
    <2>1. SUFFICES ASSUME op.kind = "copy"
                   PROVE  pinned[op.block] = op.block
      OBVIOUS
    <2>2. op.block >= reserved /\ op.block \in Blocks
      BY <2>1, <1>1, <1>2, <1>3 DEF SavedFirst
    <2>3. \A q \in DOMAIN queue["h2d"] : queue["h2d"][q].kind # "save"
      <3>1. \A q \in DOMAIN queue["h2d"] : q \in Nat /\ ~ q < 1
        BY <1>1, Entries DEF Streams
      <3>. QED  BY <3>1, <2>1, <1>1, <1>2 DEF SavedFirst
    <2>. QED  BY <2>2, <2>3, <1>1 DEF SavedFirst
  <1>6. content' = IF op.kind \in {"load", "copy"} THEN [content EXCEPT ![op.at] = op.block] ELSE content
    BY <1>1, <1>5, ExecuteH2d
  <1>7. 1 \in Writes(op.at) <=> op.kind \in {"load", "copy"}
    BY <1>2 DEF Writes
  <1>8. \A m \in Memory : 1 \in Writes(m) => m = op.at
    BY <1>2 DEF Writes
  <1>9. /\ content' \in Seq(Blocks \cup {Nobody}) /\ Memory' = Memory
        /\ \A m \in Memory : content'[m] = IF 1 \in Writes(m) THEN op.block ELSE content[m]
    <2>1. CASE op.kind \in {"load", "copy"}
      <3>1. op.at \in 1 .. Len(content) /\ op.block \in Blocks \cup {Nobody}
        BY <2>1, <1>3, <1>4
      <3>2. content' \in Seq(Blocks \cup {Nobody}) /\ Len(content') = Len(content)
        BY <3>1, <2>1, <1>4, <1>6, ExceptSeq
      <3>3. \A m \in Memory : content'[m] = IF m = op.at THEN op.block ELSE content[m]
        BY <3>1, <2>1, <1>4, <1>6, ExceptSeq
      <3>4. Memory' = Memory
        BY <3>2, <1>4, LenProperties DEF Memory
      <3>. QED  BY <3>2, <3>3, <3>4, <2>1, <1>7, <1>8
    <2>2. CASE op.kind \notin {"load", "copy"}
      BY <2>2, <1>4, <1>6, <1>7, <1>8 DEF Memory
    <2>. QED  BY <2>1, <2>2
  <1>10. op.kind = "save" => content[op.at] = op.block
    BY <1>1, <1>2 DEF SavedFirst
  <1>11. pinned' = IF op.kind = "save" THEN [pinned EXCEPT ![op.block] = op.block] ELSE pinned
    BY <1>1, <1>10, ExecuteH2d
  <1>12. /\ pinned' \in [Blocks -> Blocks \cup {Nobody}]
         /\ \A b \in Blocks : pinned'[b] = IF op.kind = "save" /\ op.block = b THEN b ELSE pinned[b]
    BY <1>1, <1>3, <1>11 DEF TypeOK
  <1>. QED  BY <1>9, <1>12

(* What the writes of P would leave in memory m they leave there when the first entry
   has been executed and the others have moved up. *)
LEMMA H2dFills ==
  ASSUME IInv, Execute("h2d"), NEW m \in Memory
  PROVE  \A P, R, b :
           /\ P \subseteq Writes(m) /\ (1 \in Writes(m) => 1 \in P) /\ Fills(P, m, b)
           /\ R \subseteq DOMAIN queue'["h2d"] /\ \A p \in DOMAIN queue'["h2d"] : p \in R <=> p + 1 \in P
           => /\ content'[m] = b \/ R # {}
              /\ \A p \in R : queue'["h2d"][p].block = b \/ \E q \in R : p < q
  <1>. DEFINE H == queue["h2d"]
  <1>1. QueueTyped
    BY DEF IInv
  <1>2. /\ \A i \in DOMAIN H' : i \in Nat /\ i >= 1 /\ i + 1 \in DOMAIN H /\ H'[i] = H[i + 1]
        /\ \A i \in DOMAIN H : i # 1 => i \in Nat /\ i > 1 /\ i - 1 \in DOMAIN H' /\ H'[i - 1] = H[i]
    BY <1>1, Pops DEF Streams
  <1>3. SUFFICES ASSUME NEW P, NEW R, NEW b,
                        P \subseteq Writes(m), 1 \in Writes(m) => 1 \in P, Fills(P, m, b),
                        R \subseteq DOMAIN H', \A p \in DOMAIN H' : p \in R <=> p + 1 \in P
                 PROVE  /\ content'[m] = b \/ R # {}
                        /\ \A p \in R : H'[p].block = b \/ \E q \in R : p < q
    OBVIOUS
  <1>4. P \subseteq DOMAIN H
    BY <1>3 DEF Writes
  <1>5. ASSUME NEW q \in P, q # 1
        PROVE  q \in Nat /\ q > 1 /\ q - 1 \in R
    <2>1. q \in Nat /\ q > 1 /\ q - 1 \in DOMAIN H' /\ (q - 1) + 1 = q
      BY <1>2, <1>4, <1>5
    <2>. QED  BY <2>1, <1>3
  <1>6. content'[m] = b \/ R # {}
    <2>1. SUFFICES ASSUME R = {} PROVE content'[m] = b
      OBVIOUS
    <2>2. P \subseteq {1}
      BY <2>1, <1>5
    <2>3. CASE 1 \in Writes(m)
      <3>1. P = {1}
        BY <2>2, <2>3, <1>3
      <3>2. H[1].block = b
        BY <3>1, <1>3 DEF Fills
      <3>. QED  BY <3>2, <2>3, H2dWrites
    <2>4. CASE 1 \notin Writes(m)
      <3>1. P = {}
        BY <2>2, <2>4, <1>3
      <3>2. content[m] = b
        BY <3>1, <1>3 DEF Fills
      <3>. QED  BY <3>2, <2>4, H2dWrites
    <2>. QED  BY <2>3, <2>4
  <1>7. ASSUME NEW p \in R, H'[p].block # b
        PROVE  \E q \in R : p < q
    <2>1. p \in Nat /\ p >= 1 /\ p + 1 \in P /\ H'[p] = H[p + 1]
      BY <1>2, <1>3
    <2>2. PICK q \in P : p + 1 < q
      BY <2>1, <1>3, <1>7 DEF Fills
    <2>3. q # 1
      BY <2>1, <2>2
    <2>4. q - 1 \in R /\ p < q - 1
      BY <2>1, <2>2, <2>3, <1>5
    <2>. QED  BY <2>4
  <1>. QED  BY <1>6, <1>7

LEMMA H2dKeepsKernels ==
  ASSUME IInv, Execute("h2d")
  PROVE  KernelsRight'
  <1>. USE DEF Streams
  <1>. DEFINE Q == queue["compute"]
              H == queue["h2d"]
  <1>1. QueueTyped /\ Addressed
    BY DEF IInv
  <1>2. Q' = Q
    BY <1>1, Pops
  <1>3. /\ \A i \in DOMAIN H' : i \in Nat /\ i >= 1 /\ i + 1 \in DOMAIN H /\ H'[i] = H[i + 1]
        /\ \A i \in DOMAIN H : i # 1 => i \in Nat /\ i > 1 /\ i - 1 \in DOMAIN H' /\ H'[i - 1] = H[i]
        /\ 1 \in DOMAIN H
    BY <1>1, Pops
  <1>4. \A p, i : p \in DOMAIN H' => (Awaits("h2d", p, "compute", i)' <=> Awaits("h2d", p + 1, "compute", i))
    BY <1>2, <1>3 DEF Awaits, IsWait
  <1>5. \A p, i : p \in DOMAIN H' => (Awaits("compute", i, "h2d", p)' <=> Awaits("compute", i, "h2d", p + 1))
    BY <1>2, <1>3 DEF Awaits, IsWait
  <1>6. ASSUME NEW i \in DOMAIN Q, NEW p \in DOMAIN H'
        PROVE  After(i, p)' <=> After(i, p + 1)
    <2>0. p \in Nat /\ p >= 1
      BY <1>3
    <2>1. ASSUME After(i, p)' PROVE After(i, p + 1)
      <3>1. PICK p2 \in DOMAIN H', i2 \in DOMAIN Q :
              p2 < p /\ i < i2 /\ Awaits("h2d", p2, "compute", i2)'
        BY <2>1, <1>2 DEF After
      <3>2. p2 + 1 \in DOMAIN H /\ p2 + 1 < p + 1
        BY <3>1, <2>0, <1>3
      <3>. QED  BY <3>1, <3>2, <1>4 DEF After
    <2>2. ASSUME After(i, p + 1) PROVE After(i, p)'
      <3>1. PICK p2 \in DOMAIN H, i2 \in DOMAIN Q :
              p2 < p + 1 /\ i < i2 /\ Awaits("h2d", p2, "compute", i2)
        BY <2>2 DEF After
      <3>2. p2 # 1
        BY <3>1, H2dReached
      <3>3. p2 - 1 \in DOMAIN H' /\ p2 - 1 < p /\ (p2 - 1) + 1 = p2
        BY <3>1, <3>2, <2>0, <1>3
      <3>4. Awaits("h2d", p2 - 1, "compute", i2)'
        BY <3>1, <3>3, <1>4
      <3>. QED  BY <3>1, <3>3, <3>4, <1>2 DEF After
    <2>. QED  BY <2>1, <2>2
  <1>7. ASSUME NEW i \in DOMAIN Q, NEW p \in DOMAIN H', Before(p + 1, i)
        PROVE  Before(p, i)'
    <2>0. p \in Nat /\ p >= 1
      BY <1>3
    <2>1. PICK p2 \in DOMAIN H, i2 \in DOMAIN Q :
            i2 < i /\ p + 1 < p2 /\ Awaits("compute", i2, "h2d", p2)
      BY <1>7 DEF Before
    <2>2. p2 # 1
      BY <2>0, <2>1
    <2>3. p2 - 1 \in DOMAIN H' /\ p < p2 - 1 /\ (p2 - 1) + 1 = p2
      BY <2>0, <2>1, <2>2, <1>3
    <2>4. Awaits("compute", i2, "h2d", p2 - 1)'
      BY <2>1, <2>3, <1>5
    <2>. QED  BY <2>1, <2>3, <2>4, <1>2 DEF Before
  <1>8. ASSUME NEW m, NEW p \in DOMAIN H'
        PROVE  p \in Writes(m)' <=> p + 1 \in Writes(m)
    BY <1>3 DEF Writes
  <1>9. ASSUME NEW i \in DOMAIN Q, NEW m
        PROVE  \A p \in DOMAIN H' : p \in Early(i, m)' <=> p + 1 \in Early(i, m)
    BY <1>6, <1>8 DEF Early
  <1>10. ASSUME NEW i \in DOMAIN Q
         PROVE  ~ After(i, 1)
    <2>1. \A p \in DOMAIN H : ~ p < 1
      BY <1>1, Entries
    <2>. QED  BY <2>1 DEF After
  <1>11. ASSUME Undisturbed', NEW i \in DOMAIN Q, Q[i].kind = "kernel",
                NEW m, NEW b, m = Q[i].at, b = Q[i].block
         PROVE  /\ content'[m] = b \/ Early(i, m)' # {}
                /\ \A p \in Early(i, m)' : H'[p].block = b \/ \E q \in Early(i, m)' : p < q
                /\ \A p \in Early(i, m)' : Before(p, i)'
    <2>. DEFINE P == Early(i, m)
                R == Early(i, m)'
    <2>1. Undisturbed
      BY <1>11, Leaves DEF Undisturbed
    <2>2. KernelRight(i) /\ m \in Memory
      BY <2>1, <1>1, <1>11 DEF IInv, KernelsRight, Addressed
    <2>3. /\ \A p \in P : Before(p, i)
          /\ Fills(P, m, b)
      BY <2>2, <1>11 DEF KernelRight
    <2>4. P \subseteq Writes(m) /\ (1 \in Writes(m) => 1 \in P)
      BY <1>10 DEF Early
    <2>5. R \subseteq DOMAIN H'
      BY DEF Early, Writes
    <2>6. \A p \in DOMAIN H' : p \in R <=> p + 1 \in P
      BY <1>9
    <2>. HIDE DEF P, R
    <2>7. content'[m] = b \/ R # {}
      BY <2>2, <2>3, <2>4, <2>5, <2>6, H2dFills
    <2>8. \A p \in R : H'[p].block = b \/ \E q \in R : p < q
      BY <2>2, <2>3, <2>4, <2>5, <2>6, H2dFills
    <2>9. \A p \in R : Before(p, i)'
      BY <2>3, <2>5, <2>6, <1>7
    <2>. QED  BY <2>7, <2>8, <2>9 DEF R
  <1>12. ASSUME Undisturbed', NEW i \in DOMAIN Q, Q[i].kind = "kernel"
         PROVE  KernelRight(i)'
    BY <1>2, <1>11, <1>12 DEF KernelRight, Fills
  <1>. QED  BY <1>2, <1>12 DEF KernelsRight

LEMMA H2dKeepsStorage ==
  ASSUME IInv, Execute("h2d")
  PROVE  StorageFilled'
  <1>. USE DEF Streams
  <1>. DEFINE H == queue["h2d"]
  <1>1. QueueTyped /\ TypeOK
    BY DEF IInv
  <1>2. UNCHANGED <<reserved, loaded, raises, skipped, storage, event>>
    BY Leaves
  <1>3. /\ \A i \in DOMAIN H' : i \in Nat /\ i >= 1 /\ i + 1 \in DOMAIN H /\ H'[i] = H[i + 1]
        /\ \A i \in DOMAIN H : i # 1 => i \in Nat /\ i > 1 /\ i - 1 \in DOMAIN H' /\ H'[i - 1] = H[i]
    BY <1>1, Pops
  <1>4. SUFFICES ASSUME Undisturbed', NEW b \in Blocks, Trusted(b)'
                 PROVE  Filled(b)'
    BY DEF StorageFilled
  <1>. DEFINE m == storage[b]
  <1>5. Filled(b) /\ m \in Memory
    BY <1>1, <1>2, <1>4 DEF IInv, StorageFilled, Undisturbed, Trusted, TypeOK
  <1>6. \A p \in DOMAIN H' : p \in Writes(m)' <=> p + 1 \in Writes(m)
    BY <1>2, <1>3 DEF Writes
  <1>7. Writes(m)' \subseteq DOMAIN H'
    BY DEF Writes
  <1>8. /\ content'[m] = b \/ Writes(m)' # {}
        /\ \A p \in Writes(m)' : H'[p].block = b \/ \E q \in Writes(m)' : p < q
    BY <1>5, <1>6, <1>7, H2dFills DEF Filled
  <1>9. ASSUME NEW p \in Writes(m)'
        PROVE  \E p2 \in DOMAIN H' : p < p2 /\ IsRecord("h2d", p2, Complete(b))'
    <2>1. p \in Nat /\ p >= 1 /\ p + 1 \in Writes(m)
      BY <1>3, <1>6, <1>7
    <2>2. PICK p2 \in DOMAIN H : p + 1 < p2 /\ IsRecord("h2d", p2, Complete(b))
      BY <2>1, <1>5 DEF Filled
    <2>3. p2 # 1
      BY <2>1, <2>2
    <2>4. p2 - 1 \in DOMAIN H' /\ p < p2 - 1 /\ H'[p2 - 1] = H[p2]
      BY <2>1, <2>2, <2>3, <1>3
    <2>. QED  BY <2>2, <2>4, <1>2 DEF IsRecord, Complete
  <1>. QED  BY <1>2, <1>8, <1>9 DEF Filled, Fills

LEMMA H2dKeepsSaves ==
  ASSUME IInv, Execute("h2d")
  PROVE  SavedFirst'
  <1>. USE DEF Streams
  <1>. DEFINE H == queue["h2d"]
  <1>1. QueueTyped /\ SavedFirst /\ Addressed
    BY DEF IInv
  <1>2. reserved' = reserved
    BY Leaves
  <1>3. /\ \A i \in DOMAIN H' : i \in Nat /\ i >= 1 /\ i + 1 \in DOMAIN H /\ H'[i] = H[i + 1]
        /\ \A i \in DOMAIN H : i # 1 => i \in Nat /\ i > 1 /\ i - 1 \in DOMAIN H' /\ H'[i - 1] = H[i]
        /\ 1 \in DOMAIN H
    BY <1>1, Pops
  <1>4. ASSUME NEW p \in DOMAIN H', NEW q \in DOMAIN H', H'[p].kind = "copy",
               H'[q].kind \in {"load", "save"}
        PROVE  q < p
    <2>1. p \in Nat /\ q \in Nat /\ q + 1 < p + 1
      BY <1>1, <1>3, <1>4 DEF SavedFirst
    <2>. QED  BY <2>1
  <1>5. ASSUME NEW p \in DOMAIN H', H'[p].kind = "copy"
        PROVE  H'[p].block >= reserved'
    BY <1>1, <1>2, <1>3, <1>5 DEF SavedFirst
  <1>6. ASSUME NEW b \in Blocks, b >= reserved', pinned'[b] # b
        PROVE  \E p \in DOMAIN H' : H'[p].kind = "save" /\ H'[p].block = b
    <2>1. pinned[b] # b /\ ~ (H[1].kind = "save" /\ H[1].block = b)
      BY <1>6, H2dWrites
    <2>2. PICK p \in DOMAIN H : H[p].kind = "save" /\ H[p].block = b
      BY <2>1, <1>1, <1>2, <1>6 DEF SavedFirst
    <2>3. p # 1
      BY <2>1, <2>2
    <2>. QED  BY <2>2, <2>3, <1>3
  <1>7. ASSUME NEW p \in DOMAIN H', H'[p].kind = "save"
        PROVE  LET op == H'[p]
               IN IF p = 1 THEN content'[op.at] = op.block
                  ELSE LET previous == H'[p - 1]
                       IN previous.kind = "load" /\ previous.block = op.block /\ previous.at = op.at
    <2>1. p \in Nat /\ p >= 1 /\ p + 1 \in DOMAIN H /\ H'[p] = H[p + 1]
      BY <1>3
    <2>5. (p + 1) - 1 = p /\ p + 1 # 1
      BY <2>1
    <2>6. \A q \in DOMAIN H : q # 1 /\ H[q].kind = "save" =>
            /\ H[q - 1].kind = "load" /\ H[q - 1].block = H[q].block /\ H[q - 1].at = H[q].at
      BY <1>1, Zenon DEF SavedFirst
    <2>2. H[p].kind = "load" /\ H[p].block = H[p + 1].block /\ H[p].at = H[p + 1].at
      BY <2>1, <2>5, <2>6, <1>7
    <2>3. CASE p = 1
      <3>1. 1 \in Writes(H[1].at) /\ H[1].at \in Memory
        BY <2>2, <2>3, <1>1, <1>3 DEF Writes, Addressed
      <3>2. content'[H[1].at] = H[1].block
        BY <3>1, H2dWrites
      <3>. QED  BY <3>2, <2>1, <2>2, <2>3
    <2>4. CASE p # 1
      <3>1. p \in DOMAIN H /\ p - 1 \in DOMAIN H' /\ H'[p - 1] = H[p]
        <4>1. p \in DOMAIN H
          BY <2>1, <1>1, Entries
        <4>. QED  BY <4>1, <2>4, <1>3
      <3>. QED  BY <3>1, <2>1, <2>2, <2>4
    <2>. QED  BY <2>3, <2>4
  <1>. QED  BY <1>4, <1>5, <1>6, <1>7 DEF SavedFirst

LEMMA H2dKeeps ==
  ASSUME IInv, Execute("h2d")
  PROVE  IInv'
  <1>. USE DEF Streams
  <1>. DEFINE Q == queue["compute"]
              H == queue["h2d"]
  <1>1. TypeOK /\ QueueTyped
    BY DEF IInv
  <1>2. Q' = Q
    BY <1>1, Pops
  <1>3. UNCHANGED <<reserved, phase, block, passes, loaded, raises, skipped,
                    storage, free, recorded, event>>
    BY Leaves
  <1>4. \A i \in DOMAIN H' : i + 1 \in DOMAIN H /\ H'[i] = H[i + 1]
    BY <1>1, Pops
  <1>5. TypeOK'
    BY <1>1, <1>3, H2dReached, H2dWrites DEF TypeOK, Nobody
  <1>6. Addressed'
    BY <1>2, <1>4, H2dWrites DEF IInv, Addressed
  <1>7. Awaited'
    BY <1>2, <1>3, <1>4 DEF IInv, Awaited, IsRecord, IsWait
  <1>8. LoadedAhead' /\ Accounted' /\ MemoryBounded'
    BY <1>3, H2dWrites DEF IInv, LoadedAhead, Accounted, MemoryBounded, InPass
  <1>. QED
    BY <1>1, <1>5, <1>6, <1>7, <1>8, Pops, H2dReached, H2dKeepsSaves, H2dKeepsStorage,
       H2dKeepsKernels DEF IInv

-----------------------------------------------------------------------------
(* The host queues: entries are added behind the others. *)
Appended(q, r, more) ==
  /\ Len(q) \in Nat
  /\ \A i \in DOMAIN q : i \in Nat /\ i >= 1 /\ i <= Len(q) /\ i \in DOMAIN r /\ r[i] = q[i]
  /\ \A i \in DOMAIN r : i \notin DOMAIN q =>
       /\ i \in Nat /\ i > Len(q) /\ i - Len(q) \in DOMAIN more
       /\ r[i] = more[i - Len(q)]
  /\ \A k \in DOMAIN more :
       k \in Nat /\ k >= 1 /\ Len(q) + k \in DOMAIN r /\ r[Len(q) + k] = more[k]

LEMMA ConcatAppends ==
  ASSUME NEW T, NEW q \in Seq(T), NEW more \in Seq(T)
  PROVE  Appended(q, q \o more, more)
  <1>. DEFINE r == q \o more
  <1>1. /\ Len(q) \in Nat /\ DOMAIN q = 1 .. Len(q)
        /\ Len(more) \in Nat /\ DOMAIN more = 1 .. Len(more)
    BY LenProperties
  <1>2. /\ r \in Seq(T) /\ Len(r) = Len(q) + Len(more)
        /\ \A i \in 1 .. Len(q) + Len(more) : r[i] = IF i <= Len(q) THEN q[i] ELSE more[i - Len(q)]
    BY ConcatProperties
  <1>3. DOMAIN r = 1 .. Len(q) + Len(more)
    BY <1>2, LenProperties
  <1>4. ASSUME NEW i \in DOMAIN q
        PROVE  i \in Nat /\ i >= 1 /\ i <= Len(q) /\ i \in DOMAIN r /\ r[i] = q[i]
    BY <1>1, <1>2, <1>3
  <1>5. ASSUME NEW i \in DOMAIN r, i \notin DOMAIN q
        PROVE  /\ i \in Nat /\ i > Len(q) /\ i - Len(q) \in DOMAIN more
               /\ r[i] = more[i - Len(q)]
    BY <1>1, <1>2, <1>3, <1>5
  <1>6. ASSUME NEW k \in DOMAIN more
        PROVE  k \in Nat /\ k >= 1 /\ Len(q) + k \in DOMAIN r /\ r[Len(q) + k] = more[k]
    <2>1. k \in Nat /\ k >= 1 /\ Len(q) + k \in 1 .. Len(q) + Len(more) /\ ~ Len(q) + k <= Len(q)
          /\ (Len(q) + k) - Len(q) = k
      BY <1>1
    <2>. QED  BY <2>1, <1>2, <1>3
  <1>. QED  BY <1>1, <1>4, <1>5, <1>6 DEF Appended

LEMMA Enqueues ==
  ASSUME TypeOK, QueueTyped,
         NEW c \in Seq(ComputeOps), NEW h \in Seq(H2dOps), NEW d \in Seq(Records),
         Enqueue(c, h, d)
  PROVE  /\ QueueTyped'
         /\ Appended(queue["compute"], queue'["compute"], c)
         /\ Appended(queue["h2d"], queue'["h2d"], h)
         /\ Appended(queue["d2h"], queue'["d2h"], d)
         /\ recorded' \in [Streams -> Nat]
         /\ recorded'["compute"] = IF Record(Upcoming("compute")) \in Range(c)
                                   THEN Upcoming("compute") ELSE recorded["compute"]
         /\ recorded'["h2d"] = IF Record(Upcoming("h2d")) \in Range(h)
                               THEN Upcoming("h2d") ELSE recorded["h2d"]
         /\ recorded'["d2h"] = IF Record(Upcoming("d2h")) \in Range(d)
                               THEN Upcoming("d2h") ELSE recorded["d2h"]
  <1>. USE DEF Streams
  <1>1. /\ queue' = [s \in Streams |-> queue[s] \o [compute |-> c, h2d |-> h, d2h |-> d][s]]
        /\ recorded' = [s \in Streams |->
             IF Record(Upcoming(s)) \in Range([compute |-> c, h2d |-> h, d2h |-> d][s])
             THEN Upcoming(s) ELSE recorded[s]]
    BY DEF Enqueue
  <1>2. /\ queue'["compute"] = queue["compute"] \o c
        /\ queue'["h2d"] = queue["h2d"] \o h
        /\ queue'["d2h"] = queue["d2h"] \o d
    BY <1>1
  <1>3. /\ queue["compute"] \in Seq(ComputeOps)
        /\ queue["h2d"] \in Seq(H2dOps) /\ queue["d2h"] \in Seq(Records)
    BY DEF QueueTyped
  <1>4. /\ queue'["compute"] \in Seq(ComputeOps)
        /\ queue'["h2d"] \in Seq(H2dOps) /\ queue'["d2h"] \in Seq(Records)
    BY <1>2, <1>3, ConcatProperties
  <1>5. QueueTyped'
    <2>1. ComputeOps \subseteq ComputeOps \cup H2dOps /\ H2dOps \subseteq ComputeOps \cup H2dOps
          /\ Records \subseteq ComputeOps \cup H2dOps
      BY DEF ComputeOps
    <2>2. /\ queue'["compute"] \in Seq(ComputeOps \cup H2dOps)
          /\ queue'["h2d"] \in Seq(ComputeOps \cup H2dOps)
          /\ queue'["d2h"] \in Seq(ComputeOps \cup H2dOps)
      BY <1>4, <2>1, SeqMonotonic
    <2>3. DOMAIN queue' = Streams /\ queue' = [s \in Streams |-> queue'[s]]
      BY <1>1
    <2>4. queue' \in [Streams -> Seq(ComputeOps \cup H2dOps)]
      BY <2>2, <2>3
    <2>. QED  BY <1>4, <2>4 DEF QueueTyped
  <1>6. /\ Appended(queue["compute"], queue'["compute"], c)
        /\ Appended(queue["h2d"], queue'["h2d"], h)
        /\ Appended(queue["d2h"], queue'["d2h"], d)
    BY <1>2, <1>3, ConcatAppends
  <1>7. /\ recorded'["compute"] = IF Record(Upcoming("compute")) \in Range(c)
                                  THEN Upcoming("compute") ELSE recorded["compute"]
        /\ recorded'["h2d"] = IF Record(Upcoming("h2d")) \in Range(h)
                              THEN Upcoming("h2d") ELSE recorded["h2d"]
        /\ recorded'["d2h"] = IF Record(Upcoming("d2h")) \in Range(d)
                              THEN Upcoming("d2h") ELSE recorded["d2h"]
    BY <1>1
  <1>8. recorded' \in [Streams -> Nat]
    <2>1. \A s \in Streams : recorded[s] \in Nat /\ Upcoming(s) \in Nat
      BY DEF TypeOK, Upcoming
    <2>2. \A s \in Streams : recorded'[s] \in Nat
      BY <1>7, <2>1
    <2>3. recorded' = [s \in Streams |-> recorded'[s]]
      BY <1>1
    <2>. QED  BY <2>2, <2>3
  <1>. QED  BY <1>5, <1>6, <1>7, <1>8

(* What the host queues at once: at most one recording on a stream, of the upcoming
   number, and copies only behind a wait for the one on the caller's stream. *)
Fresh(s, q) ==
  /\ \A k \in DOMAIN q : q[k].kind = "record" => q[k] = Record(Upcoming(s))
  /\ \A j, k \in DOMAIN q : q[j].kind = "record" /\ q[k].kind = "record" => j = k

Orderly(c, h, d) ==
  /\ Fresh("compute", c) /\ Fresh("h2d", h) /\ Fresh("d2h", d)
  /\ \A k \in DOMAIN h :
       /\ h[k].kind \in {"record", "wait", "copy"}
       /\ h[k].kind = "wait" => /\ h[k].number = Upcoming("compute") /\ h[k].stream = "compute"
                                /\ Record(Upcoming("compute")) \in Range(c)
       /\ h[k].kind = "copy" => h[k].block >= reserved
       /\ h[k].kind = "copy" => \E j \in DOMAIN h : j < k /\ h[j].kind = "wait"

LEMMA RecordFields ==
  ASSUME NEW n
  PROVE  Record(n).kind = "record" /\ Record(n).number = n
  BY DEF Record

LEMMA EnqueuesNumbered ==
  ASSUME TypeOK, QueueTyped, Numbered,
         NEW c \in Seq(ComputeOps), NEW h \in Seq(H2dOps), NEW d \in Seq(Records),
         Enqueue(c, h, d), Orderly(c, h, d), reached' = reached
  PROVE  Numbered'
  <1>. USE DEF Streams
  <1>1. /\ recorded \in [Streams -> Nat] /\ reached \in [Streams -> Nat]
    BY DEF TypeOK
  <1>2. ASSUME NEW s \in Streams, NEW more, Fresh(s, more), Appended(queue[s], queue'[s], more),
               recorded'[s] = IF Record(Upcoming(s)) \in Range(more)
                              THEN Upcoming(s) ELSE recorded[s],
               reached[s] <= recorded[s]
        PROVE  /\ \A i \in DOMAIN queue'[s] : queue'[s][i].kind = "record"
                    => reached'[s] < queue'[s][i].number /\ queue'[s][i].number <= recorded'[s]
               /\ \A i, j \in DOMAIN queue'[s] :
                    i < j /\ queue'[s][i].kind = "record" /\ queue'[s][j].kind = "record"
                      => queue'[s][i].number < queue'[s][j].number
    <2>1. ASSUME NEW i \in DOMAIN queue'[s], i \notin DOMAIN queue[s], queue'[s][i].kind = "record"
          PROVE  queue'[s][i].number = recorded[s] + 1 /\ recorded'[s] = recorded[s] + 1
      <3>1. i - Len(queue[s]) \in DOMAIN more /\ queue'[s][i] = more[i - Len(queue[s])]
        BY <1>2, <2>1 DEF Appended
      <3>2. queue'[s][i] = Record(Upcoming(s))
        BY <3>1, <1>2, <2>1 DEF Fresh
      <3>3. Record(Upcoming(s)) \in Range(more)
        BY <3>1, <3>2 DEF Range
      <3>. QED  BY <3>2, <3>3, <1>2, RecordFields DEF Upcoming
    <2>2. ASSUME NEW i \in DOMAIN queue[s], queue'[s][i].kind = "record"
          PROVE  /\ queue'[s][i] = queue[s][i]
                 /\ reached[s] < queue[s][i].number /\ queue[s][i].number <= recorded[s]
      BY <1>2, <2>2 DEF Appended, Numbered
    <2>3. recorded[s] <= recorded'[s] /\ recorded[s] \in Nat /\ reached[s] \in Nat
      BY <1>1, <1>2 DEF Upcoming
    <2>4. \A i \in DOMAIN queue'[s] : queue'[s][i].kind = "record" => queue'[s][i].number \in Nat
      <3>1. QueueTyped'
        BY Enqueues
      <3>2. queue'[s] \in Seq(ComputeOps \cup H2dOps)
        BY <3>1 DEF QueueTyped
      <3>3. \A i \in DOMAIN queue'[s] : queue'[s][i] \in ComputeOps \cup H2dOps
        BY <3>2, LenProperties, ElementOfSeq
      <3>. QED  BY <3>3, ComputeKinds, H2dKinds DEF Numbers
    <2>5. ASSUME NEW i \in DOMAIN queue'[s], queue'[s][i].kind = "record"
          PROVE  reached'[s] < queue'[s][i].number /\ queue'[s][i].number <= recorded'[s]
      <3>1. queue'[s][i].number \in Nat /\ reached' = reached
        BY <2>4, <2>5
      <3>2. CASE i \in DOMAIN queue[s]
        <4>1. /\ queue'[s][i] = queue[s][i]
              /\ reached[s] < queue[s][i].number /\ queue[s][i].number <= recorded[s]
          BY <3>2, <2>2, <2>5
        <4>2. recorded'[s] \in Nat
          BY Enqueues
        <4>. QED  BY <3>1, <4>1, <4>2, <2>3
      <3>3. CASE i \notin DOMAIN queue[s]
        <4>1. queue'[s][i].number = recorded[s] + 1 /\ recorded'[s] = recorded[s] + 1
          BY <3>3, <2>1, <2>5
        <4>2. reached[s] <= recorded[s]
          BY <1>2
        <4>. QED  BY <3>1, <4>1, <4>2, <2>3
      <3>. QED  BY <3>2, <3>3
    <2>6. ASSUME NEW i \in DOMAIN queue'[s], NEW j \in DOMAIN queue'[s], i < j,
                 queue'[s][i].kind = "record", queue'[s][j].kind = "record"
          PROVE  queue'[s][i].number < queue'[s][j].number
      <3>1. CASE j \in DOMAIN queue[s]
        <4>1. i \in DOMAIN queue[s]
          BY <3>1, <1>2, <2>6 DEF Appended
        <4>. QED  BY <4>1, <3>1, <2>2, <2>6 DEF Numbered
      <3>2. CASE j \notin DOMAIN queue[s] /\ i \in DOMAIN queue[s]
        BY <3>2, <2>1, <2>2, <2>3, <2>4, <2>6
      <3>3. CASE j \notin DOMAIN queue[s] /\ i \notin DOMAIN queue[s]
        <4>1. /\ i \in Nat /\ j \in Nat /\ Len(queue[s]) \in Nat
              /\ i - Len(queue[s]) \in DOMAIN more /\ j - Len(queue[s]) \in DOMAIN more
              /\ queue'[s][i] = more[i - Len(queue[s])] /\ queue'[s][j] = more[j - Len(queue[s])]
          BY <3>3, <1>2 DEF Appended
        <4>2. i - Len(queue[s]) = j - Len(queue[s])
          BY <4>1, <1>2, <2>6 DEF Fresh
        <4>. QED  BY <4>1, <4>2, <2>6
      <3>. QED  BY <3>1, <3>2, <3>3
    <2>. QED  BY <2>5, <2>6
  <1>3. /\ Appended(queue["compute"], queue'["compute"], c)
        /\ Appended(queue["h2d"], queue'["h2d"], h)
        /\ Appended(queue["d2h"], queue'["d2h"], d)
        /\ recorded'["compute"] = IF Record(Upcoming("compute")) \in Range(c)
                                  THEN Upcoming("compute") ELSE recorded["compute"]
        /\ recorded'["h2d"] = IF Record(Upcoming("h2d")) \in Range(h)
                              THEN Upcoming("h2d") ELSE recorded["h2d"]
        /\ recorded'["d2h"] = IF Record(Upcoming("d2h")) \in Range(d)
                              THEN Upcoming("d2h") ELSE recorded["d2h"]
    BY Enqueues
  <1>4. ASSUME NEW s \in Streams
        PROVE  /\ \A i \in DOMAIN queue'[s] : queue'[s][i].kind = "record"
                    => reached'[s] < queue'[s][i].number /\ queue'[s][i].number <= recorded'[s]
               /\ \A i, j \in DOMAIN queue'[s] :
                    i < j /\ queue'[s][i].kind = "record" /\ queue'[s][j].kind = "record"
                      => queue'[s][i].number < queue'[s][j].number
    <2>1. reached[s] <= recorded[s]
      BY DEF Numbered
    <2>2. Fresh("compute", c) /\ Fresh("h2d", h) /\ Fresh("d2h", d)
      BY DEF Orderly
    <2>. QED  BY <2>1, <2>2, <1>2, <1>3
  <1>5. \A s \in Streams : reached'[s] <= recorded'[s] /\ recorded[s] <= recorded'[s]
    BY <1>1, <1>3 DEF Numbered, Upcoming
  <1>6. ASSUME NEW p \in DOMAIN queue'["h2d"], queue'["h2d"][p].kind = "wait"
        PROVE  queue'["h2d"][p].number <= recorded'["compute"]
    <2>1. CASE p \in DOMAIN queue["h2d"]
      <3>1. queue'["h2d"][p] = queue["h2d"][p]
        BY <2>1, <1>3 DEF Appended
      <3>2. queue["h2d"][p].number <= recorded["compute"] /\ recorded["compute"] <= recorded'["compute"]
        BY <3>1, <2>1, <1>5, <1>6 DEF Numbered
      <3>3. queue["h2d"][p].number \in Nat
        BY <3>1, <2>1, <1>6, Entries, H2dKinds DEF Numbers
      <3>. QED  BY <3>1, <3>2, <3>3, <1>1, Enqueues
    <2>2. CASE p \notin DOMAIN queue["h2d"]
      <3>1. p - Len(queue["h2d"]) \in DOMAIN h /\ queue'["h2d"][p] = h[p - Len(queue["h2d"])]
        BY <2>2, <1>3 DEF Appended
      <3>2. queue'["h2d"][p].number = Upcoming("compute") /\ Record(Upcoming("compute")) \in Range(c)
        BY <3>1, <1>6 DEF Orderly
      <3>. QED  BY <3>2, <1>1, <1>3 DEF Upcoming
    <2>. QED  BY <2>1, <2>2
  <1>7. recorded'["h2d"] >= 1
    BY <1>1, <1>5, Enqueues DEF Numbered
  <1>. QED  BY <1>4, <1>5, <1>6, <1>7 DEF Numbered

(* What is added cannot hurt a kernel that is queued: copies wait for it. *)
LEMMA EnqueuesAfterKernels ==
  ASSUME TypeOK, QueueTyped, Numbered,
         NEW c \in Seq(ComputeOps), NEW h \in Seq(H2dOps), NEW d \in Seq(Records),
         Enqueue(c, h, d), Orderly(c, h, d), NEW i \in DOMAIN queue["compute"]
  PROVE  /\ \A m : Early(i, m)' = Early(i, m)
         /\ \A p \in DOMAIN queue["h2d"] : Before(p, i) => Before(p, i)'
  <1>. USE DEF Streams
  <1>. DEFINE Q == queue["compute"]
              H == queue["h2d"]
  <1>1. /\ Appended(Q, Q', c) /\ Appended(H, H', h)
        /\ recorded'["compute"] = IF Record(Upcoming("compute")) \in Range(c)
                                  THEN Upcoming("compute") ELSE recorded["compute"]
    BY Enqueues
  <1>2. /\ \A j \in DOMAIN Q : j \in DOMAIN Q' /\ Q'[j] = Q[j] /\ j \in Nat /\ j <= Len(Q)
        /\ \A p \in DOMAIN H : p \in DOMAIN H' /\ H'[p] = H[p] /\ p \in Nat /\ p <= Len(H)
        /\ \A j \in DOMAIN Q' : j \notin DOMAIN Q => j \in Nat /\ j > Len(Q)
        /\ \A p \in DOMAIN H' : p \notin DOMAIN H => p \in Nat /\ p > Len(H)
        /\ Len(Q) \in Nat /\ Len(H) \in Nat
    BY <1>1 DEF Appended
  <1>3. ASSUME NEW p \in DOMAIN H, NEW j \in DOMAIN Q', j \notin DOMAIN Q,
               Awaits("h2d", p, "compute", j)'
        PROVE  FALSE
    <2>1. j - Len(Q) \in DOMAIN c /\ Q'[j] = c[j - Len(Q)] /\ Q'[j].kind = "record"
      BY <1>1, <1>3 DEF Appended, Awaits
    <2>2. Q'[j].number = recorded["compute"] + 1
      BY <2>1, RecordFields DEF Orderly, Fresh, Upcoming
    <2>3. H[p].kind = "wait" /\ H[p].number = Q'[j].number
      BY <1>2, <1>3 DEF Awaits, IsWait
    <2>4. H[p].number <= recorded["compute"] /\ recorded["compute"] \in Nat
      BY <2>3 DEF Numbered, TypeOK
    <2>. QED  BY <2>2, <2>3, <2>4
  <1>4. \A p \in DOMAIN H, j \in DOMAIN Q :
          /\ Awaits("h2d", p, "compute", j)' <=> Awaits("h2d", p, "compute", j)
          /\ Awaits("compute", j, "h2d", p)' <=> Awaits("compute", j, "h2d", p)
    BY <1>2 DEF Awaits, IsWait
  <1>5. ASSUME NEW p \in DOMAIN H
        PROVE  After(i, p)' <=> After(i, p)
    <2>1. ASSUME After(i, p)' PROVE After(i, p)
      <3>1. PICK p2 \in DOMAIN H', j \in DOMAIN Q' :
              p2 < p /\ i < j /\ Awaits("h2d", p2, "compute", j)'
        BY <2>1 DEF After
      <3>2. p2 \in DOMAIN H
        BY <3>1, <1>2
      <3>3. j \in DOMAIN Q
        BY <3>1, <3>2, <1>3
      <3>. QED  BY <3>1, <3>2, <3>3, <1>4 DEF After
    <2>2. ASSUME After(i, p) PROVE After(i, p)'
      BY <2>2, <1>2, <1>4 DEF After
    <2>. QED  BY <2>1, <2>2
  <1>6. ASSUME NEW p \in DOMAIN H', p \notin DOMAIN H, H'[p].kind \in {"load", "copy"}
        PROVE  After(i, p)'
    <2>1. p - Len(H) \in DOMAIN h /\ H'[p] = h[p - Len(H)]
      BY <1>1, <1>6 DEF Appended
    <2>2. PICK k \in DOMAIN h : k < p - Len(H) /\ h[k].kind = "wait"
      BY <2>1, <1>6 DEF Orderly
    <2>3. /\ h[k].number = Upcoming("compute") /\ h[k].stream = "compute"
          /\ Record(Upcoming("compute")) \in Range(c)
      BY <2>2 DEF Orderly
    <2>4. PICK k2 \in DOMAIN c : c[k2] = Record(Upcoming("compute"))
      BY <2>3 DEF Range
    <2>5. PICK p2 \in DOMAIN H' : p2 < p /\ H'[p2] = h[k]
      <3>1. k \in Nat /\ Len(H) + k \in DOMAIN H' /\ H'[Len(H) + k] = h[k] /\ Len(H) + k < p
        BY <1>1, <1>2, <1>6, <2>2 DEF Appended
      <3>. QED  BY <3>1
    <2>6. PICK j \in DOMAIN Q' : i < j /\ Q'[j] = c[k2]
      <3>1. /\ k2 \in Nat /\ k2 >= 1 /\ Len(Q) + k2 \in DOMAIN Q' /\ Q'[Len(Q) + k2] = c[k2]
            /\ i < Len(Q) + k2
        BY <1>1, <1>2 DEF Appended
      <3>. QED  BY <3>1
    <2>7. Awaits("h2d", p2, "compute", j)'
      BY <2>2, <2>3, <2>4, <2>5, <2>6, RecordFields DEF Awaits, IsWait
    <2>. QED  BY <2>5, <2>6, <2>7 DEF After
  <1>7. ASSUME NEW m
        PROVE  Early(i, m)' = Early(i, m)
    <2>1. \A p \in DOMAIN H : p \in Early(i, m)' <=> p \in Early(i, m)
      BY <1>2, <1>5 DEF Early, Writes
    <2>2. \A p \in Early(i, m)' : p \in DOMAIN H
      BY <1>6 DEF Early, Writes
    <2>. QED  BY <2>1, <2>2 DEF Early, Writes
  <1>8. ASSUME NEW p \in DOMAIN H, Before(p, i)
        PROVE  Before(p, i)'
    BY <1>2, <1>4, <1>8 DEF Before
  <1>. QED  BY <1>7, <1>8

LEMMA EnqueuesKernels ==
  ASSUME TypeOK, QueueTyped, Numbered, Addressed, KernelsRight, Undisturbed,
         NEW c \in Seq(ComputeOps), NEW h \in Seq(H2dOps), NEW d \in Seq(Records),
         Enqueue(c, h, d), Orderly(c, h, d), \A m \in Memory : content'[m] = content[m],
         NEW i \in DOMAIN queue["compute"], queue["compute"][i].kind = "kernel"
  PROVE  KernelRight(i)'
  <1>. USE DEF Streams
  <1>. DEFINE Q == queue["compute"]
              H == queue["h2d"]
  <1>1. /\ \A p \in DOMAIN H : p \in DOMAIN H' /\ H'[p] = H[p]
        /\ i \in DOMAIN Q' /\ Q'[i] = Q[i]
    BY Enqueues DEF Appended
  <1>2. ASSUME NEW m, NEW b, m = Q[i].at, b = Q[i].block
        PROVE  /\ \A p \in Early(i, m)' : Before(p, i)'
               /\ content'[m] = b \/ Early(i, m)' # {}
               /\ \A p \in Early(i, m)' : H'[p].block = b \/ \E q \in Early(i, m)' : p < q
    <2>1. KernelRight(i) /\ m \in Memory
      BY <1>2 DEF KernelsRight, Addressed
    <2>2. /\ \A p \in Early(i, m) : p \in DOMAIN H /\ Before(p, i)
          /\ Fills(Early(i, m), m, b)
      BY <2>1, <1>2 DEF KernelRight, Early, Writes
    <2>3. Early(i, m)' = Early(i, m)
      BY EnqueuesAfterKernels
    <2>4. \A p \in Early(i, m) : Before(p, i)'
      BY <2>2, EnqueuesAfterKernels
    <2>. QED  BY <1>1, <2>1, <2>2, <2>3, <2>4 DEF Fills
  <1>. QED  BY <1>1, <1>2 DEF KernelRight, Fills

(* The memory of a block that nothing is copied into stays as it will be. *)
LEMMA EnqueuesFilled ==
  ASSUME TypeOK, QueueTyped,
         NEW c \in Seq(ComputeOps), NEW h \in Seq(H2dOps), NEW d \in Seq(Records),
         Enqueue(c, h, d), NEW b \in Blocks, storage[b] \in Memory, Filled(b),
         \A k \in DOMAIN h : h[k].kind \in {"load", "copy"} => h[k].at # storage[b],
         storage'[b] = storage[b], event'[b] = event[b], content'[storage[b]] = content[storage[b]]
  PROVE  Filled(b)'
  <1>. USE DEF Streams
  <1>. DEFINE H == queue["h2d"]
  <1>1. Appended(H, H', h)
    BY Enqueues
  <1>2. /\ \A p \in DOMAIN H : p \in DOMAIN H' /\ H'[p] = H[p]
        /\ \A p \in DOMAIN H' : p \notin DOMAIN H => p - Len(H) \in DOMAIN h /\ H'[p] = h[p - Len(H)]
    BY <1>1 DEF Appended
  <1>3. Writes(storage[b])' = Writes(storage[b])
    BY <1>2 DEF Writes
  <1>4. Fills(Writes(storage[b]), storage[b], b)'
    <2>1. Writes(storage[b]) \subseteq DOMAIN H
      BY DEF Writes
    <2>2. Fills(Writes(storage[b]), storage[b], b)
      BY DEF Filled
    <2>. QED  BY <2>1, <2>2, <1>2, <1>3 DEF Fills
  <1>5. ASSUME NEW p \in Writes(storage[b])
        PROVE  \E p2 \in DOMAIN H' : p < p2 /\ IsRecord("h2d", p2, Complete(b))'
    <2>1. PICK p2 \in DOMAIN H : p < p2 /\ IsRecord("h2d", p2, Complete(b))
      BY DEF Filled
    <2>. QED  BY <2>1, <1>2 DEF IsRecord, Complete
  <1>. QED  BY <1>3, <1>4, <1>5 DEF Filled

(* Nor is anything saved or waited for at the start put at risk. *)
LEMMA EnqueuesSaves ==
  ASSUME TypeOK, QueueTyped, Numbered, Addressed, SavedFirst,
         NEW c \in Seq(ComputeOps), NEW h \in Seq(H2dOps), NEW d \in Seq(Records),
         Enqueue(c, h, d), Orderly(c, h, d), \A m \in Memory : content'[m] = content[m],
         pinned' = pinned, reserved' = reserved
  PROVE  SavedFirst'
  <1>. USE DEF Streams
  <1>. DEFINE H == queue["h2d"]
  <1>1. Appended(H, H', h)
    BY Enqueues
  <1>2. /\ \A p \in DOMAIN H : p \in DOMAIN H' /\ H'[p] = H[p] /\ p \in Nat /\ p >= 1 /\ p <= Len(H)
        /\ \A p \in DOMAIN H' : p \notin DOMAIN H =>
             /\ p \in Nat /\ p > Len(H) /\ H'[p].kind \in {"record", "wait", "copy"}
             /\ H'[p].kind = "copy" => H'[p].block >= reserved
        /\ Len(H) \in Nat
    BY <1>1 DEF Appended, Orderly
  <1>3. ASSUME NEW p \in DOMAIN H', NEW q \in DOMAIN H', H'[p].kind = "copy",
               H'[q].kind \in {"load", "save"}
        PROVE  q < p
    <2>1. q \in DOMAIN H /\ H'[q] = H[q] /\ q \in Nat /\ q <= Len(H)
      BY <1>2, <1>3
    <2>2. CASE p \in DOMAIN H
      BY <2>1, <2>2, <1>2, <1>3 DEF SavedFirst
    <2>3. CASE p \notin DOMAIN H
      BY <2>1, <2>3, <1>2
    <2>. QED  BY <2>2, <2>3
  <1>4. ASSUME NEW p \in DOMAIN H', H'[p].kind = "copy"
        PROVE  H'[p].block >= reserved'
    BY <1>2, <1>4 DEF SavedFirst
  <1>5. ASSUME NEW b \in Blocks, b >= reserved', pinned'[b] # b
        PROVE  \E p \in DOMAIN H' : H'[p].kind = "save" /\ H'[p].block = b
    BY <1>2, <1>5 DEF SavedFirst
  <1>6. ASSUME NEW p \in DOMAIN H', H'[p].kind = "save"
        PROVE  IF p = 1 THEN content'[H'[p].at] = H'[p].block
               ELSE /\ H'[p - 1].kind = "load" /\ H'[p - 1].block = H'[p].block
                    /\ H'[p - 1].at = H'[p].at
    <2>1. p \in DOMAIN H /\ H'[p] = H[p] /\ p \in Nat /\ p >= 1 /\ H[p].kind = "save"
      BY <1>2, <1>6
    <2>2. CASE p = 1
      <3>1. content[H[1].at] = H[1].block
        BY <2>1, <2>2 DEF SavedFirst
      <3>2. H[1].at \in Memory
        BY <2>1, <2>2 DEF Addressed
      <3>. QED  BY <3>1, <3>2, <2>1, <2>2
    <2>3. CASE p # 1
      <3>1. H[p - 1].kind = "load" /\ H[p - 1].block = H[p].block /\ H[p - 1].at = H[p].at
        BY <2>1, <2>3, Zenon DEF SavedFirst
      <3>2. p - 1 \in DOMAIN H
        BY <2>1, <2>3, Entries
      <3>3. H'[p - 1] = H[p - 1]
        BY <3>2, <1>2
      <3>. QED  BY <3>1, <3>3, <2>1, <2>3
    <2>. QED  BY <2>2, <2>3
  <1>7. \A p \in DOMAIN H' : H'[p].kind = "save" =>
          LET op == H'[p]
          IN IF p = 1 THEN content'[op.at] = op.block
             ELSE LET previous == H'[p - 1]
                  IN previous.kind = "load" /\ previous.block = op.block /\ previous.at = op.at
    BY <1>6, Zenon
  <1>. QED  BY <1>3, <1>4, <1>5, <1>7 DEF SavedFirst

LEMMA EnqueuesBehind ==
  ASSUME TypeOK, QueueTyped, Numbered, Addressed, Awaited,
         NEW c \in Seq(ComputeOps), NEW h \in Seq(H2dOps), NEW d \in Seq(Records),
         Enqueue(c, h, d), Orderly(c, h, d), Memory \subseteq Memory',
         \A k \in DOMAIN h : h[k].kind = "copy" => h[k].at \in Memory',
         \A k \in DOMAIN c : c[k].kind = "kernel" => c[k].at \in Memory'
  PROVE  /\ Addressed'
         /\ \A p \in DOMAIN queue'["h2d"] :
              IsRecord("h2d", p, 1)' => queue'["compute"] # <<>> /\ IsWait("compute", 1, "h2d", 1)'
         /\ \A p \in DOMAIN queue'["h2d"], n \in 0 .. recorded["h2d"] :
              IsRecord("h2d", p, n)' => p \in DOMAIN queue["h2d"] /\ IsRecord("h2d", p, n)
  <1>. USE DEF Streams
  <1>. DEFINE Q == queue["compute"]
              H == queue["h2d"]
  <1>1. Appended(Q, Q', c) /\ Appended(H, H', h)
    BY Enqueues
  <1>2. /\ \A j \in DOMAIN Q : j \in DOMAIN Q' /\ Q'[j] = Q[j]
        /\ \A p \in DOMAIN H : p \in DOMAIN H' /\ H'[p] = H[p]
        /\ \A j \in DOMAIN Q' : j \notin DOMAIN Q => j - Len(Q) \in DOMAIN c /\ Q'[j] = c[j - Len(Q)]
        /\ \A p \in DOMAIN H' : p \notin DOMAIN H => p - Len(H) \in DOMAIN h /\ H'[p] = h[p - Len(H)]
    BY <1>1 DEF Appended
  <1>3. Addressed'
    <2>1. ASSUME NEW p \in DOMAIN H', H'[p].kind \in {"load", "save", "copy"}
          PROVE  H'[p].at \in Memory'
      <3>1. CASE p \in DOMAIN H
        BY <3>1, <2>1, <1>2 DEF Addressed
      <3>2. CASE p \notin DOMAIN H
        BY <3>2, <2>1, <1>2 DEF Orderly
      <3>. QED  BY <3>1, <3>2
    <2>2. ASSUME NEW i \in DOMAIN Q', Q'[i].kind = "kernel"
          PROVE  Q'[i].at \in Memory'
      <3>1. CASE i \in DOMAIN Q
        BY <3>1, <2>2, <1>2 DEF Addressed
      <3>2. CASE i \notin DOMAIN Q
        BY <3>2, <2>2, <1>2
      <3>. QED  BY <3>1, <3>2
    <2>. QED  BY <2>1, <2>2 DEF Addressed
  <1>4. ASSUME NEW p \in DOMAIN H', NEW n \in 0 .. recorded["h2d"], IsRecord("h2d", p, n)'
        PROVE  p \in DOMAIN H /\ IsRecord("h2d", p, n)
    <2>1. p \in DOMAIN H
      <3>1. SUFFICES ASSUME p \notin DOMAIN H PROVE FALSE
        OBVIOUS
      <3>2. H'[p].number = recorded["h2d"] + 1 /\ recorded["h2d"] \in Nat
        <4>1. p - Len(H) \in DOMAIN h /\ H'[p] = h[p - Len(H)] /\ H'[p].kind = "record"
          BY <3>1, <1>2, <1>4 DEF IsRecord
        <4>2. H'[p] = Record(Upcoming("h2d"))
          BY <4>1 DEF Orderly, Fresh
        <4>3. H'[p].number = Upcoming("h2d")
          BY <4>2, RecordFields
        <4>. QED  BY <4>3 DEF Upcoming, TypeOK
      <3>. QED  BY <3>2, <1>4 DEF IsRecord
    <2>. QED  BY <2>1, <1>2, <1>4 DEF IsRecord
  <1>5. ASSUME NEW p \in DOMAIN H', IsRecord("h2d", p, 1)'
        PROVE  Q' # <<>> /\ IsWait("compute", 1, "h2d", 1)'
    <2>1. 1 \in 0 .. recorded["h2d"]
      BY DEF Numbered, TypeOK
    <2>2. Q # <<>> /\ IsWait("compute", 1, "h2d", 1)
      BY <2>1, <1>4, <1>5 DEF Awaited
    <2>3. 1 \in DOMAIN Q
      BY <2>2, EmptySeq, LenProperties DEF QueueTyped
    <2>4. 1 \in DOMAIN Q' /\ Q'[1] = Q[1]
      BY <2>3, <1>2
    <2>5. QueueTyped'
      BY Enqueues
    <2>6. Q' # <<>>
      BY <2>4, <2>5, LenProperties, EmptySeq DEF QueueTyped
    <2>. QED  BY <2>2, <2>4, <2>6 DEF IsWait
  <1>. QED  BY <1>3, <1>4, <1>5

-----------------------------------------------------------------------------
(* The entries the hooks and the forward function queue. *)
LEMMA Ops ==
  /\ \A n \in Numbers : Record(n) \in Records /\ Record(n) \in ComputeOps /\ Record(n) \in H2dOps
  /\ \A n \in Numbers : /\ Wait("compute", n) \in H2dOps
                        /\ Wait("h2d", n) \in ComputeOps /\ Wait("d2h", n) \in ComputeOps
  /\ \A b \in Blocks, m \in Numbers : Copy(b, m) \in H2dOps /\ Kernel(b, m) \in ComputeOps
  BY DEF Record, Records, Wait, Waits, Copy, Kernel, Transfers, ComputeOps, H2dOps

LEMMA OpFields ==
  /\ \A s, n : /\ Wait(s, n).kind = "wait" /\ Wait(s, n).stream = s /\ Wait(s, n).number = n
  /\ \A b, m : /\ Copy(b, m).kind = "copy" /\ Copy(b, m).block = b /\ Copy(b, m).at = m
               /\ Kernel(b, m).kind = "kernel" /\ Kernel(b, m).block = b /\ Kernel(b, m).at = m
  BY DEF Wait, Copy, Kernel

LEMMA UpcomingNumbers ==
  ASSUME TypeOK, NEW s \in Streams
  PROVE  Upcoming(s) \in Numbers /\ Upcoming(s) # 0
  BY DEF TypeOK, Upcoming, Numbers

LEMMA RecordsForwardIs ==
  ASSUME TypeOK, NEW n \in Nat
  PROVE  LET c == RecordsForward(n)
         IN /\ c \in Seq(ComputeOps) /\ Fresh("compute", c)
            /\ Record(Upcoming("compute")) \in Range(c)
            /\ \A k \in DOMAIN c : c[k].kind # "kernel"
            /\ n # 0 => \E k \in DOMAIN c : c[k] = Wait("h2d", n)
  <1>. DEFINE r == Record(Upcoming("compute"))
              c == RecordsForward(n)
  <1>1. r \in ComputeOps /\ r.kind = "record"
    BY Ops, UpcomingNumbers, RecordFields DEF Streams
  <1>2. CASE n = 0
    <2>1. c = <<r>>
      BY <1>1, <1>2, ConcatEmptySeq DEF RecordsForward, WaitEvent
    <2>. HIDE DEF c, r
    <2>2. c \in Seq(ComputeOps) /\ DOMAIN c = 1 .. 1 /\ c[1] = r
      BY <2>1, <1>1
    <2>. QED  BY <2>2, <1>1, <1>2 DEF Fresh, Range, r, c
  <1>3. CASE n # 0
    <2>. DEFINE w == Wait("h2d", n)
    <2>1. w \in ComputeOps /\ w.kind = "wait"
      BY <1>3, Ops, OpFields DEF Numbers
    <2>2. c = <<r>> \o <<w>>
      BY <1>3 DEF RecordsForward, WaitEvent
    <2>. HIDE DEF c, r, w
    <2>3. c \in Seq(ComputeOps) /\ DOMAIN c = 1 .. 2 /\ c[1] = r /\ c[2] = w
      BY <2>1, <2>2, <1>1
    <2>4. \A k \in DOMAIN c : k = 1 \/ k = 2
      BY <2>3
    <2>. QED  BY <2>1, <2>3, <2>4, <1>1 DEF Fresh, Range, r, c, w
  <1>. QED  BY <1>2, <1>3

LEMMA CopiesAfterForwardIs ==
  ASSUME TypeOK, NEW b \in Blocks, NEW m \in Numbers
  PROVE  LET h == CopiesAfterForward(b, m)
         IN /\ h \in Seq(H2dOps) /\ DOMAIN h = 1 .. 3
            /\ h[1] = Wait("compute", Upcoming("compute"))
            /\ h[2] = Copy(b, m)
            /\ h[3] = Record(Upcoming("h2d"))
  <1>. DEFINE w == Wait("compute", Upcoming("compute"))
              r == Record(Upcoming("h2d"))
              o == Copy(b, m)
  <1>1. w \in H2dOps /\ r \in H2dOps /\ o \in H2dOps
    BY Ops, UpcomingNumbers DEF Streams
  <1>2. CopiesAfterForward(b, m) = <<w>> \o <<o, r>>
    BY UpcomingNumbers DEF CopiesAfterForward, WaitEvent, Streams
  <1>. HIDE DEF w, r, o
  <1>3. /\ <<w>> \in Seq(H2dOps) /\ Len(<<w>>) = 1 /\ <<w>>[1] = w
        /\ <<o, r>> \in Seq(H2dOps) /\ Len(<<o, r>>) = 2 /\ <<o, r>>[1] = o /\ <<o, r>>[2] = r
    BY <1>1
  <1>. DEFINE h == <<w>> \o <<o, r>>
  <1>4. /\ h \in Seq(H2dOps) /\ Len(h) = 3
        /\ \A i \in 1 .. 3 : h[i] = IF i <= 1 THEN <<w>>[i] ELSE <<o, r>>[i - 1]
    <2>1. /\ h \in Seq(H2dOps) /\ Len(h) = Len(<<w>>) + Len(<<o, r>>)
          /\ \A i \in 1 .. Len(<<w>>) + Len(<<o, r>>) :
               h[i] = IF i <= Len(<<w>>) THEN <<w>>[i] ELSE <<o, r>>[i - Len(<<w>>)]
      BY <1>3, ConcatProperties
    <2>. QED  BY <2>1, <1>3
  <1>. HIDE DEF h
  <1>5. h[1] = w /\ h[2] = o /\ h[3] = r /\ DOMAIN h = 1 .. 3
    BY <1>3, <1>4, LenProperties
  <1>. QED  BY <1>2, <1>4, <1>5 DEF w, r, o, h

LEMMA LoadIsOrderly ==
  ASSUME TypeOK, NEW n \in Nat, NEW b \in Blocks, b >= reserved, NEW m \in Numbers
  PROVE  Orderly(RecordsForward(n), CopiesAfterForward(b, m), <<>>)
  <1>. DEFINE h == CopiesAfterForward(b, m)
              c == RecordsForward(n)
  <1>1. /\ Fresh("compute", c) /\ Record(Upcoming("compute")) \in Range(c)
    BY RecordsForwardIs
  <1>2. /\ DOMAIN h = 1 .. 3
        /\ h[1] = Wait("compute", Upcoming("compute"))
        /\ h[2] = Copy(b, m)
        /\ h[3] = Record(Upcoming("h2d"))
    BY CopiesAfterForwardIs
  <1>. HIDE DEF h, c
  <1>3. \A k \in DOMAIN h : k = 1 \/ k = 2 \/ k = 3
    BY <1>2
  <1>4. /\ h[1].kind = "wait" /\ h[1].number = Upcoming("compute") /\ h[1].stream = "compute"
        /\ h[2].kind = "copy" /\ h[2].block = b /\ h[3].kind = "record"
    BY <1>2, OpFields, RecordFields
  <1>5. Fresh("h2d", h)
    BY <1>2, <1>3, <1>4 DEF Fresh
  <1>6. Fresh("d2h", <<>>)
    BY DEF Fresh
  <1>7. ASSUME NEW k \in DOMAIN h
        PROVE  /\ h[k].kind \in {"record", "wait", "copy"}
               /\ h[k].kind = "wait" => /\ h[k].number = Upcoming("compute") /\ h[k].stream = "compute"
                                        /\ Record(Upcoming("compute")) \in Range(c)
               /\ h[k].kind = "copy" => h[k].block >= reserved
               /\ h[k].kind = "copy" => \E j \in DOMAIN h : j < k /\ h[j].kind = "wait"
    <2>1. 1 \in DOMAIN h /\ 1 < 2
      BY <1>2
    <2>. QED  BY <2>1, <1>1, <1>3, <1>4
  <1>. QED  BY <1>1, <1>5, <1>6, <1>7 DEF Orderly, h, c

(* Entries that copy nothing. *)
LEMMA PlainIsOrderly ==
  ASSUME NEW c, NEW h, NEW d, Fresh("compute", c), Fresh("h2d", h), Fresh("d2h", d),
         \A k \in DOMAIN h : /\ h[k].kind = "wait"
                             /\ h[k].number = Upcoming("compute") /\ h[k].stream = "compute"
                             /\ Record(Upcoming("compute")) \in Range(c)
  PROVE  Orderly(c, h, d)
  BY DEF Orderly

-----------------------------------------------------------------------------
(* The allocator. *)
LEMMA Granted ==
  ASSUME TypeOK, NEW m \in Nat, Grant(m)
  PROVE  /\ m \in Numbers /\ Memory' = Memory \cup {m}
         /\ content' \in Seq(Blocks \cup {Nobody})
         /\ \A k \in Memory : content'[k] = content[k]
         /\ m \in free \/ (m \notin Memory /\ free = {} /\ m = Cardinality(Memory) + 1)
         /\ \A b \in Blocks : storage[b] # m
         /\ Memory \subseteq Numbers /\ IsFiniteSet(Memory)
  <1>1. content \in Seq(Blocks \cup {Nobody}) /\ free \subseteq Memory
    BY DEF TypeOK
  <1>2. Len(content) \in Nat /\ Memory = 1 .. Len(content)
    BY <1>1, LenProperties DEF Memory
  <1>3. IsFiniteSet(Memory) /\ Cardinality(Memory) = Len(content)
    <2>1. \A n \in Nat : IsFiniteSet(1 .. n) /\ Cardinality(1 .. n) = n
      BY FS_Interval
    <2>. QED  BY <2>1, <1>2
  <1>4. CASE free = {}
    <2>1. m = Len(content) + 1 /\ content' = Append(content, Nobody)
      BY <1>2, <1>3, <1>4 DEF Grant
    <2>2. /\ content' \in Seq(Blocks \cup {Nobody}) /\ Len(content') = Len(content) + 1
          /\ \A k \in 1 .. Len(content) : content'[k] = content[k]
      BY <1>1, <1>2, <2>1, AppendProperties
    <2>3. Memory' = 1 .. Len(content) + 1
      BY <2>2, LenProperties DEF Memory
    <2>4. \A b \in Blocks : storage[b] \in Memory \cup {0}
      BY DEF TypeOK
    <2>. QED  BY <1>2, <1>3, <1>4, <2>1, <2>2, <2>3, <2>4 DEF Numbers
  <1>5. CASE free # {}
    <2>1. m \in free /\ m \in Memory /\ content' = content
      BY <1>1, <1>5 DEF Grant
    <2>2. \A b \in Blocks : storage[b] # m
      <3>1. SUFFICES ASSUME NEW b \in Blocks, storage[b] = m PROVE FALSE
        OBVIOUS
      <3>2. m # 0
        BY <2>1, <1>2
      <3>. QED  BY <3>1, <3>2, <2>1 DEF TypeOK
    <2>. QED  BY <1>1, <1>2, <1>3, <2>1, <2>2 DEF Numbers, Memory
  <1>. QED  BY <1>4, <1>5

LEMMA Resized ==
  ASSUME TypeOK, NEW m \in Nat, NEW b \in Blocks, Resize(b, m)
  PROVE  /\ storage' \in [Blocks -> Memory' \cup {0}] /\ free' \subseteq Memory'
         /\ \A e, f \in Blocks : storage'[e] # 0 =>
              storage'[e] \notin free' /\ (e # f => storage'[f] # storage'[e])
         /\ \A e \in Blocks : storage'[e] = IF e = b THEN m ELSE storage[e]
         /\ (\A k \in Memory : k \in free \/ \E e \in Blocks : storage[e] = k)
              => \A k \in Memory' : k \in free' \/ \E e \in Blocks : storage'[e] = k
  <1>1. Grant(m) /\ storage' = [storage EXCEPT ![b] = m] /\ free' = (free \ {m}) \cup ({storage[b]} \ {0})
    BY DEF Resize
  <1>2. /\ m \in Numbers /\ Memory' = Memory \cup {m} /\ \A e \in Blocks : storage[e] # m
    BY <1>1, Granted
  <1>3. /\ storage \in [Blocks -> Memory \cup {0}] /\ free \subseteq Memory
        /\ \A e, f \in Blocks : storage[e] # 0 => storage[e] \notin free /\ (e # f => storage[f] # storage[e])
    BY DEF TypeOK
  <1>4. \A e \in Blocks : storage'[e] = IF e = b THEN m ELSE storage[e]
    BY <1>1, <1>3
  <1>5. storage' \in [Blocks -> Memory' \cup {0}] /\ free' \subseteq Memory'
    BY <1>1, <1>2, <1>3 DEF Numbers
  <1>6. ASSUME NEW e \in Blocks, storage'[e] # 0
        PROVE  storage'[e] \notin free'
    <2>1. CASE e = b
      <3>1. storage'[e] = m /\ storage[b] # m
        BY <2>1, <1>2, <1>4
      <3>. QED  BY <3>1, <1>1
    <2>2. CASE e # b
      <3>1. storage'[e] = storage[e] /\ storage[e] # 0
        BY <2>2, <1>4, <1>6
      <3>2. storage[e] \notin free /\ storage[b] # storage[e]
        BY <2>2, <3>1, <1>3
      <3>. QED  BY <3>1, <3>2, <1>1
    <2>. QED  BY <2>1, <2>2
  <1>7. ASSUME NEW e \in Blocks, NEW f \in Blocks, storage'[e] # 0, e # f
        PROVE  storage'[f] # storage'[e]
    BY <1>2, <1>3, <1>4, <1>7
  <1>8. ASSUME \A k \in Memory : k \in free \/ \E e \in Blocks : storage[e] = k,
               NEW k \in Memory', k \notin free'
        PROVE  \E e \in Blocks : storage'[e] = k
    <2>1. CASE k = m
      BY <2>1, <1>4
    <2>2. CASE k # m
      <3>1. k \in Memory /\ k \notin free
        BY <2>2, <1>1, <1>2, <1>8
      <3>2. PICK e \in Blocks : storage[e] = k
        BY <3>1, <1>8
      <3>3. k # 0
        BY <3>1, <1>1, Granted DEF Numbers
      <3>4. e # b
        BY <3>2, <3>3, <1>1, <1>8
      <3>. QED  BY <3>2, <3>4, <1>4
    <2>. QED  BY <2>1, <2>2
  <1>. QED  BY <1>4, <1>5, <1>6, <1>7, <1>8

-----------------------------------------------------------------------------
(* A pre-hook that loads the block to come into memory m, and waits for event n. *)
HookLoads(m, n) ==
  /\ phase = "pre" /\ LoadsBlock /\ m \in Nat /\ n \in Nat
  /\ Resize(ToDevice, m)
  /\ event' = [event EXCEPT ![ToDevice] = Upcoming("h2d")] /\ n = event'[block]
  /\ Enqueue(RecordsForward(n), CopiesAfterForward(ToDevice, m), <<>>)
  /\ loaded' = loaded \cup {ToDevice}
  /\ phase' = "forward"
  /\ UNCHANGED <<reserved, pinned, reached, block, passes, raises, skipped>>

LEMMA HookCases ==
  ASSUME TypeOK, ParameterToDeviceHook
  PROVE  \/ \E m, n : HookLoads(m, n)
         \/ /\ phase = "pre" /\ ~ LoadsBlock /\ phase' = "forward"
            /\ Enqueue(RecordsForward(event[block]), <<>>, <<>>)
            /\ UNCHANGED <<reserved, storage, free, content, event, loaded, pinned, reached,
                           block, passes, raises, skipped>>
  <1>1. CASE LoadsBlock
    <2>1. PICK m \in 1 .. Cardinality(Memory) + 1 :
            /\ Resize(ToDevice, m)
            /\ event' = [event EXCEPT ![ToDevice] = Upcoming("h2d")]
            /\ Enqueue(RecordsForward(event'[block]), CopiesAfterForward(ToDevice, m), <<>>)
      BY <1>1 DEF ParameterToDeviceHook
    <2>2. event'[block] \in Nat
      <3>1. /\ event \in [Blocks -> 0 .. recorded["h2d"]] /\ block \in Blocks
            /\ recorded["h2d"] \in Nat
        BY DEF TypeOK, Streams
      <3>2. event[block] \in Nat /\ Upcoming("h2d") \in Nat
        BY <3>1 DEF Upcoming
      <3>. QED  BY <3>1, <3>2, <2>1
    <2>3. /\ phase = "pre" /\ phase' = "forward" /\ loaded' = loaded \cup {ToDevice}
          /\ UNCHANGED <<reserved, pinned, reached, block, passes, raises, skipped>>
      BY <1>1 DEF ParameterToDeviceHook
    <2>4. m \in Nat
      BY <2>1
    <2>5. HookLoads(m, event'[block])
      BY <1>1, <2>1, <2>2, <2>3, <2>4 DEF HookLoads
    <2>. QED  BY <2>5
  <1>2. CASE ~ LoadsBlock
    BY <1>2 DEF ParameterToDeviceHook, memory
  <1>. QED  BY <1>1, <1>2

LEMMA HookFacts ==
  ASSUME TypeOK, QueueTyped, NEW m, NEW n, HookLoads(m, n)
  PROVE  /\ ToDevice \in Blocks /\ ToDevice >= reserved /\ ToDevice = block + reserved
         /\ reserved \in Nat /\ block \in Nat
         /\ m \in Numbers /\ Grant(m)
         /\ RecordsForward(n) \in Seq(ComputeOps)
         /\ CopiesAfterForward(ToDevice, m) \in Seq(H2dOps) /\ <<>> \in Seq(Records)
         /\ Orderly(RecordsForward(n), CopiesAfterForward(ToDevice, m), <<>>)
         /\ recorded'["h2d"] = Upcoming("h2d") /\ Upcoming("h2d") \in Numbers
         /\ event'[ToDevice] = Upcoming("h2d")
         /\ \A b \in Blocks : b # ToDevice => event'[b] = event[b]
  <1>1. /\ ToDevice \in Blocks /\ ToDevice >= reserved /\ ToDevice = block + reserved
        /\ reserved \in Nat /\ block \in Nat
    BY OffloadAssumption DEF HookLoads, LoadsBlock, ToDevice, TypeOK, Blocks
  <1>2. Grant(m) /\ m \in Nat
    BY DEF HookLoads, Resize
  <1>3. m \in Numbers
    BY <1>2, Granted
  <1>4. RecordsForward(n) \in Seq(ComputeOps)
    BY RecordsForwardIs DEF HookLoads
  <1>5. /\ CopiesAfterForward(ToDevice, m) \in Seq(H2dOps)
        /\ DOMAIN CopiesAfterForward(ToDevice, m) = 1 .. 3
        /\ CopiesAfterForward(ToDevice, m)[3] = Record(Upcoming("h2d"))
    BY <1>1, <1>3, CopiesAfterForwardIs
  <1>6. Orderly(RecordsForward(n), CopiesAfterForward(ToDevice, m), <<>>)
    BY <1>1, <1>3, LoadIsOrderly DEF HookLoads
  <1>7. <<>> \in Seq(Records)
    OBVIOUS
  <1>8. recorded'["h2d"] = Upcoming("h2d")
    <2>1. Record(Upcoming("h2d")) \in Range(CopiesAfterForward(ToDevice, m))
      <3>1. 3 \in 1 .. 3
        OBVIOUS
      <3>. QED  BY <3>1, <1>5 DEF Range
    <2>2. Enqueue(RecordsForward(n), CopiesAfterForward(ToDevice, m), <<>>)
      BY DEF HookLoads
    <2>. QED  BY <2>1, <2>2, <1>4, <1>5, <1>7, Enqueues
  <1>9. event \in [Blocks -> 0 .. recorded["h2d"]] /\ Upcoming("h2d") \in Numbers
    BY UpcomingNumbers DEF TypeOK, Streams
  <1>10. /\ event'[ToDevice] = Upcoming("h2d")
         /\ \A b \in Blocks : b # ToDevice => event'[b] = event[b]
    BY <1>1, <1>9 DEF HookLoads
  <1>. QED  BY <1>1, <1>2, <1>3, <1>4, <1>5, <1>6, <1>7, <1>8, <1>9, <1>10

LEMMA HookTyped ==
  ASSUME TypeOK, QueueTyped, NEW m, NEW n, HookLoads(m, n)
  PROVE  TypeOK'
  <1>1. /\ ToDevice \in Blocks /\ recorded'["h2d"] = Upcoming("h2d")
    BY HookFacts
  <1>2. recorded' \in [Streams -> Nat]
    BY HookFacts, Enqueues DEF HookLoads
  <1>3. content' \in Seq(Blocks \cup {Nobody})
    BY HookFacts, Granted DEF HookLoads
  <1>4. /\ storage' \in [Blocks -> Memory' \cup {0}] /\ free' \subseteq Memory'
        /\ \A b, e \in Blocks : storage'[b] # 0 =>
             storage'[b] \notin free' /\ (b # e => storage'[e] # storage'[b])
    BY <1>1, Resized DEF HookLoads
  <1>5. event' \in [Blocks -> 0 .. recorded'["h2d"]]
    <2>1. event \in [Blocks -> 0 .. recorded["h2d"]] /\ recorded["h2d"] \in Nat
      BY DEF TypeOK, Streams
    <2>2. event' = [event EXCEPT ![ToDevice] = Upcoming("h2d")]
      BY DEF HookLoads
    <2>3. \A k \in 0 .. recorded["h2d"] : k \in 0 .. Upcoming("h2d")
      BY <2>1 DEF Upcoming
    <2>4. Upcoming("h2d") \in 0 .. Upcoming("h2d")
      BY <2>1 DEF Upcoming
    <2>. QED  BY <1>1, <2>1, <2>2, <2>3, <2>4
  <1>6. /\ reserved' = reserved /\ pinned' = pinned /\ reached' = reached /\ block' = block
        /\ passes' = passes /\ raises' = raises /\ skipped' = skipped
        /\ phase' = "forward" /\ loaded' = loaded \cup {ToDevice}
    BY DEF HookLoads
  <1>. QED  BY <1>1, <1>2, <1>3, <1>4, <1>5, <1>6 DEF TypeOK, Nobody

(* The block that is loaded will be complete by its event, and no other changes. *)
LEMMA HookFills ==
  ASSUME IInv, NEW m, NEW n, HookLoads(m, n)
  PROVE  StorageFilled'
  <1>. USE DEF Streams
  <1>. DEFINE H == queue["h2d"]
              h == CopiesAfterForward(ToDevice, m)
              L == Len(H)
  <1>1. TypeOK /\ QueueTyped
    BY DEF IInv
  <1>2. /\ ToDevice \in Blocks /\ m \in Numbers /\ Grant(m) /\ event'[ToDevice] = Upcoming("h2d")
        /\ \A b \in Blocks : b # ToDevice => event'[b] = event[b]
        /\ Upcoming("h2d") # 0
    BY <1>1, HookFacts DEF Numbers
  <1>3. /\ \A b \in Blocks : storage'[b] = IF b = ToDevice THEN m ELSE storage[b]
        /\ \A b \in Blocks : storage[b] # m
        /\ \A k \in Memory : content'[k] = content[k]
    BY <1>1, <1>2, Granted, Resized DEF HookLoads, Numbers
  <1>4. /\ Enqueue(RecordsForward(n), h, <<>>) /\ RecordsForward(n) \in Seq(ComputeOps)
        /\ h \in Seq(H2dOps) /\ <<>> \in Seq(Records)
    BY <1>1, HookFacts DEF HookLoads
  <1>5. /\ DOMAIN h = 1 .. 3
        /\ h[1] = Wait("compute", Upcoming("compute")) /\ h[2] = Copy(ToDevice, m)
        /\ h[3] = Record(Upcoming("h2d"))
    BY <1>1, <1>2, CopiesAfterForwardIs
  <1>. HIDE DEF h
  <1>6. \A k \in DOMAIN h : h[k].kind \in {"load", "copy"} => h[k].at = m
    <2>1. \A k \in DOMAIN h : k = 1 \/ k = 2 \/ k = 3
      BY <1>5
    <2>. QED  BY <2>1, <1>5, OpFields, RecordFields
  <1>7. SUFFICES ASSUME Undisturbed', NEW b \in Blocks, Trusted(b)'
                 PROVE  Filled(b)'
    BY DEF StorageFilled
  <1>8. CASE b = ToDevice
    <2>1. Appended(H, H', h)
      BY <1>1, <1>4, Enqueues
    <2>2. PICK w \in DOMAIN H' : w = L + 2 /\ H'[w] = h[2]
      BY <2>1, <1>5 DEF Appended
    <2>3. PICK r \in DOMAIN H' : r = L + 3 /\ H'[r] = h[3]
      BY <2>1, <1>5 DEF Appended
    <2>4. \A p \in DOMAIN H' : p \in Nat /\ (p <= L \/ p = L + 1 \/ p = w \/ p = r) /\ L \in Nat
      <3>1. ASSUME NEW p \in DOMAIN H', p \notin DOMAIN H
            PROVE  p \in Nat /\ L \in Nat /\ p > L /\ p - L \in 1 .. 3
        BY <3>1, <2>1, <1>5 DEF Appended
      <3>. QED  BY <3>1, <2>1, <2>2, <2>3 DEF Appended
    <2>5. H'[r].kind = "record" /\ H'[r].number = Upcoming("h2d")
      BY <2>3, <1>5, RecordFields
    <2>6. H'[w].kind = "copy" /\ H'[w].at = m /\ H'[w].block = b
      BY <2>2, <1>5, <1>8, OpFields
    <2>7. storage'[b] = m
      BY <1>3, <1>8
    <2>8. w \in Writes(storage[b])'
      BY <2>2, <2>6, <2>7 DEF Writes
    <2>9. ASSUME NEW p \in Writes(storage[b])'
          PROVE  /\ p = w \/ p < w
                 /\ p < r /\ IsRecord("h2d", r, Complete(b))'
      <3>1. p \in DOMAIN H' /\ H'[p].kind \in {"load", "copy"}
        BY DEF Writes
      <3>2. p # r
        BY <3>1, <2>5
      <3>3. p \in Nat /\ p <= w /\ p < r
        BY <3>1, <3>2, <2>2, <2>3, <2>4
      <3>4. Complete(b)' = Upcoming("h2d")
        BY <1>2, <1>8 DEF Complete
      <3>. QED  BY <3>3, <3>4, <2>2, <2>4, <2>5 DEF IsRecord
    <2>10. Fills(Writes(storage[b]), storage[b], b)'
      BY <2>6, <2>8, <2>9 DEF Fills
    <2>11. \A p \in Writes(storage[b])' :
             \E p2 \in DOMAIN H' : p < p2 /\ IsRecord("h2d", p2, Complete(b))'
      BY <2>3, <2>9
    <2>. QED  BY <2>10, <2>11 DEF Filled
  <1>9. CASE b # ToDevice
    <2>1. storage'[b] = storage[b] /\ event'[b] = event[b] /\ storage[b] # m
      BY <1>2, <1>3, <1>9
    <2>2. storage[b] \in Memory
      BY <2>1, <1>1, <1>7 DEF Trusted, TypeOK
    <2>3. Trusted(b) /\ Undisturbed
      BY <2>1, <1>7, <1>9 DEF Trusted, Undisturbed, HookLoads
    <2>4. Filled(b)
      BY <2>3 DEF IInv, StorageFilled
    <2>. QED  BY <2>1, <2>2, <2>4, <1>1, <1>3, <1>4, <1>6, EnqueuesFilled
  <1>. QED  BY <1>8, <1>9

-----------------------------------------------------------------------------
(* What every action of the host keeps, whatever it queues. *)
Appends(c, h, d) ==
  /\ c \in Seq(ComputeOps) /\ h \in Seq(H2dOps) /\ d \in Seq(Records)
  /\ Enqueue(c, h, d) /\ Orderly(c, h, d)
  /\ \A k \in DOMAIN h : h[k].kind = "copy" => h[k].at \in Memory'
  /\ \A k \in DOMAIN c : c[k].kind = "kernel" => c[k].at \in Memory'
  /\ Memory \subseteq Memory' /\ \A m \in Memory : content'[m] = content[m]
  /\ UNCHANGED <<reserved, pinned, reached>>
  /\ Undisturbed' => Undisturbed

LEMMA HostKeeps ==
  ASSUME IInv, NEW c, NEW h, NEW d, Appends(c, h, d)
  PROVE  /\ QueueTyped' /\ Numbered' /\ Addressed' /\ SavedFirst'
         /\ \A p \in DOMAIN queue'["h2d"] :
              IsRecord("h2d", p, 1)' => queue'["compute"] # <<>> /\ IsWait("compute", 1, "h2d", 1)'
         /\ phase' # "forward" => Awaited'
         /\ Undisturbed' => \A i \in DOMAIN queue["compute"] :
              queue["compute"][i].kind = "kernel" => KernelRight(i)'
         /\ (\A k \in DOMAIN c : c[k].kind # "kernel") => KernelsRight'
  <1>. USE DEF Streams
  <1>1. /\ TypeOK /\ QueueTyped /\ Numbered /\ Addressed /\ SavedFirst /\ Awaited
        /\ KernelsRight
    BY DEF IInv
  <1>2. /\ c \in Seq(ComputeOps) /\ h \in Seq(H2dOps) /\ d \in Seq(Records)
        /\ Enqueue(c, h, d) /\ Orderly(c, h, d)
        /\ \A k \in DOMAIN h : h[k].kind = "copy" => h[k].at \in Memory'
        /\ \A k \in DOMAIN c : c[k].kind = "kernel" => c[k].at \in Memory'
        /\ Memory \subseteq Memory' /\ \A m \in Memory : content'[m] = content[m]
        /\ reserved' = reserved /\ pinned' = pinned /\ reached' = reached
        /\ Undisturbed' => Undisturbed
    BY DEF Appends
  <1>3. QueueTyped' /\ Appended(queue["compute"], queue'["compute"], c)
    BY <1>1, <1>2, Enqueues
  <1>4. Numbered'
    BY <1>1, <1>2, EnqueuesNumbered
  <1>5. /\ Addressed'
        /\ \A p \in DOMAIN queue'["h2d"] :
             IsRecord("h2d", p, 1)' => queue'["compute"] # <<>> /\ IsWait("compute", 1, "h2d", 1)'
    BY <1>1, <1>2, EnqueuesBehind
  <1>6. SavedFirst'
    BY <1>1, <1>2, EnqueuesSaves
  <1>7. phase' # "forward" => Awaited'
    BY <1>5 DEF Awaited
  <1>8. ASSUME Undisturbed', NEW i \in DOMAIN queue["compute"], queue["compute"][i].kind = "kernel"
        PROVE  KernelRight(i)'
    BY <1>1, <1>2, <1>8, EnqueuesKernels
  <1>9. ASSUME \A k \in DOMAIN c : c[k].kind # "kernel"
        PROVE  KernelsRight'
    <2>1. \A i \in DOMAIN queue'["compute"] :
            queue'["compute"][i].kind = "kernel"
              => i \in DOMAIN queue["compute"] /\ queue["compute"][i].kind = "kernel"
      BY <1>3, <1>9 DEF Appended
    <2>. QED  BY <2>1, <1>8 DEF KernelsRight
  <1>. QED  BY <1>3, <1>4, <1>5, <1>6, <1>7, <1>8, <1>9

(* An action that queues nothing adds nothing. *)
LEMMA Idles ==
  ASSUME TypeOK, QueueTyped, UNCHANGED <<queue, recorded>>
  PROVE  /\ Enqueue(<<>>, <<>>, <<>>) /\ Orderly(<<>>, <<>>, <<>>)
         /\ <<>> \in Seq(ComputeOps) /\ <<>> \in Seq(H2dOps) /\ <<>> \in Seq(Records)
         /\ DOMAIN <<>> = {}
  <1>. USE DEF Streams
  <1>. DEFINE more == [compute |-> <<>>, h2d |-> <<>>, d2h |-> <<>>]
  <1>1. DOMAIN <<>> = {}
    OBVIOUS
  <1>2. \A s \in Streams : more[s] = <<>>
    OBVIOUS
  <1>3. \A s \in Streams : queue[s] \o <<>> = queue[s]
    BY Entries, ConcatEmptySeq
  <1>4. queue = [s \in Streams |-> queue[s]] /\ recorded = [s \in Streams |-> recorded[s]]
    BY DEF TypeOK, QueueTyped
  <1>5. queue' = [s \in Streams |-> queue[s] \o more[s]]
    BY <1>2, <1>3, <1>4
  <1>6. \A s \in Streams : Record(Upcoming(s)) \notin Range(more[s])
    BY <1>1, <1>2 DEF Range
  <1>7. recorded' = [s \in Streams |->
          IF Record(Upcoming(s)) \in Range(more[s]) THEN Upcoming(s) ELSE recorded[s]]
    BY <1>4, <1>6
  <1>8. Enqueue(<<>>, <<>>, <<>>)
    BY <1>5, <1>7 DEF Enqueue
  <1>9. Orderly(<<>>, <<>>, <<>>)
    BY <1>1 DEF Orderly, Fresh
  <1>. QED  BY <1>1, <1>8, <1>9

(* What is not above either of two numbers is not above the smaller. *)
LEMMA BelowMin ==
  ASSUME NEW k \in Int, NEW x \in Int, NEW y \in Int, k <= x, k <= y
  PROVE  k <= Min({x, y})
  <1>1. CASE x <= y
    <2>1. x \in {x, y} /\ \A z \in {x, y} : x <= z
      BY <1>1
    <2>2. Min({x, y}) \in {x, y}
      BY <2>1 DEF Min
    <2>. QED  BY <2>2
  <1>2. CASE y <= x
    <2>1. y \in {x, y} /\ \A z \in {x, y} : y <= z
      BY <1>2
    <2>2. Min({x, y}) \in {x, y}
      BY <2>1 DEF Min
    <2>. QED  BY <2>2
  <1>. QED  BY <1>1, <1>2

LEMMA InUse ==
  ASSUME TypeOK, LoadedAhead, Accounted, raises = 0, ~skipped, free = {},
         phase = "pre", LoadsBlock
  PROVE  /\ IsFiniteSet(Memory)
         /\ Cardinality(Memory) + 1 <= 2 * reserved + 1
         /\ Cardinality(Memory) + 1 <= NumBlocks
  <1>. DEFINE U == {b \in Blocks : storage[b] # 0}
              R == 0 .. reserved - 1
              A == block .. block + reserved - 1
              f == [b \in U |-> storage[b]]
  <1>1. /\ reserved \in Nat /\ block \in Nat /\ NumBlocks \in Nat
        /\ block + reserved \in Blocks /\ ToDevice = block + reserved
    BY OffloadAssumption DEF TypeOK, Blocks, ToDevice, LoadsBlock
  <1>2. ASSUME NEW b \in U
        PROVE  b \in R \/ b \in A
    <2>1. b \in Nat /\ storage[b] # 0
      BY <1>1 DEF Blocks
    <2>2. b < reserved \/ (b \in loaded /\ b >= block)
      BY <2>1 DEF Accounted
    <2>3. b \in loaded => b < block + reserved
      BY <1>1 DEF LoadedAhead, InPass
    <2>. QED  BY <1>1, <2>1, <2>2, <2>3
  <1>3. \A x, y \in Int : IsFiniteSet(x .. y) /\ Cardinality(x .. y) = IF x > y THEN 0 ELSE y - x + 1
    BY FS_Interval
  <1>4. /\ IsFiniteSet(R) /\ Cardinality(R) = reserved
        /\ IsFiniteSet(A) /\ Cardinality(A) = reserved
        /\ IsFiniteSet(Blocks) /\ Cardinality(Blocks) = NumBlocks
    <2>1. IsFiniteSet(R) /\ Cardinality(R) = IF 0 > reserved - 1 THEN 0 ELSE reserved - 1 - 0 + 1
      BY <1>1, <1>3
    <2>2. /\ IsFiniteSet(A)
          /\ Cardinality(A) = IF block > block + reserved - 1 THEN 0
                              ELSE block + reserved - 1 - block + 1
      BY <1>1, <1>3
    <2>3. /\ IsFiniteSet(Blocks)
          /\ Cardinality(Blocks) = IF 0 > NumBlocks - 1 THEN 0 ELSE NumBlocks - 1 - 0 + 1
      BY <1>1, <1>3 DEF Blocks
    <2>. QED  BY <1>1, <2>1, <2>2, <2>3, OffloadAssumption
  <1>5. /\ IsFiniteSet(R \cup A) /\ Cardinality(R \cup A) <= 2 * reserved
    <2>1. /\ IsFiniteSet(R \cup A) /\ IsFiniteSet(R \cap A)
          /\ Cardinality(R \cup A) = Cardinality(R) + Cardinality(A) - Cardinality(R \cap A)
      BY <1>4, FS_Union, FS_Intersection
    <2>2. Cardinality(R \cap A) \in Nat
      BY <2>1, FS_CardinalityType
    <2>. QED  BY <2>1, <2>2, <1>1, <1>4
  <1>6. /\ IsFiniteSet(U) /\ Cardinality(U) \in Nat /\ Cardinality(U) <= 2 * reserved
    <2>1. U \subseteq R \cup A
      BY <1>2
    <2>2. IsFiniteSet(U) /\ Cardinality(U) <= Cardinality(R \cup A)
      BY <2>1, <1>5, FS_Subset
    <2>3. Cardinality(U) \in Nat /\ Cardinality(R \cup A) \in Nat
      BY <2>2, <1>5, FS_CardinalityType
    <2>. QED  BY <2>2, <2>3, <1>1, <1>5
  <1>7. Cardinality(U) <= NumBlocks - 1
    <2>1. U \subseteq Blocks \ {block + reserved}
      <3>1. \A b \in U : b # block + reserved
        BY <1>1, <1>2
      <3>. QED  BY <3>1
    <2>2. /\ IsFiniteSet(Blocks \ {block + reserved})
          /\ Cardinality(Blocks \ {block + reserved}) = NumBlocks - 1
      BY <1>1, <1>4, FS_RemoveElement
    <2>. QED  BY <2>1, <2>2, FS_Subset
  <1>8. IsFiniteSet(Memory) /\ Cardinality(Memory) <= Cardinality(U)
    <2>1. ASSUME NEW m \in Memory
          PROVE  \E b \in U : f[b] = m
      <3>1. PICK b \in Blocks : storage[b] = m
        BY DEF Accounted
      <3>2. Memory \subseteq Nat \ {0}
        BY LenProperties DEF TypeOK, Memory
      <3>3. b \in U
        BY <3>1, <3>2
      <3>. QED  BY <3>1, <3>3
    <2>2. f \in [U -> Memory]
      BY DEF TypeOK
    <2>3. f \in Surjection(U, Memory)
      BY <2>1, <2>2 DEF Surjection
    <2>. QED  BY <2>3, <1>6, FS_Surjection
  <1>9. Cardinality(Memory) \in Nat
    BY <1>8, FS_CardinalityType
  <1>. QED  BY <1>1, <1>6, <1>7, <1>8, <1>9

(* With nothing given back every piece of memory belongs to a block. *)
LEMMA AllInUse ==
  ASSUME TypeOK, Accounted, free = {}
  PROVE  IsFiniteSet(Memory) /\ Cardinality(Memory) <= NumBlocks
  <1>. DEFINE U == {b \in Blocks : storage[b] # 0}
              f == [b \in U |-> storage[b]]
  <1>1. NumBlocks \in Nat \ {0} /\ 0 \in Int /\ NumBlocks - 1 \in Int /\ ~ 0 > NumBlocks - 1
    BY OffloadAssumption
  <1>2. IsFiniteSet(Blocks) /\ Cardinality(Blocks) = NumBlocks
    <2>1. IsFiniteSet(Blocks) /\ Cardinality(Blocks) = NumBlocks - 1 - 0 + 1
      BY <1>1, FS_Interval DEF Blocks
    <2>. QED  BY <2>1, <1>1
  <1>3. IsFiniteSet(U) /\ Cardinality(U) <= NumBlocks /\ Cardinality(U) \in Nat
    BY <1>2, FS_Subset, FS_CardinalityType
  <1>4. \A m \in Memory : \E b \in U : f[b] = m
    <2>1. Memory \subseteq Nat \ {0}
      BY LenProperties DEF TypeOK, Memory
    <2>. QED  BY <2>1 DEF Accounted
  <1>5. f \in Surjection(U, Memory)
    <2>1. f \in [U -> Memory]
      BY DEF TypeOK
    <2>. QED  BY <2>1, <1>4 DEF Surjection
  <1>6. IsFiniteSet(Memory) /\ Cardinality(Memory) <= Cardinality(U)
    BY <1>3, <1>5, FS_Surjection
  <1>7. Cardinality(Memory) \in Nat
    BY <1>6, FS_CardinalityType
  <1>. QED  BY <1>1, <1>3, <1>6, <1>7

LEMMA ResizeBounded ==
  ASSUME IInv, NEW m \in Nat, phase = "pre", LoadsBlock, Resize(ToDevice, m),
         UNCHANGED <<reserved, skipped>>, raises' >= raises
  PROVE  MemoryBounded'
  <1>1. /\ TypeOK /\ LoadedAhead /\ Accounted /\ MemoryBounded /\ raises \in Nat
        /\ reserved \in Nat /\ NumBlocks \in Nat
    BY OffloadAssumption DEF IInv, TypeOK, Blocks
  <1>2. /\ Memory' = Memory \cup {m} /\ IsFiniteSet(Memory)
        /\ m \in free \/ (m \notin Memory /\ free = {})
    BY <1>1, Granted DEF Resize
  <1>3. m \in free => Memory' = Memory
    BY <1>1, <1>2 DEF TypeOK
  <1>4. m \notin Memory
          => Cardinality(Memory') = Cardinality(Memory) + 1 /\ Cardinality(Memory) \in Nat
    BY <1>2, FS_AddElement, FS_CardinalityType
  <1>5. Cardinality(Memory') <= NumBlocks + 1
    <2>1. CASE m \in free
      BY <2>1, <1>1, <1>3 DEF MemoryBounded
    <2>2. CASE m \notin Memory /\ free = {}
      <3>1. Cardinality(Memory) <= NumBlocks
        BY <2>2, <1>1, AllInUse
      <3>. QED  BY <2>2, <3>1, <1>1, <1>4
    <2>. QED  BY <2>1, <2>2, <1>2
  <1>6. ASSUME raises' = 0, ~skipped
        PROVE  Cardinality(Memory') <= Min({2 * reserved + 1, NumBlocks})
    <2>1. raises = 0
      BY <1>1, <1>6
    <2>2. CASE m \in free
      BY <2>1, <2>2, <1>1, <1>3, <1>6 DEF MemoryBounded
    <2>3. CASE m \notin Memory /\ free = {}
      <3>1. /\ Cardinality(Memory) + 1 <= 2 * reserved + 1
            /\ Cardinality(Memory) + 1 <= NumBlocks
        BY <2>1, <2>3, <1>1, <1>6, InUse
      <3>. QED  BY <2>3, <3>1, <1>1, <1>4, BelowMin
    <2>. QED  BY <2>2, <2>3, <1>2
  <1>. QED  BY <1>5, <1>6 DEF MemoryBounded

-----------------------------------------------------------------------------
(* The pre-hook of a block keeps the invariant, whether it loads another block, has none
   to load or runs out of memory. *)
LEMMA HookAwaits ==
  ASSUME IInv, NEW n \in Nat, NEW h, Appends(RecordsForward(n), h, <<>>), event'[block'] = n
  PROVE  Awaited'
  <1>. USE DEF Streams
  <1>. DEFINE c == RecordsForward(n)
              Q == queue["compute"]
  <1>1. TypeOK /\ QueueTyped
    BY DEF IInv
  <1>2. Appended(Q, Q', c)
    BY <1>1, Enqueues DEF Appends
  <1>3. \A p \in DOMAIN queue'["h2d"] :
          IsRecord("h2d", p, 1)' => queue'["compute"] # <<>> /\ IsWait("compute", 1, "h2d", 1)'
    BY HostKeeps
  <1>4. ASSUME n # 0
        PROVE  \E i \in DOMAIN Q' : IsWait("compute", i, "h2d", n)'
    <2>1. PICK k \in DOMAIN c : c[k] = Wait("h2d", n)
      BY <1>1, <1>4, RecordsForwardIs
    <2>2. PICK i \in DOMAIN Q' : Q'[i] = c[k]
      BY <1>2 DEF Appended
    <2>. QED  BY <2>1, <2>2, OpFields DEF IsWait
  <1>5. ASSUME phase' = "forward", event'[block'] # 0
        PROVE  \A p \in DOMAIN queue'["h2d"] : IsRecord("h2d", p, event[block])' =>
                 \E i \in DOMAIN Q' : IsWait("compute", i, "h2d", event[block])'
    BY <1>4, <1>5 DEF IsWait
  <1>. QED  BY <1>3, <1>5 DEF Awaited

LEMMA HookLoadsKeeps ==
  ASSUME IInv, NEW m, NEW n, HookLoads(m, n)
  PROVE  IInv'
  <1>. DEFINE c == RecordsForward(n)
              h == CopiesAfterForward(ToDevice, m)
  <1>1. /\ TypeOK /\ QueueTyped /\ LoadedAhead /\ Accounted
    BY DEF IInv
  <1>2. /\ ToDevice \in Blocks /\ ToDevice >= reserved /\ ToDevice = block + reserved
        /\ reserved \in Nat /\ block \in Nat /\ m \in Numbers /\ Grant(m)
        /\ c \in Seq(ComputeOps) /\ h \in Seq(H2dOps) /\ <<>> \in Seq(Records)
        /\ Orderly(c, h, <<>>)
    BY <1>1, HookFacts
  <1>3. /\ Memory' = Memory \cup {m} /\ \A k \in Memory : content'[k] = content[k]
    BY <1>1, <1>2, Granted DEF Numbers
  <1>4. /\ phase = "pre" /\ phase' = "forward" /\ loaded' = loaded \cup {ToDevice}
        /\ reserved' = reserved /\ block' = block /\ raises' = raises /\ skipped' = skipped
        /\ pinned' = pinned /\ reached' = reached
        /\ n \in Nat /\ Enqueue(c, h, <<>>) /\ event'[block'] = n
        /\ Resize(ToDevice, m) /\ LoadsBlock
    BY DEF HookLoads
  <1>5. Appends(c, h, <<>>)
    <2>1. \A k \in DOMAIN c : c[k].kind # "kernel"
      BY <1>1, <1>4, RecordsForwardIs
    <2>2. \A k \in DOMAIN h : h[k].kind = "copy" => h[k].at = m
      <3>. HIDE DEF h
      <3>1. \A k \in DOMAIN h : k = 1 \/ k = 2 \/ k = 3
        BY <1>1, <1>2, CopiesAfterForwardIs DEF h
      <3>2. h[1].kind = "wait" /\ h[2] = Copy(ToDevice, m) /\ h[3].kind = "record"
        BY <1>1, <1>2, CopiesAfterForwardIs, OpFields, RecordFields DEF h
      <3>. QED  BY <3>1, <3>2, OpFields
    <2>3. Undisturbed' => Undisturbed
      BY <1>4 DEF Undisturbed
    <2>. QED  BY <1>2, <1>3, <1>4, <2>1, <2>2, <2>3 DEF Appends
  <1>6. /\ QueueTyped' /\ Numbered' /\ Addressed' /\ SavedFirst' /\ KernelsRight'
    <2>1. \A k \in DOMAIN c : c[k].kind # "kernel"
      BY <1>1, <1>4, RecordsForwardIs
    <2>. QED  BY <1>5, <2>1, HostKeeps
  <1>7. Awaited'
    BY <1>4, <1>5, HookAwaits
  <1>8. \A b \in Blocks : storage'[b] = IF b = ToDevice THEN m ELSE storage[b]
    BY <1>1, <1>2, <1>4, Resized DEF Numbers
  <1>9. LoadedAhead'
    <2>1. \A b \in Blocks : b < reserved => storage'[b] # 0
      BY <1>1, <1>2, <1>8 DEF LoadedAhead, Numbers
    <2>2. \A b \in loaded' : b >= reserved
      BY <1>1, <1>2, <1>4 DEF LoadedAhead
    <2>3. \A b \in loaded' : b >= block => storage'[b] # 0
      <3>1. loaded \subseteq Blocks
        BY <1>1 DEF TypeOK
      <3>. QED  BY <3>1, <1>1, <1>2, <1>4, <1>8 DEF LoadedAhead, InPass, Numbers
    <2>4. ASSUME ~skipped, NEW b \in Blocks
          PROVE  b \in loaded' <=> b >= reserved /\ b <= block + reserved
      <3>1. b \in loaded <=> b >= reserved /\ b < block + reserved
        BY <2>4, <1>1, <1>4 DEF LoadedAhead, InPass
      <3>2. b \in Nat
        BY <1>2, OffloadAssumption DEF Blocks
      <3>. QED  BY <3>1, <3>2, <1>2, <1>4
    <2>. QED  BY <2>1, <2>2, <2>3, <2>4, <1>4 DEF LoadedAhead, InPass
  <1>10. Accounted'
    <2>1. \A k \in Memory' : k \in free' \/ \E b \in Blocks : storage'[b] = k
      BY <1>1, <1>2, <1>4, Resized DEF Accounted, Numbers
    <2>2. ASSUME raises = 0, ~skipped, NEW b \in Blocks, storage'[b] # 0
          PROVE  b < reserved \/ (b \in loaded' /\ b >= block)
      BY <2>2, <1>1, <1>2, <1>4, <1>8 DEF Accounted
    <2>. QED  BY <2>1, <2>2, <1>4 DEF Accounted, InPass
  <1>11. MemoryBounded'
    <2>1. raises' >= raises /\ m \in Nat
      BY <1>1, <1>2, <1>4 DEF TypeOK, Numbers
    <2>. QED  BY <2>1, <1>4, ResizeBounded
  <1>. QED
    BY <1>1, <1>6, <1>7, <1>9, <1>10, <1>11, HookTyped, HookFills DEF IInv

(* The memory of the blocks that an action does not touch. *)
LEMMA StorageStays ==
  ASSUME IInv, NEW c, NEW h, NEW d, Appends(c, h, d),
         \A b \in Blocks : Undisturbed' /\ Trusted(b)' =>
           /\ Trusted(b) /\ storage'[b] = storage[b] /\ event'[b] = event[b]
           /\ \A k \in DOMAIN h : h[k].kind \in {"load", "copy"} => h[k].at # storage[b]
  PROVE  StorageFilled'
  <1>1. /\ TypeOK /\ QueueTyped /\ StorageFilled
        /\ c \in Seq(ComputeOps) /\ h \in Seq(H2dOps) /\ d \in Seq(Records)
        /\ Enqueue(c, h, d) /\ \A m \in Memory : content'[m] = content[m]
        /\ Undisturbed' => Undisturbed
    BY DEF IInv, Appends
  <1>2. ASSUME Undisturbed', NEW b \in Blocks, Trusted(b)'
        PROVE  Filled(b)'
    <2>1. /\ Trusted(b) /\ storage'[b] = storage[b] /\ event'[b] = event[b]
          /\ \A k \in DOMAIN h : h[k].kind \in {"load", "copy"} => h[k].at # storage[b]
      BY <1>2
    <2>2. storage[b] \in Memory
      BY <2>1, <1>1 DEF Trusted, TypeOK
    <2>3. Filled(b)
      BY <2>1, <1>1, <1>2 DEF StorageFilled
    <2>. QED  BY <2>1, <2>2, <2>3, <1>1, EnqueuesFilled
  <1>. QED  BY <1>2 DEF StorageFilled

(* A pre-hook that has nothing to load waits for the event of its own block only. *)
LEMMA HookPlainKeeps ==
  ASSUME IInv, phase = "pre", ~LoadsBlock, phase' = "forward",
         Enqueue(RecordsForward(event[block]), <<>>, <<>>),
         UNCHANGED <<reserved, storage, free, content, event, loaded, pinned, reached,
                     block, passes, raises, skipped>>
  PROVE  IInv'
  <1>. DEFINE n == event[block]
              c == RecordsForward(n)
  <1>1. /\ TypeOK /\ QueueTyped /\ LoadedAhead /\ Accounted /\ MemoryBounded
    BY DEF IInv
  <1>2. n \in Nat /\ block \in Nat /\ reserved \in Nat /\ NumBlocks \in Nat
    BY <1>1, OffloadAssumption DEF TypeOK, Streams, Blocks
  <1>3. /\ c \in Seq(ComputeOps) /\ <<>> \in Seq(H2dOps) /\ <<>> \in Seq(Records)
        /\ Fresh("compute", c) /\ \A k \in DOMAIN c : c[k].kind # "kernel"
    BY <1>1, <1>2, RecordsForwardIs
  <1>4. DOMAIN <<>> = {}
    OBVIOUS
  <1>5. Orderly(c, <<>>, <<>>)
    BY <1>3, <1>4, PlainIsOrderly DEF Fresh
  <1>6. Appends(c, <<>>, <<>>)
    BY <1>3, <1>4, <1>5 DEF Appends, Memory, Undisturbed
  <1>7. /\ QueueTyped' /\ Numbered' /\ Addressed' /\ SavedFirst' /\ KernelsRight'
    BY <1>3, <1>6, HostKeeps
  <1>8. Awaited'
    BY <1>2, <1>6, HookAwaits
  <1>9. StorageFilled'
    BY <1>4, <1>6, StorageStays DEF Trusted
  <1>10. TypeOK'
    <2>1. recorded' \in [Streams -> Nat] /\ recorded'["h2d"] = recorded["h2d"]
      <3>1. Record(Upcoming("h2d")) \notin Range(<<>>)
        BY <1>4 DEF Range
      <3>. QED  BY <3>1, <1>1, <1>3, Enqueues
    <2>. QED  BY <2>1, <1>1 DEF TypeOK, Memory, Nobody
  <1>11. LoadedAhead'
    <2>1. ASSUME ~skipped, NEW b \in Blocks
          PROVE  b \in loaded <=> b >= reserved /\ b <= block + reserved
      <3>1. b \in loaded <=> b >= reserved /\ b < block + reserved
        BY <2>1, <1>1 DEF LoadedAhead, InPass
      <3>2. b \in Nat /\ b < block + reserved
        BY <1>2 DEF Blocks, LoadsBlock, ToDevice
      <3>. QED  BY <3>1, <3>2, <1>2
    <2>. QED  BY <2>1, <1>1 DEF LoadedAhead, InPass
  <1>12. Accounted' /\ MemoryBounded'
    BY <1>1 DEF Accounted, MemoryBounded, Memory, InPass
  <1>. QED  BY <1>7, <1>8, <1>9, <1>10, <1>11, <1>12 DEF IInv

LEMMA PassAbandoned ==
  ASSUME TypeOK, Abandon
  PROVE  /\ phase' = "idle" /\ block' = 0 /\ 0 \in Blocks /\ raises' \in 0 .. MaxRaises
         /\ raises' # 0 /\ raises' = raises + 1
         /\ reserved' = reserved /\ passes' = passes /\ skipped' = skipped
         /\ Undisturbed' => Undisturbed /\ ~skipped
  BY OffloadAssumption DEF TypeOK, Abandon, Blocks, Undisturbed

LEMMA WaitsForForward ==
  ASSUME TypeOK
  PROVE  LET c == <<Record(Upcoming("compute"))>>
             h == WaitEvent("compute", Upcoming("compute"))
         IN /\ c \in Seq(ComputeOps) /\ h \in Seq(H2dOps) /\ <<>> \in Seq(Records)
            /\ Orderly(c, h, <<>>)
            /\ \A k \in DOMAIN c : c[k].kind # "kernel"
            /\ \A k \in DOMAIN h : h[k].kind = "wait"
            /\ Record(Upcoming("h2d")) \notin Range(h)
  <1>. DEFINE u == Upcoming("compute")
              r == Record(u)
              w == Wait("compute", u)
              c == <<r>>
              h == <<w>>
  <1>1. /\ r \in ComputeOps /\ r.kind = "record" /\ w \in H2dOps
        /\ w.kind = "wait" /\ w.number = u /\ w.stream = "compute" /\ u # 0
    BY Ops, OpFields, RecordFields, UpcomingNumbers DEF Streams
  <1>2. WaitEvent("compute", u) = h
    BY <1>1 DEF WaitEvent
  <1>3. Record(Upcoming("h2d")).kind = "record"
    BY RecordFields
  <1>. HIDE DEF u, w, r
  <1>4. /\ c \in Seq(ComputeOps) /\ h \in Seq(H2dOps) /\ <<>> \in Seq(Records)
        /\ DOMAIN c = 1 .. 1 /\ DOMAIN h = 1 .. 1 /\ c[1] = r /\ h[1] = w
        /\ DOMAIN <<>> = {}
    BY <1>1
  <1>. HIDE DEF c, h
  <1>5. /\ \A k \in DOMAIN c : k = 1
        /\ \A k \in DOMAIN h : k = 1
        /\ 1 \in DOMAIN c
    BY <1>4
  <1>6. Fresh("compute", c) /\ Fresh("h2d", h) /\ Fresh("d2h", <<>>)
    BY <1>1, <1>4, <1>5 DEF Fresh, r, u
  <1>7. Record(Upcoming("compute")) \in Range(c)
    BY <1>4, <1>5 DEF Range, r, u
  <1>8. Orderly(c, h, <<>>)
    BY <1>1, <1>4, <1>5, <1>6, <1>7, PlainIsOrderly DEF u
  <1>9. Record(Upcoming("h2d")) \notin Range(h)
    BY <1>1, <1>3, <1>4, <1>5 DEF Range
  <1>. QED  BY <1>1, <1>2, <1>4, <1>5, <1>8, <1>9 DEF c, h, u, r

LEMMA HookRaisesKeeps ==
  ASSUME IInv, HookRaises
  PROVE  IInv'
  <1>. DEFINE c == <<Record(Upcoming("compute"))>>
              h == WaitEvent("compute", Upcoming("compute"))
  <1>1. /\ TypeOK /\ QueueTyped /\ LoadedAhead /\ Accounted
        /\ phase = "pre" /\ LoadsBlock /\ Enqueue(c, h, <<>>) /\ Abandon
        /\ pinned' = pinned /\ reached' = reached /\ event' = event /\ loaded' = loaded
        /\ reserved' = reserved
    BY DEF IInv, HookRaises, Abandon
  <1>2. /\ phase' = "idle" /\ block' = 0 /\ 0 \in Blocks /\ raises' \in 0 .. MaxRaises
        /\ raises' # 0 /\ passes' = passes /\ skipped' = skipped
        /\ Undisturbed' => Undisturbed /\ ~skipped
    BY <1>1, PassAbandoned
  <1>3. /\ c \in Seq(ComputeOps) /\ h \in Seq(H2dOps) /\ <<>> \in Seq(Records)
        /\ Orderly(c, h, <<>>)
        /\ \A k \in DOMAIN c : c[k].kind # "kernel"
        /\ \A k \in DOMAIN h : h[k].kind = "wait"
        /\ Record(Upcoming("h2d")) \notin Range(h)
    BY <1>1, WaitsForForward
  <1>. HIDE DEF c, h
  <1>4. ToDevice \in Blocks /\ ToDevice >= reserved /\ ToDevice = block + reserved
    BY <1>1, OffloadAssumption DEF LoadsBlock, ToDevice, TypeOK, Blocks
  (* What the allocator has done by then. *)
  <1>5. /\ Memory \subseteq Memory' /\ \A k \in Memory : content'[k] = content[k]
        /\ content' \in Seq(Blocks \cup {Nobody})
        /\ storage' \in [Blocks -> Memory' \cup {0}] /\ free' \subseteq Memory'
        /\ \A e, f \in Blocks : storage'[e] # 0 =>
             storage'[e] \notin free' /\ (e # f => storage'[f] # storage'[e])
        /\ \A k \in Memory' : k \in free' \/ \E e \in Blocks : storage'[e] = k
        /\ \A e \in Blocks : e # ToDevice => storage'[e] = storage[e]
    <2>1. CASE UNCHANGED <<memory, content>>
      BY <2>1, <1>1 DEF memory, Memory, TypeOK, Accounted
    <2>2. CASE \E m \in 1 .. Cardinality(Memory) + 1 : Resize(ToDevice, m)
      <3>1. PICK m \in 1 .. Cardinality(Memory) + 1 : Resize(ToDevice, m)
        BY <2>2
      <3>2. m \in Nat /\ Grant(m)
        BY <3>1 DEF Resize
      <3>. QED  BY <3>1, <3>2, <1>1, <1>4, Granted, Resized DEF Accounted
    <2>. QED  BY <2>1, <2>2 DEF HookRaises
  <1>6. Appends(c, h, <<>>)
    BY <1>1, <1>2, <1>3, <1>5 DEF Appends
  <1>7. /\ QueueTyped' /\ Numbered' /\ Addressed' /\ SavedFirst' /\ KernelsRight' /\ Awaited'
    BY <1>2, <1>3, <1>6, HostKeeps
  <1>8. TypeOK'
    <2>1. recorded' \in [Streams -> Nat] /\ recorded'["h2d"] = recorded["h2d"]
      BY <1>1, <1>3, Enqueues
    <2>. QED  BY <2>1, <1>1, <1>2, <1>5 DEF TypeOK, Nobody
  <1>9. StorageFilled'
    <2>1. ASSUME Undisturbed', NEW b \in Blocks, Trusted(b)'
          PROVE  /\ Trusted(b) /\ storage'[b] = storage[b] /\ event'[b] = event[b]
                 /\ \A k \in DOMAIN h : h[k].kind \in {"load", "copy"} => h[k].at # storage[b]
      <3>1. b < reserved \/ b \in loaded
        BY <2>1, <1>1, <1>2 DEF Trusted
      <3>2. ToDevice \notin loaded
        <4>1. ToDevice \in loaded => ToDevice < block + reserved
          BY <2>1, <1>1, <1>2, <1>4 DEF LoadedAhead, InPass
        <4>. QED  BY <4>1, <1>1, <1>4 DEF TypeOK, Blocks
      <3>3. b < reserved => b # ToDevice
        BY <1>1, <1>4 DEF TypeOK, Blocks
      <3>4. b # ToDevice
        BY <3>1, <3>2, <3>3
      <3>. QED  BY <2>1, <3>1, <3>4, <1>1, <1>3, <1>5 DEF Trusted
    <2>. QED  BY <2>1, <1>6, StorageStays
  <1>10. LoadedAhead'
    <2>1. \A b \in Blocks : b < reserved => storage'[b] # 0
      <3>1. \A b \in Blocks : b < reserved => b # ToDevice
        BY <1>1, <1>4 DEF TypeOK, Blocks
      <3>. QED  BY <3>1, <1>1, <1>5 DEF LoadedAhead
    <2>. QED  BY <2>1, <1>1, <1>2 DEF LoadedAhead, InPass
  <1>11. Accounted' /\ MemoryBounded'
    BY <1>2, <1>5 DEF Accounted, MemoryBounded
  <1>. QED  BY <1>7, <1>8, <1>9, <1>10, <1>11 DEF IInv

-----------------------------------------------------------------------------
(* The kernels of a block that are queued find its weights. *)
LEMMA ForwardTrusts ==
  ASSUME TypeOK, LoadedAhead, Undisturbed, phase = "forward", storage[block] # 0
  PROVE  Trusted(block)
  <1>1. block \in Blocks /\ block \in Nat /\ reserved \in Nat
    BY DEF TypeOK, Blocks
  <1>2. CASE raises = 0
    BY <1>2 DEF Trusted
  <1>3. CASE ~skipped
    BY <1>1, <1>3 DEF LoadedAhead, InPass, Trusted
  <1>. QED  BY <1>2, <1>3 DEF Undisturbed

LEMMA ForwardIsRight ==
  ASSUME IInv, phase = "forward", storage[block] # 0, NEW k, k = Kernel(block, storage[block]),
         Appends(<<k>>, <<>>, <<>>), content' = content
  PROVE  KernelsRight'
  <1>. USE DEF Streams
  <1>. DEFINE Q == queue["compute"]
              H == queue["h2d"]
              c == <<k>>
  <1>1. TypeOK /\ QueueTyped /\ LoadedAhead /\ StorageFilled /\ Awaited
    BY DEF IInv
  <1>2. Appended(Q, Q', c) /\ Appended(H, H', <<>>)
    BY <1>1, Enqueues DEF Appends
  <1>3. DOMAIN c = 1 .. 1 /\ c[1] = k /\ DOMAIN <<>> = {}
    OBVIOUS
  <1>4. /\ \A p \in DOMAIN H' : p \in DOMAIN H
        /\ \A p \in DOMAIN H : p \in DOMAIN H' /\ H'[p] = H[p] /\ p \in Nat
        /\ \A j \in DOMAIN Q : j \in DOMAIN Q' /\ Q'[j] = Q[j] /\ j \in Nat /\ j <= Len(Q)
        /\ \A j \in DOMAIN Q' : j \notin DOMAIN Q => j = Len(Q) + 1 /\ Q'[j] = k
        /\ Len(Q) \in Nat
    <2>. HIDE DEF c
    <2>1. \A j \in DOMAIN Q' : j \notin DOMAIN Q => j \in Nat /\ j - Len(Q) \in 1 .. 1 /\ Q'[j] = c[j - Len(Q)]
      BY <1>2, <1>3 DEF Appended
    <2>2. Len(Q) \in Nat
      BY <1>2 DEF Appended
    <2>3. \A j \in DOMAIN Q' : j \notin DOMAIN Q => j = Len(Q) + 1 /\ Q'[j] = k
      BY <2>1, <2>2, <1>3
    <2>. QED  BY <2>2, <2>3, <1>2, <1>3 DEF Appended
  <1>5. Undisturbed' => Undisturbed
    BY DEF Appends
  <1>6. ASSUME Undisturbed', NEW i \in DOMAIN Q', i \notin DOMAIN Q
        PROVE  KernelRight(i)'
    <2>. DEFINE m == storage[block]
    <2>1. block \in Blocks /\ Filled(block)
      BY <1>1, <1>5, <1>6, ForwardTrusts DEF StorageFilled, TypeOK
    <2>2. i = Len(Q) + 1 /\ Q'[i] = k /\ k.at = m /\ k.block = block
      BY <1>4, <1>6, OpFields
    <2>3. \A p : ~After(i, p)'
      BY <1>4, <2>2 DEF After
    <2>4. ASSUME NEW a, a = m
          PROVE  Early(i, a)' = Writes(a)
      BY <1>4, <2>3 DEF Early, Writes
    <2>5. ASSUME NEW p \in Writes(m)
          PROVE  Before(p, i)'
      <3>1. PICK p2 \in DOMAIN H : p < p2 /\ IsRecord("h2d", p2, Complete(block))
        BY <2>1 DEF Filled
      <3>2. PICK j \in DOMAIN Q : IsWait("compute", j, "h2d", Complete(block))
        <4>1. CASE event[block] = 0
          <5>1. Q # <<>> /\ IsWait("compute", 1, "h2d", 1)
            BY <3>1, <4>1, <1>1 DEF Awaited, Complete
          <5>2. 1 \in DOMAIN Q
            BY <5>1, <1>1, EmptySeq, LenProperties DEF QueueTyped
          <5>. QED  BY <4>1, <5>1, <5>2 DEF Complete
        <4>2. CASE event[block] # 0
          BY <3>1, <4>2, <1>1 DEF Awaited, Complete
        <4>. QED  BY <4>1, <4>2
      <3>3. Awaits("compute", j, "h2d", p2)'
        BY <3>1, <3>2, <1>4 DEF Awaits, IsWait, IsRecord
      <3>4. j \in DOMAIN Q' /\ p2 \in DOMAIN H' /\ j < i
        BY <3>1, <3>2, <1>4, <2>2
      <3>. QED  BY <3>1, <3>3, <3>4 DEF Before
    <2>6. Fills(Writes(m), m, block) /\ Writes(m) \subseteq DOMAIN H
      BY <2>1 DEF Filled, Writes
    <2>7. ASSUME NEW a, NEW b, a = m, b = block
          PROVE  /\ \A p \in Early(i, a)' : Before(p, i)'
                 /\ Fills(Early(i, a), a, b)'
      BY <2>4, <2>5, <2>6, <2>7, <1>4 DEF Fills
    <2>8. ASSUME NEW a, NEW b, a = Q'[i].at, b = Q'[i].block
          PROVE  /\ \A p \in Early(i, a)' : Before(p, i)'
                 /\ Fills(Early(i, a), a, b)'
      BY <2>2, <2>7, <2>8
    <2>. QED  BY <2>8 DEF KernelRight, Fills
  <1>7. ASSUME Undisturbed', NEW i \in DOMAIN Q', Q'[i].kind = "kernel"
        PROVE  KernelRight(i)'
    <2>1. CASE i \in DOMAIN Q
      <3>1. Q[i].kind = "kernel"
        BY <2>1, <1>4, <1>7
      <3>. QED  BY <2>1, <3>1, <1>7, HostKeeps
    <2>2. CASE i \notin DOMAIN Q
      BY <2>2, <1>6, <1>7
    <2>. QED  BY <2>1, <2>2
  <1>. QED  BY <1>7 DEF KernelsRight

LEMMA KernelAlone ==
  ASSUME TypeOK, phase = "forward", storage[block] # 0, NEW k, k = Kernel(block, storage[block])
  PROVE  /\ <<k>> \in Seq(ComputeOps) /\ <<>> \in Seq(H2dOps) /\ <<>> \in Seq(Records)
         /\ Orderly(<<k>>, <<>>, <<>>)
         /\ k.kind = "kernel" /\ k.at = storage[block] /\ k.at \in Memory
         /\ Record(Upcoming("h2d")) \notin Range(<<>>)
  <1>1. block \in Blocks /\ storage[block] \in Memory /\ Memory \subseteq Numbers
    BY LenProperties DEF TypeOK, Memory, Numbers
  <1>2. k \in ComputeOps /\ k.kind = "kernel" /\ k.at = storage[block]
    BY <1>1, Ops, OpFields
  <1>3. /\ <<k>> \in Seq(ComputeOps) /\ <<>> \in Seq(H2dOps) /\ <<>> \in Seq(Records)
        /\ DOMAIN <<k>> = 1 .. 1 /\ <<k>>[1] = k /\ DOMAIN <<>> = {}
    BY <1>2
  <1>4. Fresh("compute", <<k>>) /\ Fresh("h2d", <<>>) /\ Fresh("d2h", <<>>)
    <2>1. \A i \in DOMAIN <<k>> : <<k>>[i].kind = "kernel"
      BY <1>2, <1>3
    <2>. QED  BY <2>1, <1>3 DEF Fresh
  <1>5. Orderly(<<k>>, <<>>, <<>>)
    BY <1>3, <1>4, PlainIsOrderly
  <1>. QED  BY <1>1, <1>2, <1>3, <1>5 DEF Range

LEMMA ForwardKeeps ==
  ASSUME IInv, Forward
  PROVE  IInv'
  <1>1. /\ TypeOK /\ QueueTyped /\ LoadedAhead /\ Accounted /\ MemoryBounded
        /\ phase = "forward" /\ storage[block] # 0 /\ phase' = "post"
        /\ UNCHANGED <<reserved, storage, free, content, pinned, reached, event, block,
                       passes, loaded, raises, skipped>>
    BY DEF IInv, Forward, memory, device
  <1>2. PICK k : k = Kernel(block, storage[block])
    OBVIOUS
  <1>3. Enqueue(<<k>>, <<>>, <<>>)
    BY <1>2 DEF Forward
  <1>4. /\ <<k>> \in Seq(ComputeOps) /\ <<>> \in Seq(H2dOps) /\ <<>> \in Seq(Records)
        /\ Orderly(<<k>>, <<>>, <<>>)
        /\ k.kind = "kernel" /\ k.at = storage[block] /\ k.at \in Memory
        /\ Record(Upcoming("h2d")) \notin Range(<<>>)
    BY <1>1, <1>2, KernelAlone
  <1>5. Appends(<<k>>, <<>>, <<>>)
    <2>1. \A i \in DOMAIN <<k>> : <<k>>[i] = k
      OBVIOUS
    <2>2. DOMAIN <<>> = {}
      OBVIOUS
    <2>. QED  BY <2>1, <2>2, <1>1, <1>3, <1>4 DEF Appends, Memory, Undisturbed
  <1>6. /\ QueueTyped' /\ Numbered' /\ Addressed' /\ SavedFirst' /\ Awaited'
    BY <1>1, <1>5, HostKeeps
  <1>7. KernelsRight'
    BY <1>1, <1>2, <1>5, ForwardIsRight
  <1>8. StorageFilled'
    <2>1. DOMAIN <<>> = {}
      OBVIOUS
    <2>. QED  BY <2>1, <1>1, <1>5, StorageStays DEF Trusted
  <1>9. TypeOK'
    <2>1. recorded' \in [Streams -> Nat] /\ recorded'["h2d"] = recorded["h2d"]
      BY <1>1, <1>3, <1>4, Enqueues
    <2>. QED  BY <2>1, <1>1 DEF TypeOK, Memory, Nobody
  <1>10. LoadedAhead' /\ Accounted' /\ MemoryBounded'
    BY <1>1 DEF LoadedAhead, Accounted, MemoryBounded, Memory, InPass
  <1>. QED  BY <1>6, <1>7, <1>8, <1>9, <1>10 DEF IInv

LEMMA ForwardRaisesKeeps ==
  ASSUME IInv, ForwardRaises
  PROVE  IInv'
  <1>1. /\ TypeOK /\ QueueTyped /\ LoadedAhead /\ Accounted
        /\ phase = "forward" /\ Abandon
        /\ UNCHANGED <<reserved, storage, free, content, pinned, reached, event, loaded>>
    BY DEF IInv, ForwardRaises, Abandon, memory, device
  <1>2. /\ phase' = "idle" /\ block' = 0 /\ 0 \in Blocks /\ raises' \in 0 .. MaxRaises
        /\ raises' # 0 /\ passes' = passes /\ skipped' = skipped
        /\ Undisturbed' => Undisturbed /\ ~skipped
    BY <1>1, PassAbandoned
  <1>3. DOMAIN <<>> = {}
    OBVIOUS
  (* The forward function has or has not come to its kernels. *)
  <1>4. \E c : /\ Appends(c, <<>>, <<>>) /\ KernelsRight'
               /\ recorded' \in [Streams -> Nat] /\ recorded'["h2d"] = recorded["h2d"]
    <2>1. PICK k : k = Kernel(block, storage[block])
      OBVIOUS
    <2>2. CASE storage[block] # 0 /\ Enqueue(<<k>>, <<>>, <<>>)
      <3>1. /\ <<k>> \in Seq(ComputeOps) /\ <<>> \in Seq(H2dOps) /\ <<>> \in Seq(Records)
            /\ Orderly(<<k>>, <<>>, <<>>) /\ k.at \in Memory
            /\ Record(Upcoming("h2d")) \notin Range(<<>>)
        BY <2>1, <2>2, <1>1, KernelAlone
      <3>2. \A i \in DOMAIN <<k>> : <<k>>[i] = k
        OBVIOUS
      <3>3. Appends(<<k>>, <<>>, <<>>)
        BY <3>1, <3>2, <2>2, <1>1, <1>2, <1>3 DEF Appends, Memory
      <3>4. KernelsRight'
        BY <3>3, <2>1, <2>2, <1>1, ForwardIsRight
      <3>5. recorded' \in [Streams -> Nat] /\ recorded'["h2d"] = recorded["h2d"]
        BY <3>1, <2>2, <1>1, Enqueues
      <3>. QED  BY <3>3, <3>4, <3>5
    <2>3. CASE UNCHANGED <<queue, recorded>>
      <3>1. Appends(<<>>, <<>>, <<>>)
        BY <2>3, <1>1, <1>2, <1>3, Idles DEF Appends, Memory
      <3>2. KernelsRight'
        BY <3>1, <1>3, HostKeeps
      <3>. QED  BY <3>1, <3>2, <2>3, <1>1 DEF TypeOK
    <2>. QED  BY <2>1, <2>2, <2>3 DEF ForwardRaises
  <1>5. PICK c : Appends(c, <<>>, <<>>)
    BY <1>4
  <1>6. /\ QueueTyped' /\ Numbered' /\ Addressed' /\ SavedFirst' /\ Awaited'
    BY <1>2, <1>5, HostKeeps
  <1>7. StorageFilled'
    BY <1>1, <1>2, <1>3, <1>5, StorageStays DEF Trusted
  <1>8. TypeOK'
    BY <1>1, <1>2, <1>4 DEF TypeOK, Memory, Nobody
  <1>9. LoadedAhead' /\ Accounted' /\ MemoryBounded'
    <2>1. LoadedAhead' /\ Accounted'
      BY <1>1, <1>2 DEF LoadedAhead, Accounted, Memory, InPass
    <2>2. Memory' = Memory
      BY <1>1 DEF Memory
    <2>3. MemoryBounded'
      BY <2>2, <1>2 DEF IInv, MemoryBounded
    <2>. QED  BY <2>1, <2>3
  <1>. QED  BY <1>4, <1>6, <1>7, <1>8, <1>9 DEF IInv

-----------------------------------------------------------------------------
(* The other actions of the host queue no copies and no kernels. *)
LEMMA Proceeds ==
  ASSUME TypeOK, Proceed
  PROVE  \/ block = NumBlocks - 1 /\ phase' = "idle" /\ block' = 0 /\ block' \in Blocks
         \/ block # NumBlocks - 1 /\ phase' = "pre" /\ block' = block + 1 /\ block' \in Blocks
  BY OffloadAssumption DEF TypeOK, Proceed, Blocks

LEMMA GivesBackQueued ==
  ASSUME TypeOK
  PROVE  LET c == <<Wait("d2h", Upcoming("d2h"))>>
             d == WaitEvent("compute", 0) \o <<Record(Upcoming("d2h"))>>
         IN /\ c \in Seq(ComputeOps) /\ <<>> \in Seq(H2dOps) /\ d \in Seq(Records)
            /\ Orderly(c, <<>>, d)
            /\ \A k \in DOMAIN c : c[k].kind = "wait"
            /\ Record(Upcoming("h2d")) \notin Range(<<>>)
  <1>. DEFINE u == Upcoming("d2h")
              w == Wait("d2h", u)
              r == Record(u)
              c == <<w>>
              d == <<r>>
  <1>1. w \in ComputeOps /\ w.kind = "wait" /\ r \in Records
    BY Ops, OpFields, UpcomingNumbers DEF Streams
  <1>. HIDE DEF u, w
  <1>2. WaitEvent("compute", 0) \o <<r>> = d
    <2>. HIDE DEF r
    <2>1. <<r>> \in Seq(Records)
      BY <1>1
    <2>. QED  BY <2>1, ConcatEmptySeq DEF WaitEvent
  <1>. HIDE DEF r
  <1>3. /\ c \in Seq(ComputeOps) /\ <<>> \in Seq(H2dOps) /\ d \in Seq(Records)
        /\ DOMAIN c = 1 .. 1 /\ DOMAIN d = 1 .. 1 /\ c[1] = w /\ d[1] = r /\ DOMAIN <<>> = {}
    BY <1>1
  <1>. HIDE DEF c, d
  <1>4. (\A k \in DOMAIN c : c[k] = w) /\ \A k \in DOMAIN d : k = 1
    BY <1>3
  <1>5. Fresh("compute", c) /\ Fresh("h2d", <<>>) /\ Fresh("d2h", d)
    BY <1>1, <1>3, <1>4 DEF Fresh, r, u
  <1>6. Orderly(c, <<>>, d)
    BY <1>3, <1>5, PlainIsOrderly
  <1>. QED  BY <1>1, <1>2, <1>3, <1>4, <1>6 DEF c, w, u, r, Range

LEMMA ResizeHookKeeps ==
  ASSUME IInv, ParameterToResizeHook
  PROVE  IInv'
  <1>1. /\ TypeOK /\ QueueTyped /\ LoadedAhead /\ Accounted /\ MemoryBounded
        /\ phase = "post" /\ Proceed
        /\ UNCHANGED <<reserved, content, pinned, reached, event, passes, loaded, raises, skipped>>
    BY DEF IInv, ParameterToResizeHook, device
  <1>2. /\ block' \in Blocks /\ reserved \in Nat /\ block \in Nat /\ NumBlocks \in Nat
        /\ block \in Blocks /\ reserved < NumBlocks /\ Blocks \subseteq Nat
        /\ \/ block = NumBlocks - 1 /\ phase' = "idle"
           \/ phase' = "pre" /\ block' = block + 1
    BY <1>1, Proceeds, OffloadAssumption DEF TypeOK, Blocks
  <1>3. DOMAIN <<>> = {}
    OBVIOUS
  <1>4. \E c, d : /\ Appends(c, <<>>, d) /\ \A k \in DOMAIN c : c[k].kind # "kernel"
                  /\ recorded' \in [Streams -> Nat] /\ recorded'["h2d"] = recorded["h2d"]
    <2>1. CASE GivesBack
      <3>. DEFINE c == <<Wait("d2h", Upcoming("d2h"))>>
                  d == WaitEvent("compute", 0) \o <<Record(Upcoming("d2h"))>>
      <3>1. Enqueue(c, <<>>, d)
        BY <1>1, <2>1 DEF ParameterToResizeHook
      <3>2. /\ c \in Seq(ComputeOps) /\ <<>> \in Seq(H2dOps) /\ d \in Seq(Records)
            /\ Orderly(c, <<>>, d)
            /\ \A k \in DOMAIN c : c[k].kind = "wait"
            /\ Record(Upcoming("h2d")) \notin Range(<<>>)
        BY <1>1, GivesBackQueued
      <3>. HIDE DEF c, d
      <3>3. Appends(c, <<>>, d)
        BY <3>1, <3>2, <1>1, <1>3 DEF Appends, Memory, Undisturbed
      <3>4. recorded' \in [Streams -> Nat] /\ recorded'["h2d"] = recorded["h2d"]
        BY <3>1, <3>2, <1>1, Enqueues
      <3>5. \A k \in DOMAIN c : c[k].kind # "kernel"
        BY <3>2
      <3>. QED  BY <3>3, <3>4, <3>5
    <2>2. CASE ~GivesBack
      <3>1. UNCHANGED <<queue, recorded>>
        BY <2>2 DEF ParameterToResizeHook
      <3>2. Appends(<<>>, <<>>, <<>>)
        BY <3>1, <1>1, <1>3, Idles DEF Appends, Memory, Undisturbed
      <3>. QED  BY <3>1, <3>2, <1>1, <1>3 DEF TypeOK
    <2>. QED  BY <2>1, <2>2
  <1>5. PICK c, d : Appends(c, <<>>, d) /\ \A k \in DOMAIN c : c[k].kind # "kernel"
    BY <1>4
  <1>6. /\ QueueTyped' /\ Numbered' /\ Addressed' /\ SavedFirst' /\ Awaited' /\ KernelsRight'
    BY <1>2, <1>5, HostKeeps
  (* The memory of this block, unless it is reserved, is free. *)
  <1>7. /\ storage' \in [Blocks -> Memory \cup {0}]
        /\ \A b \in Blocks : storage'[b] = IF GivesBack /\ b = block THEN 0 ELSE storage[b]
        /\ free' = IF GivesBack THEN free \cup {storage[block]} ELSE free
    <2>1. storage \in [Blocks -> Memory \cup {0}]
      BY <1>1 DEF TypeOK
    <2>2. CASE GivesBack
      <3>1. storage' = [storage EXCEPT ![block] = 0] /\ free' = free \cup {storage[block]}
        BY <2>2 DEF ParameterToResizeHook
      <3>. QED  BY <3>1, <2>1, <2>2
    <2>3. CASE ~GivesBack
      BY <2>1, <2>3 DEF ParameterToResizeHook, memory
    <2>. QED  BY <2>2, <2>3
  <1>8. storage[block] # 0 /\ storage[block] \in Memory
    BY <1>1, <1>2 DEF LoadedAhead, TypeOK
  <1>9. /\ free' \subseteq Memory
        /\ \A b, e \in Blocks : storage'[b] # 0 =>
             storage'[b] \notin free' /\ (b # e => storage'[e] # storage'[b])
    <2>1. free' \subseteq Memory
      BY <1>1, <1>7, <1>8 DEF TypeOK
    <2>2. ASSUME NEW b \in Blocks, storage'[b] # 0
          PROVE  storage'[b] \notin free'
      <3>1. storage'[b] = storage[b] /\ (GivesBack => b # block)
        BY <2>2, <1>7
      <3>2. storage[b] \notin free /\ (b # block => storage[block] # storage[b])
        BY <2>2, <3>1, <1>1, <1>2 DEF TypeOK
      <3>. QED  BY <3>1, <3>2, <1>7
    <2>3. ASSUME NEW b \in Blocks, NEW e \in Blocks, storage'[b] # 0, b # e
          PROVE  storage'[e] # storage'[b]
      BY <2>3, <1>1, <1>7 DEF TypeOK
    <2>. QED  BY <2>1, <2>2, <2>3
  <1>10. TypeOK'
    BY <1>1, <1>2, <1>4, <1>7, <1>9 DEF TypeOK, Memory, Nobody
  <1>11. StorageFilled'
    BY <1>1, <1>3, <1>5, <1>7, StorageStays DEF Trusted
  <1>12. LoadedAhead'
    <2>1. \A b \in Blocks : b < reserved => storage'[b] # 0
      BY <1>1, <1>2, <1>7 DEF LoadedAhead, GivesBack
    <2>2. ASSUME phase' = "pre", NEW b \in loaded, b >= block'
          PROVE  storage'[b] # 0
      <3>1. b \in Blocks /\ b \in Nat /\ b >= block + 1
        BY <2>2, <1>1, <1>2 DEF TypeOK
      <3>2. storage'[b] = storage[b] /\ b >= block
        BY <3>1, <1>2, <1>7
      <3>. QED  BY <3>2, <1>1 DEF LoadedAhead, InPass
    <2>3. ASSUME phase' = "pre", ~skipped, NEW b \in Blocks
          PROVE  b \in loaded <=> b >= reserved /\ b < block' + reserved
      <3>1. b \in loaded <=> b >= reserved /\ b <= block + reserved
        BY <2>3, <1>1 DEF LoadedAhead, InPass
      <3>2. b \in Nat /\ block' = block + 1
        BY <2>3, <1>2
      <3>. QED  BY <3>1, <3>2, <1>2
    <2>. QED  BY <2>1, <2>2, <2>3, <1>1, <1>2 DEF LoadedAhead, InPass
  <1>13. Accounted'
    <2>1. ASSUME NEW k \in Memory, k \notin free'
          PROVE  \E b \in Blocks : storage'[b] = k
      <3>1. k \notin free /\ (GivesBack => k # storage[block])
        BY <2>1, <1>7
      <3>2. PICK b \in Blocks : storage[b] = k
        BY <3>1, <1>1 DEF Accounted
      <3>. QED  BY <3>1, <3>2, <1>7
    <2>2. ASSUME raises = 0, ~skipped, NEW b \in Blocks, storage'[b] # 0
          PROVE  b < reserved \/ (InPass' /\ b \in loaded /\ b >= block')
      <3>1. b \in Nat /\ b <= NumBlocks - 1
        BY <1>2 DEF Blocks
      <3>2. storage[b] # 0 /\ ~(GivesBack /\ b = block)
        BY <2>2, <1>7
      <3>3. b < reserved \/ (b \in loaded /\ b >= block)
        BY <2>2, <3>2, <1>1 DEF Accounted
      <3>4. CASE b >= reserved
        <4>1. b # block
          BY <3>2, <3>4 DEF GivesBack
        <4>2. b \in loaded /\ b > block
          BY <3>1, <3>3, <3>4, <4>1, <1>2
        <4>. QED  BY <3>1, <4>2, <1>2 DEF InPass
      <3>. QED  BY <3>1, <3>4, <1>2
    <2>. QED  BY <2>1, <2>2, <1>1 DEF Accounted, Memory
  <1>14. MemoryBounded'
    BY <1>1 DEF MemoryBounded, Memory
  <1>. QED  BY <1>6, <1>10, <1>11, <1>12, <1>13, <1>14 DEF IInv

LEMMA CallerKeeps ==
  ASSUME IInv, StartPass \/ Skip
  PROVE  IInv'
  <1>1. /\ TypeOK /\ QueueTyped /\ LoadedAhead /\ Accounted /\ MemoryBounded
        /\ UNCHANGED <<reserved, storage, free, content, pinned, reached, queue, recorded,
                       event, raises>>
    BY DEF IInv, StartPass, Skip, memory, device
  <1>2. /\ reserved \in Nat /\ block \in Nat /\ NumBlocks \in Nat
        /\ Blocks \subseteq Nat /\ 0 \in Blocks
    BY <1>1, OffloadAssumption DEF TypeOK, Blocks
  <1>3. /\ phase' \in {"idle", "pre"} /\ block' \in Blocks /\ passes' \in 0 .. MaxPasses
        /\ loaded' \subseteq loaded /\ skipped' \in BOOLEAN /\ (skipped => skipped')
    <2>1. CASE StartPass
      <3>1. passes' \in 0 .. MaxPasses
        BY <2>1, <1>1, OffloadAssumption DEF StartPass, TypeOK
      <3>. QED  BY <3>1, <2>1, <1>1, <1>2 DEF StartPass, TypeOK
    <2>2. CASE Skip
      BY <2>2, <1>1, Proceeds DEF Skip, TypeOK
    <2>. QED  BY <2>1, <2>2
  <1>4. DOMAIN <<>> = {} /\ Appends(<<>>, <<>>, <<>>)
    <2>1. DOMAIN <<>> = {}
      OBVIOUS
    <2>. QED  BY <2>1, <1>1, <1>3, Idles DEF Appends, Memory, Undisturbed
  <1>5. /\ QueueTyped' /\ Numbered' /\ Addressed' /\ SavedFirst' /\ Awaited' /\ KernelsRight'
    BY <1>3, <1>4, HostKeeps
  <1>6. StorageFilled'
    BY <1>1, <1>3, <1>4, StorageStays DEF Trusted
  <1>7. TypeOK'
    BY <1>1, <1>3 DEF TypeOK, Memory, Nobody
  <1>8. LoadedAhead'
    <2>1. CASE StartPass
      <3>1. phase' = "pre" /\ block' = 0 /\ loaded' = {} /\ skipped' = skipped
        BY <2>1 DEF StartPass
      <3>. QED  BY <3>1, <1>1, <1>2 DEF LoadedAhead, InPass
    <2>2. CASE Skip
      <3>1. /\ phase = "pre" /\ loaded' = loaded /\ skipped' = TRUE
            /\ phase' = "idle" \/ (phase' = "pre" /\ block' = block + 1)
        BY <2>2, <1>1, Proceeds DEF Skip
      <3>2. ASSUME phase' = "pre", NEW b \in loaded, b >= block'
            PROVE  storage[b] # 0
        <4>1. b \in Nat /\ b >= block
          BY <3>1, <3>2, <1>1, <1>2 DEF TypeOK
        <4>. QED  BY <4>1, <3>1, <1>1 DEF LoadedAhead, InPass
      <3>. QED  BY <3>1, <3>2, <1>1, <1>3 DEF LoadedAhead, InPass
    <2>. QED  BY <2>1, <2>2
  <1>9. Accounted'
    <2>1. CASE StartPass
      BY <2>1, <1>1 DEF StartPass, Accounted, InPass, Memory
    <2>2. CASE Skip
      BY <2>2, <1>1 DEF Skip, Accounted, Memory
    <2>. QED  BY <2>1, <2>2
  <1>10. MemoryBounded'
    BY <1>1, <1>3 DEF MemoryBounded, Memory
  <1>. QED  BY <1>5, <1>6, <1>7, <1>8, <1>9, <1>10 DEF IInv

(* Every step keeps the invariant. *)
LEMMA Step ==
  ASSUME IInv, Next
  PROVE  IInv'
  <1>1. ASSUME ParameterToDeviceHook PROVE IInv'
    <2>1. TypeOK
      BY DEF IInv
    <2>. QED  BY <1>1, <2>1, HookCases, HookLoadsKeeps, HookPlainKeeps
  <1>2. ASSUME NEW s \in Streams, Execute(s) PROVE IInv'
    BY <1>2, ComputeKeeps, H2dKeeps, D2hKeeps DEF Streams
  <1>. QED
    BY <1>1, <1>2, CallerKeeps, HookRaisesKeeps, ForwardKeeps, ForwardRaisesKeeps,
       ResizeHookKeeps DEF Next, Host

LEMMA Stutters ==
  ASSUME IInv, UNCHANGED vars
  PROVE  IInv'
  <1>1. /\ UNCHANGED <<reserved, phase, block, passes, loaded, raises, skipped, storage, free,
                       content, pinned, reached, queue, recorded, event>>
    BY DEF vars, host, memory, device
  <1>2. TypeOK' /\ QueueTyped' /\ Numbered'
    BY <1>1 DEF IInv, TypeOK, QueueTyped, Numbered, Memory, Nobody
  <1>3. Addressed' /\ SavedFirst'
    BY <1>1, Idles, EnqueuesSaves DEF IInv, Addressed, Memory
  <1>4. Awaited' /\ LoadedAhead' /\ Accounted' /\ MemoryBounded'
    BY <1>1 DEF IInv, Awaited, LoadedAhead, Accounted, MemoryBounded, Memory, InPass,
         IsRecord, IsWait
  <1>5. StorageFilled'
    BY <1>1 DEF IInv, StorageFilled, Undisturbed, Trusted, Filled, Complete, Fills, Writes,
         IsRecord
  <1>6. KernelsRight'
    <2>1. \A i : KernelRight(i)' <=> KernelRight(i)
      BY <1>1 DEF KernelRight, Fills, Early, Writes, After, Before, Awaits, IsWait
    <2>. QED  BY <1>1, <2>1 DEF IInv, KernelsRight, Undisturbed
  <1>. QED  BY <1>2, <1>3, <1>4, <1>5, <1>6 DEF IInv

-----------------------------------------------------------------------------
(* What enable_offload queues: a load of every block, after which the blocks to be kept
   on the host are saved, and the recording the caller's stream waits for. *)
LEMMA MoveFields ==
  /\ \A b, m : /\ Load(b, m).kind = "load" /\ Load(b, m).block = b /\ Load(b, m).at = m
               /\ Save(b, m).kind = "save" /\ Save(b, m).block = b /\ Save(b, m).at = m
  /\ \A b \in Blocks, m \in Numbers : Load(b, m) \in H2dOps /\ Save(b, m) \in H2dOps
  BY DEF Load, Save, H2dOps, Transfers

Moved(n, H) ==
  LET last == 2 * NumBlocks - n
  IN /\ H \in Seq(H2dOps) /\ DOMAIN H = 1 .. last + 1
     /\ \A p \in 1 .. n : H[p] = Load(p - 1, p)
     /\ \A b \in n .. NumBlocks - 1 : /\ H[2 * b - n + 1] = Load(b, n + 1)
                                      /\ H[2 * b - n + 2] = Save(b, n + 1)
     /\ \A p \in n + 1 .. last : \E b \in n .. NumBlocks - 1 : p \in {2 * b - n + 1, 2 * b - n + 2}
     /\ H[last + 1] = Record(1)

LEMMA Moves ==
  ASSUME NEW n \in Blocks
  PROVE  Moved(n, MoveBlocks(n) \o <<Record(1)>>)
  <1>. DEFINE M == 2 * (NumBlocks - n)
              A == [i \in 1 .. n |-> Load(i - 1, FirstMemory(n, i - 1))]
              B == [i \in 1 .. M |->
                     LET b == n + (i - 1) \div 2
                     IN IF i % 2 = 1 THEN Load(b, FirstMemory(n, b)) ELSE Save(b, FirstMemory(n, b))]
              R == <<Record(1)>>
              last == 2 * NumBlocks - n
  <1>1. n \in Nat /\ NumBlocks \in Nat /\ n < NumBlocks /\ M \in Nat /\ last = n + M
    BY OffloadAssumption DEF Blocks
  <1>2. \A i \in 1 .. n : A[i] = Load(i - 1, i) /\ i - 1 \in Blocks /\ i \in Numbers
    <2>1. ASSUME NEW i \in 1 .. n
          PROVE  i - 1 < n /\ i - 1 \in Blocks /\ i \in Numbers /\ (i - 1) + 1 = i
      BY <1>1 DEF Blocks, Numbers
    <2>. QED  BY <2>1 DEF FirstMemory
  <1>3. \A i \in 1 .. M : n + (i - 1) \div 2 \in n .. NumBlocks - 1
    BY <1>1
  <1>4. ASSUME NEW i \in 1 .. M, NEW b, b = n + (i - 1) \div 2
        PROVE  /\ B[i] = IF i % 2 = 1 THEN Load(b, n + 1) ELSE Save(b, n + 1)
               /\ b \in Blocks /\ n + 1 \in Numbers
    <2>1. b \in n .. NumBlocks - 1
      BY <1>3, <1>4
    <2>2. b \in Blocks /\ ~ b < n /\ n + 1 \in Numbers
      BY <2>1, <1>1 DEF Blocks, Numbers
    <2>3. FirstMemory(n, b) = n + 1
      BY <2>2 DEF FirstMemory
    <2>. QED  BY <1>4, <2>2, <2>3
  <1>5. A \in Seq(H2dOps) /\ Len(A) = n
    <2>1. \A i \in 1 .. n : A[i] \in H2dOps
      BY <1>2, MoveFields
    <2>. QED  BY <1>1, <2>1
  <1>6. B \in Seq(H2dOps) /\ Len(B) = M
    <2>1. \A i \in 1 .. M : B[i] \in H2dOps
      BY <1>4, MoveFields
    <2>. QED  BY <1>1, <2>1
  <1>7. R \in Seq(H2dOps) /\ Len(R) = 1 /\ R[1] = Record(1)
    <2>1. Record(1) \in H2dOps
      BY Ops DEF Numbers
    <2>. QED  BY <2>1
  <1>8. MoveBlocks(n) = A \o B
    BY DEF MoveBlocks
  <1>. DEFINE H == (A \o B) \o R
  <1>. HIDE DEF A, B, R, M
  <1>9. /\ A \o B \in Seq(H2dOps) /\ Len(A \o B) = n + M
        /\ Appended(A, A \o B, B)
    BY <1>5, <1>6, ConcatProperties, ConcatAppends
  <1>10. /\ H \in Seq(H2dOps) /\ Len(H) = n + M + 1
         /\ Appended(A \o B, H, R)
    <2>. DEFINE AB == A \o B
    <2>1. AB \in Seq(H2dOps) /\ Len(AB) = n + M
      BY <1>9
    <2>. HIDE DEF AB
    <2>2. AB \o R \in Seq(H2dOps) /\ Len(AB \o R) = n + M + 1 /\ Appended(AB, AB \o R, R)
      BY <1>7, <2>1, ConcatProperties, ConcatAppends
    <2>. QED  BY <2>2 DEF AB
  <1>. HIDE DEF H
  <1>11. /\ DOMAIN H = 1 .. last + 1 /\ DOMAIN A = 1 .. n /\ DOMAIN B = 1 .. M
         /\ DOMAIN R = 1 .. 1
    BY <1>1, <1>5, <1>6, <1>7, <1>10, LenProperties
  <1>12. \A i \in 1 .. n : H[i] = A[i]
    BY <1>9, <1>10, <1>11 DEF Appended
  <1>13. \A i \in 1 .. M : H[n + i] = B[i]
    <2>1. \A i \in 1 .. M : n + i \in DOMAIN (A \o B) /\ (A \o B)[n + i] = B[i]
      BY <1>5, <1>9, <1>11 DEF Appended
    <2>. QED  BY <2>1, <1>10 DEF Appended
  <1>14. H[last + 1] = Record(1)
    <2>1. 1 \in DOMAIN R
      BY <1>11
    <2>2. H[(n + M) + 1] = R[1]
      BY <2>1, <1>9, <1>10 DEF Appended
    <2>. QED  BY <2>2, <1>1, <1>7
  <1>15. ASSUME NEW b \in n .. NumBlocks - 1
         PROVE  H[2 * b - n + 1] = Load(b, n + 1) /\ H[2 * b - n + 2] = Save(b, n + 1)
    <2>. DEFINE i == 2 * (b - n) + 1
                j == 2 * (b - n) + 2
    <2>1. /\ i \in 1 .. M /\ i % 2 = 1 /\ n + (i - 1) \div 2 = b /\ n + i = 2 * b - n + 1
          /\ j \in 1 .. M /\ j % 2 # 1 /\ n + (j - 1) \div 2 = b /\ n + j = 2 * b - n + 2
      BY <1>1 DEF M
    <2>. HIDE DEF i, j
    <2>2. B[i] = Load(b, n + 1) /\ B[j] = Save(b, n + 1)
      BY <2>1, <1>4
    <2>. QED  BY <2>1, <2>2, <1>13
  <1>16. ASSUME NEW p \in n + 1 .. last
         PROVE  \E b \in n .. NumBlocks - 1 : p \in {2 * b - n + 1, 2 * b - n + 2}
    <2>. DEFINE b == n + (p - n - 1) \div 2
    <2>1. b \in n .. NumBlocks - 1 /\ p \in {2 * b - n + 1, 2 * b - n + 2}
      BY <1>1
    <2>. QED  BY <2>1
  <1>17. Moved(n, H)
    BY <1>2, <1>10, <1>11, <1>12, <1>14, <1>15, <1>16 DEF Moved
  <1>. QED  BY <1>8, <1>17 DEF H, R

LEMMA InitTyped ==
  ASSUME Init
  PROVE  /\ reserved \in Blocks /\ Moved(reserved, queue["h2d"])
         /\ queue["compute"] = <<Wait("h2d", 1)>> /\ queue["d2h"] = <<>>
         /\ queue \in [Streams -> Seq(ComputeOps \cup H2dOps)]
         /\ queue["compute"] \in Seq(ComputeOps) /\ queue["d2h"] \in Seq(Records)
         /\ Memory = 1 .. reserved + 1 /\ content \in Seq(Blocks \cup {Nobody})
         /\ \A m \in Memory : content[m] = Nobody
         /\ storage = [b \in Blocks |-> IF b < reserved THEN b + 1 ELSE 0]
         /\ free = {reserved + 1} /\ pinned = [b \in Blocks |-> Nobody]
         /\ recorded = [s \in Streams |-> IF s = "h2d" THEN 1 ELSE 0]
         /\ reached = [s \in Streams |-> 0] /\ event = [b \in Blocks |-> 0]
         /\ phase = "idle" /\ block = 0 /\ passes = 0
         /\ loaded = {} /\ raises = 0 /\ skipped = FALSE
  <1>. USE DEF Streams
  <1>1. PICK n \in Blocks : EnableOffload(n)
    BY DEF Init
  <1>2. /\ reserved = n /\ n \in Nat /\ NumBlocks \in Nat /\ n < NumBlocks
        /\ free = {n + 1} /\ pinned = [b \in Blocks |-> Nobody]
        /\ content = [m \in 1 .. n + 1 |-> Nobody]
        /\ recorded = [s \in Streams |-> IF s = "h2d" THEN 1 ELSE 0]
        /\ reached = [s \in Streams |-> 0] /\ event = [b \in Blocks |-> 0]
    BY <1>1, OffloadAssumption DEF EnableOffload, Blocks
  <1>3. /\ content \in Seq(Blocks \cup {Nobody}) /\ Memory = 1 .. n + 1
        /\ \A m \in Memory : content[m] = Nobody
    BY <1>2 DEF Memory
  <1>4. storage = [b \in Blocks |-> IF b < reserved THEN b + 1 ELSE 0]
    <2>1. storage = [b \in Blocks |-> IF b < n THEN FirstMemory(n, b) ELSE 0]
      BY <1>1 DEF EnableOffload
    <2>2. \A b \in Blocks : (IF b < n THEN FirstMemory(n, b) ELSE 0) = IF b < n THEN b + 1 ELSE 0
      BY DEF FirstMemory
    <2>. QED  BY <2>1, <2>2, <1>2
  <1>5. PICK H : H = MoveBlocks(n) \o <<Record(1)>>
    OBVIOUS
  <1>6. Moved(n, H) /\ H \in Seq(H2dOps)
    BY <1>5, Moves DEF Moved
  <1>7. queue = [compute |-> <<Wait("h2d", 1)>>, h2d |-> H, d2h |-> <<>>]
    BY <1>1, <1>5 DEF EnableOffload
  <1>8. <<Wait("h2d", 1)>> \in Seq(ComputeOps) /\ <<>> \in Seq(Records)
    <2>1. Wait("h2d", 1) \in ComputeOps
      BY Ops DEF Numbers
    <2>. QED  BY <2>1
  <1>9. queue \in [Streams -> Seq(ComputeOps \cup H2dOps)]
    <2>1. /\ ComputeOps \subseteq ComputeOps \cup H2dOps /\ H2dOps \subseteq ComputeOps \cup H2dOps
          /\ Records \subseteq ComputeOps \cup H2dOps
      BY DEF ComputeOps
    <2>2. /\ <<Wait("h2d", 1)>> \in Seq(ComputeOps \cup H2dOps)
          /\ H \in Seq(ComputeOps \cup H2dOps) /\ <<>> \in Seq(ComputeOps \cup H2dOps)
      BY <2>1, <1>6, <1>8, SeqMonotonic
    <2>3. ASSUME NEW T, NEW x \in T, NEW y \in T, NEW z \in T
          PROVE  [compute |-> x, h2d |-> y, d2h |-> z] \in [Streams -> T]
      OBVIOUS
    <2>. QED  BY <2>2, <2>3, <1>7
  <1>10. /\ phase = "idle" /\ block = 0 /\ passes = 0
         /\ loaded = {} /\ raises = 0 /\ skipped = FALSE
    BY DEF Init
  <1>. QED  BY <1>2, <1>3, <1>4, <1>6, <1>7, <1>8, <1>9, <1>10

(* What the entries of that queue are. *)
LEMMA MovedKinds ==
  ASSUME NEW n \in Blocks, NEW H, Moved(n, H)
  PROVE  LET last == 2 * NumBlocks - n
         IN /\ last + 1 \in DOMAIN H /\ H[last + 1] = Record(1)
            /\ \A p \in DOMAIN H :
                 /\ H[p].kind \in {"load", "save", "record"}
                 /\ H[p].kind = "record" => p = last + 1 /\ H[p].number = 1
                 /\ H[p].kind \in {"load", "save"} =>
                      /\ p \in Nat /\ p < last + 1 /\ H[p].at \in 1 .. n + 1
                      /\ H[p].at <= n => p = H[p].at /\ H[p].block = p - 1
                 /\ H[p].kind = "save" =>
                      /\ p \in Nat /\ p > 1 /\ p - 1 \in DOMAIN H
                      /\ H[p - 1].kind = "load" /\ H[p - 1].block = H[p].block
                      /\ H[p - 1].at = H[p].at
            /\ \A b \in Blocks : b >= n =>
                 \E p \in DOMAIN H : H[p].kind = "save" /\ H[p].block = b
            /\ \A b \in Blocks : b < n =>
                 b + 1 \in DOMAIN H /\ H[b + 1].kind = "load" /\ H[b + 1].at = b + 1
  <1>. DEFINE last == 2 * NumBlocks - n
  <1>1. n \in Nat /\ NumBlocks \in Nat /\ n < NumBlocks /\ last \in Nat /\ n < last
    BY OffloadAssumption DEF Blocks
  <1>2. /\ H \in Seq(H2dOps) /\ DOMAIN H = 1 .. last + 1
        /\ \A p \in 1 .. n : H[p] = Load(p - 1, p)
        /\ \A b \in n .. NumBlocks - 1 : /\ H[2 * b - n + 1] = Load(b, n + 1)
                                         /\ H[2 * b - n + 2] = Save(b, n + 1)
        /\ \A p \in n + 1 .. last : \E b \in n .. NumBlocks - 1 : p \in {2 * b - n + 1, 2 * b - n + 2}
        /\ H[last + 1] = Record(1)
    BY DEF Moved
  <1>3. last + 1 \in DOMAIN H
    BY <1>1, <1>2
  <1>4. ASSUME NEW p \in 1 .. n
        PROVE  /\ H[p].kind = "load" /\ H[p].at = p /\ H[p].block = p - 1
               /\ p \in Nat /\ p < last + 1 /\ p \in 1 .. n + 1
    BY <1>1, <1>2, MoveFields
  <1>5. ASSUME NEW b \in n .. NumBlocks - 1
        PROVE  /\ 2 * b - n + 1 \in DOMAIN H /\ 2 * b - n + 2 \in DOMAIN H
               /\ 2 * b - n + 2 < last + 1 /\ b \in Int
               /\ H[2 * b - n + 1].kind = "load" /\ H[2 * b - n + 1].block = b
               /\ H[2 * b - n + 1].at = n + 1
               /\ H[2 * b - n + 2].kind = "save" /\ H[2 * b - n + 2].block = b
               /\ H[2 * b - n + 2].at = n + 1
    <2>1. /\ 2 * b - n + 1 \in 1 .. last + 1 /\ 2 * b - n + 2 \in 1 .. last + 1
          /\ 2 * b - n + 2 < last + 1
      BY <1>1
    <2>. QED  BY <2>1, <1>2, MoveFields
  <1>6. ASSUME NEW p \in n + 1 .. last
        PROVE  /\ H[p].kind \in {"load", "save"} /\ H[p].at = n + 1
               /\ p \in Nat /\ p < last + 1 /\ n + 1 \in 1 .. n + 1 /\ ~ n + 1 <= n
               /\ H[p].kind = "save" =>
                    /\ p > 1 /\ p - 1 \in DOMAIN H
                    /\ H[p - 1].kind = "load" /\ H[p - 1].block = H[p].block
                    /\ H[p - 1].at = H[p].at
    <2>1. PICK b \in n .. NumBlocks - 1 : p = 2 * b - n + 1 \/ p = 2 * b - n + 2
      BY <1>2
    <2>2. p \in Nat /\ p < last + 1 /\ n + 1 \in 1 .. n + 1 /\ ~ n + 1 <= n
      BY <1>1
    <2>3. CASE p = 2 * b - n + 1
      BY <2>2, <2>3, <1>5
    <2>4. CASE p = 2 * b - n + 2
      <3>1. p - 1 = 2 * b - n + 1 /\ p > 1
        BY <2>4, <1>1
      <3>. QED  BY <2>2, <2>4, <3>1, <1>5
    <2>. QED  BY <2>1, <2>3, <2>4
  <1>7. H[last + 1].kind = "record" /\ H[last + 1].number = 1
    BY <1>2, RecordFields
  <1>8. \A p \in DOMAIN H : p \in 1 .. n \/ p \in n + 1 .. last \/ p = last + 1
    BY <1>1, <1>2
  <1>9. ASSUME NEW p \in DOMAIN H
        PROVE  /\ H[p].kind \in {"load", "save", "record"}
               /\ H[p].kind = "record" => p = last + 1 /\ H[p].number = 1
               /\ H[p].kind \in {"load", "save"} =>
                    /\ p \in Nat /\ p < last + 1 /\ H[p].at \in 1 .. n + 1
                    /\ H[p].at <= n => p = H[p].at /\ H[p].block = p - 1
               /\ H[p].kind = "save" =>
                    /\ p \in Nat /\ p > 1 /\ p - 1 \in DOMAIN H
                    /\ H[p - 1].kind = "load" /\ H[p - 1].block = H[p].block
                    /\ H[p - 1].at = H[p].at
    <2>1. CASE p \in 1 .. n
      BY <2>1, <1>4
    <2>2. CASE p \in n + 1 .. last
      BY <2>2, <1>6
    <2>3. CASE p = last + 1
      BY <2>3, <1>7
    <2>. QED  BY <2>1, <2>2, <2>3, <1>8
  <1>10. ASSUME NEW b \in Blocks, b >= n
         PROVE  \E p \in DOMAIN H : H[p].kind = "save" /\ H[p].block = b
    <2>1. b \in n .. NumBlocks - 1
      BY <1>1, <1>10 DEF Blocks
    <2>. QED  BY <2>1, <1>5
  <1>11. ASSUME NEW b \in Blocks, b < n
         PROVE  b + 1 \in DOMAIN H /\ H[b + 1].kind = "load" /\ H[b + 1].at = b + 1
    <2>1. b + 1 \in 1 .. n /\ b + 1 \in 1 .. last + 1
      BY <1>1, <1>11 DEF Blocks
    <2>. QED  BY <2>1, <1>2, <1>4
  <1>. QED  BY <1>2, <1>3, <1>9, <1>10, <1>11

LEMMA InitKeeps ==
  ASSUME Init
  PROVE  IInv
  <1>. USE DEF Streams
  <1>. DEFINE n == reserved
              H == queue["h2d"]
              Q == queue["compute"]
              last == 2 * NumBlocks - n
  <1>1. /\ n \in Blocks /\ Moved(n, H)
        /\ Q = <<Wait("h2d", 1)>> /\ queue["d2h"] = <<>>
        /\ queue \in [Streams -> Seq(ComputeOps \cup H2dOps)]
        /\ Q \in Seq(ComputeOps) /\ queue["d2h"] \in Seq(Records)
        /\ Memory = 1 .. n + 1 /\ content \in Seq(Blocks \cup {Nobody})
        /\ \A m \in Memory : content[m] = Nobody
        /\ storage = [b \in Blocks |-> IF b < n THEN b + 1 ELSE 0]
        /\ free = {n + 1} /\ pinned = [b \in Blocks |-> Nobody]
        /\ recorded = [s \in Streams |-> IF s = "h2d" THEN 1 ELSE 0]
        /\ reached = [s \in Streams |-> 0] /\ event = [b \in Blocks |-> 0]
        /\ phase = "idle" /\ block = 0 /\ passes = 0
        /\ loaded = {} /\ raises = 0 /\ skipped = FALSE
    BY InitTyped
  <1>2. n \in Nat /\ NumBlocks \in Nat /\ n < NumBlocks /\ Blocks \subseteq Nat /\ 0 \in Blocks
    BY <1>1, OffloadAssumption DEF Blocks
  <1>3. H \in Seq(H2dOps)
    BY <1>1 DEF Moved
  <1>4. /\ DOMAIN Q = 1 .. 1 /\ Q[1] = Wait("h2d", 1) /\ Q # <<>>
        /\ DOMAIN queue["d2h"] = {}
    BY <1>1
  <1>5. /\ Q[1].kind = "wait" /\ IsWait("compute", 1, "h2d", 1)
        /\ \A i \in DOMAIN Q : Q[i].kind = "wait"
    <2>1. \A i \in DOMAIN Q : i = 1
      BY <1>4
    <2>. QED  BY <2>1, <1>4, OpFields DEF IsWait
  <1>6. TypeOK
    <2>1. passes \in 0 .. MaxPasses /\ raises \in 0 .. MaxRaises
      BY <1>1, OffloadAssumption
    <2>2. storage \in [Blocks -> Memory \cup {0}]
      BY <1>1, <1>2
    <2>3. event \in [Blocks -> 0 .. recorded["h2d"]]
      BY <1>1
    <2>4. ASSUME NEW b \in Blocks, NEW e \in Blocks, storage[b] # 0
          PROVE  storage[b] \notin free /\ (b # e => storage[e] # storage[b])
      BY <2>4, <1>1, <1>2
    <2>5. free \subseteq Memory
      BY <1>1, <1>2
    <2>. QED  BY <2>1, <2>2, <2>3, <2>4, <2>5, <1>1, <1>2 DEF TypeOK, Nobody
  <1>7. QueueTyped
    BY <1>1, <1>3 DEF QueueTyped
  <1>8. /\ last + 1 \in DOMAIN H /\ H[last + 1] = Record(1)
        /\ \A p \in DOMAIN H :
             /\ H[p].kind \in {"load", "save", "record"}
             /\ H[p].kind = "record" => p = last + 1 /\ H[p].number = 1
             /\ H[p].kind \in {"load", "save"} =>
                  /\ p \in Nat /\ p < last + 1 /\ H[p].at \in 1 .. n + 1
                  /\ H[p].at <= n => p = H[p].at /\ H[p].block = p - 1
             /\ H[p].kind = "save" =>
                  /\ p \in Nat /\ p > 1 /\ p - 1 \in DOMAIN H
                  /\ H[p - 1].kind = "load" /\ H[p - 1].block = H[p].block
                  /\ H[p - 1].at = H[p].at
        /\ \A b \in Blocks : b >= n =>
             \E p \in DOMAIN H : H[p].kind = "save" /\ H[p].block = b
        /\ \A b \in Blocks : b < n =>
             b + 1 \in DOMAIN H /\ H[b + 1].kind = "load" /\ H[b + 1].at = b + 1
    BY <1>1, MovedKinds
  <1>9. Numbered
    <2>1. ASSUME NEW s \in Streams, NEW i \in DOMAIN queue[s], queue[s][i].kind = "record"
          PROVE  s = "h2d" /\ i = last + 1 /\ queue[s][i].number = 1
      BY <2>1, <1>4, <1>5, <1>8
    <2>2. last + 1 \in Int
      BY <1>2
    <2>3. \A s \in Streams : reached[s] = 0 /\ recorded[s] >= 0
      BY <1>1
    <2>4. recorded["h2d"] = 1
      BY <1>1
    <2>5. \A p \in DOMAIN H : H[p].kind # "wait"
      BY <1>8
    <2>. QED  BY <2>1, <2>2, <2>3, <2>4, <2>5 DEF Numbered
  <1>10. Addressed
    BY <1>1, <1>5, <1>8 DEF Addressed
  <1>11. SavedFirst
    <2>1. \A p \in DOMAIN H : H[p].kind = "save" =>
            LET op == H[p]
            IN IF p = 1 THEN content[op.at] = op.block
               ELSE LET previous == H[p - 1]
                    IN previous.kind = "load" /\ previous.block = op.block /\ previous.at = op.at
      BY <1>8
    <2>2. \A p \in DOMAIN H : H[p].kind # "copy"
      BY <1>8
    <2>. QED  BY <2>1, <2>2, <1>8 DEF SavedFirst
  <1>12. Awaited
    BY <1>1, <1>4, <1>5 DEF Awaited
  <1>13. LoadedAhead
    BY <1>1, <1>2 DEF LoadedAhead, InPass
  <1>14. Accounted
    <2>1. ASSUME NEW m \in Memory, m \notin free
          PROVE  \E b \in Blocks : storage[b] = m
      <3>1. m - 1 \in Blocks /\ m - 1 < n /\ (m - 1) + 1 = m
        BY <2>1, <1>1, <1>2 DEF Blocks
      <3>. QED  BY <3>1, <1>1
    <2>. QED  BY <2>1, <1>1 DEF Accounted
  <1>15. MemoryBounded
    <2>1. Cardinality(1 .. n + 1) = n + 1
      <3>1. 1 \in Int /\ n + 1 \in Int /\ ~ 1 > n + 1 /\ n + 1 - 1 + 1 = n + 1
        BY <1>2
      <3>. QED  BY <3>1, FS_Interval
    <2>2. n + 1 <= 2 * n + 1 /\ n + 1 <= NumBlocks /\ n + 1 \in Int /\ 2 * n + 1 \in Int
      BY <1>2
    <2>3. n + 1 <= Min({2 * n + 1, NumBlocks})
      BY <2>2, <1>2, BelowMin
    <2>4. n + 1 <= NumBlocks + 1
      BY <2>2, <1>2
    <2>5. Cardinality(Memory) = n + 1 /\ reserved = n
      BY <2>1, <1>1
    <2>. QED  BY <2>3, <2>4, <2>5 DEF MemoryBounded
  <1>16. StorageFilled
    <2>1. ASSUME NEW b \in Blocks, Trusted(b)
          PROVE  Filled(b)
      <3>1. b < n /\ storage[b] = b + 1 /\ b \in Nat /\ b + 1 <= n
        BY <2>1, <1>1, <1>2 DEF Trusted
      <3>2. Writes(b + 1) = {b + 1}
        <4>1. \A p \in DOMAIN H : H[p].kind \in {"load", "copy"} /\ H[p].at = b + 1 => p = b + 1
          BY <3>1, <1>8
        <4>2. b + 1 \in DOMAIN H /\ H[b + 1].kind = "load" /\ H[b + 1].at = b + 1
          BY <3>1, <1>8
        <4>. QED  BY <4>1, <4>2 DEF Writes
      <3>3. H[b + 1].block = b
        BY <3>1, <1>8
      <3>4. b + 1 < last + 1
        BY <3>1, <1>8
      <3>5. IsRecord("h2d", last + 1, Complete(b))
        BY <1>1, <1>8, RecordFields DEF IsRecord, Complete
      <3>. QED  BY <3>1, <3>2, <3>3, <3>4, <3>5, <1>8 DEF Filled, Fills
    <2>. QED  BY <2>1 DEF StorageFilled
  <1>17. KernelsRight
    BY <1>5 DEF KernelsRight
  <1>. QED
    BY <1>6, <1>7, <1>9, <1>10, <1>11, <1>12, <1>13, <1>14, <1>15, <1>16, <1>17 DEF IInv

LEMMA Inductive == Spec => []IInv
  <1>1. IInv /\ [Next]_vars => IInv'
    BY Step, Stutters
  <1>. QED  BY InitKeeps, <1>1, PTL DEF Spec

(* What the invariant says of the kernels the caller's stream comes to: nothing in front
   of them is left to wait for, so that no copy into their memory is still to come. *)
LEMMA NextIsRight ==
  ASSUME IInv
  PROVE  ComputesOnItsWeights
  <1>. USE DEF Streams
  <1>. DEFINE Q == queue["compute"]
  <1>1. TypeOK /\ QueueTyped /\ LoadedAhead /\ KernelsRight
    BY DEF IInv
  <1>2. ASSUME Undisturbed, Q # <<>>, Head(Q).kind = "kernel"
        PROVE  content[Head(Q).at] = Head(Q).block
    <2>1. 1 \in DOMAIN Q /\ Head(Q) = Q[1]
      <3>1. Q \in Seq(ComputeOps)
        BY <1>1 DEF QueueTyped
      <3>. QED  BY <3>1, <1>2, EmptySeq, LenProperties
    <2>2. KernelRight(1)
      BY <2>1, <1>1, <1>2 DEF KernelsRight
    <2>3. \A p : ~Before(p, 1)
      <3>1. \A j \in DOMAIN Q : ~ j < 1
        BY <1>1, Entries
      <3>. QED  BY <3>1 DEF Before
    <2>4. Early(1, Q[1].at) = {}
      BY <2>2, <2>3 DEF KernelRight
    <2>5. Fills(Early(1, Q[1].at), Q[1].at, Q[1].block)
      BY <2>2 DEF KernelRight
    <2>. QED  BY <2>1, <2>4, <2>5 DEF Fills
  <1>3. ASSUME phase = "forward", Due(block)
        PROVE  storage[block] # 0
    <2>1. block \in Blocks /\ block \in Nat
      BY <1>1 DEF TypeOK, Blocks
    <2>. QED  BY <2>1, <1>1, <1>3 DEF Due, LoadedAhead, InPass
  <1>. QED  BY <1>2, <1>3 DEF ComputesOnItsWeights, NextKernelRight, Undisturbed

(* TypeOK of Offload, of every variable, for any number of blocks, passes and failures:
   among the rest, no two blocks have the same memory and none has memory that the
   hooks have given back (offload.py resizes storages without asking whose they are). *)
THEOREM TypeCorrect == Spec => []TypeOK
  <1>1. IInv => TypeOK
    BY DEF IInv
  <1>. QED  BY <1>1, Inductive, PTL

(* ComputesOnItsWeights: wherever the three streams are, the kernels of a block run on
   the weights of that block. parameter_to_device_hook waits on either side: the copies for
   the kernels that still read the memory they overwrite, and the kernels for the
   copies.  It holds if no pass has raised or no block has been skipped. *)
THEOREM ComputesRight == Spec => []ComputesOnItsWeights
  <1>. QED  BY Inductive, NextIsRight, PTL

(* MemoryBounded: while blocks are called one after the other and no pass has raised, the
   reserved blocks, as many that are loaded ahead and one more, or the whole model if that
   is less, is all the memory the hooks ever ask the device for (offload.py:30).  However
   many passes raise and blocks are skipped, it is never more than all blocks and one,
   for memory is asked for only when every piece there is belongs to a block. *)
THEOREM Bounded == Spec => []MemoryBounded
  <1>1. IInv => MemoryBounded
    BY DEF IInv
  <1>. QED  BY <1>1, Inductive, PTL
=============================================================================
