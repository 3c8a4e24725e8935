----------------------------- MODULE ShareMemory ------------------------------
(***************************************************************************)
(* mindiesd/share_memory.py: instances on one device share the memory of   *)
(* the weights of a model.  The master, instance 0, moves one parameter    *)
(* after another to the device and sends its handle to the others.         *)
(*                                                                         *)
(* Before every handle each child sends READY over REQ/REP and waits for   *)
(* ACK, without a limit.  The handle goes over PUB/SUB: a child gets those *)
(* that are published once its subscription has reached the master, which  *)
(* zmq does some time after connect has returned; what was published       *)
(* before is lost to it.  The master waits 10 s for the next READY, a      *)
(* child 5 s for a handle; then they raise TimeoutError.                   *)
(*                                                                         *)
(* Every instance has called init_share_memory, and calls share_memory     *)
(* with the device.  Its model may be there already, in which case the     *)
(* call does nothing.  A call that has raised may be repeated.  Buffers    *)
(* count as parameters.                                                    *)
(***************************************************************************)
EXTENDS Integers, Sequences, FiniteSets

CONSTANTS
  WorldSize,      \* instance_world_size
  NumParameters,  \* parameters and buffers of the model
  MaxRetries      \* bound on the calls that are repeated

ASSUME ShareMemoryAssumption ==
  /\ WorldSize \in Nat \ {0} /\ NumParameters \in Nat \ {0}
  /\ MaxRetries \in Nat

Instances == 0 .. WorldSize - 1
Master == 0
Children == Instances \ {Master}

VARIABLES
  pc,           \* where an instance is in share_memory, "out" before its call
  moved,        \* how many parameters of an instance are on the device, in their order
  ready_count,
  waiting,      \* children whose READY has not been received
  acked,        \* children whose ACK has not been received
  published,    \* handles the master has sent
  joined,       \* children whose subscription is in effect
  inbox,        \* handles a child has not received
  own,          \* the handles a child has built its parameters on
  retries       \* calls that have been repeated (history)

vars == <<pc, moved, ready_count, waiting, acked, published, joined, inbox, own, retries>>

Init ==
  /\ pc = [i \in Instances |-> "out"]
  /\ moved \in [Instances -> {0, NumParameters}]
  /\ ready_count = 0 /\ published = 0
  /\ waiting = {} /\ acked = {} /\ joined = {}
  /\ inbox = [c \in Children |-> <<>>]
  /\ own = [c \in Children |-> <<>>]
  /\ retries = 0

Goto(i, label) == pc' = [pc EXCEPT ![i] = label]

-----------------------------------------------------------------------------
(* share_memory looks at the first parameter alone. *)
FallsBack(i) == moved[i] > 0

FirstStep(i) == IF i = Master THEN "move" ELSE "ready"

Call(i) ==
  /\ \/ pc[i] = "out" /\ UNCHANGED retries
     \/ pc[i] = "raised" /\ retries < MaxRetries /\ retries' = retries + 1
  /\ Goto(i, IF FallsBack(i) THEN "returned" ELSE FirstStep(i))
  /\ UNCHANGED <<moved, ready_count, waiting, acked, published, joined, inbox, own>>

-----------------------------------------------------------------------------
(* broadcast_handle of the master. *)
MoveParameter ==
  /\ pc[Master] = "move"
  /\ moved' = [moved EXCEPT ![Master] = @ + 1]
  /\ ready_count' = 0
  /\ Goto(Master, "count")
  /\ UNCHANGED <<waiting, acked, published, joined, inbox, own, retries>>

AllButOne == ready_count < WorldSize - 2
OneTooMany == ready_count < WorldSize
Missing == ready_count < WorldSize - 1

CountReady ==
  /\ pc[Master] = "count" /\ Missing
  /\ \E c \in waiting :
       /\ waiting' = waiting \ {c}
       /\ acked' = acked \cup {c}
  /\ ready_count' = ready_count + 1
  /\ UNCHANGED <<pc, moved, published, joined, inbox, own, retries>>

WaitsWithoutLimit ==
  /\ pc[Master] = "count" /\ Missing
  /\ UNCHANGED vars

MasterTimesOut ==
  /\ pc[Master] = "count" /\ Missing
  /\ waiting = {}
  /\ Goto(Master, "raised")
  /\ UNCHANGED <<moved, ready_count, waiting, acked, published, joined, inbox, own, retries>>

PublishHandle ==
  /\ pc[Master] = "count" /\ ~Missing
  /\ published' = published + 1
  /\ inbox' = [c \in Children |-> IF c \in joined THEN Append(inbox[c], moved[Master])
                                  ELSE inbox[c]]
  /\ Goto(Master, IF moved[Master] = NumParameters THEN "returned" ELSE "move")
  /\ UNCHANGED <<moved, ready_count, waiting, acked, joined, own, retries>>

-----------------------------------------------------------------------------
(* broadcast_handle of a child, and the tensor it builds on the handle. *)
SendReady(c) ==
  /\ pc[c] = "ready"
  /\ waiting' = waiting \cup {c}
  /\ Goto(c, "ack")
  /\ UNCHANGED <<moved, ready_count, acked, published, joined, inbox, own, retries>>

ReceiveAck(c) ==
  /\ pc[c] = "ack" /\ c \in acked
  /\ acked' = acked \ {c}
  /\ Goto(c, "handle")
  /\ UNCHANGED <<moved, ready_count, waiting, published, joined, inbox, own, retries>>

ReceiveHandle(c) ==
  /\ pc[c] = "handle" /\ inbox[c] # <<>>
  /\ inbox' = [inbox EXCEPT ![c] = Tail(@)]
  /\ own' = [own EXCEPT ![c] = Append(@, Head(inbox[c]))]
  /\ moved' = [moved EXCEPT ![c] = @ + 1]
  /\ Goto(c, IF moved[c] + 1 = NumParameters THEN "returned" ELSE "ready")
  /\ UNCHANGED <<ready_count, waiting, acked, published, joined, retries>>

ChildTimesOut(c) ==
  /\ pc[c] = "handle" /\ inbox[c] = <<>>
  /\ Goto(c, "raised")
  /\ UNCHANGED <<moved, ready_count, waiting, acked, published, joined, inbox, own, retries>>

(* The subscription of a child reaches the master. *)
Join(c) ==
  /\ c \notin joined
  /\ joined' = joined \cup {c}
  /\ UNCHANGED <<pc, moved, ready_count, waiting, acked, published, inbox, own, retries>>

-----------------------------------------------------------------------------
MasterStep == MoveParameter \/ CountReady \/ MasterTimesOut \/ PublishHandle
ChildStep(c) == SendReady(c) \/ ReceiveAck(c) \/ ReceiveHandle(c) \/ ChildTimesOut(c)

Next ==
  \/ \E i \in Instances : Call(i)
  \/ MasterStep
  \/ \E c \in Children : ChildStep(c) \/ Join(c)

Spec == Init /\ [][Next]_vars

(* A process that is in a call is scheduled, and a time-out passes.  Nobody has to call. *)
FairSpec ==
  /\ Spec
  /\ WF_vars(MasterStep)
  /\ \A c \in Children : WF_vars(ChildStep(c))

-----------------------------------------------------------------------------
(* Every variable has its type. *)
TypeOK ==
  /\ pc \in [Instances -> {"out", "move", "count", "ready", "ack", "handle", "returned", "raised"}]
  /\ moved \in [Instances -> 0 .. NumParameters]
  /\ ready_count \in 0 .. WorldSize - 1
  /\ waiting \subseteq Children /\ acked \subseteq Children /\ joined \subseteq Children
  /\ published \in 0 .. moved[Master]
  /\ inbox \in [Children -> Seq(1 .. NumParameters)]
  /\ own \in [Children -> Seq(1 .. NumParameters)]
  /\ retries \in 0 .. MaxRetries

(* A child builds a parameter on the memory of that parameter, or on that of one as many
   places later as calls have been repeated: a subscription that comes late costs a
   TimeoutError, and a wrong weight only to those who call again. *)
SharesItsOwn ==
  \A c \in Children : \A k \in DOMAIN own[c] : own[c][k] - k \in 0 .. retries

(* Every call returns or raises, but that of a child whose READY the master is not there
   to take. *)
InCall(i) == pc[i] \notin {"out", "returned", "raised"}

CallsEnd ==
  \A i \in Instances : []<>(~InCall(i) \/ (pc[i] = "ack" /\ ~InCall(Master)))

(* share_memory.md:80: the master broadcasts the memory of the weights to the others. *)
MasterBroadcasts == pc[Master] = "returned" => published = NumParameters
=============================================================================
