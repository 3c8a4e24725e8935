----------------------------- MODULE EplbReplica -----------------------------
(***************************************************************************)
(* What the load balancer promises the inference threads of the ranks:     *)
(* one sequence of layouts, which every rank applies in its order.  Ranks  *)
(* decide together that each of them takes one step; when a rank takes it  *)
(* is open, and so another rank may still route with the layout before.    *)
(* As long as no rank has lost a layout, the step is to the next one; a    *)
(* loss releases the ranks from that, but no rank goes back, or ahead of   *)
(* what has been computed.                                                 *)
(***************************************************************************)
EXTENDS Naturals

CONSTANT Ranks

VARIABLES
  layouts,  \* layouts computed so far
  map,      \* map[r]: the layout rank r routes with
  due,      \* due[r]: rank r has to take the step that was decided
  lossy     \* ranks that have lost a layout

vars == <<layouts, map, due, lossy>>

Init ==
  /\ layouts = 0
  /\ map = [r \in Ranks |-> 0]
  /\ due = [r \in Ranks |-> FALSE]
  /\ lossy = {}

Compute ==
  /\ layouts' = layouts + 1
  /\ UNCHANGED <<map, due, lossy>>

Lose(r) ==
  /\ lossy' = lossy \union {r}
  /\ UNCHANGED <<layouts, map, due>>

Decide ==
  /\ \A r \in Ranks : ~due[r]
  /\ lossy = {} => \A r \in Ranks : map[r] < layouts
  /\ due' = [r \in Ranks |-> TRUE]
  /\ UNCHANGED <<layouts, map, lossy>>

Switch(r) ==
  /\ due[r]
  /\ \E n \in map[r] .. layouts :
       /\ lossy = {} => n = map[r] + 1
       /\ map' = [map EXCEPT ![r] = n]
  /\ due' = [due EXCEPT ![r] = FALSE]
  /\ UNCHANGED <<layouts, lossy>>

Next ==
  \/ Compute
  \/ Decide
  \/ \E r \in Ranks : Lose(r) \/ Switch(r)

Spec == Init /\ [][Next]_vars
=============================================================================
