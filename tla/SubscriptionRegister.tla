------------------------ MODULE SubscriptionRegister ------------------------
(***************************************************************************)
(* What the bookkeeping of subscription_manager.cpp promises: a register   *)
(* that remembers, per node, at most one of the subscriptions that are     *)
(* open.  A subscription is remembered in the step that opens it, is       *)
(* forgotten in the step that ends it, and the end of another subscription *)
(* of the same node leaves it alone.  A node may be forgotten early (the   *)
(* manager then opens a new subscription), never remembered wrongly.       *)
(***************************************************************************)
EXTENDS Naturals

CONSTANTS Nodes, Ids

VARIABLES
    open,   \* set of <<node, id>>: the subscriptions that are open
    held    \* node -> the id remembered, 0 for none

vars == <<open, held>>

Init == open = {} /\ held = [n \in Nodes |-> 0]

Open(n, i) ==
    /\ <<n, i>> \notin open
    /\ open' = open \cup {<<n, i>>}
    /\ held' \in {held, [held EXCEPT ![n] = i]}   \* held: no room for the node

End(n, i) ==
    /\ <<n, i>> \in open
    /\ open' = open \ {<<n, i>>}
    /\ held' = [held EXCEPT ![n] = IF @ = i THEN 0 ELSE @]

Forget(n) ==
    /\ held' = [held EXCEPT ![n] = 0]
    /\ UNCHANGED open

Next == \E n \in Nodes : Forget(n) \/ \E i \in Ids : Open(n, i) \/ End(n, i)

Spec == Init /\ [][Next]_vars
=============================================================================
