------------------------ MODULE MCSubscriptionManager ------------------------
(***************************************************************************)
(* SubscriptionManager for TLC, and what the documentation says of it that *)
(* the code does not do: each of these properties is refuted by a run.     *)
(***************************************************************************)
EXTENDS SubscriptionManager, FiniteSetsExt

-----------------------------------------------------------------------------
(* What the documentation says and the code does not do.                   *)

(* subscription_manager.h: a node that is already queued or in flight is   *)
(* not queued twice.                                                       *)
NotQueuedTwice ==
    [][\A n \in Nodes : queue' = Append(queue, n) =>
            /\ n \notin Elements(queue) \cup Elements(work)
            /\ Attempts(n) = 0]_vars

(* task-36: at most MAX_ATTEMPTS_IN_FLIGHT subscription attempts run.      *)
AtMostMaxInFlight == MapThenSumSet(Attempts, Nodes) <= MaxInFlight

(* The device manager's flag mirrors the manager's "so the UI can show it" *)
(* once no mirror call for the node is outstanding.                        *)
MirrorAgrees ==
    \A n \in devices :
        (\A t \in Tasks : {<<"hide", n>>, <<"show", n>>} \cap Elements(calls[t]) = {})
            => (n \in shown <=> n \in has)

(* subscription_manager.h: an ICD is not chased when an attempt fails; it  *)
(* gets a subscription when it next checks in.  (A run without Check-Ins.) *)
IcdNotChased ==
    [][\A n \in icd : ~(EnqueueNode("chip", n) /\ n \in pend' \ pend)]_vars

(* task-36: the tariff source's subscription includes the tariff path.     *)
TariffCovered ==
    \A n \in Nodes : (tariff = n /\ n \in has) ~>
        \/ tariff # n \/ n \notin has
        \/ \E s \in live : s.node = n /\ s.id = subId[n] /\ s.priced

(* web_server.c: a deleted device is not stuck forever re-subscribing.     *)
RemovedIsLeftAlone == \A n \in Nodes : (n \in removed) ~> [](Attempts(n) = 0)

(* task-36: slots are reclaimed after 90 s.                                *)
ExpiredSlotIsReclaimed == \A i \in Slots : (i \in expired) ~> (i \notin expired)
=============================================================================
