------------------------- MODULE SubscriptionManager -------------------------
(***************************************************************************)
(* firmware/main/managers/subscription_manager.cpp: the queue, the worker  *)
(* task and the bookkeeping that keep one Matter subscription open to      *)
(* every node the energy manager needs.                                    *)
(*                                                                         *)
(* Four FreeRTOS tasks run its code: "chip" (the Matter event loop: every  *)
(* subscription callback, the ICD Check-In callback, send_subscription and *)
(* the end of an interrogation), "worker" (subscription_task), "main"      *)
(* (the sweep of subscription_manager_start) and "http" (topology edits).  *)
(* One step of a task is one critical section of one mutex, one operation  *)
(* of the FreeRTOS queue or one call into esp-matter; calls[t] is what     *)
(* remains of the handler task t is in, as a sequence of <<call, node>>.   *)
(***************************************************************************)
EXTENDS Naturals, Sequences, FiniteSets

CONSTANTS
    Nodes,          \* Matter node ids
    NoNode,         \* node id 0: a free slot, no tariff source
    SleepyNodes,    \* nodes that registered us as their Check-In client
    Ids,            \* non-zero subscription ids, chosen by the device
    MeteredNodes,   \* nodes of the stored device list with an Electrical Sensor
    OtherNodes,     \* nodes of the stored device list without one
    TariffNode,     \* the tariff source the stored topology names, or NoNode
    MaxNodes,       \* MAX_NODES
    MaxInFlight,    \* MAX_ATTEMPTS_IN_FLIGHT
    QueueDepth,     \* SUBSCRIPTION_QUEUE_DEPTH
    SlowAttempts,   \* may an attempt still be running after ATTEMPT_TIMEOUT_MS?
    MaxFaults,      \* bound: failed calls and attempts lost without a callback
    MaxEvents       \* bound: ended subscriptions, Check-Ins, edits, interrogations

ASSUME ConstantsAssumption ==
    /\ NoNode \notin Nodes
    /\ SleepyNodes \subseteq Nodes
    /\ Ids \subseteq Nat \ {0}
    /\ MeteredNodes \subseteq Nodes
    /\ OtherNodes \subseteq Nodes
    /\ TariffNode \in Nodes \cup {NoNode}
    /\ MaxNodes \in Nat
    /\ MaxInFlight \in Nat \ {0}
    /\ QueueDepth \in Nat \ {0}
    /\ SlowAttempts \in BOOLEAN
    /\ MaxFaults \in Nat
    /\ MaxEvents \in Nat

VARIABLES
    tracked, has, pend, subId, icd,             \* s_nodes, under s_state_mutex
    slots, expired,                             \* s_slots, under s_slots_mutex
    queue,                                      \* s_queue
    work,                                       \* ScheduleWork's FIFO
    trying, lost, live,                         \* esp-matter: attempts, subscriptions
    devices, removed, sensors, shown, tariff,   \* device manager, tariff.cpp
    calls, left,                      \* control of the tasks
    faults, events                              \* used up of the bounds

tableVars  == <<tracked, has, pend, subId, icd>>
slotVars   == <<slots, expired>>
matterVars == <<work, trying, lost, live>>
deviceVars == <<devices, removed, sensors, shown, tariff>>
taskVars   == <<calls, left>>
bounds     == <<faults, events>>
vars == <<tableVars, slotVars, queue, matterVars, deviceVars, taskVars, bounds>>

Tasks == {"chip", "worker", "main", "http"}
Ops   == {"enqueue", "send", "clear", "hide", "show", "finish", "chase",
          "check", "claim", "release", "scan"}
Slots == 1..MaxInFlight
Elements(s) == {s[i] : i \in DOMAIN s}

TypeOK ==
    /\ tracked \subseteq Nodes
    /\ has \subseteq tracked
    /\ pend \subseteq tracked
    /\ icd \subseteq tracked
    /\ subId \in [Nodes -> Ids \cup {0}]
    /\ slots \in [Slots -> Nodes \cup {NoNode}]
    /\ expired \subseteq {i \in Slots : slots[i] # NoNode}
    /\ queue \in Seq(Nodes)
    /\ work \in Seq(Nodes)
    /\ trying \in [Nodes \X BOOLEAN -> Nat]
    /\ lost \in [Nodes -> Nat]
    /\ live \subseteq [node : Nodes, id : Ids, priced : BOOLEAN]
    /\ devices \subseteq Nodes
    /\ removed \subseteq Nodes
    /\ sensors \subseteq devices
    /\ shown \subseteq devices
    /\ tariff \in Nodes \cup {NoNode}
    /\ calls \in [Tasks -> Seq(Ops \X Nodes)]
    /\ left \in [{"worker", "main"} -> SUBSET Nodes]
    /\ faults \in Nat
    /\ events \in Nat

-----------------------------------------------------------------------------
(* The handlers: what a task is doing and what it does next.               *)

Doing(t, op, n) == calls[t] # <<>> /\ Head(calls[t]) = <<op, n>>
Continue(t, s)  == calls' = [calls EXCEPT ![t] = s \o Tail(@)]
Start(t, s)     == calls[t] = <<>> /\ calls' = [calls EXCEPT ![t] = s]

(* wanted_nodes: metered nodes and the tariff source. *)
Wanted == sensors \cup ({tariff} \ {NoNode})

(* find_node_locked(n, true): entries are never freed. *)
Track(n) == IF Cardinality(tracked) < MaxNodes THEN tracked \cup {n} ELSE tracked

(* Mutants of Matches: only id 0 is honoured; every id is.                 *)
MatchesZeroOnly(n, sid) == sid = 0
MatchesAnything(n, sid) == n \in Nodes

(* The id test of mark_node_has_no_subscription: 0 means "whatever it is". *)
Matches(n, sid) == sid = 0 \/ subId[n] = sid

(* The critical section of mark_node_has_no_subscription; the mirror call  *)
(* that follows it outside the lock is Hide, made if the node has an entry.*)
MarkNone(n) ==
    /\ has' = has \ {n}
    /\ pend' = pend \ {n}
    /\ subId' = [subId EXCEPT ![n] = 0]
    /\ UNCHANGED <<tracked, icd>>
Hide(n) == IF n \in tracked THEN << <<"hide", n>> >> ELSE <<>>

(* reclaim_expired_slots_locked and the scan after it hold s_slots_mutex.  *)
SlotsLocked == \E k \in DOMAIN calls["worker"] : calls["worker"][k][1] = "scan"

SlotsOf(n)   == {i \in Slots : slots[i] = n}
Lowest(i, I) == i \in I /\ \A j \in I : i <= j
FreeSlot(i) == /\ slots' = [slots EXCEPT ![i] = NoNode]
               /\ expired' = expired \ {i}

-----------------------------------------------------------------------------
(* Calls that any of the tasks makes.                                      *)

ClearNode(t, n) ==
    /\ Doing(t, "clear", n)
    /\ MarkNone(n)
    /\ Continue(t, Hide(n))
    /\ UNCHANGED <<slotVars, queue, matterVars, deviceVars, left, bounds>>

(* device_manager_mark_unsubscribed and device_manager_mark_subscribed *)
HideNode(t, n) ==
    /\ Doing(t, "hide", n)
    /\ shown' = shown \ {n}
    /\ Continue(t, <<>>)
    /\ UNCHANGED <<tableVars, slotVars, queue, matterVars, devices, removed, sensors,
                   tariff, left, bounds>>

(* Mutant of ShowNode: the device list is not looked up first.             *)
ShowNodeBlindly(t, n) ==
    /\ Doing(t, "show", n)
    /\ shown' = shown \cup {n}
    /\ Continue(t, <<>>)
    /\ UNCHANGED <<tableVars, slotVars, queue, matterVars, devices, removed, sensors,
                   tariff, left, bounds>>

ShowNode(t, n) ==
    /\ Doing(t, "show", n)
    /\ shown' = IF n \in devices THEN shown \cup {n} ELSE shown
    /\ Continue(t, <<>>)
    /\ UNCHANGED <<tableVars, slotVars, queue, matterVars, devices, removed, sensors,
                   tariff, left, bounds>>

(* subscription_attempt_finished: the first slot of the node, if it has one *)
FinishAttempt(t, n) ==
    /\ Doing(t, "finish", n)
    /\ ~SlotsLocked
    /\ \/ \E i \in Slots : Lowest(i, SlotsOf(n)) /\ FreeSlot(i)
       \/ SlotsOf(n) = {} /\ UNCHANGED slotVars
    /\ Continue(t, <<>>)
    /\ UNCHANGED <<tableVars, queue, matterVars, deviceVars, left, bounds>>

(* enqueue_subscription: its critical section, then the queue. *)
EnqueueNode(t, n) ==
    /\ Doing(t, "enqueue", n)
    /\ tracked' = Track(n)
    /\ IF n \in Track(n) \ pend
       THEN pend' = pend \cup {n} /\ Continue(t, << <<"send", n>> >>)
       ELSE UNCHANGED pend /\ Continue(t, <<>>)
    /\ UNCHANGED <<has, subId, icd, slotVars, queue, matterVars, deviceVars, left, bounds>>

SendToQueue(t, n) ==
    /\ Doing(t, "send", n)
    /\ \/ /\ Len(queue) < QueueDepth
          /\ queue' = Append(queue, n)
          /\ Continue(t, <<>>)
       \/ /\ Len(queue) >= QueueDepth
          /\ Continue(t, << <<"clear", n>> >>)
          /\ UNCHANGED queue
    /\ UNCHANGED <<tableVars, slotVars, matterVars, deviceVars, left, bounds>>

-----------------------------------------------------------------------------
(* The worker, and the sweep it shares with subscription_manager_start.    *)

(* SWEEP_INTERVAL_MS have passed when the worker is at the top of its loop. *)
StartSweep ==
    /\ calls["worker"] = <<>> /\ left["worker"] = {}
    /\ left' = [left EXCEPT !["worker"] = Wanted]
    /\ UNCHANGED <<tableVars, slotVars, queue, matterVars, deviceVars, calls, bounds>>

NeedsSubscription(n) == n \in Track(n) /\ n \notin icd \cup has \cup pend

SweepNode(t, n) ==
    /\ n \in left[t]
    /\ left' = [left EXCEPT ![t] = @ \ {n}]
    /\ tracked' = Track(n)
    /\ Start(t, IF NeedsSubscription(n) THEN << <<"enqueue", n>> >> ELSE <<>>)
    /\ UNCHANGED <<has, pend, subId, icd, slotVars, queue, matterVars, deviceVars, bounds>>

(* xQueueReceive, and whether the node is still wanted. *)
Receive ==
    /\ left["worker"] = {}
    /\ queue # <<>>
    /\ queue' = Tail(queue)
    /\ LET n == Head(queue) IN
         Start("worker", << <<IF n \in Wanted THEN "check" ELSE "clear", n>> >>)
    /\ UNCHANGED <<tableVars, slotVars, matterVars, deviceVars, left, bounds>>

CheckSubscribed(n) ==
    /\ Doing("worker", "check", n)
    /\ Continue("worker", IF n \in has THEN <<>> ELSE << <<"claim", n>> >>)
    /\ UNCHANGED <<tableVars, slotVars, queue, matterVars, deviceVars, left, bounds>>

Claiming(n) == Doing("worker", "claim", n) \/ Doing("worker", "scan", n)

(* Mutant of ReclaimSlot: claim_slot waits without reclaiming.             *)
NeverReclaimSlot(n) == Claiming(n) /\ FALSE /\ UNCHANGED vars

(* claim_slot finds an expired slot: reclaim_expired_slots_locked clears   *)
(* its node, mirrors that, and frees the slot, all under s_slots_mutex.    *)
ReclaimSlot(n) ==
    /\ Claiming(n)
    /\ \E i \in Slots : Lowest(i, expired) /\
         LET m == slots[i] IN
           /\ MarkNone(m)
           /\ Continue("worker", Hide(m) \o << <<"release", m>>, <<"scan", n>> >>)
    /\ UNCHANGED <<slotVars, queue, matterVars, deviceVars, left, bounds>>

ReleaseSlot(n) ==
    /\ Doing("worker", "release", n)
    /\ \E i \in Slots : Lowest(i, expired) /\ FreeSlot(i)
    /\ Continue("worker", <<>>)
    /\ UNCHANGED <<tableVars, queue, matterVars, deviceVars, left, bounds>>

(* claim_slot takes the first free slot, then ScheduleWork queues          *)
(* send_subscription or fails. While no slot is free and none has expired  *)
(* claim_slot polls: no step.                                              *)
ClaimSlot(n) ==
    /\ Claiming(n) /\ expired = {}
    /\ \E i \in Slots : /\ Lowest(i, SlotsOf(NoNode))
                        /\ slots' = [slots EXCEPT ![i] = n]
    /\ \/ /\ work' = Append(work, n)
          /\ Continue("worker", <<>>)
          /\ UNCHANGED faults
       \/ /\ faults < MaxFaults
          /\ faults' = faults + 1
          /\ Continue("worker", << <<"clear", n>>, <<"finish", n>> >>)
          /\ UNCHANGED work
    /\ UNCHANGED <<tableVars, expired, queue, trying, lost, live, deviceVars, left, events>>

Attempts(n) == trying[<<n, TRUE>>] + trying[<<n, FALSE>>]

(* No attempt at the node is running, or reported back a moment ago.       *)
AllResolved(n) ==
    /\ Attempts(n) = 0 /\ n \notin Elements(work)
    /\ <<"finish", n>> \notin Elements(calls["chip"]) \cup Elements(calls["worker"])

(* ATTEMPT_TIMEOUT_MS passes for a slot: its attempt was lost, or (a fault) *)
(* is still running.                                                       *)
Expire(i) ==
    /\ slots[i] # NoNode /\ i \notin expired /\ ~SlotsLocked
    /\ \/ AllResolved(slots[i]) /\ lost[slots[i]] > 0 /\ UNCHANGED faults
       \/ SlowAttempts /\ faults < MaxFaults /\ faults' = faults + 1
    /\ expired' = expired \cup {i}
    /\ UNCHANGED <<tableVars, slots, queue, matterVars, deviceVars, taskVars, events>>

-----------------------------------------------------------------------------
(* The Matter event loop: one handler at a time, run to its end.           *)

(* refresh_icd_flag: may be what creates the entry. *)
RefreshIcd(n) ==
    /\ tracked' = Track(n)
    /\ icd' = IF n \in SleepyNodes \cap Track(n) THEN icd \cup {n} ELSE icd \ {n}

(* Mutant of SendSubscription: the error path keeps the node pending.      *)
SendSubscriptionLeavesPending ==
    /\ work # <<>>
    /\ work' = Tail(work)
    /\ LET n == Head(work) IN
         /\ RefreshIcd(n)
         /\ \/ /\ trying' = [trying EXCEPT ![<<n, tariff = n>>] = @ + 1]
               /\ Start("chip", <<>>)
               /\ UNCHANGED faults
            \/ /\ faults < MaxFaults
               /\ faults' = faults + 1
               /\ Start("chip", << <<"finish", n>> >>)
               /\ UNCHANGED trying
    /\ UNCHANGED <<has, pend, subId, slotVars, queue, lost, live, deviceVars, left, events>>

(* send_subscription. The tariff paths are part of it if the node is the   *)
(* tariff source now. A failed allocation or send_command takes the second *)
(* branch: no callback follows.                                            *)
SendSubscription ==
    /\ work # <<>>
    /\ work' = Tail(work)
    /\ LET n == Head(work) IN
         /\ RefreshIcd(n)
         /\ \/ /\ trying' = [trying EXCEPT ![<<n, tariff = n>>] = @ + 1]
               /\ Start("chip", <<>>)
               /\ UNCHANGED faults
            \/ /\ faults < MaxFaults
               /\ faults' = faults + 1
               /\ Start("chip", << <<"clear", n>>, <<"finish", n>> >>)
               /\ UNCHANGED trying
    /\ UNCHANGED <<has, pend, subId, slotVars, queue, lost, live, deviceVars, left, events>>

EndAttempt(n, p) ==
    /\ trying[<<n, p>>] > 0
    /\ trying' = [trying EXCEPT ![<<n, p>>] = @ - 1]

(* node_subscription_established_cb *)
Established(n, p, i) ==
    /\ EndAttempt(n, p)
    /\ ~\E s \in live : s.node = n /\ s.id = i
    /\ live' = live \cup {[node |-> n, id |-> i, priced |-> p]}
    /\ tracked' = Track(n)
    /\ IF n \in Track(n)
       THEN /\ has' = has \cup {n}
            /\ pend' = pend \ {n}
            /\ subId' = [subId EXCEPT ![n] = i]
       ELSE UNCHANGED <<has, pend, subId>>
    /\ Start("chip", << <<"show", n>>, <<"finish", n>> >>)
    /\ UNCHANGED <<icd, slotVars, queue, work, lost, deviceVars, left, bounds>>

(* node_subscription_terminated_cb up to the end of its critical section. *)
TerminatedCallback(n, sid) ==
    IF n \in tracked /\ Matches(n, sid)
    THEN MarkNone(n) /\ Start("chip", << <<"hide", n>>, <<"finish", n>>, <<"enqueue", n>> >>)
    ELSE UNCHANGED tableVars /\ Start("chip", << <<"finish", n>> >>)

Event == events < MaxEvents /\ events' = events + 1

(* A subscription ends: the device went quiet, or replaced it. *)
Terminated(s) ==
    /\ Event
    /\ s \in live
    /\ live' = live \ {s}
    /\ TerminatedCallback(s.node, s.id)
    /\ UNCHANGED <<slotVars, queue, work, trying, lost, deviceVars, left, faults>>

(* An attempt connects but ends before it is established: reported as the  *)
(* termination of subscription id 0.                                       *)
EndedEarly(n, p) ==
    /\ EndAttempt(n, p)
    /\ TerminatedCallback(n, 0)
    /\ UNCHANGED <<slotVars, queue, work, lost, live, deviceVars, left, bounds>>

(* Mutant of ConnectFailed: the slot is not freed.                         *)
ConnectFailedKeepsSlot(n, p) ==
    /\ EndAttempt(n, p)
    /\ MarkNone(n)
    /\ Start("chip", Hide(n) \o << <<"chase", n>> >>)
    /\ UNCHANGED <<slotVars, queue, work, lost, live, deviceVars, left, bounds>>

(* node_subscribe_failed_cb: no session could be set up. *)
ConnectFailed(n, p) ==
    /\ EndAttempt(n, p)
    /\ MarkNone(n)
    /\ Start("chip", Hide(n) \o << <<"finish", n>>, <<"chase", n>> >>)
    /\ UNCHANGED <<slotVars, queue, work, lost, live, deviceVars, left, bounds>>

Chase(n) ==
    /\ Doing("chip", "chase", n)
    /\ RefreshIcd(n)
    /\ Continue("chip", IF n \in icd' THEN <<>> ELSE << <<"enqueue", n>> >>)
    /\ UNCHANGED <<has, pend, subId, slotVars, queue, matterVars, deviceVars, left, bounds>>

(* The session connects, the request cannot be sent, and esp-matter        *)
(* deletes the command without calling anything (ATTEMPT_TIMEOUT_MS).      *)
AttemptLost(n, p) ==
    /\ faults < MaxFaults
    /\ faults' = faults + 1
    /\ EndAttempt(n, p)
    /\ lost' = [lost EXCEPT ![n] = @ + 1]
    /\ UNCHANGED <<tableVars, slotVars, queue, work, live, deviceVars, taskVars, events>>

(* on_icd_checkin_callback *)
CheckIn(n) ==
    /\ Event
    /\ n \in SleepyNodes \cap Wanted
    /\ RefreshIcd(n)
    /\ Start("chip", << <<"clear", n>>, <<"enqueue", n>> >>)
    /\ UNCHANGED <<has, pend, subId, slotVars, queue, matterVars, deviceVars, left, faults>>

(* interrogate_node adds the device; node ids are never used again. *)
DeviceAdded(n) ==
    /\ Event
    /\ n \notin devices \cup removed
    /\ devices' = devices \cup {n}
    /\ UNCHANGED <<tableVars, slotVars, queue, matterVars, removed, sensors, shown, tariff,
                   taskVars, faults>>

(* on_interrogation_attr reports an Electrical Sensor endpoint *)
SensorFound(n) ==
    /\ Event
    /\ calls["chip"] = <<>>
    /\ n \in devices \ sensors
    /\ sensors' = sensors \cup {n}
    /\ UNCHANGED <<tableVars, slotVars, queue, matterVars, devices, removed, shown, tariff,
                   taskVars, faults>>

(* on_interrogation_done *)
Interrogated(n) ==
    /\ Event
    /\ n \in devices \cup removed
    /\ Start("chip", << <<"enqueue", n>> >>)
    /\ UNCHANGED <<tableVars, slotVars, queue, matterVars, deviceVars, left, faults>>

-----------------------------------------------------------------------------
(* HTTP handlers.                                                          *)

(* on_topology_changed after an edit that changes the tariff edge *)
AssignTariff(n) ==
    /\ Event
    /\ n \in (devices \cup {NoNode}) \ {tariff}
    /\ tariff' = n
    /\ Start("http", IF n = NoNode THEN <<>> ELSE << <<"enqueue", n>> >>)
    /\ UNCHANGED <<tableVars, slotVars, queue, matterVars, devices, removed, sensors, shown,
                   left, faults>>

(* device_manager_remove_device, at the end of device_delete_handler *)
RemoveDevice(n) ==
    /\ Event
    /\ calls["http"] = <<>>
    /\ n \in devices
    /\ devices' = devices \ {n}
    /\ sensors' = sensors \ {n}
    /\ shown' = shown \ {n}
    /\ removed' = removed \cup {n}
    /\ UNCHANGED <<tableVars, slotVars, queue, matterVars, tariff, taskVars, faults>>

(* device_manager_clear_device_endpoints, before a new interrogation *)
ClearEndpoints(n) ==
    /\ Event
    /\ calls["http"] = <<>>
    /\ n \in sensors
    /\ sensors' = sensors \ {n}
    /\ UNCHANGED <<tableVars, slotVars, queue, matterVars, devices, removed, shown, tariff,
                   taskVars, faults>>

-----------------------------------------------------------------------------
(* A boot: the device list and the tariff source are read back from flash; *)
(* subscription_manager_start has created the worker and begins its sweep. *)
Init ==
    /\ tracked = {} /\ has = {} /\ pend = {} /\ icd = {}
    /\ subId = [n \in Nodes |-> 0]
    /\ slots = [i \in Slots |-> NoNode]
    /\ expired = {}
    /\ queue = <<>> /\ work = <<>>
    /\ trying = [a \in Nodes \X BOOLEAN |-> 0]
    /\ lost = [n \in Nodes |-> 0]
    /\ live = {}
    /\ sensors = MeteredNodes
    /\ devices = MeteredNodes \cup OtherNodes
    /\ removed = {} /\ shown = {}
    /\ tariff = TariffNode
    /\ calls = [t \in Tasks |-> <<>>]
    /\ left = [t \in {"worker", "main"} |-> IF t = "main" THEN Wanted ELSE {}]
    /\ faults = 0 /\ events = 0

(* What task t does next of the handler it is in. *)
AnyCall(t) ==
    \E n \in Nodes :
        \/ ClearNode(t, n) \/ HideNode(t, n) \/ ShowNode(t, n) \/ FinishAttempt(t, n)
        \/ EnqueueNode(t, n) \/ SendToQueue(t, n)

Worker ==
    \/ AnyCall("worker")
    \/ StartSweep \/ Receive
    \/ \E n \in Nodes :
        \/ SweepNode("worker", n) \/ CheckSubscribed(n)
        \/ ReclaimSlot(n) \/ ReleaseSlot(n) \/ ClaimSlot(n)

Main == AnyCall("main") \/ \E n \in Nodes : SweepNode("main", n)

Http == AnyCall("http")

ChipHandler == AnyCall("chip") \/ \E n \in Nodes : Chase(n)

(* An attempt at node n reports back. *)
Outcome(n) ==
    \E p \in BOOLEAN :
        \/ ConnectFailed(n, p) \/ EndedEarly(n, p)
        \/ \E i \in Ids : Established(n, p, i)

Environment ==
    \E n \in Nodes :
        \/ \E p \in BOOLEAN : AttemptLost(n, p)
        \/ CheckIn(n) \/ DeviceAdded(n) \/ SensorFound(n) \/ Interrogated(n)
        \/ RemoveDevice(n) \/ ClearEndpoints(n)

Next ==
    \/ Worker \/ Main \/ Http \/ ChipHandler
    \/ SendSubscription
    \/ \E i \in Slots : Expire(i)
    \/ \E n \in Nodes : Outcome(n)
    \/ \E s \in live : Terminated(s)
    \/ \E n \in Nodes \cup {NoNode} : AssignTariff(n)
    \/ Environment

Spec == Init /\ [][Next]_vars

(* Fairness.  FreeRTOS runs every ready task, and no handler waits for     *)
(* another except for s_slots_mutex and a free slot (WF).  The worker      *)
(* looks for a due sweep and at its queue on every turn of its loop, and   *)
(* the Matter event loop drains its own queue in order (SF: they are       *)
(* enabled only between handlers).  An attempt that was not lost ends, at  *)
(* the latest by a timeout of the Matter stack; a clock passes 90 s.       *)
WorkerHandler ==
    \/ AnyCall("worker")
    \/ \E n \in Nodes :
        \/ SweepNode("worker", n) \/ CheckSubscribed(n)
        \/ ReclaimSlot(n) \/ ReleaseSlot(n) \/ ClaimSlot(n)

Fairness ==
    /\ WF_vars(WorkerHandler) /\ SF_vars(StartSweep) /\ SF_vars(Receive)
    /\ WF_vars(Main) /\ WF_vars(Http) /\ WF_vars(ChipHandler)
    /\ SF_vars(SendSubscription)
    /\ \A n \in Nodes : SF_vars(Outcome(n))
    /\ \A i \in Slots : WF_vars(Expire(i))

FairSpec == Spec /\ Fairness

-----------------------------------------------------------------------------
(* What holds.                                                             *)

(* A node believed subscribed is backed by a subscription that is open,    *)
(* under the id the manager remembers: no end of a subscription is missed, *)
(* whatever other attempts, Check-Ins and late terminations interleave.    *)
(* A phantom would never be retried: the sweep skips it, nothing ends it.  *)
NoPhantomSubscription ==
    \A n \in has : \E s \in live : s.node = n /\ s.id = subId[n]

(* A pending node, which neither the sweep nor a callback queues again, is *)
(* subscribed or is somewhere on its way: in the queue, in the hands of a  *)
(* task that still has to send, claim or clear it, scheduled or being      *)
(* tried.  Only an attempt esp-matter lost breaks the chain.               *)
InHand(t, n) ==
    \E op \in {"send", "clear", "check", "claim", "scan"} : <<op, n>> \in Elements(calls[t])
PendingIsOwned ==
    \A n \in pend :
        \/ n \in has \cup Elements(queue) \cup Elements(work)
        \/ \E t \in Tasks : InHand(t, n)
        \/ Attempts(n) + lost[n] > 0

(* No slot leaks: the slots a node holds are at most its attempts that are *)
(* scheduled, running, lost, or reported and about to free theirs.         *)
Finishing(n) == Cardinality({t \in Tasks : <<"finish", n>> \in Elements(calls[t])})
SlotsAreOwned ==
    \A n \in Nodes :
        Cardinality(SlotsOf(n)) <= Attempts(n) + lost[n] + Finishing(n)
                        + Cardinality({k \in DOMAIN work : work[k] = n})

(* The manager implements the register: in particular a late termination   *)
(* of a replaced subscription does not clear the new one.                  *)
Register == INSTANCE SubscriptionRegister WITH
    open <- {<<s.node, s.id>> : s \in live}, held <- subId
ImplementsRegister == Register!Spec

(* The worker never waits for a slot forever, even when the only attempts  *)
(* holding one were lost: it is the caller that reclaims them.             *)
WorkerNeverStuck ==
    \A n \in Nodes : Doing("worker", "claim", n) ~> ~Doing("worker", "claim", n)

(* A node the manager should subscribe to, has no subscription and fits in *)
(* the table is tried again, whichever call failed or queue was full.      *)
HasRoom(n) == n \in tracked \/ Cardinality(tracked) < MaxNodes
ShouldTry(n) == n \in Wanted \ (icd \cup has) /\ lost[n] = 0 /\ HasRoom(n)
EveryWantedNodeIsTried ==
    \A n \in Nodes : ShouldTry(n) ~> (Attempts(n) > 0 \/ ~ShouldTry(n))

=============================================================================
