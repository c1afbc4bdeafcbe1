--------------------- MODULE SubscriptionManager_proofs ---------------------
(***************************************************************************)
(* Proofs about SubscriptionManager, for every value of its constants.     *)
(***************************************************************************)
EXTENDS SubscriptionManager, SequenceTheorems, FunctionTheorems, FiniteSetTheorems, TLAPS

USE ConstantsAssumption

Call == Ops \X Nodes

(* A handler that goes on leaves the calls of the other tasks alone. *)
LEMMA ContinueType ==
    ASSUME TypeOK, NEW t \in Tasks, NEW op, NEW n, NEW s \in Seq(Call),
           Doing(t, op, n), Continue(t, s)
    PROVE  /\ calls' \in [Tasks -> Seq(Call)]
           /\ calls'[t] = s \o Tail(calls[t])
           /\ \A u \in Tasks \ {t} : calls'[u] = calls[u]
<1>1. calls \in [Tasks -> Seq(Call)] BY DEF TypeOK, Call
<1>2. Tail(calls[t]) \in Seq(Call) BY <1>1, HeadTailProperties DEF Doing
<1>3. s \o Tail(calls[t]) \in Seq(Call) BY <1>2, ConcatProperties
<1> QED BY <1>1, <1>3 DEF Continue

LEMMA StartType ==
    ASSUME TypeOK, NEW t \in Tasks, NEW s \in Seq(Call), Start(t, s)
    PROVE  /\ calls' \in [Tasks -> Seq(Call)]
           /\ calls'[t] = s
           /\ \A u \in Tasks \ {t} : calls'[u] = calls[u]
  BY DEF TypeOK, Call, Start

(* The sequences the actions use are sequences of calls. *)
LEMMA CallSeqs ==
    /\ <<>> \in Seq(Call)
    /\ \A a \in Call : <<a>> \in Seq(Call)
    /\ \A a, b \in Call : <<a, b>> \in Seq(Call)
    /\ \A a, b, c \in Call : <<a, b, c>> \in Seq(Call)
  OBVIOUS

LEMMA HideType == ASSUME NEW n \in Nodes PROVE Hide(n) \in Seq(Call)
  BY CallSeqs DEF Hide, Call, Ops

-----------------------------------------------------------------------------
(* Type correctness.                                                       *)

LEMMA InitTypeOK == Init => TypeOK
  BY EmptySeq DEF Init, TypeOK, Tasks, Wanted, Slots

LEMMA TypeOKStep == TypeOK /\ [Next]_vars => TypeOK'
<1> SUFFICES ASSUME TypeOK, [Next]_vars PROVE TypeOK'
  OBVIOUS
<1> USE CallSeqs DEF Ops, Call
<1>1. ASSUME NEW t \in Tasks, AnyCall(t) PROVE TypeOK'
  <2> PICK n \in Nodes :
        \/ ClearNode(t, n) \/ HideNode(t, n) \/ ShowNode(t, n) \/ FinishAttempt(t, n)
        \/ EnqueueNode(t, n) \/ SendToQueue(t, n)
    BY <1>1 DEF AnyCall
  <2>1. CASE ClearNode(t, n)
    <3>1. calls' \in [Tasks -> Seq(Call)] BY <2>1, HideType, ContinueType DEF ClearNode
    <3> QED BY <2>1, <3>1 DEF ClearNode, MarkNone, TypeOK, slotVars, matterVars, deviceVars, bounds
  <2>2. CASE HideNode(t, n)
    <3>1. calls' \in [Tasks -> Seq(Call)] BY <2>2, ContinueType DEF HideNode
    <3> QED BY <2>2, <3>1 DEF HideNode, TypeOK, tableVars, slotVars, matterVars, bounds
  <2>3. CASE ShowNode(t, n)
    <3>1. calls' \in [Tasks -> Seq(Call)] BY <2>3, ContinueType DEF ShowNode
    <3> QED BY <2>3, <3>1 DEF ShowNode, TypeOK, tableVars, slotVars, matterVars, bounds
  <2>4. CASE FinishAttempt(t, n)
    <3>1. calls' \in [Tasks -> Seq(Call)] BY <2>4, ContinueType DEF FinishAttempt
    <3> QED BY <2>4, <3>1 DEF FinishAttempt, FreeSlot, TypeOK, tableVars, slotVars, matterVars,
                deviceVars, bounds
  <2>5. CASE EnqueueNode(t, n)
    <3>1. calls' \in [Tasks -> Seq(Call)] BY <2>5, ContinueType DEF EnqueueNode
    <3>2. tracked' \subseteq Nodes /\ tracked \subseteq tracked' /\ pend' \subseteq tracked'
      BY <2>5 DEF EnqueueNode, Track, TypeOK
    <3> QED BY <2>5, <3>1, <3>2 DEF EnqueueNode, TypeOK, slotVars, matterVars, deviceVars, bounds
  <2>6. CASE SendToQueue(t, n)
    <3>1. calls' \in [Tasks -> Seq(Call)] BY <2>6, ContinueType DEF SendToQueue
    <3>2. queue' \in Seq(Nodes)
      <4>1. queue' = Append(queue, n) \/ queue' = queue BY <2>6 DEF SendToQueue
      <4>2. queue \in Seq(Nodes) BY DEF TypeOK
      <4> QED BY <4>1, <4>2, AppendProperties
    <3> QED BY <2>6, <3>1, <3>2 DEF SendToQueue, TypeOK, tableVars, slotVars, matterVars, deviceVars, bounds
  <2> QED BY <2>1, <2>2, <2>3, <2>4, <2>5, <2>6
<1>2. ASSUME NEW t \in {"worker", "main"}, NEW n \in Nodes, SweepNode(t, n) PROVE TypeOK'
  <2>1. calls' \in [Tasks -> Seq(Call)] BY <1>2, StartType DEF SweepNode, Tasks
  <2>2. tracked' \subseteq Nodes /\ tracked \subseteq tracked'
    BY <1>2 DEF SweepNode, Track, TypeOK
  <2> QED BY <1>2, <2>1, <2>2 DEF SweepNode, TypeOK, slotVars, matterVars, deviceVars, bounds
<1>3. CASE StartSweep
  BY <1>3 DEF StartSweep, Wanted, TypeOK, tableVars, slotVars, matterVars, deviceVars, bounds
<1>4. CASE Receive
  <2>1. Head(queue) \in Nodes /\ Tail(queue) \in Seq(Nodes)
    BY <1>4, HeadTailProperties DEF Receive, TypeOK
  <2>2. calls' \in [Tasks -> Seq(Call)] BY <1>4, <2>1, StartType DEF Receive, Tasks
  <2> QED BY <1>4, <2>1, <2>2 DEF Receive, TypeOK, tableVars, slotVars, matterVars, deviceVars, bounds
<1>5. ASSUME NEW n \in Nodes, CheckSubscribed(n) PROVE TypeOK'
  <2>1. calls' \in [Tasks -> Seq(Call)] BY <1>5, ContinueType DEF CheckSubscribed, Tasks
  <2> QED BY <1>5, <2>1 DEF CheckSubscribed, TypeOK, tableVars, slotVars, matterVars, deviceVars, bounds
<1>6. ASSUME NEW n \in Nodes, ReclaimSlot(n) PROVE TypeOK'
  <2>1. PICK i \in expired :
          /\ MarkNone(slots[i])
          /\ Continue("worker", Hide(slots[i]) \o << <<"release", slots[i]>>, <<"scan", n>> >>)
    BY <1>6 DEF ReclaimSlot, Lowest
  <2>2. slots[i] \in Nodes BY DEF TypeOK
  <2>3. Hide(slots[i]) \o << <<"release", slots[i]>>, <<"scan", n>> >> \in Seq(Call)
    BY <2>2, HideType, ConcatProperties
  <2>4. calls' \in [Tasks -> Seq(Call)]
    BY <1>6, <2>1, <2>3, ContinueType DEF ReclaimSlot, Claiming, Tasks
  <2> QED BY <1>6, <2>1, <2>2, <2>4
          DEF ReclaimSlot, MarkNone, TypeOK, slotVars, matterVars, deviceVars, bounds
<1>7. ASSUME NEW n \in Nodes, ReleaseSlot(n) PROVE TypeOK'
  <2>1. calls' \in [Tasks -> Seq(Call)] BY <1>7, ContinueType DEF ReleaseSlot, Tasks
  <2> QED BY <1>7, <2>1 DEF ReleaseSlot, FreeSlot, TypeOK, tableVars, matterVars, deviceVars, bounds
<1>8. ASSUME NEW n \in Nodes, ClaimSlot(n) PROVE TypeOK'
  <2>1. calls' \in [Tasks -> Seq(Call)]
    BY <1>8, ContinueType DEF ClaimSlot, Claiming, Tasks
  <2>2. work' \in Seq(Nodes)
    <3>1. work' = Append(work, n) \/ work' = work BY <1>8 DEF ClaimSlot
    <3>2. work \in Seq(Nodes) BY DEF TypeOK
    <3> QED BY <3>1, <3>2, AppendProperties
  <2>3. slots' \in [Slots -> Nodes \cup {NoNode}] /\ expired' = {}
    BY <1>8 DEF ClaimSlot, TypeOK
  <2>4. faults' \in Nat
    BY <1>8 DEF ClaimSlot, TypeOK
  <2> QED BY <1>8, <2>1, <2>2, <2>3, <2>4 DEF ClaimSlot, TypeOK, tableVars, deviceVars
<1>9. ASSUME NEW n \in Nodes, Chase(n) PROVE TypeOK'
  <2>1. calls' \in [Tasks -> Seq(Call)] BY <1>9, ContinueType DEF Chase, Tasks
  <2>2. tracked' \subseteq Nodes /\ tracked \subseteq tracked' /\ icd' \subseteq tracked'
    BY <1>9 DEF Chase, RefreshIcd, Track, TypeOK
  <2> QED BY <1>9, <2>1, <2>2 DEF Chase, TypeOK, slotVars, matterVars, deviceVars, bounds
<1>10. CASE SendSubscription
  <2>1. Head(work) \in Nodes /\ Tail(work) \in Seq(Nodes)
    BY <1>10, HeadTailProperties DEF SendSubscription, TypeOK
  <2>2. calls' \in [Tasks -> Seq(Call)] BY <1>10, <2>1, StartType DEF SendSubscription, Tasks
  <2>3. tracked' \subseteq Nodes /\ tracked \subseteq tracked' /\ icd' \subseteq tracked'
    BY <1>10, <2>1 DEF SendSubscription, RefreshIcd, Track, TypeOK
  <2>4. trying' \in [Nodes \X BOOLEAN -> Nat] /\ faults' \in Nat
    <3> DEFINE a == <<Head(work), tariff = Head(work)>>
    <3>1. trying' = [trying EXCEPT ![a] = @ + 1] \/ trying' = trying
      BY <1>10 DEF SendSubscription
    <3>2. trying' \in [Nodes \X BOOLEAN -> Nat]
      <4>1. a \in Nodes \X BOOLEAN BY <2>1
      <4>2. trying \in [Nodes \X BOOLEAN -> Nat] BY DEF TypeOK
      <4> HIDE DEF a
      <4> QED BY <3>1, <4>1, <4>2
    <3> QED BY <1>10, <3>2 DEF SendSubscription, TypeOK
  <2> QED BY <1>10, <2>1, <2>2, <2>3, <2>4 DEF SendSubscription, TypeOK, slotVars, deviceVars
<1>11. ASSUME NEW i \in Slots, Expire(i) PROVE TypeOK'
  BY <1>11 DEF Expire, TypeOK, tableVars, matterVars, deviceVars, taskVars
<1>12. ASSUME NEW n \in Nodes, NEW p \in BOOLEAN, ConnectFailed(n, p) PROVE TypeOK'
  <2>1. Hide(n) \o << <<"finish", n>>, <<"chase", n>> >> \in Seq(Call)
    BY HideType, ConcatProperties
  <2>2. calls' \in [Tasks -> Seq(Call)] BY <1>12, <2>1, StartType DEF ConnectFailed, Tasks
  <2> QED BY <1>12, <2>2
          DEF ConnectFailed, EndAttempt, MarkNone, TypeOK, slotVars, deviceVars, bounds
<1>13. ASSUME NEW n \in Nodes, NEW sid, TerminatedCallback(n, sid)
       PROVE  /\ calls' \in [Tasks -> Seq(Call)]
              /\ tracked' = tracked /\ icd' = icd
              /\ has' \subseteq has /\ pend' \subseteq pend
              /\ subId' \in [Nodes -> Ids \cup {0}]
  <2>1. calls' \in [Tasks -> Seq(Call)] BY <1>13, StartType DEF TerminatedCallback, Tasks
  <2> QED BY <1>13, <2>1 DEF TerminatedCallback, MarkNone, TypeOK, tableVars
<1>14. ASSUME NEW n \in Nodes, NEW p \in BOOLEAN, EndedEarly(n, p) PROVE TypeOK'
  <2>1. trying' \in [Nodes \X BOOLEAN -> Nat] BY <1>14 DEF EndedEarly, EndAttempt, TypeOK
  <2>2. /\ calls' \in [Tasks -> Seq(Call)]
        /\ tracked' = tracked /\ icd' = icd /\ has' \subseteq has /\ pend' \subseteq pend
        /\ subId' \in [Nodes -> Ids \cup {0}]
    BY <1>13, <1>14 DEF EndedEarly
  <2> QED BY <1>14, <2>1, <2>2 DEF EndedEarly, TypeOK, slotVars, deviceVars, bounds
<1>15. ASSUME NEW s \in live, Terminated(s) PROVE TypeOK'
  <2>1. s.node \in Nodes BY DEF TypeOK
  <2> QED BY <1>13, <1>15, <2>1 DEF Terminated, Event, TypeOK, slotVars, deviceVars
<1>16. ASSUME NEW n \in Nodes, NEW p \in BOOLEAN, NEW i \in Ids, Established(n, p, i)
       PROVE  TypeOK'
  <2>1. calls' \in [Tasks -> Seq(Call)] BY <1>16, StartType DEF Established, Tasks
  <2>2. tracked' \subseteq Nodes /\ tracked \subseteq tracked'
    BY <1>16 DEF Established, Track, TypeOK
  <2>3. has' \subseteq tracked' /\ pend' \subseteq tracked'
    BY <1>16, <2>2 DEF Established, TypeOK
  <2>4. subId' \in [Nodes -> Ids \cup {0}]
    <3>1. subId' = [subId EXCEPT ![n] = i] \/ subId' = subId BY <1>16 DEF Established
    <3>2. subId \in [Nodes -> Ids \cup {0}] BY DEF TypeOK
    <3> QED BY <3>1, <3>2
  <2> QED BY <1>16, <2>1, <2>2, <2>3, <2>4
          DEF Established, EndAttempt, TypeOK, slotVars, deviceVars, bounds
<1>17. ASSUME NEW n \in Nodes, NEW p \in BOOLEAN, AttemptLost(n, p) PROVE TypeOK'
  <2>1. trying' \in [Nodes \X BOOLEAN -> Nat] BY <1>17 DEF AttemptLost, EndAttempt, TypeOK
  <2>2. lost' \in [Nodes -> Nat] /\ faults' \in Nat BY <1>17 DEF AttemptLost, TypeOK
  <2> QED BY <1>17, <2>1, <2>2
          DEF AttemptLost, TypeOK, tableVars, slotVars, deviceVars, taskVars
<1>18. ASSUME NEW n \in Nodes, CheckIn(n) PROVE TypeOK'
  <2>1. calls' \in [Tasks -> Seq(Call)] BY <1>18, StartType DEF CheckIn, Tasks
  <2>2. tracked' \subseteq Nodes /\ tracked \subseteq tracked' /\ icd' \subseteq tracked'
    BY <1>18 DEF CheckIn, RefreshIcd, Track, TypeOK
  <2>3. pend' \subseteq pend /\ has' = has /\ subId' = subId /\ events' \in Nat
    BY <1>18 DEF CheckIn, Event, TypeOK
  <2>4. UNCHANGED <<slotVars, queue, matterVars, deviceVars, left, faults>>
    BY <1>18 DEF CheckIn
  <2> QED BY <2>1, <2>2, <2>3, <2>4 DEF TypeOK, slotVars, matterVars, deviceVars
<1>19. ASSUME NEW n \in Nodes,
              DeviceAdded(n) \/ SensorFound(n) \/ RemoveDevice(n) \/ ClearEndpoints(n)
       PROVE  TypeOK'
  BY <1>19 DEF DeviceAdded, SensorFound, RemoveDevice, ClearEndpoints, Event, TypeOK, tableVars,
               slotVars, matterVars, taskVars
<1>20. ASSUME NEW n \in Nodes, Interrogated(n) PROVE TypeOK'
  <2>1. calls' \in [Tasks -> Seq(Call)] BY <1>20, StartType DEF Interrogated, Tasks
  <2>2. events' \in Nat BY <1>20 DEF Interrogated, Event, TypeOK
  <2>3. UNCHANGED <<tableVars, slotVars, queue, matterVars, deviceVars, left, faults>>
    BY <1>20 DEF Interrogated
  <2> QED BY <2>1, <2>2, <2>3 DEF TypeOK, tableVars, slotVars, matterVars, deviceVars
<1>21. ASSUME NEW n \in Nodes \cup {NoNode}, AssignTariff(n) PROVE TypeOK'
  <2>1. calls' \in [Tasks -> Seq(Call)] BY <1>21, StartType DEF AssignTariff, Tasks
  <2> QED BY <1>21, <2>1 DEF AssignTariff, Event, TypeOK, tableVars, slotVars, matterVars
<1>22. CASE UNCHANGED vars
  BY <1>22 DEF TypeOK, vars, tableVars, slotVars, matterVars, deviceVars, taskVars, bounds
<1> QED
  BY <1>1, <1>2, <1>3, <1>4, <1>5, <1>6, <1>7, <1>8, <1>9, <1>10, <1>11, <1>12, <1>14, <1>15,
     <1>16, <1>17, <1>18, <1>19, <1>20, <1>21, <1>22
  DEF Next, Worker, Main, Http, ChipHandler, Outcome, Environment, Tasks

(* Every variable keeps its type, whatever the tasks interleave. *)
THEOREM TypeCorrect == Spec => []TypeOK
<1> QED BY InitTypeOK, TypeOKStep, PTL DEF Spec

-----------------------------------------------------------------------------
(* The subscriptions the manager remembers.                                *)

(* A node without a subscription has no id, and an id names one            *)
(* subscription of a node: what makes NoPhantomSubscription inductive, and *)
(* the end of a subscription find the right entry.                         *)
IdleHasNoId == \A n \in Nodes : n \notin has => subId[n] = 0
LiveIsUnique == \A r, s \in live : r.node = s.node /\ r.id = s.id => r = s
Book == TypeOK /\ IdleHasNoId /\ LiveIsUnique /\ NoPhantomSubscription

(* What a step may do to has, subId and live: nothing, forget a node, open *)
(* a subscription, or end one.                                             *)
Forgets(n) == /\ has' = has \ {n}
              /\ subId' = [subId EXCEPT ![n] = 0]
              /\ live' = live
Opens(n, p, i) ==
    /\ ~\E s \in live : s.node = n /\ s.id = i
    /\ live' = live \cup {[node |-> n, id |-> i, priced |-> p]}
    /\ \/ has' = has \cup {n} /\ subId' = [subId EXCEPT ![n] = i]
       \/ UNCHANGED <<has, subId>>
Ends(s) ==
    /\ live' = live \ {s}
    /\ IF s.node \in tracked /\ Matches(s.node, s.id)
       THEN has' = has \ {s.node} /\ subId' = [subId EXCEPT ![s.node] = 0]
       ELSE UNCHANGED <<has, subId>>

LEMMA BookSteps ==
    ASSUME TypeOK, [Next]_vars
    PROVE  \/ UNCHANGED <<has, subId, live>>
           \/ \E n \in Nodes : Forgets(n)
           \/ \E n \in Nodes, p \in BOOLEAN, i \in Ids : Opens(n, p, i)
           \/ \E s \in live : Ends(s)
<1> DEFINE Same == UNCHANGED <<has, subId, live>>
           Result == \/ Same
                     \/ \E n \in Nodes : Forgets(n)
                     \/ \E n \in Nodes, p \in BOOLEAN, i \in Ids : Opens(n, p, i)
                     \/ \E s \in live : Ends(s)
<1>1. ASSUME NEW t \in Tasks, AnyCall(t) PROVE Result
  <2> PICK n \in Nodes :
        \/ ClearNode(t, n) \/ HideNode(t, n) \/ ShowNode(t, n) \/ FinishAttempt(t, n)
        \/ EnqueueNode(t, n) \/ SendToQueue(t, n)
    BY <1>1 DEF AnyCall
  <2>1. CASE ClearNode(t, n)
    <3> Forgets(n) BY <2>1 DEF ClearNode, MarkNone, Forgets, matterVars
    <3> QED OBVIOUS
  <2>2. CASE \/ HideNode(t, n) \/ ShowNode(t, n) \/ FinishAttempt(t, n)
             \/ EnqueueNode(t, n) \/ SendToQueue(t, n)
    <3> Same
      BY <2>2 DEF HideNode, ShowNode, FinishAttempt, EnqueueNode, SendToQueue, tableVars, matterVars
    <3> QED OBVIOUS
  <2> QED BY <2>1, <2>2
<1>2. ASSUME NEW n \in Nodes, ReclaimSlot(n) PROVE Result
  <2> PICK i \in expired : MarkNone(slots[i]) BY <1>2 DEF ReclaimSlot, Lowest
  <2> slots[i] \in Nodes BY DEF TypeOK
  <2> Forgets(slots[i]) BY <1>2 DEF ReclaimSlot, MarkNone, Forgets, matterVars
  <2> QED OBVIOUS
<1>3. ASSUME NEW n \in Nodes, NEW p \in BOOLEAN, ConnectFailed(n, p) PROVE Result
  <2> Forgets(n) BY <1>3 DEF ConnectFailed, MarkNone, Forgets
  <2> QED OBVIOUS
<1>4. ASSUME NEW n \in Nodes, NEW p \in BOOLEAN, EndedEarly(n, p) PROVE Result
  <2> Forgets(n) \/ Same
    BY <1>4 DEF EndedEarly, TerminatedCallback, MarkNone, Forgets, tableVars
  <2> QED OBVIOUS
<1>5. ASSUME NEW n \in Nodes, NEW p \in BOOLEAN, NEW i \in Ids, Established(n, p, i) PROVE Result
  <2> Opens(n, p, i) BY <1>5 DEF Established, Opens
  <2> QED OBVIOUS
<1>6. ASSUME NEW s \in live, Terminated(s) PROVE Result
  <2> Ends(s) BY <1>6 DEF Terminated, TerminatedCallback, MarkNone, Ends, tableVars
  <2> QED OBVIOUS
<1>7. ASSUME NEW n \in Nodes, NEW t \in {"worker", "main"},
             \/ SweepNode(t, n) \/ CheckSubscribed(n) \/ ReleaseSlot(n) \/ ClaimSlot(n) \/ Chase(n)
             \/ CheckIn(n) \/ DeviceAdded(n) \/ SensorFound(n) \/ Interrogated(n)
             \/ RemoveDevice(n) \/ ClearEndpoints(n) \/ (\E p \in BOOLEAN : AttemptLost(n, p))
      PROVE  Same
  BY <1>7 DEF SweepNode, CheckSubscribed, ReleaseSlot, ClaimSlot, Chase, CheckIn, DeviceAdded,
              SensorFound, Interrogated, RemoveDevice, ClearEndpoints, AttemptLost, tableVars,
              matterVars
<1>8. ASSUME NEW m \in Nodes \cup {NoNode}, NEW i \in Slots,
             \/ StartSweep \/ Receive \/ SendSubscription \/ Expire(i)
             \/ AssignTariff(m) \/ UNCHANGED vars
      PROVE  Same
  BY <1>8 DEF StartSweep, Receive, SendSubscription, Expire, AssignTariff, vars, tableVars,
              matterVars
<1>9. NoNode \in Nodes \cup {NoNode} /\ 1 \in Slots BY DEF Slots
<1> HIDE DEF Same, Result
<1>10. Same => Result BY DEF Result
<1>11. Result
  BY <1>1, <1>2, <1>3, <1>4, <1>5, <1>6, <1>7, <1>8, <1>9, <1>10
  DEF Next, Worker, Main, Http, ChipHandler, Outcome, Environment, Tasks
<1> QED BY <1>11 DEF Result, Same

LEMMA BookInit == Init => Book
<1> SUFFICES ASSUME Init PROVE Book OBVIOUS
<1>1. TypeOK BY InitTypeOK
<1> QED BY <1>1 DEF Init, Book, IdleHasNoId, LiveIsUnique, NoPhantomSubscription

LEMMA BookStep == Book /\ [Next]_vars => Book'
<1> SUFFICES ASSUME Book, [Next]_vars PROVE Book' OBVIOUS
<1> USE DEF Book
<1>1. TypeOK' BY TypeOKStep
<1>2. CASE UNCHANGED <<has, subId, live>>
  BY <1>1, <1>2 DEF IdleHasNoId, LiveIsUnique, NoPhantomSubscription
<1>3. ASSUME NEW n \in Nodes, Forgets(n) PROVE Book'
  <2>1. IdleHasNoId' BY <1>3 DEF Forgets, IdleHasNoId, TypeOK
  <2>2. NoPhantomSubscription' BY <1>3 DEF Forgets, NoPhantomSubscription, TypeOK
  <2> QED BY <1>1, <1>3, <2>1, <2>2 DEF Forgets, LiveIsUnique
<1>4. ASSUME NEW n \in Nodes, NEW p \in BOOLEAN, NEW i \in Ids, Opens(n, p, i) PROVE Book'
  <2>1. IdleHasNoId' BY <1>4 DEF Opens, IdleHasNoId, TypeOK
  <2>2. LiveIsUnique' BY <1>4 DEF Opens, LiveIsUnique
  <2>3. NoPhantomSubscription'
    <3> SUFFICES ASSUME NEW m \in has'
                 PROVE  \E s \in live' : s.node = m /\ s.id = subId'[m]
      BY DEF NoPhantomSubscription
    <3>1. CASE m \in has /\ subId'[m] = subId[m]
      BY <1>4, <3>1 DEF Opens, NoPhantomSubscription
    <3>2. CASE ~(m \in has /\ subId'[m] = subId[m])
      <4>1. m = n /\ subId'[n] = i
        BY <1>4, <3>2 DEF Opens, TypeOK
      <4>2. [node |-> n, id |-> i, priced |-> p] \in live' BY <1>4 DEF Opens
      <4> QED BY <4>1, <4>2
    <3> QED BY <3>1, <3>2
  <2> QED BY <1>1, <2>1, <2>2, <2>3
<1>5. ASSUME NEW s \in live, Ends(s) PROVE Book'
  <2>1. s.node \in Nodes /\ s.id \in Ids BY DEF TypeOK
  <2>2. IdleHasNoId'
    <3>1. \/ has' = has /\ subId' = subId
          \/ has' = has \ {s.node} /\ subId' = [subId EXCEPT ![s.node] = 0]
      BY <1>5 DEF Ends
    <3>2. subId \in [Nodes -> Ids \cup {0}] BY DEF TypeOK
    <3> QED BY <2>1, <3>1, <3>2 DEF IdleHasNoId
  <2>3. LiveIsUnique' BY <1>5 DEF Ends, LiveIsUnique
  <2>4. NoPhantomSubscription'
    <3> SUFFICES ASSUME NEW m \in has'
                 PROVE  \E r \in live' : r.node = m /\ r.id = subId'[m]
      BY DEF NoPhantomSubscription
    <3>1. m \in has /\ m \in tracked /\ m \in Nodes /\ subId'[m] = subId[m]
      BY <1>5, <2>1 DEF Ends, TypeOK
    <3>2. PICK r \in live : r.node = m /\ r.id = subId[m]
      BY <3>1 DEF NoPhantomSubscription
    <3>3. r # s
      BY <1>5, <2>1, <3>1, <3>2 DEF Ends, Matches
    <3> QED BY <1>5, <3>1, <3>2, <3>3 DEF Ends
  <2> QED BY <1>1, <2>2, <2>3, <2>4
<1> QED BY <1>2, <1>3, <1>4, <1>5, BookSteps

(* A node the manager believes subscribed always has the subscription it   *)
(* remembers open.                                                         *)
THEOREM NeverPhantom == Spec => []NoPhantomSubscription
<1>1. Book => NoPhantomSubscription BY DEF Book
<1> QED BY BookInit, BookStep, <1>1, PTL DEF Spec

(* The manager implements the register of SubscriptionRegister: each step  *)
(* opens, ends or forgets one subscription, or changes nothing there.      *)
THEOREM Refinement == Spec => ImplementsRegister
<1> DEFINE openBar == {<<s.node, s.id>> : s \in live}
<1>1. Init => Register!Init
  BY DEF Init, Register!Init
<1>2. Book /\ [Next]_vars => [Register!Next]_(Register!vars)
  <2> SUFFICES ASSUME Book, [Next]_vars PROVE [Register!Next]_(Register!vars) OBVIOUS
  <2> USE DEF Book
  <2>1. CASE UNCHANGED <<has, subId, live>>
    BY <2>1 DEF Register!vars
  <2>2. ASSUME NEW n \in Nodes, Forgets(n) PROVE Register!Next
    <3> Register!Forget(n) BY <2>2 DEF Forgets, Register!Forget
    <3> QED BY DEF Register!Next
  <2>3. ASSUME NEW n \in Nodes, NEW p \in BOOLEAN, NEW i \in Ids, Opens(n, p, i)
        PROVE  Register!Next
    <3>1. <<n, i>> \notin openBar BY <2>3 DEF Opens
    <3>2. openBar' = openBar \cup {<<n, i>>}
      <4> DEFINE new == [node |-> n, id |-> i, priced |-> p]
      <4>1. new.node = n /\ new.id = i OBVIOUS
      <4>2. live' = live \cup {new} BY <2>3 DEF Opens
      <4> HIDE DEF new
      <4> QED BY <4>1, <4>2
    <3>3. Register!Open(n, i) BY <2>3, <3>1, <3>2 DEF Opens, Register!Open
    <3> QED BY <3>3 DEF Register!Next
  <2>4. ASSUME NEW s \in live, Ends(s) PROVE Register!Next
    <3>1. s.node \in Nodes /\ s.id \in Ids BY DEF TypeOK
    <3>2. <<s.node, s.id>> \in openBar OBVIOUS
    <3>3. openBar' = openBar \ {<<s.node, s.id>>} BY <2>4 DEF Ends, LiveIsUnique
    <3>4. subId' = [subId EXCEPT ![s.node] = IF @ = s.id THEN 0 ELSE @]
      BY <2>4, <3>1 DEF Ends, Matches, IdleHasNoId, TypeOK
    <3>5. Register!End(s.node, s.id) BY <3>2, <3>3, <3>4 DEF Register!End
    <3> QED BY <3>1, <3>5 DEF Register!Next
  <2> QED BY <2>1, <2>2, <2>3, <2>4, BookSteps
<1> QED BY BookInit, BookStep, <1>1, <1>2, PTL DEF Spec, ImplementsRegister, Register!Spec

-----------------------------------------------------------------------------
(* What sequences hold.                                                    *)

LEMMA ElementsOfTuples ==
    /\ Elements(<<>>) = {}
    /\ \A a : Elements(<<a>>) = {a}
    /\ \A a, b : Elements(<<a, b>>) = {a, b}
    /\ \A a, b, c : Elements(<<a, b, c>>) = {a, b, c}
  BY DEF Elements

LEMMA ElementsOfConcat ==
    ASSUME NEW S, NEW a \in Seq(S), NEW b \in Seq(S)
    PROVE  Elements(a \o b) = Elements(a) \cup Elements(b)
<1>1. /\ Len(a) \in Nat /\ DOMAIN a = 1..Len(a)
      /\ Len(b) \in Nat /\ DOMAIN b = 1..Len(b)
      /\ DOMAIN (a \o b) = 1..(Len(a) + Len(b))
  BY ConcatProperties, LenProperties
<1>2. \A i \in DOMAIN a : (a \o b)[i] = a[i] /\ i \in DOMAIN (a \o b)
  BY <1>1, ConcatProperties
<1>3. ASSUME NEW j \in DOMAIN b
      PROVE  (a \o b)[j + Len(a)] = b[j] /\ j + Len(a) \in DOMAIN (a \o b)
  BY <1>1, ConcatProperties
<1>4. ASSUME NEW k \in DOMAIN (a \o b) PROVE (a \o b)[k] \in Elements(a) \cup Elements(b)
  <2>1. CASE k <= Len(a) BY <1>1, <1>2, <2>1 DEF Elements
  <2>2. CASE ~(k <= Len(a))
    <3>1. k - Len(a) \in DOMAIN b /\ (a \o b)[k] = b[k - Len(a)]
      BY <1>1, <2>2, ConcatProperties
    <3> QED BY <3>1 DEF Elements
  <2> QED BY <2>1, <2>2
<1>5. Elements(a \o b) \subseteq Elements(a) \cup Elements(b) BY <1>4 DEF Elements
<1>6. Elements(a) \subseteq Elements(a \o b) BY <1>2 DEF Elements
<1>7. Elements(b) \subseteq Elements(a \o b)
  <2> SUFFICES ASSUME NEW j \in DOMAIN b PROVE b[j] \in Elements(a \o b) BY DEF Elements
  <2> QED BY <1>3 DEF Elements
<1> QED BY <1>5, <1>6, <1>7

LEMMA ElementsOfTail ==
    ASSUME NEW S, NEW a \in Seq(S), a # <<>>
    PROVE  Elements(a) = {Head(a)} \cup Elements(Tail(a))
<1>1. Tail(a) \in Seq(S) /\ Len(Tail(a)) = Len(a) - 1 /\ Len(a) \in Nat \ {0}
  BY HeadTailProperties, EmptySeq
<1>2. DOMAIN a = 1..Len(a) /\ DOMAIN Tail(a) = 1..(Len(a) - 1)
  BY <1>1, LenProperties
<1>3. Head(a) = a[1] OBVIOUS
<1>4. \A i \in DOMAIN Tail(a) : Tail(a)[i] = a[i + 1] BY <1>1, <1>2, HeadTailProperties
<1>5. ASSUME NEW k \in DOMAIN a PROVE a[k] \in {Head(a)} \cup Elements(Tail(a))
  <2>1. CASE k # 1
    <3>1. k - 1 \in DOMAIN Tail(a) /\ Tail(a)[k - 1] = a[k] BY <1>1, <1>2, <1>4, <2>1
    <3> QED BY <3>1 DEF Elements
  <2> QED BY <1>3, <2>1
<1>6. \A i \in DOMAIN Tail(a) : i + 1 \in DOMAIN a BY <1>1, <1>2
<1>7. 1 \in DOMAIN a BY <1>1, <1>2
<1> QED BY <1>3, <1>4, <1>5, <1>6, <1>7 DEF Elements

LEMMA ElementsOfAppend ==
    ASSUME NEW S, NEW a \in Seq(S), NEW x \in S
    PROVE  Elements(Append(a, x)) = Elements(a) \cup {x}
<1>0. <<x>> \in Seq(S) OBVIOUS
<1>1. PICK b \in Seq(S) : b = <<x>> BY <1>0
<1>2. Append(a, x) = a \o b BY <1>1, AppendIsConcat
<1>3. Elements(a \o b) = Elements(a) \cup Elements(b) BY ElementsOfConcat
<1>4. Elements(b) = {x} BY <1>1, ElementsOfTuples
<1> QED BY <1>2, <1>3, <1>4

-----------------------------------------------------------------------------
(* A pending node is owned.                                                *)

HandOps == {"send", "clear", "check", "claim", "scan"}
Held(m) == \E t \in Tasks : InHand(t, m)
Owned(m) ==
    \/ m \in has \cup Elements(queue) \cup Elements(work)
    \/ Held(m)
    \/ Attempts(m) + lost[m] > 0

LEMMA ContinueElements ==
    ASSUME TypeOK, NEW t \in Tasks, NEW op, NEW n, NEW s \in Seq(Call),
           Doing(t, op, n), Continue(t, s)
    PROVE  /\ Elements(calls[t]) = {<<op, n>>} \cup Elements(Tail(calls[t]))
           /\ Elements(calls'[t]) = Elements(s) \cup Elements(Tail(calls[t]))
           /\ \A u \in Tasks \ {t} : calls'[u] = calls[u]
<1>1. calls[t] \in Seq(Call) /\ calls[t] # <<>> /\ Head(calls[t]) = <<op, n>>
  BY DEF TypeOK, Call, Doing
<1>2. Tail(calls[t]) \in Seq(Call) BY <1>1, HeadTailProperties
<1>3. calls'[t] = s \o Tail(calls[t]) /\ \A u \in Tasks \ {t} : calls'[u] = calls[u]
  BY ContinueType
<1>4. Elements(calls[t]) = {<<op, n>>} \cup Elements(Tail(calls[t])) BY <1>1, ElementsOfTail
<1>5. Elements(s \o Tail(calls[t])) = Elements(s) \cup Elements(Tail(calls[t]))
  <2>1. PICK r \in Seq(Call) : r = Tail(calls[t]) BY <1>2
  <2>2. Elements(s \o r) = Elements(s) \cup Elements(r) BY ElementsOfConcat
  <2> QED BY <2>1, <2>2
<1> QED BY <1>3, <1>4, <1>5

LEMMA StartElements ==
    ASSUME TypeOK, NEW t \in Tasks, NEW s \in Seq(Call), Start(t, s)
    PROVE  /\ Elements(calls[t]) = {}
           /\ calls'[t] = s
           /\ \A u \in Tasks \ {t} : calls'[u] = calls[u]
  BY StartType, ElementsOfTuples DEF Start

(* Who goes on with a handler still holds the nodes he held, but for the   *)
(* one of the call he made.                                                *)
LEMMA ContinueHeld ==
    ASSUME TypeOK, NEW t \in Tasks, NEW op, NEW n, NEW s \in Seq(Call),
           Doing(t, op, n), Continue(t, s)
    PROVE  /\ \A m \in Nodes : Held(m) /\ (m # n \/ op \notin HandOps) => Held(m)'
           /\ \A o \in HandOps, m \in Nodes : <<o, m>> \in Elements(s) => Held(m)'
<1>1. /\ Elements(calls[t]) = {<<op, n>>} \cup Elements(Tail(calls[t]))
      /\ Elements(calls'[t]) = Elements(s) \cup Elements(Tail(calls[t]))
      /\ \A u \in Tasks \ {t} : calls'[u] = calls[u]
  BY ContinueElements
<1>2. ASSUME NEW m \in Nodes, Held(m), m # n \/ op \notin HandOps PROVE Held(m)'
  <2>1. PICK u \in Tasks, o \in HandOps : <<o, m>> \in Elements(calls[u])
    BY <1>2 DEF Held, InHand, HandOps
  <2>2. <<o, m>> \in Elements(calls'[u])
    <3>1. <<o, m>> # <<op, n>> BY <1>2
    <3> QED BY <1>1, <2>1, <3>1
  <2> QED BY <2>2 DEF Held, InHand, HandOps
<1>3. \A o \in HandOps, m \in Nodes : <<o, m>> \in Elements(s) => Held(m)'
  BY <1>1 DEF Held, InHand, HandOps
<1> QED BY <1>2, <1>3

(* Where that call left no node in his hands, he holds all he held.        *)
LEMMA ContinueHeldAll ==
    ASSUME TypeOK, NEW t \in Tasks, NEW op, NEW n, NEW s \in Seq(Call),
           Doing(t, op, n), Continue(t, s), op \notin HandOps
    PROVE  \A m \in Nodes : Held(m) => Held(m)'
  BY ContinueHeld

LEMMA StartHeld ==
    ASSUME TypeOK, NEW t \in Tasks, NEW s \in Seq(Call), Start(t, s)
    PROVE  /\ \A m \in Nodes : Held(m) => Held(m)'
           /\ \A o \in HandOps, m \in Nodes : <<o, m>> \in Elements(s) => Held(m)'
<1>1. /\ Elements(calls[t]) = {}
      /\ calls'[t] = s
      /\ \A u \in Tasks \ {t} : calls'[u] = calls[u]
  BY StartElements
<1> QED BY <1>1 DEF Held, InHand, HandOps

(* A step about one node: the others keep their owners.                    *)
LEMMA OwnedFrame ==
    ASSUME TypeOK, PendingIsOwned, NEW n,
           pend' \ {n} \subseteq pend,
           \A m \in Nodes \ {n} : m \in has => m \in has',
           \A m \in Nodes \ {n} : m \in Elements(queue) => m \in Elements(queue'),
           \A m \in Nodes \ {n} : m \in Elements(work) => m \in Elements(work'),
           \A m \in Nodes \ {n} : Held(m) => Held(m)',
           \A m \in Nodes \ {n} : Attempts(m) + lost[m] > 0 => (Attempts(m) + lost[m] > 0)',
           n \in pend' => Owned(n)'
    PROVE  PendingIsOwned'
<1>1. ASSUME NEW m \in pend', m # n PROVE Owned(m)'
  <2>1. m \in pend /\ m \in Nodes BY <1>1 DEF TypeOK
  <2>2. Owned(m) BY <2>1 DEF PendingIsOwned, Owned, Held
  <2> QED BY <1>1, <2>1, <2>2 DEF Owned
<1> QED BY <1>1 DEF PendingIsOwned, Owned, Held

LEMMA AttemptsType ==
    ASSUME TypeOK
    PROVE  \A m \in Nodes : Attempts(m) \in Nat /\ lost[m] \in Nat
                            /\ \A p \in BOOLEAN : trying[<<m, p>>] \in Nat
<1>1. trying \in [Nodes \X BOOLEAN -> Nat] /\ lost \in [Nodes -> Nat] BY DEF TypeOK
<1>2. \A m \in Nodes, p \in BOOLEAN : trying[<<m, p>>] \in Nat BY <1>1
<1>3. ASSUME NEW m \in Nodes PROVE Attempts(m) \in Nat
  <2>1. trying[<<m, TRUE>>] \in Nat /\ trying[<<m, FALSE>>] \in Nat BY <1>2
  <2> QED BY <2>1 DEF Attempts
<1> QED BY <1>1, <1>2, <1>3

LEMMA EndAttemptEffect ==
    ASSUME TypeOK, NEW n \in Nodes, NEW p \in BOOLEAN, EndAttempt(n, p)
    PROVE  /\ Attempts(n) > 0
           /\ \A m \in Nodes : Attempts(m)' = IF m = n THEN Attempts(m) - 1 ELSE Attempts(m)
<1>1. trying \in [Nodes \X BOOLEAN -> Nat] BY DEF TypeOK
<1>2. trying' = [trying EXCEPT ![<<n, p>>] = @ - 1] /\ trying[<<n, p>>] > 0 BY DEF EndAttempt
<1>3. \A m \in Nodes, q \in BOOLEAN :
        /\ trying[<<m, q>>] \in Nat
        /\ trying'[<<m, q>>] = IF m = n /\ q = p THEN trying[<<m, q>>] - 1 ELSE trying[<<m, q>>]
  BY <1>1, <1>2
<1>4. ASSUME NEW m \in Nodes
      PROVE  /\ m = n => Attempts(m) > 0
             /\ Attempts(m)' = IF m = n THEN Attempts(m) - 1 ELSE Attempts(m)
  <2> DEFINE x == trying[<<m, TRUE>>]
             y == trying[<<m, FALSE>>]
  <2>1. x \in Nat /\ y \in Nat BY <1>3
  <2>2. m # n => x' = x /\ y' = y BY <1>3
  <2>3. m = n /\ p = TRUE => x > 0 /\ x' = x - 1 /\ y' = y BY <1>2, <1>3
  <2>4. m = n /\ p = FALSE => y > 0 /\ y' = y - 1 /\ x' = x BY <1>2, <1>3
  <2>5. p = TRUE \/ p = FALSE OBVIOUS
  <2>6. Attempts(m) = x + y /\ Attempts(m)' = x' + y' BY DEF Attempts
  <2> HIDE DEF x, y
  <2> QED BY <2>1, <2>2, <2>3, <2>4, <2>5, <2>6
<1> QED BY <1>4

LEMMA BeginAttemptEffect ==
    ASSUME TypeOK, NEW n \in Nodes, NEW p \in BOOLEAN,
           trying' = [trying EXCEPT ![<<n, p>>] = @ + 1]
    PROVE  \A m \in Nodes : Attempts(m)' = IF m = n THEN Attempts(m) + 1 ELSE Attempts(m)
<1>1. trying \in [Nodes \X BOOLEAN -> Nat] BY DEF TypeOK
<1>2. \A m \in Nodes, q \in BOOLEAN :
        /\ trying[<<m, q>>] \in Nat
        /\ trying'[<<m, q>>] = IF m = n /\ q = p THEN trying[<<m, q>>] + 1 ELSE trying[<<m, q>>]
  BY <1>1
<1> SUFFICES ASSUME NEW m \in Nodes
             PROVE  Attempts(m)' = IF m = n THEN Attempts(m) + 1 ELSE Attempts(m)
  OBVIOUS
<1> DEFINE x == trying[<<m, TRUE>>]
           y == trying[<<m, FALSE>>]
<1>3. x \in Nat /\ y \in Nat BY <1>2
<1>4. m # n => x' = x /\ y' = y BY <1>2
<1>5. m = n /\ p = TRUE => x' = x + 1 /\ y' = y BY <1>2
<1>6. m = n /\ p = FALSE => y' = y + 1 /\ x' = x BY <1>2
<1>7. p = TRUE \/ p = FALSE OBVIOUS
<1>8. Attempts(m) = x + y /\ Attempts(m)' = x' + y' BY DEF Attempts
<1> HIDE DEF x, y
<1> QED BY <1>3, <1>4, <1>5, <1>6, <1>7, <1>8

(* The same for a step that leaves Matter's attempts alone. *)
LEMMA OwnedCalls ==
    ASSUME TypeOK, PendingIsOwned, NEW n,
           UNCHANGED <<trying, lost>>,
           pend' \ {n} \subseteq pend,
           has \ {n} \subseteq has',
           Elements(queue) \ {n} \subseteq Elements(queue'),
           Elements(work) \ {n} \subseteq Elements(work'),
           \A m \in Nodes \ {n} : Held(m) => Held(m)',
           n \in pend' => Owned(n)'
    PROVE  PendingIsOwned'
<1>1. \A m \in Nodes : Attempts(m)' = Attempts(m) /\ lost'[m] = lost[m] BY DEF Attempts
<1>2. \A m \in Nodes \ {n} : Attempts(m) + lost[m] > 0 => (Attempts(m) + lost[m] > 0)'
  BY <1>1
<1> QED BY <1>2, OwnedFrame

(* No step of any task leaves a pending node without an owner. *)
LEMMA OwnedStep == TypeOK /\ PendingIsOwned /\ [Next]_vars => PendingIsOwned'
<1> SUFFICES ASSUME TypeOK, PendingIsOwned, [Next]_vars PROVE PendingIsOwned'
  OBVIOUS
<1> USE CallSeqs DEF HandOps
<1>0. \A o \in Ops, m \in Nodes : <<o, m>> \in Call BY DEF Call
<1>1. ASSUME NEW t \in Tasks, AnyCall(t) PROVE PendingIsOwned'
  <2> PICK n \in Nodes :
        \/ ClearNode(t, n) \/ HideNode(t, n) \/ ShowNode(t, n) \/ FinishAttempt(t, n)
        \/ EnqueueNode(t, n) \/ SendToQueue(t, n)
    BY <1>1 DEF AnyCall
  <2>1. CASE ClearNode(t, n)
    <3>1. \A m \in Nodes \ {n} : Held(m) => Held(m)'
      BY <2>1, HideType, ContinueHeld DEF ClearNode
    <3>2. n \notin pend' /\ pend' \subseteq pend /\ has \ {n} \subseteq has'
          /\ UNCHANGED <<queue, work, trying, lost>>
      BY <2>1 DEF ClearNode, MarkNone, matterVars
    <3> QED BY <3>1, <3>2, OwnedCalls
  <2>2. CASE HideNode(t, n) \/ ShowNode(t, n) \/ FinishAttempt(t, n)
    <3>0. PICK op \in {"hide", "show", "finish"} : Doing(t, op, n) /\ Continue(t, <<>>)
      BY <2>2 DEF HideNode, ShowNode, FinishAttempt
    <3>1. \A m \in Nodes : Held(m) => Held(m)' BY <3>0, ContinueHeldAll
    <3>2. UNCHANGED <<pend, has, queue, work, trying, lost>>
      BY <2>2 DEF HideNode, ShowNode, FinishAttempt, tableVars, matterVars
    <3>3. NoNode \notin pend' BY <3>2 DEF TypeOK
    <3> QED BY <3>1, <3>2, <3>3, OwnedCalls
  <2>3. CASE EnqueueNode(t, n)
    <3>1. UNCHANGED <<has, queue, work, trying, lost>> /\ pend' \ {n} \subseteq pend
      BY <2>3 DEF EnqueueNode, matterVars
    <3>2. \A m \in Nodes : Held(m) => Held(m)'
      <4>1. PICK s \in Seq(Call) : Continue(t, s) BY <1>0, <2>3 DEF EnqueueNode, Ops
      <4>2. Doing(t, "enqueue", n) BY <2>3 DEF EnqueueNode
      <4> QED BY <4>1, <4>2, ContinueHeldAll
    <3>3. n \in pend' => Owned(n)'
      <4>1. CASE pend' = pend
        BY <3>1, <3>2, <4>1 DEF PendingIsOwned, Owned, Held, Attempts
      <4>2. CASE pend' # pend
        <5>1. Continue(t, << <<"send", n>> >>) /\ Doing(t, "enqueue", n)
          BY <2>3, <4>2 DEF EnqueueNode
        <5>2. << <<"send", n>> >> \in Seq(Call) /\ <<"send", n>> \in Elements(<< <<"send", n>> >>)
          BY <1>0, ElementsOfTuples DEF Ops
        <5>3. Held(n)' BY <5>1, <5>2, ContinueHeld
        <5> QED BY <5>3 DEF Owned
      <4> QED BY <4>1, <4>2
    <3> QED BY <3>1, <3>2, <3>3, OwnedCalls
  <2>4. CASE SendToQueue(t, n)
    <3>1. UNCHANGED <<pend, has, work, trying, lost>>
      BY <2>4 DEF SendToQueue, tableVars, matterVars
    <3>2. CASE queue' = Append(queue, n) /\ Continue(t, <<>>)
      <4>1. Elements(queue') = Elements(queue) \cup {n}
        BY <3>2, ElementsOfAppend DEF TypeOK
      <4>2. \A m \in Nodes \ {n} : Held(m) => Held(m)'
        BY <2>4, <3>2, ContinueHeld DEF SendToQueue
      <4>3. Owned(n)' BY <4>1 DEF Owned
      <4> QED BY <3>1, <4>1, <4>2, <4>3, OwnedCalls
    <3>3. CASE queue' = queue /\ Continue(t, << <<"clear", n>> >>)
      <4>1. << <<"clear", n>> >> \in Seq(Call) /\ <<"clear", n>> \in Elements(<< <<"clear", n>> >>)
        BY <1>0, ElementsOfTuples DEF Ops
      <4>2. (\A m \in Nodes \ {n} : Held(m) => Held(m)') /\ Held(n)'
        BY <2>4, <3>3, <4>1, ContinueHeld DEF SendToQueue
      <4>3. Owned(n)' BY <4>2 DEF Owned
      <4> QED BY <3>1, <3>3, <4>2, <4>3, OwnedCalls
    <3> QED BY <2>4, <3>2, <3>3 DEF SendToQueue
  <2> QED BY <2>1, <2>2, <2>3, <2>4
<1>2. ASSUME NEW t \in {"worker", "main"}, NEW n \in Nodes, SweepNode(t, n) PROVE PendingIsOwned'
  <2>1. t \in Tasks BY DEF Tasks
  <2>2. \A m \in Nodes : Held(m) => Held(m)' BY <1>0, <1>2, <2>1, StartHeld DEF SweepNode, Ops
  <2>3. UNCHANGED <<pend, has, queue, work, trying, lost>> BY <1>2 DEF SweepNode, matterVars
  <2>4. NoNode \notin pend' BY <2>3 DEF TypeOK
  <2> QED BY <2>2, <2>3, <2>4, OwnedCalls
<1>3. CASE StartSweep
  BY <1>3 DEF StartSweep, PendingIsOwned, Attempts, InHand, tableVars, matterVars
<1>4. CASE Receive
  <2>0. PICK n : n = Head(queue) OBVIOUS
  <2>1. queue \in Seq(Nodes) /\ queue # <<>> /\ queue' = Tail(queue)
    BY <1>4 DEF Receive, TypeOK
  <2>2. n \in Nodes /\ Elements(queue) = {n} \cup Elements(queue')
    BY <2>0, <2>1, HeadTailProperties, ElementsOfTail
  <2>3. PICK o \in {"check", "clear"} : Start("worker", << <<o, n>> >>)
    BY <1>4, <2>0 DEF Receive
  <2>4. << <<o, n>> >> \in Seq(Call) /\ <<o, n>> \in Elements(<< <<o, n>> >>)
    BY <1>0, <2>2, ElementsOfTuples DEF Ops
  <2>5. (\A m \in Nodes : Held(m) => Held(m)') /\ Held(n)'
    BY <2>2, <2>3, <2>4, StartHeld DEF Tasks
  <2>6. Owned(n)' BY <2>5 DEF Owned
  <2>7. UNCHANGED <<pend, has, work, trying, lost>> BY <1>4 DEF Receive, tableVars, matterVars
  <2> QED BY <2>2, <2>5, <2>6, <2>7, OwnedCalls
<1>5. ASSUME NEW n \in Nodes, CheckSubscribed(n) PROVE PendingIsOwned'
  <2>1. UNCHANGED <<pend, has, queue, work, trying, lost>> /\ Doing("worker", "check", n)
    BY <1>5 DEF CheckSubscribed, tableVars, matterVars
  <2>2. CASE n \in has /\ Continue("worker", <<>>)
    <3>1. \A m \in Nodes \ {n} : Held(m) => Held(m)' BY <2>1, <2>2, ContinueHeld DEF Tasks
    <3>2. Owned(n)' BY <2>1, <2>2 DEF Owned
    <3> QED BY <2>1, <3>1, <3>2, OwnedCalls
  <2>3. CASE Continue("worker", << <<"claim", n>> >>)
    <3>1. << <<"claim", n>> >> \in Seq(Call) /\ <<"claim", n>> \in Elements(<< <<"claim", n>> >>)
      BY <1>0, ElementsOfTuples DEF Ops
    <3>2. (\A m \in Nodes \ {n} : Held(m) => Held(m)') /\ Held(n)'
      BY <2>1, <2>3, <3>1, ContinueHeld DEF Tasks
    <3>3. Owned(n)' BY <3>2 DEF Owned
    <3> QED BY <2>1, <3>2, <3>3, OwnedCalls
  <2> QED BY <1>5, <2>2, <2>3 DEF CheckSubscribed
<1>6. ASSUME NEW n \in Nodes, ReclaimSlot(n) PROVE PendingIsOwned'
  <2>1. PICK m \in Nodes :
          /\ MarkNone(m)
          /\ Continue("worker", Hide(m) \o << <<"release", m>>, <<"scan", n>> >>)
    BY <1>6 DEF ReclaimSlot, Lowest, TypeOK
  <2>2. PICK rest : rest = << <<"release", m>>, <<"scan", n>> >> OBVIOUS
  <2>3. rest \in Seq(Call) /\ <<"scan", n>> \in Elements(rest)
    BY <1>0, <2>2, ElementsOfTuples DEF Ops
  <2>4. PICK s : s = Hide(m) \o rest OBVIOUS
  <2>5. s \in Seq(Call) /\ <<"scan", n>> \in Elements(s)
    <3>1. Hide(m) \in Seq(Call) BY HideType
    <3>2. Elements(Hide(m) \o rest) = Elements(Hide(m)) \cup Elements(rest)
      BY <2>3, <3>1, ElementsOfConcat
    <3> QED BY <2>3, <2>4, <3>1, <3>2, ConcatProperties
  <2>6. PICK op \in {"claim", "scan"} : Doing("worker", op, n)
    BY <1>6 DEF ReclaimSlot, Claiming
  <2>7. Continue("worker", s) BY <2>1, <2>2, <2>4
  <2>8. (\A k \in Nodes : Held(k) /\ k # n => Held(k)') /\ Held(n)'
    BY <2>5, <2>6, <2>7, ContinueHeld DEF Tasks
  <2>9. /\ m \notin pend' /\ pend' \subseteq pend /\ has \ {m} \subseteq has'
        /\ UNCHANGED <<queue, work, trying, lost>>
    BY <1>6, <2>1 DEF ReclaimSlot, MarkNone, matterVars
  <2>10. \A k \in Nodes \ {m} : Held(k) => Held(k)' BY <2>8
  <2> QED BY <2>9, <2>10, OwnedCalls
<1>7. ASSUME NEW n \in Nodes, ReleaseSlot(n) PROVE PendingIsOwned'
  <2>0. Doing("worker", "release", n) /\ Continue("worker", <<>>) BY <1>7 DEF ReleaseSlot
  <2>1. \A m \in Nodes : Held(m) => Held(m)' BY <2>0, ContinueHeldAll DEF Tasks
  <2>2. UNCHANGED <<pend, has, queue, work, trying, lost>>
    BY <1>7 DEF ReleaseSlot, tableVars, matterVars
  <2>3. NoNode \notin pend' BY <2>2 DEF TypeOK
  <2> QED BY <2>1, <2>2, <2>3, OwnedCalls
<1>8. ASSUME NEW n \in Nodes, ClaimSlot(n) PROVE PendingIsOwned'
  <2>1. UNCHANGED <<pend, has, queue, trying, lost>> BY <1>8 DEF ClaimSlot, tableVars
  <2>2. PICK op \in {"claim", "scan"} : Doing("worker", op, n) BY <1>8 DEF ClaimSlot, Claiming
  <2>3. CASE work' = Append(work, n) /\ Continue("worker", <<>>)
    <3>1. Elements(work') = Elements(work) \cup {n} BY <2>3, ElementsOfAppend DEF TypeOK
    <3>2. \A m \in Nodes \ {n} : Held(m) => Held(m)' BY <2>2, <2>3, ContinueHeld DEF Tasks
    <3>3. Owned(n)' BY <3>1 DEF Owned
    <3> QED BY <2>1, <3>1, <3>2, <3>3, OwnedCalls
  <2>4. CASE work' = work /\ Continue("worker", << <<"clear", n>>, <<"finish", n>> >>)
    <3> DEFINE s == << <<"clear", n>>, <<"finish", n>> >>
    <3>1. s \in Seq(Call) /\ <<"clear", n>> \in Elements(s)
      BY <1>0, ElementsOfTuples DEF Ops
    <3>2. Continue("worker", s) BY <2>4
    <3> HIDE DEF s
    <3>3. (\A m \in Nodes \ {n} : Held(m) => Held(m)') /\ Held(n)'
      BY <2>2, <3>1, <3>2, ContinueHeld DEF Tasks
    <3>4. Owned(n)' BY <3>3 DEF Owned
    <3> QED BY <2>1, <2>4, <3>3, <3>4, OwnedCalls
  <2> QED BY <1>8, <2>3, <2>4 DEF ClaimSlot
<1>9. ASSUME NEW n \in Nodes, Chase(n) PROVE PendingIsOwned'
  <2>1. PICK s \in Seq(Call) : Continue("chip", s) BY <1>0, <1>9 DEF Chase, Ops
  <2>5. Doing("chip", "chase", n) BY <1>9 DEF Chase
  <2>2. \A m \in Nodes : Held(m) => Held(m)' BY <2>1, <2>5, ContinueHeldAll DEF Tasks
  <2>3. UNCHANGED <<pend, has, queue, work, trying, lost>> BY <1>9 DEF Chase, matterVars
  <2>4. NoNode \notin pend' BY <2>3 DEF TypeOK
  <2> QED BY <2>2, <2>3, <2>4, OwnedCalls
<1>10. CASE SendSubscription
  <2>0. PICK n : n = Head(work) OBVIOUS
  <2>1. work \in Seq(Nodes) /\ work # <<>> /\ work' = Tail(work) BY <1>10 DEF SendSubscription, TypeOK
  <2>2. n \in Nodes /\ Elements(work) = {n} \cup Elements(work')
    BY <2>0, <2>1, HeadTailProperties, ElementsOfTail
  <2>3. UNCHANGED <<pend, has, queue, lost>> BY <1>10 DEF SendSubscription
  <2>4. CASE trying' = [trying EXCEPT ![<<n, tariff = n>>] = @ + 1] /\ Start("chip", <<>>)
    <3>1. \A m \in Nodes : Held(m) => Held(m)' BY <2>4, StartHeld DEF Tasks
    <3>2. PICK p \in BOOLEAN : p = (tariff = n) OBVIOUS
    <3>3. trying' = [trying EXCEPT ![<<n, p>>] = @ + 1] BY <2>4, <3>2
    <3>4. \A m \in Nodes : Attempts(m)' = IF m = n THEN Attempts(m) + 1 ELSE Attempts(m)
      BY <2>2, <3>3, BeginAttemptEffect
    <3>5. \A m \in Nodes : Attempts(m) \in Nat /\ lost[m] \in Nat BY AttemptsType
    <3>6. \A m \in Nodes \ {n} : Attempts(m) + lost[m] > 0 => (Attempts(m) + lost[m] > 0)'
      BY <2>3, <3>4
    <3>7. (Attempts(n) + lost[n] > 0)' BY <2>2, <2>3, <3>4, <3>5
    <3>8. Owned(n)' BY <3>7 DEF Owned
    <3> QED BY <2>2, <2>3, <3>1, <3>6, <3>8, OwnedFrame
  <2>5. CASE trying' = trying /\ Start("chip", << <<"clear", n>>, <<"finish", n>> >>)
    <3>1. /\ << <<"clear", n>>, <<"finish", n>> >> \in Seq(Call)
          /\ <<"clear", n>> \in Elements(<< <<"clear", n>>, <<"finish", n>> >>)
      BY <1>0, <2>2, ElementsOfTuples DEF Ops
    <3>2. (\A m \in Nodes : Held(m) => Held(m)') /\ Held(n)'
      BY <2>2, <2>5, <3>1, StartHeld DEF Tasks
    <3>3. Owned(n)' BY <3>2 DEF Owned
    <3> QED BY <2>2, <2>3, <2>5, <3>2, <3>3, OwnedCalls
  <2> QED BY <1>10, <2>0, <2>4, <2>5 DEF SendSubscription
<1>11. ASSUME NEW i \in Slots, Expire(i) PROVE PendingIsOwned'
  BY <1>11 DEF Expire, PendingIsOwned, Attempts, InHand, tableVars, matterVars, taskVars
<1>12. ASSUME NEW n \in Nodes, NEW p \in BOOLEAN, EndAttempt(n, p), UNCHANGED <<queue, work, lost>>,
              pend' \ {n} \subseteq pend, has \ {n} \subseteq has',
              \A m \in Nodes : Held(m) => Held(m)',
              n \in pend' => n \in has'
       PROVE  PendingIsOwned'
  <2>1. \A m \in Nodes \ {n} : Attempts(m)' = Attempts(m) BY <1>12, EndAttemptEffect
  <2>2. \A m \in Nodes \ {n} : Attempts(m) + lost[m] > 0 => (Attempts(m) + lost[m] > 0)'
    BY <1>12, <2>1
  <2>3. n \in pend' => Owned(n)' BY <1>12 DEF Owned
  <2> QED BY <1>12, <2>2, <2>3, OwnedFrame
<1>13. ASSUME NEW n \in Nodes, NEW p \in BOOLEAN, ConnectFailed(n, p) PROVE PendingIsOwned'
  <2> DEFINE s == Hide(n) \o << <<"finish", n>>, <<"chase", n>> >>
  <2>1. s \in Seq(Call)
    <3>1. << <<"finish", n>>, <<"chase", n>> >> \in Seq(Call) BY <1>0 DEF Ops
    <3> QED BY <3>1, HideType, ConcatProperties
  <2>2. Start("chip", s) BY <1>13 DEF ConnectFailed
  <2> HIDE DEF s
  <2>3. \A m \in Nodes : Held(m) => Held(m)' BY <2>1, <2>2, StartHeld DEF Tasks
  <2>4. /\ EndAttempt(n, p) /\ UNCHANGED <<queue, work, lost>>
        /\ n \notin pend' /\ pend' \subseteq pend /\ has \ {n} \subseteq has'
    BY <1>13 DEF ConnectFailed, MarkNone
  <2> QED BY <1>12, <2>3, <2>4
<1>14. ASSUME NEW n \in Nodes, NEW sid, TerminatedCallback(n, sid)
       PROVE  /\ \A m \in Nodes : Held(m) => Held(m)'
              /\ pend' \subseteq pend /\ has \ {n} \subseteq has'
              /\ n \in pend' => UNCHANGED <<pend, has>>
              /\ n \in pend' => ~(n \in tracked /\ Matches(n, sid))
  <2>1. PICK s \in Seq(Call) : Start("chip", s) BY <1>0, <1>14 DEF TerminatedCallback, Ops
  <2>2. \A m \in Nodes : Held(m) => Held(m)' BY <2>1, StartHeld DEF Tasks
  <2> QED BY <1>14, <2>2 DEF TerminatedCallback, MarkNone, tableVars
<1>15. ASSUME NEW n \in Nodes, NEW p \in BOOLEAN, EndedEarly(n, p) PROVE PendingIsOwned'
  <2>1. TerminatedCallback(n, 0) /\ EndAttempt(n, p) /\ UNCHANGED <<queue, work, lost>>
    BY <1>15 DEF EndedEarly
  <2>2. n \notin pend'
    <3>1. pend \subseteq tracked BY DEF TypeOK
    <3> QED BY <1>14, <2>1, <3>1 DEF Matches
  <2> QED BY <1>12, <1>14, <2>1, <2>2
<1>16. ASSUME NEW s \in live, Terminated(s) PROVE PendingIsOwned'
  <2>1. s.node \in Nodes BY DEF TypeOK
  <2>2. TerminatedCallback(s.node, s.id) /\ UNCHANGED <<queue, work, trying, lost>>
    BY <1>16 DEF Terminated
  <2>3. s.node \in pend' => Owned(s.node)'
    <3> SUFFICES ASSUME s.node \in pend' PROVE Owned(s.node)' OBVIOUS
    <3>1. UNCHANGED <<pend, has, queue, work, trying, lost>> BY <1>14, <2>1, <2>2
    <3>2. \A m \in Nodes : Held(m) => Held(m)' BY <1>14, <2>1, <2>2
    <3> QED BY <2>1, <3>1, <3>2 DEF PendingIsOwned, Owned, Held, Attempts
  <2> QED BY <1>14, <2>1, <2>2, <2>3, OwnedCalls
<1>17. ASSUME NEW n \in Nodes, NEW p \in BOOLEAN, NEW i \in Ids, Established(n, p, i)
       PROVE  PendingIsOwned'
  <2>1. << <<"show", n>>, <<"finish", n>> >> \in Seq(Call) BY <1>0 DEF Ops
  <2>2. \A m \in Nodes : Held(m) => Held(m)' BY <1>17, <2>1, StartHeld DEF Established, Tasks
  <2>3. pend \subseteq tracked /\ tracked \subseteq Track(n) BY DEF TypeOK, Track
  <2>4. /\ EndAttempt(n, p) /\ UNCHANGED <<queue, work, lost>>
        /\ n \notin pend' /\ pend' \subseteq pend /\ has \subseteq has'
    BY <1>17, <2>3 DEF Established
  <2> QED BY <1>12, <2>2, <2>4
<1>18. ASSUME NEW n \in Nodes, NEW p \in BOOLEAN, AttemptLost(n, p) PROVE PendingIsOwned'
  <2>1. UNCHANGED <<pend, has, queue, work, calls>> /\ EndAttempt(n, p)
    BY <1>18 DEF AttemptLost, tableVars, taskVars
  <2>2. \A m \in Nodes : Held(m) => Held(m)' BY <2>1 DEF Held, InHand
  <2>3. \A m \in Nodes : Attempts(m) \in Nat /\ lost[m] \in Nat BY AttemptsType
  <2>4. \A m \in Nodes : Attempts(m)' = IF m = n THEN Attempts(m) - 1 ELSE Attempts(m)
    BY <2>1, EndAttemptEffect
  <2>5. \A m \in Nodes : lost'[m] = IF m = n THEN lost[m] + 1 ELSE lost[m]
    BY <1>18 DEF AttemptLost, TypeOK
  <2>6. \A m \in Nodes : (Attempts(m) + lost[m])' = Attempts(m) + lost[m]
    BY <2>3, <2>4, <2>5
  <2>7. ASSUME NEW m \in Nodes, Owned(m) PROVE Owned(m)'
    BY <2>1, <2>2, <2>6, <2>7 DEF Owned
  <2>8. pend \subseteq Nodes BY DEF TypeOK
  <2> QED BY <2>1, <2>7, <2>8 DEF PendingIsOwned, Owned, Held
<1>19. ASSUME NEW s \in Seq(Call), NEW t \in Tasks, Start(t, s), pend' \subseteq pend,
              UNCHANGED <<has, queue, work, trying, lost>>
       PROVE  PendingIsOwned'
  <2>1. \A m \in Nodes : Held(m) => Held(m)' BY <1>19, StartHeld
  <2>2. NoNode \notin pend' BY <1>19 DEF TypeOK
  <2> QED BY <1>19, <2>1, <2>2, OwnedCalls
<1>20. ASSUME NEW n \in Nodes, CheckIn(n) \/ Interrogated(n) PROVE PendingIsOwned'
  <2>1. PICK s \in Seq(Call) : Start("chip", s) BY <1>0, <1>20 DEF CheckIn, Interrogated, Ops
  <2>2. UNCHANGED <<pend, has, queue, work, trying, lost>>
    BY <1>20 DEF CheckIn, Interrogated, tableVars, matterVars
  <2> QED BY <1>19, <2>1, <2>2 DEF Tasks
<1>21. ASSUME NEW n \in Nodes \cup {NoNode}, AssignTariff(n) PROVE PendingIsOwned'
  <2>1. PICK s \in Seq(Call) : Start("http", s) BY <1>0, <1>21 DEF AssignTariff, Ops
  <2>2. UNCHANGED <<pend, has, queue, work, trying, lost>>
    BY <1>21 DEF AssignTariff, tableVars, matterVars
  <2> QED BY <1>19, <2>1, <2>2 DEF Tasks
<1>22. ASSUME UNCHANGED <<pend, has, queue, work, trying, lost, calls>> PROVE PendingIsOwned'
  BY <1>22 DEF PendingIsOwned, Attempts, InHand
<1>23. ASSUME NEW n \in Nodes,
              DeviceAdded(n) \/ SensorFound(n) \/ RemoveDevice(n) \/ ClearEndpoints(n)
       PROVE  PendingIsOwned'
  BY <1>22, <1>23 DEF DeviceAdded, SensorFound, RemoveDevice, ClearEndpoints, tableVars, matterVars,
                      taskVars
<1>24. CASE UNCHANGED vars BY <1>22, <1>24 DEF vars, tableVars, matterVars, taskVars
<1> QED
  BY <1>1, <1>2, <1>3, <1>4, <1>5, <1>6, <1>7, <1>8, <1>9, <1>10, <1>11, <1>13, <1>15, <1>16,
     <1>17, <1>18, <1>20, <1>21, <1>23, <1>24
  DEF Next, Worker, Main, Http, ChipHandler, Outcome, Environment, Tasks

(* A pending node is always subscribed or somewhere on its way.  With the  *)
(* types this is inductive: every handler that takes a node out of one     *)
(* place has it in hand until it has put it in the next.                   *)
THEOREM PendingAlwaysOwned == Spec => []PendingIsOwned
<1>1. Init => TypeOK /\ PendingIsOwned BY InitTypeOK DEF Init, PendingIsOwned
<1>2. TypeOK /\ PendingIsOwned /\ [Next]_vars => (TypeOK /\ PendingIsOwned)'
  BY TypeOKStep, OwnedStep
<1> QED BY <1>1, <1>2, PTL DEF Spec

-----------------------------------------------------------------------------
(* No slot leaks.                                                          *)

Scheduled(n) == Cardinality({k \in DOMAIN work : work[k] = n})
CountsAreNat ==
    \A n \in Nodes : /\ Cardinality(SlotsOf(n)) \in Nat
                     /\ Attempts(n) \in Nat
                     /\ lost[n] \in Nat
                     /\ Finishing(n) \in Nat
                     /\ Scheduled(n) \in Nat

LEMMA SlotsAreFinite == \A n : IsFiniteSet(SlotsOf(n)) /\ Cardinality(SlotsOf(n)) \in Nat
<1> SUFFICES ASSUME NEW n PROVE IsFiniteSet(SlotsOf(n)) /\ Cardinality(SlotsOf(n)) \in Nat
  OBVIOUS
<1>1. IsFiniteSet(Slots) BY FS_Interval DEF Slots
<1>2. IsFiniteSet(SlotsOf(n)) BY <1>1, FS_Subset DEF SlotsOf
<1> QED BY <1>2, FS_CardinalityType

LEMMA TasksAreFinite == IsFiniteSet(Tasks)
<1>1. IsFiniteSet({"chip"}) BY FS_Singleton
<1>2. IsFiniteSet({"chip"} \cup {"worker"}) BY <1>1, FS_AddElement
<1>3. IsFiniteSet({"chip"} \cup {"worker"} \cup {"main"}) BY <1>2, FS_AddElement
<1>4. IsFiniteSet({"chip"} \cup {"worker"} \cup {"main"} \cup {"http"}) BY <1>3, FS_AddElement
<1>5. Tasks = {"chip"} \cup {"worker"} \cup {"main"} \cup {"http"} BY DEF Tasks
<1> QED BY <1>4, <1>5

FinishSet(n) == {t \in Tasks : <<"finish", n>> \in Elements(calls[t])}

LEMMA FinishIsFinite == \A n : IsFiniteSet(FinishSet(n)) /\ Cardinality(FinishSet(n)) \in Nat
<1> SUFFICES ASSUME NEW n PROVE IsFiniteSet(FinishSet(n)) /\ Cardinality(FinishSet(n)) \in Nat
  OBVIOUS
<1>1. IsFiniteSet(FinishSet(n)) BY TasksAreFinite, FS_Subset DEF FinishSet
<1> QED BY <1>1, FS_CardinalityType

(* Where a sequence holds a value. *)
At(w, n) == {k \in DOMAIN w : w[k] = n}

LEMMA AtIsFinite ==
    ASSUME NEW S, NEW w \in Seq(S), NEW n
    PROVE  IsFiniteSet(At(w, n)) /\ Cardinality(At(w, n)) \in Nat
<1>1. Len(w) \in Nat /\ DOMAIN w = 1..Len(w) BY LenProperties
<1>2. IsFiniteSet(1..Len(w)) BY <1>1, FS_Interval
<1>3. IsFiniteSet(At(w, n)) BY <1>1, <1>2, FS_Subset DEF At
<1> QED BY <1>3, FS_CardinalityType

LEMMA AtAppend ==
    ASSUME NEW S, NEW w \in Seq(S), NEW x \in S
    PROVE  \A n : Cardinality(At(Append(w, x), n)) = Cardinality(At(w, n)) + IF n = x THEN 1 ELSE 0
<1> SUFFICES ASSUME NEW n
             PROVE  Cardinality(At(Append(w, x), n)) = Cardinality(At(w, n)) + IF n = x THEN 1 ELSE 0
  OBVIOUS
<1>1. Len(w) \in Nat /\ DOMAIN w = 1..Len(w) BY LenProperties
<1>2. PICK v : v = Append(w, x) OBVIOUS
<1>3. DOMAIN v = 1..(Len(w) + 1) BY <1>2, AppendProperties, LenProperties
<1>4. v[Len(w) + 1] = x BY <1>2, AppendProperties
<1>5. \A k \in DOMAIN w : v[k] = w[k] BY <1>1, <1>2, AppendProperties
<1>6. IsFiniteSet(At(w, n)) /\ Cardinality(At(w, n)) \in Nat BY AtIsFinite
<1>7. CASE n = x
  <2>1. At(v, n) = At(w, n) \cup {Len(w) + 1} BY <1>1, <1>3, <1>4, <1>5, <1>7 DEF At
  <2>2. Len(w) + 1 \notin At(w, n) BY <1>1 DEF At
  <2>3. Cardinality(At(w, n) \cup {Len(w) + 1}) = Cardinality(At(w, n)) + 1
    BY <1>6, <2>2, FS_AddElement
  <2> QED BY <1>2, <1>7, <2>1, <2>3
<1>8. CASE n # x
  <2>1. At(v, n) = At(w, n) BY <1>1, <1>3, <1>4, <1>5, <1>8 DEF At
  <2> QED BY <1>2, <1>6, <1>8, <2>1
<1> QED BY <1>7, <1>8

LEMMA AtTail ==
    ASSUME NEW S, NEW w \in Seq(S), w # <<>>
    PROVE  \A n : Cardinality(At(Tail(w), n)) =
                      Cardinality(At(w, n)) - IF n = Head(w) THEN 1 ELSE 0
<1> SUFFICES ASSUME NEW n
             PROVE  Cardinality(At(Tail(w), n)) =
                        Cardinality(At(w, n)) - IF n = Head(w) THEN 1 ELSE 0
  OBVIOUS
<1>1. Len(w) \in Nat \ {0} /\ DOMAIN w = 1..Len(w) /\ Head(w) = w[1]
  BY LenProperties, EmptySeq, HeadTailProperties
<1>2. PICK v \in Seq(S) : v = Tail(w) BY HeadTailProperties
<1>3. DOMAIN v = 1..(Len(w) - 1) BY <1>2, HeadTailProperties, LenProperties
<1>4. \A k \in DOMAIN v : v[k] = w[k + 1] BY <1>1, <1>2, <1>3, HeadTailProperties
<1> DEFINE A == At(w, n) \ {1}
           B == At(v, n)
           f == [k \in A |-> k - 1]
<1>5. IsFiniteSet(At(w, n)) /\ Cardinality(At(w, n)) \in Nat BY AtIsFinite
<1>6. /\ IsFiniteSet(A)
      /\ Cardinality(A) = IF 1 \in At(w, n) THEN Cardinality(At(w, n)) - 1 ELSE Cardinality(At(w, n))
  BY <1>5, FS_RemoveElement
<1>7. 1 \in At(w, n) <=> n = Head(w) BY <1>1 DEF At
<1>8. ExistsBijection(A, B)
  <2>1. ASSUME NEW k \in A PROVE k \in Int /\ k - 1 \in B
    <3>1. k \in DOMAIN w /\ w[k] = n /\ k # 1 BY DEF At
    <3>2. k \in Nat /\ k - 1 \in DOMAIN v /\ (k - 1) + 1 = k BY <1>1, <1>3, <3>1
    <3> QED BY <1>4, <3>1, <3>2 DEF At
  <2>2. ASSUME NEW j \in B PROVE j \in Int /\ j + 1 \in A
    <3>1. j \in DOMAIN v /\ v[j] = n BY DEF At
    <3>2. j \in Nat /\ j + 1 \in DOMAIN w /\ j + 1 # 1 BY <1>1, <1>3, <3>1
    <3> QED BY <1>4, <3>1, <3>2 DEF At
  <2> HIDE DEF A, B
  <2>3. f \in [A -> B] BY <2>1
  <2>4. \A j, k \in A : f[j] = f[k] => j = k BY <2>1
  <2>5. \A j \in B : \E k \in A : f[k] = j
    <3> SUFFICES ASSUME NEW j \in B PROVE \E k \in A : f[k] = j OBVIOUS
    <3>1. j + 1 \in A /\ f[j + 1] = (j + 1) - 1 /\ j \in Int BY <2>2
    <3> QED BY <3>1
  <2> HIDE DEF f
  <2>6. f \in Bijection(A, B) BY <2>3, <2>4, <2>5, Fun_IsBij
  <2> QED BY <2>6 DEF ExistsBijection
<1>9. Cardinality(B) = Cardinality(A) BY <1>6, <1>8, FS_Bijection
<1> QED BY <1>2, <1>5, <1>6, <1>7, <1>9

LEMMA CountTypes == TypeOK => CountsAreNat
<1> SUFFICES ASSUME TypeOK, NEW n \in Nodes
             PROVE  /\ Cardinality(SlotsOf(n)) \in Nat /\ Attempts(n) \in Nat /\ lost[n] \in Nat
                    /\ Finishing(n) \in Nat /\ Scheduled(n) \in Nat
  BY DEF CountsAreNat
<1>1. work \in Seq(Nodes) BY DEF TypeOK
<1>2. Cardinality(At(work, n)) \in Nat BY <1>1, AtIsFinite
<1> QED BY <1>2, SlotsAreFinite, FinishIsFinite, AttemptsType DEF Scheduled, At, Finishing, FinishSet

(* What a step may change of the counts. *)
LEMMA FreeSlotEffect ==
    ASSUME TypeOK, NEW i \in Slots, FreeSlot(i)
    PROVE  \A m \in Nodes : Cardinality(SlotsOf(m))' =
                                Cardinality(SlotsOf(m)) - IF slots[i] = m THEN 1 ELSE 0
<1> SUFFICES ASSUME NEW m \in Nodes
             PROVE  Cardinality(SlotsOf(m))' =
                        Cardinality(SlotsOf(m)) - IF slots[i] = m THEN 1 ELSE 0
  OBVIOUS
<1>1. SlotsOf(m)' = SlotsOf(m) \ {i} BY DEF FreeSlot, SlotsOf, TypeOK
<1>2. i \in SlotsOf(m) <=> slots[i] = m BY DEF SlotsOf
<1>3. IsFiniteSet(SlotsOf(m)) /\ Cardinality(SlotsOf(m)) \in Nat BY SlotsAreFinite
<1>4. Cardinality(SlotsOf(m) \ {i}) =
          IF i \in SlotsOf(m) THEN Cardinality(SlotsOf(m)) - 1 ELSE Cardinality(SlotsOf(m))
  BY <1>3, FS_RemoveElement
<1> QED BY <1>1, <1>2, <1>3, <1>4

LEMMA TakeSlotEffect ==
    ASSUME TypeOK, NEW i \in Slots, NEW n \in Nodes, slots[i] = NoNode,
           slots' = [slots EXCEPT ![i] = n]
    PROVE  \A m \in Nodes : Cardinality(SlotsOf(m))' =
                                Cardinality(SlotsOf(m)) + IF m = n THEN 1 ELSE 0
<1> SUFFICES ASSUME NEW m \in Nodes
             PROVE  Cardinality(SlotsOf(m))' = Cardinality(SlotsOf(m)) + IF m = n THEN 1 ELSE 0
  OBVIOUS
<1>1. SlotsOf(m)' = IF m = n THEN SlotsOf(m) \cup {i} ELSE SlotsOf(m) BY DEF SlotsOf, TypeOK
<1>2. i \notin SlotsOf(m) BY DEF SlotsOf
<1>3. IsFiniteSet(SlotsOf(m)) /\ Cardinality(SlotsOf(m)) \in Nat BY SlotsAreFinite
<1>4. Cardinality(SlotsOf(m) \cup {i}) = Cardinality(SlotsOf(m)) + 1
  BY <1>2, <1>3, FS_AddElement
<1> QED BY <1>1, <1>3, <1>4

(* One task's calls change: at most that task stops or starts finishing.   *)
LEMMA FinishingEffect ==
    ASSUME NEW t \in Tasks, \A u \in Tasks \ {t} : calls'[u] = calls[u], NEW n
    PROVE  /\ Finishing(n)' >= Finishing(n) - 1
           /\ (<<"finish", n>> \in Elements(calls[t]) => <<"finish", n>> \in Elements(calls'[t]))
                  => Finishing(n)' >= Finishing(n)
           /\ <<"finish", n>> \notin Elements(calls[t]) /\ <<"finish", n>> \in Elements(calls'[t])
                  => Finishing(n)' = Finishing(n) + 1
<1> DEFINE A == FinishSet(n)
           B == A \ {t}
<1>1. IsFiniteSet(A) /\ Cardinality(A) \in Nat BY FinishIsFinite
<1>2. A' = B \/ A' = B \cup {t}
  <2>1. A' \ {t} = B BY DEF FinishSet
  <2> QED BY <2>1
<1>3. t \in A <=> <<"finish", n>> \in Elements(calls[t]) BY DEF FinishSet
<1>4. t \in A' <=> <<"finish", n>> \in Elements(calls'[t]) BY DEF FinishSet
<1>5. Finishing(n) = Cardinality(A) /\ Finishing(n)' = Cardinality(A') BY DEF Finishing, FinishSet
<1>6. PICK a, c : a = A /\ c = A' OBVIOUS
<1>7. PICK b : b = a \ {t} OBVIOUS
<1>8. /\ IsFiniteSet(a) /\ Cardinality(a) \in Nat
      /\ c = b \/ c = b \cup {t}
  BY <1>1, <1>2, <1>6, <1>7
<1>9. IsFiniteSet(b) /\ Cardinality(b) = IF t \in a THEN Cardinality(a) - 1 ELSE Cardinality(a)
  BY <1>7, <1>8, FS_RemoveElement
<1>10. Cardinality(b \cup {t}) = Cardinality(b) + 1 /\ t \notin b
  BY <1>7, <1>9, FS_AddElement
<1>11. Cardinality(c) = IF t \in c THEN Cardinality(b) + 1 ELSE Cardinality(b)
  BY <1>8, <1>10
<1>12. /\ Cardinality(c) >= Cardinality(a) - 1
       /\ (t \in a => t \in c) => Cardinality(c) >= Cardinality(a)
       /\ t \notin a /\ t \in c => Cardinality(c) = Cardinality(a) + 1
  BY <1>8, <1>9, <1>11
<1> HIDE DEF A
<1> QED BY <1>3, <1>4, <1>5, <1>6, <1>12

LEMMA ContinueFinishing ==
    ASSUME TypeOK, NEW t \in Tasks, NEW op, NEW n, NEW s \in Seq(Call),
           Doing(t, op, n), Continue(t, s)
    PROVE  /\ \A m \in Nodes : Finishing(m)' >= Finishing(m) - 1
           /\ \A m \in Nodes \ {n} : Finishing(m)' >= Finishing(m)
           /\ op # "finish" => \A m \in Nodes : Finishing(m)' >= Finishing(m)
           /\ op # "finish" => \A m \in Nodes :
                  <<"finish", m>> \in Elements(s) \ Elements(Tail(calls[t]))
                      => Finishing(m)' = Finishing(m) + 1
<1> SUFFICES ASSUME NEW m \in Nodes
             PROVE  /\ Finishing(m)' >= Finishing(m) - 1
                    /\ m # n \/ op # "finish" => Finishing(m)' >= Finishing(m)
                    /\ op # "finish" /\ <<"finish", m>> \in Elements(s) \ Elements(Tail(calls[t]))
                           => Finishing(m)' = Finishing(m) + 1
  OBVIOUS
<1>1. /\ Elements(calls[t]) = {<<op, n>>} \cup Elements(Tail(calls[t]))
      /\ Elements(calls'[t]) = Elements(s) \cup Elements(Tail(calls[t]))
      /\ \A u \in Tasks \ {t} : calls'[u] = calls[u]
  BY ContinueElements
<1>2. PICK c : c = <<"finish", m>> OBVIOUS
<1>3. m # n \/ op # "finish" => c # <<op, n>> BY <1>2
<1>4. /\ Finishing(m)' >= Finishing(m) - 1
      /\ (c \in Elements(calls[t]) => c \in Elements(calls'[t])) => Finishing(m)' >= Finishing(m)
      /\ c \notin Elements(calls[t]) /\ c \in Elements(calls'[t])
             => Finishing(m)' = Finishing(m) + 1
  BY <1>1, <1>2, FinishingEffect
<1>5. m # n \/ op # "finish" => (c \in Elements(calls[t]) => c \in Elements(calls'[t]))
  BY <1>1, <1>3
<1>6. op # "finish" /\ c \in Elements(s) /\ c \notin Elements(Tail(calls[t]))
          => c \notin Elements(calls[t]) /\ c \in Elements(calls'[t])
  BY <1>1, <1>3
<1>7. m # n \/ op # "finish" => Finishing(m)' >= Finishing(m) BY <1>4, <1>5
<1>8. op # "finish" /\ <<"finish", m>> \in Elements(s) \ Elements(Tail(calls[t]))
          => Finishing(m)' = Finishing(m) + 1
  BY <1>2, <1>4, <1>6
<1> QED BY <1>4, <1>7, <1>8

LEMMA ContinueFinishingAll ==
    ASSUME TypeOK, NEW t \in Tasks, NEW op, NEW n, NEW s \in Seq(Call),
           Doing(t, op, n), Continue(t, s), op # "finish"
    PROVE  \A m \in Nodes : Finishing(m)' >= Finishing(m)
  BY ContinueFinishing

LEMMA StartFinishing ==
    ASSUME TypeOK, NEW t \in Tasks, NEW s \in Seq(Call), Start(t, s)
    PROVE  \A m \in Nodes :
               /\ Finishing(m)' >= Finishing(m)
               /\ <<"finish", m>> \in Elements(s) => Finishing(m)' = Finishing(m) + 1
<1>1. /\ Elements(calls[t]) = {}
      /\ calls'[t] = s
      /\ \A u \in Tasks \ {t} : calls'[u] = calls[u]
  BY StartElements
<1> QED BY <1>1, FinishingEffect

(* Only the attempt that may leave a slot counts. *)
LEMMA SlotsFrame ==
    ASSUME CountsAreNat, CountsAreNat', SlotsAreOwned,
           \A m \in Nodes :
               \/ Cardinality(SlotsOf(m))' = 0
               \/ Cardinality(SlotsOf(m))' - Cardinality(SlotsOf(m))
                    <= (Attempts(m)' - Attempts(m)) + (lost'[m] - lost[m])
                         + (Finishing(m)' - Finishing(m)) + (Scheduled(m)' - Scheduled(m))
    PROVE  SlotsAreOwned'
<1> SUFFICES ASSUME NEW m \in Nodes
             PROVE  Cardinality(SlotsOf(m))'
                       <= Attempts(m)' + lost'[m] + Finishing(m)' + Scheduled(m)'
  BY DEF SlotsAreOwned, Scheduled
<1>1. Cardinality(SlotsOf(m)) <= Attempts(m) + lost[m] + Finishing(m) + Scheduled(m)
  BY DEF SlotsAreOwned, Scheduled
<1>2. /\ Cardinality(SlotsOf(m)) \in Nat /\ Attempts(m) \in Nat /\ lost[m] \in Nat
      /\ Finishing(m) \in Nat /\ Scheduled(m) \in Nat
  BY DEF CountsAreNat
<1>3. /\ Cardinality(SlotsOf(m))' \in Nat /\ Attempts(m)' \in Nat /\ lost'[m] \in Nat
      /\ Finishing(m)' \in Nat /\ Scheduled(m)' \in Nat
  BY DEF CountsAreNat
<1> QED BY <1>1, <1>2, <1>3

-----------------------------------------------------------------------------
(* The worker claims a slot as the last thing of its handler: it cannot be *)
(* about to free a slot of the node already.                               *)
Deciding == {"check", "claim", "scan"}
DecidesLast(c) == \A k \in DOMAIN c : c[k][1] \in Deciding => k = Len(c)
DecidesNothing(c) == \A k \in DOMAIN c : c[k][1] \notin Deciding
WorkerShape == DecidesLast(calls["worker"])

LEMMA ShapeOfConcat ==
    ASSUME NEW S, NEW a \in Seq(S), NEW b \in Seq(S), DecidesNothing(a), DecidesLast(b)
    PROVE  DecidesLast(a \o b)
<1>1. /\ Len(a) \in Nat /\ DOMAIN a = 1..Len(a)
      /\ Len(b) \in Nat /\ DOMAIN b = 1..Len(b)
      /\ Len(a \o b) = Len(a) + Len(b)
      /\ DOMAIN (a \o b) = 1..(Len(a) + Len(b))
  BY ConcatProperties, LenProperties
<1> SUFFICES ASSUME NEW k \in DOMAIN (a \o b), (a \o b)[k][1] \in Deciding
             PROVE  k = Len(a) + Len(b)
  BY <1>1 DEF DecidesLast
<1>2. CASE k <= Len(a)
  <2>1. k \in DOMAIN a /\ (a \o b)[k] = a[k] BY <1>1, <1>2, ConcatProperties
  <2> QED BY <2>1 DEF DecidesNothing
<1>3. CASE ~(k <= Len(a))
  <2>1. k - Len(a) \in DOMAIN b /\ (a \o b)[k] = b[k - Len(a)]
    BY <1>1, <1>3, ConcatProperties
  <2>2. k - Len(a) = Len(b) BY <2>1 DEF DecidesLast
  <2> QED BY <1>1, <2>2
<1> QED BY <1>2, <1>3

LEMMA ShapeOfTail ==
    ASSUME NEW S, NEW a \in Seq(S), a # <<>>, DecidesLast(a)
    PROVE  /\ DecidesLast(Tail(a))
           /\ Head(a)[1] \in Deciding => Tail(a) = <<>>
<1>1. /\ Len(a) \in Nat \ {0} /\ DOMAIN a = 1..Len(a) /\ Head(a) = a[1]
      /\ Tail(a) \in Seq(S) /\ Len(Tail(a)) = Len(a) - 1 /\ DOMAIN Tail(a) = 1..(Len(a) - 1)
  BY LenProperties, EmptySeq, HeadTailProperties
<1>2. \A k \in DOMAIN Tail(a) : Tail(a)[k] = a[k + 1] BY <1>1, HeadTailProperties
<1>3. DecidesLast(Tail(a))
  <2> SUFFICES ASSUME NEW k \in DOMAIN Tail(a), Tail(a)[k][1] \in Deciding
               PROVE  k = Len(Tail(a))
    BY DEF DecidesLast
  <2>1. k + 1 \in DOMAIN a /\ a[k + 1][1] \in Deciding BY <1>1, <1>2
  <2>2. k + 1 = Len(a) BY <2>1 DEF DecidesLast
  <2> QED BY <1>1, <2>2
<1>4. ASSUME Head(a)[1] \in Deciding PROVE Tail(a) = <<>>
  <2>1. 1 \in DOMAIN a /\ a[1][1] \in Deciding BY <1>1, <1>4
  <2>2. Len(a) = 1 BY <2>1 DEF DecidesLast
  <2>3. PICK r \in Seq(S) : r = Tail(a) BY <1>1
  <2>4. Len(r) = 0 BY <1>1, <2>2, <2>3
  <2> QED BY <2>3, <2>4, EmptySeq
<1> QED BY <1>3, <1>4

LEMMA ContinueShape ==
    ASSUME TypeOK, WorkerShape, NEW t \in Tasks, NEW op, NEW n, NEW s \in Seq(Call),
           Doing(t, op, n), Continue(t, s),
           t = "worker" => DecidesNothing(s) \/ (op \in Deciding /\ DecidesLast(s))
    PROVE  WorkerShape'
<1>1. calls'[t] = s \o Tail(calls[t]) /\ \A u \in Tasks \ {t} : calls'[u] = calls[u]
  BY ContinueType
<1>2. CASE t # "worker" BY <1>1, <1>2 DEF WorkerShape, Tasks
<1>3. CASE t = "worker"
  <2>1. calls[t] \in Seq(Call) /\ calls[t] # <<>> /\ Head(calls[t]) = <<op, n>>
    BY DEF TypeOK, Call, Doing
  <2>2. Tail(calls[t]) \in Seq(Call) BY <2>1, HeadTailProperties
  <2>3. DecidesLast(Tail(calls[t])) /\ (op \in Deciding => Tail(calls[t]) = <<>>)
    <3>1. PICK c \in Seq(Call) : c = calls[t] BY <2>1
    <3>2. c # <<>> /\ DecidesLast(c) /\ Head(c)[1] = op BY <1>3, <2>1, <3>1 DEF WorkerShape
    <3>3. DecidesLast(Tail(c)) /\ (op \in Deciding => Tail(c) = <<>>) BY <3>2, ShapeOfTail
    <3> QED BY <3>1, <3>3
  <2>4. CASE DecidesNothing(s)
    <3>1. PICK r \in Seq(Call) : r = Tail(calls[t]) BY <2>2
    <3>2. DecidesLast(s \o r) BY <2>3, <2>4, <3>1, ShapeOfConcat
    <3> QED BY <1>1, <1>3, <3>1, <3>2 DEF WorkerShape
  <2>5. CASE op \in Deciding /\ DecidesLast(s)
    <3>1. calls'[t] = s BY <1>1, <2>3, <2>5, ConcatEmptySeq
    <3> QED BY <1>3, <2>5, <3>1 DEF WorkerShape
  <2> QED BY <1>3, <2>4, <2>5
<1> QED BY <1>2, <1>3

LEMMA ShapeOfTuples ==
    /\ DecidesNothing(<<>>)
    /\ \A o, n : o \notin Deciding => DecidesNothing(<< <<o, n>> >>)
    /\ \A o, p, n : o \notin Deciding /\ p \notin Deciding => DecidesNothing(<< <<o, n>>, <<p, n>> >>)
    /\ DecidesLast(<<>>)
    /\ \A o, n : DecidesLast(<< <<o, n>> >>)
    /\ \A o, p, m, n : o \notin Deciding => DecidesLast(<< <<o, m>>, <<p, n>> >>)
    /\ \A n : DecidesNothing(Hide(n))
  BY DEF DecidesNothing, DecidesLast, Deciding, Hide

LEMMA StartShape ==
    ASSUME TypeOK, WorkerShape, NEW t \in Tasks, NEW s \in Seq(Call), Start(t, s),
           t = "worker" => DecidesLast(s)
    PROVE  WorkerShape'
<1>1. calls'[t] = s /\ \A u \in Tasks \ {t} : calls'[u] = calls[u] BY StartType
<1>2. "worker" \in Tasks BY DEF Tasks
<1> QED BY <1>1, <1>2 DEF WorkerShape

LEMMA ShapeStep == TypeOK /\ WorkerShape /\ [Next]_vars => WorkerShape'
<1> SUFFICES ASSUME TypeOK, WorkerShape, [Next]_vars PROVE WorkerShape'
  OBVIOUS
<1> USE CallSeqs
<1>0. \A o \in Ops, m \in Nodes : <<o, m>> \in Call BY DEF Call
<1>1. ASSUME NEW t \in Tasks, AnyCall(t) PROVE WorkerShape'
  <2> PICK n \in Nodes :
        \/ ClearNode(t, n) \/ HideNode(t, n) \/ ShowNode(t, n) \/ FinishAttempt(t, n)
        \/ EnqueueNode(t, n) \/ SendToQueue(t, n)
    BY <1>1 DEF AnyCall
  <2>1. PICK s \in {Hide(n), <<>>, << <<"send", n>> >>, << <<"clear", n>> >>} : Continue(t, s)
    BY DEF ClearNode, HideNode, ShowNode, FinishAttempt, EnqueueNode, SendToQueue
  <2>2. s \in Seq(Call) BY <1>0, HideType DEF Ops
  <2>3. DecidesNothing(s) BY ShapeOfTuples DEF Deciding
  <2>4. PICK op : Doing(t, op, n)
    BY DEF ClearNode, HideNode, ShowNode, FinishAttempt, EnqueueNode, SendToQueue
  <2> QED BY <2>1, <2>2, <2>3, <2>4, ContinueShape
<1>2. ASSUME NEW t \in {"worker", "main"}, NEW n \in Nodes, SweepNode(t, n) PROVE WorkerShape'
  <2>1. PICK s \in {<<>>, << <<"enqueue", n>> >>} : Start(t, s) BY <1>2 DEF SweepNode
  <2>2. s \in Seq(Call) BY <1>0 DEF Ops
  <2>3. DecidesLast(s) BY ShapeOfTuples
  <2> QED BY <2>1, <2>2, <2>3, StartShape DEF Tasks
<1>3. CASE Receive
  <2>0. PICK n : n = Head(queue) OBVIOUS
  <2>1. PICK o \in {"check", "clear"} : Start("worker", << <<o, n>> >>)
    BY <1>3, <2>0 DEF Receive
  <2>2. n \in Nodes BY <1>3, <2>0, HeadTailProperties DEF Receive, TypeOK
  <2>3. << <<o, n>> >> \in Seq(Call) /\ DecidesLast(<< <<o, n>> >>)
    BY <1>0, <2>2, ShapeOfTuples DEF Ops
  <2> QED BY <2>1, <2>3, StartShape DEF Tasks
<1>4. ASSUME NEW n \in Nodes, CheckSubscribed(n) PROVE WorkerShape'
  <2>1. PICK s \in {<<>>, << <<"claim", n>> >>} : Continue("worker", s)
    BY <1>4 DEF CheckSubscribed
  <2>2. s \in Seq(Call) BY <1>0 DEF Ops
  <2>3. DecidesLast(s) BY ShapeOfTuples
  <2>4. Doing("worker", "check", n) BY <1>4 DEF CheckSubscribed
  <2> QED BY <2>1, <2>2, <2>3, <2>4, ContinueShape DEF Tasks, Deciding
<1>5. ASSUME NEW n \in Nodes, ReclaimSlot(n) PROVE WorkerShape'
  <2>1. PICK m \in Nodes :
          Continue("worker", Hide(m) \o << <<"release", m>>, <<"scan", n>> >>)
    BY <1>5 DEF ReclaimSlot, Lowest, TypeOK
  <2>2. PICK rest : rest = << <<"release", m>>, <<"scan", n>> >> OBVIOUS
  <2>3. rest \in Seq(Call) /\ DecidesLast(rest)
    <3>1. "release" \notin Deciding BY DEF Deciding
    <3> QED BY <1>0, <2>2, <3>1, ShapeOfTuples DEF Ops
  <2>4. PICK s : s = Hide(m) \o rest OBVIOUS
  <2>5. s \in Seq(Call) /\ DecidesLast(s)
    <3>1. Hide(m) \in Seq(Call) /\ DecidesNothing(Hide(m)) BY HideType, ShapeOfTuples
    <3> QED BY <2>3, <2>4, <3>1, ShapeOfConcat, ConcatProperties
  <2>6. PICK op \in {"claim", "scan"} : Doing("worker", op, n)
    BY <1>5 DEF ReclaimSlot, Claiming
  <2>7. Continue("worker", s) BY <2>1, <2>2, <2>4
  <2> QED BY <2>5, <2>6, <2>7, ContinueShape DEF Tasks, Deciding
<1>6. ASSUME NEW n \in Nodes, ReleaseSlot(n) PROVE WorkerShape'
  <2>1. Doing("worker", "release", n) /\ Continue("worker", <<>>) BY <1>6 DEF ReleaseSlot
  <2>2. DecidesNothing(<<>>) BY ShapeOfTuples
  <2> QED BY <2>1, <2>2, ContinueShape DEF Tasks
<1>7. ASSUME NEW n \in Nodes, ClaimSlot(n) PROVE WorkerShape'
  <2>1. PICK s \in {<<>>, << <<"clear", n>>, <<"finish", n>> >>} : Continue("worker", s)
    BY <1>7 DEF ClaimSlot
  <2>2. s \in Seq(Call)
    <3>1. <<"clear", n>> \in Call /\ <<"finish", n>> \in Call BY <1>0 DEF Ops
    <3>2. << <<"clear", n>>, <<"finish", n>> >> \in Seq(Call) BY <3>1
    <3> QED BY <2>1, <3>2
  <2>3. DecidesNothing(s) BY ShapeOfTuples DEF Deciding
  <2>4. PICK op : Doing("worker", op, n) BY <1>7 DEF ClaimSlot, Claiming
  <2> QED BY <2>1, <2>2, <2>3, <2>4, ContinueShape DEF Tasks
<1>8. ASSUME NEW n \in Nodes, Chase(n) PROVE WorkerShape'
  <2>1. PICK s \in Seq(Call) : Continue("chip", s) BY <1>0, <1>8 DEF Chase, Ops
  <2>2. Doing("chip", "chase", n) BY <1>8 DEF Chase
  <2> QED BY <2>1, <2>2, ContinueShape DEF Tasks
<1>9. ASSUME calls' = calls PROVE WorkerShape' BY <1>9 DEF WorkerShape
<1>10. ASSUME NEW t \in {"chip", "http"}, NEW s, Start(t, s) PROVE WorkerShape'
  BY <1>10 DEF Start, WorkerShape, TypeOK, Tasks
<1>11. ASSUME SendSubscription \/ (\E n \in Nodes : Outcome(n) \/ CheckIn(n) \/ Interrogated(n))
              \/ (\E s \in live : Terminated(s))
              \/ (\E n \in Nodes \cup {NoNode} : AssignTariff(n))
       PROVE  WorkerShape'
  <2>1. \E t \in {"chip", "http"} : \E s : Start(t, s)
    BY <1>11 DEF SendSubscription, Outcome, ConnectFailed, EndedEarly, Established, Terminated,
                 TerminatedCallback, CheckIn, Interrogated, AssignTariff
  <2> QED BY <1>10, <2>1
<1>12. ASSUME NEW n \in Nodes, NEW i \in Slots,
              \/ StartSweep \/ Expire(i) \/ DeviceAdded(n) \/ SensorFound(n) \/ RemoveDevice(n)
              \/ ClearEndpoints(n) \/ (\E p \in BOOLEAN : AttemptLost(n, p))
       PROVE  WorkerShape'
  BY <1>9, <1>12 DEF StartSweep, Expire, DeviceAdded, SensorFound, RemoveDevice, ClearEndpoints,
                     AttemptLost, taskVars
<1>13. CASE UNCHANGED vars BY <1>9, <1>13 DEF vars, taskVars
<1>14. CASE StartSweep BY <1>9, <1>14 DEF StartSweep
<1>15. CASE \E i \in Slots : Expire(i) BY <1>9, <1>15 DEF Expire, taskVars
<1>16. 1 \in Slots BY DEF Slots
<1> QED
  BY <1>1, <1>2, <1>3, <1>4, <1>5, <1>6, <1>7, <1>8, <1>11, <1>12, <1>13, <1>14, <1>15, <1>16
  DEF Next, Worker, Main, Http, ChipHandler, Environment, Tasks

(* A step that leaves the slots, the attempts and the queue of the event   *)
(* loop alone, and is not about to free one slot less.                     *)
LEMMA SlotsSame ==
    ASSUME CountsAreNat, CountsAreNat', SlotsAreOwned, UNCHANGED <<slots, work, trying, lost>>,
           \A m \in Nodes : Finishing(m)' >= Finishing(m)
    PROVE  SlotsAreOwned'
<1> SUFFICES ASSUME NEW m \in Nodes
             PROVE  Cardinality(SlotsOf(m))' - Cardinality(SlotsOf(m))
                       <= (Attempts(m)' - Attempts(m)) + (lost'[m] - lost[m])
                            + (Finishing(m)' - Finishing(m)) + (Scheduled(m)' - Scheduled(m))
  BY SlotsFrame
<1>1. SlotsOf(m)' = SlotsOf(m) BY DEF SlotsOf
<1>2. Attempts(m)' = Attempts(m) /\ Scheduled(m)' = Scheduled(m) /\ lost'[m] = lost[m]
  BY DEF Attempts, Scheduled
<1>3. /\ Cardinality(SlotsOf(m)) \in Nat /\ Attempts(m) \in Nat /\ lost[m] \in Nat
      /\ Finishing(m) \in Nat /\ Scheduled(m) \in Nat /\ Finishing(m)' \in Nat
  BY DEF CountsAreNat
<1> QED BY <1>1, <1>2, <1>3

(* An attempt that ends is about to free its slot. *)
LEMMA SlotsEndAttempt ==
    ASSUME TypeOK, CountsAreNat, CountsAreNat', SlotsAreOwned, NEW n \in Nodes, NEW p \in BOOLEAN,
           EndAttempt(n, p), UNCHANGED <<slots, work, lost>>,
           NEW s \in Seq(Call), Start("chip", s), <<"finish", n>> \in Elements(s)
    PROVE  SlotsAreOwned'
<1>1. \A m \in Nodes : Attempts(m)' = IF m = n THEN Attempts(m) - 1 ELSE Attempts(m)
  BY EndAttemptEffect
<1>2. \A m \in Nodes : Finishing(m)' >= Finishing(m) /\ (m = n => Finishing(m)' = Finishing(m) + 1)
  BY StartFinishing DEF Tasks
<1> SUFFICES ASSUME NEW m \in Nodes
             PROVE  Cardinality(SlotsOf(m))' - Cardinality(SlotsOf(m))
                       <= (Attempts(m)' - Attempts(m)) + (lost'[m] - lost[m])
                            + (Finishing(m)' - Finishing(m)) + (Scheduled(m)' - Scheduled(m))
  BY SlotsFrame
<1>3. SlotsOf(m)' = SlotsOf(m) BY DEF SlotsOf
<1>4. Scheduled(m)' = Scheduled(m) /\ lost'[m] = lost[m] BY DEF Scheduled
<1>5. /\ Cardinality(SlotsOf(m)) \in Nat /\ Attempts(m) \in Nat /\ lost[m] \in Nat
      /\ Finishing(m) \in Nat /\ Scheduled(m) \in Nat /\ Finishing(m)' \in Nat
  BY DEF CountsAreNat
<1> QED BY <1>1, <1>2, <1>3, <1>4, <1>5

LEMMA SlotsStep ==
    TypeOK /\ CountsAreNat /\ CountsAreNat' /\ WorkerShape /\ SlotsAreOwned /\ [Next]_vars
        => SlotsAreOwned'
<1> SUFFICES ASSUME TypeOK, CountsAreNat, CountsAreNat', WorkerShape, SlotsAreOwned, [Next]_vars
             PROVE  SlotsAreOwned'
  OBVIOUS
<1> USE CallSeqs
<1>0. \A o \in Ops, m \in Nodes : <<o, m>> \in Call BY DEF Call
<1>nat. \A m \in Nodes :
          /\ Cardinality(SlotsOf(m)) \in Nat /\ Attempts(m) \in Nat /\ lost[m] \in Nat
          /\ Finishing(m) \in Nat /\ Scheduled(m) \in Nat /\ Finishing(m)' \in Nat
  BY DEF CountsAreNat
<1>1. ASSUME NEW t \in Tasks, AnyCall(t) PROVE SlotsAreOwned'
  <2> PICK n \in Nodes :
        \/ ClearNode(t, n) \/ HideNode(t, n) \/ ShowNode(t, n) \/ FinishAttempt(t, n)
        \/ EnqueueNode(t, n) \/ SendToQueue(t, n)
    BY <1>1 DEF AnyCall
  <2>1. CASE FinishAttempt(t, n)
    <3>1. Doing(t, "finish", n) /\ Continue(t, <<>>) /\ UNCHANGED <<work, trying, lost>>
      BY <2>1 DEF FinishAttempt, matterVars
    <3>2. \A m \in Nodes : /\ Finishing(m)' >= Finishing(m) - 1
                           /\ m # n => Finishing(m)' >= Finishing(m)
      BY <3>1, ContinueFinishing
    <3>3. \A m \in Nodes : /\ Attempts(m)' = Attempts(m) /\ lost'[m] = lost[m]
                           /\ Scheduled(m)' = Scheduled(m)
      BY <3>1 DEF Attempts, Scheduled
    <3>4. CASE SlotsOf(n) = {} /\ UNCHANGED slots
      <4>1. \A m \in Nodes : Cardinality(SlotsOf(m))' = Cardinality(SlotsOf(m))
        BY <3>4 DEF SlotsOf
      <4>2. Cardinality(SlotsOf(n)) = 0 BY <3>4, FS_EmptySet
      <4> QED BY <1>nat, <3>2, <3>3, <4>1, <4>2, SlotsFrame
    <3>5. ASSUME NEW i \in Slots, slots[i] = n, FreeSlot(i) PROVE SlotsAreOwned'
      <4>1. \A m \in Nodes : Cardinality(SlotsOf(m))' =
                                 Cardinality(SlotsOf(m)) - IF m = n THEN 1 ELSE 0
        BY <3>5, FreeSlotEffect
      <4> QED BY <1>nat, <3>2, <3>3, <4>1, SlotsFrame
    <3> QED BY <2>1, <3>4, <3>5 DEF FinishAttempt, Lowest, SlotsOf, slotVars
  <2>2. CASE ~FinishAttempt(t, n)
    <3>1. PICK s \in {Hide(n), <<>>, << <<"send", n>> >>, << <<"clear", n>> >>} : Continue(t, s)
      BY DEF ClearNode, HideNode, ShowNode, FinishAttempt, EnqueueNode, SendToQueue
    <3>2. s \in Seq(Call) BY <1>0, HideType DEF Ops
    <3>3. PICK op \in {"clear", "hide", "show", "enqueue", "send"} : Doing(t, op, n)
      BY <2>2 DEF ClearNode, HideNode, ShowNode, EnqueueNode, SendToQueue
    <3>4. \A m \in Nodes : Finishing(m)' >= Finishing(m)
      BY <3>1, <3>2, <3>3, ContinueFinishingAll
    <3>5. UNCHANGED <<slots, work, trying, lost>>
      BY <2>2 DEF ClearNode, HideNode, ShowNode, EnqueueNode, SendToQueue, slotVars, matterVars
    <3> QED BY <3>4, <3>5, SlotsSame
  <2> QED BY <2>1, <2>2
<1>2. ASSUME NEW t \in Tasks, NEW s \in Seq(Call), Start(t, s), UNCHANGED <<slots, work, trying, lost>>
      PROVE  SlotsAreOwned'
  BY <1>2, StartFinishing, SlotsSame
<1>3. ASSUME NEW op, op # "finish", NEW n, NEW t \in Tasks, NEW s \in Seq(Call), Doing(t, op, n),
             Continue(t, s), UNCHANGED <<slots, work, trying, lost>>
      PROVE  SlotsAreOwned'
  <2>1. \A m \in Nodes : Finishing(m)' >= Finishing(m) BY <1>3, ContinueFinishingAll
  <2> QED BY <1>3, <2>1, SlotsSame
<1>4. ASSUME UNCHANGED <<slots, work, trying, lost, calls>> PROVE SlotsAreOwned'
  <2>1. \A m \in Nodes : Finishing(m)' >= Finishing(m) BY <1>nat, <1>4 DEF Finishing
  <2> QED BY <1>4, <2>1, SlotsSame
<1>5. ASSUME NEW t \in {"worker", "main"}, NEW n \in Nodes, SweepNode(t, n) PROVE SlotsAreOwned'
  <2>1. PICK s \in {<<>>, << <<"enqueue", n>> >>} : Start(t, s) BY <1>5 DEF SweepNode
  <2>2. s \in Seq(Call) BY <1>0 DEF Ops
  <2> QED BY <1>2, <1>5, <2>1, <2>2 DEF SweepNode, Tasks, slotVars, matterVars
<1>6. CASE Receive
  <2>0. PICK n : n = Head(queue) OBVIOUS
  <2>1. PICK o \in {"check", "clear"} : Start("worker", << <<o, n>> >>)
    BY <1>6, <2>0 DEF Receive
  <2>2. n \in Nodes BY <1>6, <2>0, HeadTailProperties DEF Receive, TypeOK
  <2>3. << <<o, n>> >> \in Seq(Call) BY <1>0, <2>2 DEF Ops
  <2> QED BY <1>2, <1>6, <2>1, <2>3 DEF Receive, Tasks, slotVars, matterVars
<1>7. ASSUME NEW n \in Nodes, CheckSubscribed(n) PROVE SlotsAreOwned'
  <2>1. PICK s \in {<<>>, << <<"claim", n>> >>} : Continue("worker", s)
    BY <1>7 DEF CheckSubscribed
  <2>2. s \in Seq(Call) BY <1>0 DEF Ops
  <2> QED BY <1>3, <1>7, <2>1, <2>2 DEF CheckSubscribed, Tasks, slotVars, matterVars
<1>8. ASSUME NEW n \in Nodes, ReclaimSlot(n) PROVE SlotsAreOwned'
  <2>1. PICK m \in Nodes :
          Continue("worker", Hide(m) \o << <<"release", m>>, <<"scan", n>> >>)
    BY <1>8 DEF ReclaimSlot, Lowest, TypeOK
  <2>2. << <<"release", m>>, <<"scan", n>> >> \in Seq(Call)
    <3>1. <<"release", m>> \in Call /\ <<"scan", n>> \in Call BY <1>0 DEF Ops
    <3> QED BY <3>1
  <2>3. PICK s \in Seq(Call) : Continue("worker", s) BY <2>1, <2>2, HideType, ConcatProperties
  <2>4. PICK op \in {"claim", "scan"} : Doing("worker", op, n)
    BY <1>8 DEF ReclaimSlot, Claiming
  <2>5. UNCHANGED <<slots, work, trying, lost>> BY <1>8 DEF ReclaimSlot, slotVars, matterVars
  <2> QED BY <1>3, <2>3, <2>4, <2>5 DEF Tasks
<1>9. ASSUME NEW n \in Nodes, ReleaseSlot(n) PROVE SlotsAreOwned'
  <2>1. /\ Doing("worker", "release", n) /\ Continue("worker", <<>>)
        /\ UNCHANGED <<work, trying, lost>>
    BY <1>9 DEF ReleaseSlot, matterVars
  <2>2. PICK i \in Slots : FreeSlot(i) BY <1>9 DEF ReleaseSlot
  <2>3. \A m \in Nodes : Cardinality(SlotsOf(m))' <= Cardinality(SlotsOf(m))
    BY <1>nat, <2>2, FreeSlotEffect
  <2>4. \A m \in Nodes : Finishing(m)' >= Finishing(m)
    <3>1. PICK s \in Seq(Call) : Doing("worker", "release", n) /\ Continue("worker", s)
      BY <2>1
    <3> QED BY <3>1, ContinueFinishingAll DEF Tasks
  <2>5. \A m \in Nodes : /\ Attempts(m)' = Attempts(m) /\ lost'[m] = lost[m]
                         /\ Scheduled(m)' = Scheduled(m)
    BY <2>1 DEF Attempts, Scheduled
  <2>6. \A m \in Nodes : Cardinality(SlotsOf(m))' \in Nat BY DEF CountsAreNat
  <2> QED BY <1>nat, <2>3, <2>4, <2>5, <2>6, SlotsFrame
<1>10. ASSUME NEW n \in Nodes, ClaimSlot(n) PROVE SlotsAreOwned'
  <2>1. PICK i \in Slots : slots[i] = NoNode /\ slots' = [slots EXCEPT ![i] = n]
    BY <1>10 DEF ClaimSlot, Lowest, SlotsOf
  <2>2. \A m \in Nodes : Cardinality(SlotsOf(m))' =
                             Cardinality(SlotsOf(m)) + IF m = n THEN 1 ELSE 0
    BY <2>1, TakeSlotEffect
  <2>3. \A m \in Nodes : Attempts(m)' = Attempts(m) /\ lost'[m] = lost[m]
    BY <1>10 DEF ClaimSlot, Attempts
  <2>4. PICK op \in {"claim", "scan"} : Doing("worker", op, n) BY <1>10 DEF ClaimSlot, Claiming
  <2>5. CASE work' = Append(work, n) /\ Continue("worker", <<>>)
    <3>1. \A m : Scheduled(m)' = Scheduled(m) + IF m = n THEN 1 ELSE 0
      <4>1. work \in Seq(Nodes) BY DEF TypeOK
      <4>2. \A m : Cardinality(At(work', m)) = Cardinality(At(work, m)) + IF m = n THEN 1 ELSE 0
        BY <2>5, <4>1, AtAppend
      <4> QED BY <4>2 DEF Scheduled, At
    <3>2. \A m \in Nodes : Finishing(m)' >= Finishing(m)
      BY <2>4, <2>5, ContinueFinishingAll DEF Tasks
    <3> QED BY <1>nat, <2>2, <2>3, <3>1, <3>2, SlotsFrame
  <2>6. CASE work' = work /\ Continue("worker", << <<"clear", n>>, <<"finish", n>> >>)
    <3>1. Tail(calls["worker"]) = <<>>
      <4>1. PICK c \in Seq(Call) : c = calls["worker"] BY DEF TypeOK, Call, Tasks
      <4>2. c # <<>> /\ Head(c)[1] \in Deciding /\ DecidesLast(c)
        BY <2>4, <4>1 DEF Doing, Deciding, WorkerShape
      <4> QED BY <4>1, <4>2, ShapeOfTail
    <3>2. PICK s : s = << <<"clear", n>>, <<"finish", n>> >> OBVIOUS
    <3>3. s \in Seq(Call) /\ <<"finish", n>> \in Elements(s)
      <4>1. <<"clear", n>> \in Call /\ <<"finish", n>> \in Call BY <1>0 DEF Ops
      <4> QED BY <3>2, <4>1, ElementsOfTuples
    <3>4. /\ Continue("worker", s) /\ op # "finish" /\ "worker" \in Tasks
          /\ <<"finish", n>> \in Elements(s) \ Elements(Tail(calls["worker"]))
      BY <2>4, <2>6, <3>1, <3>2, <3>3, ElementsOfTuples DEF Tasks
    <3>5. \A m \in Nodes : /\ Finishing(m)' >= Finishing(m)
                           /\ m = n => Finishing(m)' = Finishing(m) + 1
      BY <2>4, <3>3, <3>4, ContinueFinishing
    <3>6. \A m \in Nodes : Scheduled(m)' = Scheduled(m) BY <2>6 DEF Scheduled
    <3> QED BY <1>nat, <2>2, <2>3, <3>5, <3>6, SlotsFrame
  <2> QED BY <1>10, <2>5, <2>6 DEF ClaimSlot
<1>11. ASSUME NEW n \in Nodes, Chase(n) PROVE SlotsAreOwned'
  <2>1. PICK s \in Seq(Call) : Continue("chip", s) BY <1>0, <1>11 DEF Chase, Ops
  <2>2. Doing("chip", "chase", n) /\ UNCHANGED <<slots, work, trying, lost>>
    BY <1>11 DEF Chase, slotVars, matterVars
  <2> QED BY <1>3, <2>1, <2>2 DEF Tasks
<1>12. CASE SendSubscription
  <2>1. PICK n : n = Head(work) OBVIOUS
  <2>2. work \in Seq(Nodes) /\ work # <<>> /\ work' = Tail(work) /\ n \in Nodes
    BY <1>12, <2>1, HeadTailProperties DEF SendSubscription, TypeOK
  <2>3. \A m : Scheduled(m)' = Scheduled(m) - IF m = n THEN 1 ELSE 0
    <3>1. \A m : Cardinality(At(work', m)) = Cardinality(At(work, m)) - IF m = n THEN 1 ELSE 0
      BY <2>1, <2>2, AtTail
    <3> QED BY <3>1 DEF Scheduled, At
  <2>4. UNCHANGED <<slots, lost>> BY <1>12 DEF SendSubscription, slotVars
  <2>5. \A m \in Nodes : Cardinality(SlotsOf(m))' = Cardinality(SlotsOf(m)) /\ lost'[m] = lost[m]
    BY <2>4 DEF SlotsOf
  <2>6. CASE trying' = [trying EXCEPT ![<<n, tariff = n>>] = @ + 1] /\ Start("chip", <<>>)
    <3>1. PICK p \in BOOLEAN : p = (tariff = n) OBVIOUS
    <3>2. trying' = [trying EXCEPT ![<<n, p>>] = @ + 1] BY <2>6, <3>1
    <3>3. \A m \in Nodes : Attempts(m)' = IF m = n THEN Attempts(m) + 1 ELSE Attempts(m)
      BY <2>2, <3>2, BeginAttemptEffect
    <3>4. \A m \in Nodes : Finishing(m)' >= Finishing(m) BY <2>6, StartFinishing DEF Tasks
    <3> QED BY <1>nat, <2>3, <2>5, <3>3, <3>4, SlotsFrame
  <2>7. CASE trying' = trying /\ Start("chip", << <<"clear", n>>, <<"finish", n>> >>)
    <3>1. PICK s : s = << <<"clear", n>>, <<"finish", n>> >> OBVIOUS
    <3>2. s \in Seq(Call) /\ <<"finish", n>> \in Elements(s)
      <4>1. <<"clear", n>> \in Call /\ <<"finish", n>> \in Call BY <1>0, <2>2 DEF Ops
      <4> QED BY <3>1, <4>1, ElementsOfTuples
    <3>3. \A m \in Nodes : /\ Finishing(m)' >= Finishing(m)
                           /\ m = n => Finishing(m)' = Finishing(m) + 1
      BY <2>7, <3>1, <3>2, StartFinishing DEF Tasks
    <3>4. \A m \in Nodes : Attempts(m)' = Attempts(m) BY <2>7 DEF Attempts
    <3> QED BY <1>nat, <2>3, <2>5, <3>3, <3>4, SlotsFrame
  <2> QED BY <1>12, <2>1, <2>6, <2>7 DEF SendSubscription
<1>13. ASSUME NEW n \in Nodes, NEW p \in BOOLEAN, ConnectFailed(n, p) PROVE SlotsAreOwned'
  <2>1. PICK r : r = << <<"finish", n>>, <<"chase", n>> >> OBVIOUS
  <2>2. r \in Seq(Call) /\ <<"finish", n>> \in Elements(r)
    <3>1. <<"finish", n>> \in Call /\ <<"chase", n>> \in Call BY <1>0 DEF Ops
    <3> QED BY <2>1, <3>1, ElementsOfTuples
  <2>3. PICK s : s = Hide(n) \o r OBVIOUS
  <2>4. s \in Seq(Call) /\ <<"finish", n>> \in Elements(s)
    <3>1. Hide(n) \in Seq(Call) BY HideType
    <3>2. Elements(Hide(n) \o r) = Elements(Hide(n)) \cup Elements(r)
      BY <2>2, <3>1, ElementsOfConcat
    <3> QED BY <2>2, <2>3, <3>1, <3>2, ConcatProperties
  <2>5. Start("chip", s) /\ EndAttempt(n, p) /\ UNCHANGED <<slots, work, lost>>
    BY <1>13, <2>1, <2>3 DEF ConnectFailed, slotVars
  <2> QED BY <2>4, <2>5, SlotsEndAttempt
<1>14. ASSUME NEW n \in Nodes, NEW sid, TerminatedCallback(n, sid)
       PROVE  \E s \in Seq(Call) : Start("chip", s) /\ <<"finish", n>> \in Elements(s)
  <2>1. << <<"finish", n>> >> \in Seq(Call) BY <1>0 DEF Ops
  <2>2. << <<"hide", n>>, <<"finish", n>>, <<"enqueue", n>> >> \in Seq(Call) BY <1>0 DEF Ops
  <2>3. /\ <<"finish", n>> \in Elements(<< <<"finish", n>> >>)
        /\ <<"finish", n>> \in Elements(<< <<"hide", n>>, <<"finish", n>>, <<"enqueue", n>> >>)
    BY ElementsOfTuples
  <2> QED BY <1>14, <2>1, <2>2, <2>3 DEF TerminatedCallback
<1>15. ASSUME NEW n \in Nodes, NEW p \in BOOLEAN, EndedEarly(n, p) PROVE SlotsAreOwned'
  <2>1. EndAttempt(n, p) /\ TerminatedCallback(n, 0) /\ UNCHANGED <<slots, work, lost>>
    BY <1>15 DEF EndedEarly, slotVars
  <2> QED BY <1>14, <2>1, SlotsEndAttempt
<1>16. ASSUME NEW s \in live, Terminated(s) PROVE SlotsAreOwned'
  <2>1. s.node \in Nodes BY DEF TypeOK
  <2>2. TerminatedCallback(s.node, s.id) /\ UNCHANGED <<slots, work, trying, lost>>
    BY <1>16 DEF Terminated, slotVars
  <2> QED BY <1>2, <1>14, <2>1, <2>2 DEF Tasks
<1>17. ASSUME NEW n \in Nodes, NEW p \in BOOLEAN, NEW i \in Ids, Established(n, p, i)
       PROVE  SlotsAreOwned'
  <2>1. PICK s : s = << <<"show", n>>, <<"finish", n>> >> OBVIOUS
  <2>2. s \in Seq(Call) /\ <<"finish", n>> \in Elements(s)
    <3>1. <<"show", n>> \in Call /\ <<"finish", n>> \in Call BY <1>0 DEF Ops
    <3> QED BY <2>1, <3>1, ElementsOfTuples
  <2>3. Start("chip", s) /\ EndAttempt(n, p) /\ UNCHANGED <<slots, work, lost>>
    BY <1>17, <2>1 DEF Established, slotVars
  <2> QED BY <2>2, <2>3, SlotsEndAttempt
<1>18. ASSUME NEW n \in Nodes, NEW p \in BOOLEAN, AttemptLost(n, p) PROVE SlotsAreOwned'
  <2>1. UNCHANGED <<slots, work, calls>> /\ EndAttempt(n, p)
    BY <1>18 DEF AttemptLost, slotVars, taskVars
  <2>2. \A m \in Nodes : Attempts(m)' = IF m = n THEN Attempts(m) - 1 ELSE Attempts(m)
    BY <2>1, EndAttemptEffect
  <2>3. \A m \in Nodes : lost'[m] = IF m = n THEN lost[m] + 1 ELSE lost[m]
    BY <1>18 DEF AttemptLost, TypeOK
  <2>4. \A m \in Nodes : /\ Cardinality(SlotsOf(m))' = Cardinality(SlotsOf(m))
                         /\ Scheduled(m)' = Scheduled(m) /\ Finishing(m)' = Finishing(m)
    BY <2>1 DEF SlotsOf, Scheduled, Finishing
  <2> QED BY <1>nat, <2>2, <2>3, <2>4, SlotsFrame
<1>19. ASSUME NEW n \in Nodes, CheckIn(n) \/ Interrogated(n) PROVE SlotsAreOwned'
  <2>1. PICK s \in Seq(Call) : Start("chip", s) BY <1>0, <1>19 DEF CheckIn, Interrogated, Ops
  <2>2. UNCHANGED <<slots, work, trying, lost>>
    BY <1>19 DEF CheckIn, Interrogated, slotVars, matterVars
  <2> QED BY <1>2, <2>1, <2>2 DEF Tasks
<1>20. ASSUME NEW n \in Nodes \cup {NoNode}, AssignTariff(n) PROVE SlotsAreOwned'
  <2>1. PICK s \in Seq(Call) : Start("http", s) BY <1>0, <1>20 DEF AssignTariff, Ops
  <2>2. UNCHANGED <<slots, work, trying, lost>> BY <1>20 DEF AssignTariff, slotVars, matterVars
  <2> QED BY <1>2, <2>1, <2>2 DEF Tasks
<1>21. ASSUME NEW n \in Nodes,
              DeviceAdded(n) \/ SensorFound(n) \/ RemoveDevice(n) \/ ClearEndpoints(n)
       PROVE  SlotsAreOwned'
  BY <1>4, <1>21 DEF DeviceAdded, SensorFound, RemoveDevice, ClearEndpoints, slotVars, matterVars,
                     taskVars
<1>22. CASE StartSweep BY <1>4, <1>22 DEF StartSweep, slotVars, matterVars
<1>23. ASSUME NEW i \in Slots, Expire(i) PROVE SlotsAreOwned'
  BY <1>4, <1>23 DEF Expire, matterVars, taskVars
<1>24. CASE UNCHANGED vars BY <1>4, <1>24 DEF vars, slotVars, matterVars, taskVars
<1> QED
  BY <1>1, <1>5, <1>6, <1>7, <1>8, <1>9, <1>10, <1>11, <1>12, <1>13, <1>15, <1>16, <1>17, <1>18,
     <1>19, <1>20, <1>21, <1>22, <1>23, <1>24
  DEF Next, Worker, Main, Http, ChipHandler, Outcome, Environment, Tasks

(* No slot leaks: a node never holds more slots than it has attempts that  *)
(* may still free one.                                                     *)
THEOREM SlotsAlwaysOwned == Spec => []SlotsAreOwned
<1>1. Init => TypeOK /\ WorkerShape /\ SlotsAreOwned
  <2> SUFFICES ASSUME Init PROVE WorkerShape /\ SlotsAreOwned BY InitTypeOK
  <2>1. WorkerShape BY DEF Init, WorkerShape, DecidesLast, Tasks
  <2>2. CountsAreNat BY InitTypeOK, CountTypes
  <2>3. \A n \in Nodes : SlotsOf(n) = {} BY DEF Init, SlotsOf
  <2>4. \A n \in Nodes : Cardinality(SlotsOf(n)) = 0 BY <2>3, FS_EmptySet
  <2> QED BY <2>1, <2>2, <2>4 DEF SlotsAreOwned, CountsAreNat, Scheduled
<1>2. TypeOK /\ WorkerShape /\ SlotsAreOwned /\ [Next]_vars => (TypeOK /\ WorkerShape /\ SlotsAreOwned)'
  <2>1. TypeOK' => CountsAreNat' BY CountTypes, PTL
  <2> QED BY <2>1, CountTypes, TypeOKStep, ShapeStep, SlotsStep
<1> QED BY <1>1, <1>2, PTL DEF Spec
=============================================================================
