------------------------ MODULE NodeRequests_proofs ------------------------
(***************************************************************************)
(* A deletion that is answered OK has taken the node off the fabric, for   *)
(* any numbers of nodes, requests and faults, as long as no node is        *)
(* deleted twice and nothing is removed through the other handler.         *)
(***************************************************************************)
EXTENDS NodeRequests, TLAPS

RemovalPlaces == {"match", "removeResult", "removeGive"}
Matched  == {"removeResult", "removeGive"}
Waiting  == {"waitRemoved", "readRemoved", "clear", "forget", "removeDevice"}
Deleting == {"drain", "ask", "reset", "unpair"} \cup Waiting

Left(n) == n \notin joined /\ (pairing.at # "none" => pairing.node # n)
Awaited(n) == n = node /\ kind = "delete" /\ pc \in Waiting

(* What is assumed of the requests: every node is deleted once, and by the *)
(* handlers that forget it when that fails.                                *)
OneRemoval == ~Again /\ "unpair" \notin Kinds

(* No removal of this node is outstanding, or reporting. *)
Settled ==
    /\ \A u \in unpairing : u.node # node
    /\ callback.at \in RemovalPlaces => callback.node # node

(* What the HTTP task is doing. *)
KindInv ==
    /\ kind # "unpair"
    /\ pc # "idle" => request # 0 /\ node # 0
    /\ pc \in Deleting => kind = "delete" /\ node \in devices
    /\ pc \in {"resetPair", "pair", "waitPaired", "readPaired", "deleteSemaphore", "interrogate"}
         => kind = "commission"
    /\ asked # 0 => asked = node /\ pc \in {"reset", "unpair", "waitRemoved", "readRemoved", "clear"}
    /\ pc \in {"ask", "reset", "unpair"} => ~removeDone

(* Node ids are given out once. *)
IdsInv ==
    /\ nextId \in Nat \ {0}
    /\ nextId <= FirstFree + request
    /\ node < nextId
    /\ \A n \in devices \cup joined : n < nextId
    /\ \A u \in unpairing : u.node < nextId
    /\ callback.at \in RemovalPlaces => callback.node \in 1..(nextId - 1)
    /\ pairing.at # "none" => pairing.node \in 1..(nextId - 1) /\ pairing.node \notin joined
    /\ pc \in {"resetPair", "pair"} =>
         node \notin joined /\ (pairing.at # "none" => pairing.node # node)
    /\ kind = "commission" => Settled

(* A removal that has not reported is the one that is waited for, or its   *)
(* node is not in the list and will not be asked for again.                *)
OutstandingInv ==
    /\ \A u \in unpairing : u.node \notin devices \/ Awaited(u.node)
    /\ \A u, v \in unpairing : u.node = v.node => u = v
    /\ callback.at \in RemovalPlaces =>
         /\ callback.node \notin devices \/ Awaited(callback.node)
         /\ \A u \in unpairing : u.node # callback.node
         /\ callback.ok => Left(callback.node)
    /\ callback.at \in Matched => Awaited(callback.node) /\ pc # "removeDevice"
    /\ callback.at = "removeGive" => removeResult.ok = callback.ok

(* What has been reported is true. *)
AnsweredInv ==
    /\ (pc = "waitRemoved" /\ removeDone) \/ pc = "readRemoved"
         => Settled /\ (removeResult.ok => Left(node))
    /\ kind = "delete" /\ outcome.what = "ok" =>
         /\ Left(node)
         /\ pc \in {"clear", "removeDevice", "respond", "idle"}
         /\ pc \in {"clear", "removeDevice"} => Settled

IInv == TypeOK /\ KindInv /\ IdsInv /\ OutstandingInv /\ AnsweredInv

-----------------------------------------------------------------------------
USE RequestsAssumption DEF Requests, NodeIds

LEMMA InitIInv == Init => IInv
<1> SUFFICES ASSUME Init PROVE IInv
  OBVIOUS
<1> USE DEF Init, Result, Answer, NoPairing, NoCallback
<1>1. TypeOK
  <2>1. Paired \subseteq NodeIds OBVIOUS
  <2>2. replies \in [Requests -> Answers] BY DEF Answers
  <2> QED BY <2>1, <2>2 DEF TypeOK, Results, Answers, Callbacks
<1>2. KindInv BY DEF KindInv, Deleting, Waiting
<1>3. IdsInv BY DEF IdsInv, Settled, RemovalPlaces
<1>4. OutstandingInv BY DEF OutstandingInv, RemovalPlaces, Matched
<1>5. AnsweredInv BY DEF AnsweredInv
<1> QED BY <1>1, <1>2, <1>3, <1>4, <1>5 DEF IInv

(* The records are of their types. *)
LEMMA RecordTypes ==
    /\ \A ok \in BOOLEAN, by \in Requests \cup {0} : Result(ok, by) \in Results
    /\ \A r \in Results : r.ok \in BOOLEAN /\ r.by \in Requests \cup {0}
    /\ \A what \in {"none", "ok", "failed", "refused", "timeout"}, n \in NodeIds \cup {0},
          by \in Requests \cup {0} : Answer(what, n, by) \in Answers
    /\ \A c \in Callbacks : /\ c.of \in Requests \cup {0}
                            /\ c.node \in NodeIds \cup {0}
                            /\ c.ok \in BOOLEAN
    /\ NoCallback \in Callbacks
  BY DEF Result, Results, Answer, Answers, Callbacks, NoCallback

LEMMA GoToType ==
    ASSUME callback \in Callbacks, NEW place \in {"removeResult", "removeGive", "pairGive"},
           GoTo(place)
    PROVE  callback' \in Callbacks
  BY DEF GoTo, Callbacks

LEMMA GoToFields ==
    ASSUME callback \in Callbacks, NEW place, GoTo(place)
    PROVE  /\ callback'.at = place
           /\ callback'.node = callback.node
           /\ callback'.ok = callback.ok
  BY DEF GoTo, Callbacks

LEMMA TypeStep == TypeOK /\ KindInv /\ IdsInv /\ [Next]_vars => TypeOK'
<1> SUFFICES ASSUME TypeOK, KindInv, IdsInv, [Next]_vars PROVE TypeOK'
  OBVIOUS
<1> USE DEF TypeOK, httpVars, removeVars, commissionVars, matterVars
<1>1. ASSUME NEW k \in Kinds, NEW n \in NodeIds, BeginRemove(k, n) PROVE TypeOK'
  BY <1>1 DEF BeginRemove, Begin, Answer, Answers
<1>2. CASE BeginCommission
  <2>1. nextId \in NodeIds BY <1>2 DEF BeginCommission, Begin, IdsInv
  <2> QED BY <1>2, <2>1 DEF BeginCommission, Begin, Answer, Answers
<1>3. CASE Drain \/ AskFor \/ ResetResult \/ TakeRemoved
  <2>1. Result(TRUE, 0) \in Results BY RecordTypes
  <2> QED BY <1>3, <2>1 DEF Drain, AskFor, ResetResult, TakeRemoved
<1>4. CASE Unpair
  <2>1. node \in NodeIds /\ request \in Requests
    BY <1>4 DEF Unpair, KindInv
  <2>2. Answer("refused", node, 0) \in Answers BY <2>1, RecordTypes
  <2>3. unpairing' \subseteq [of : Requests, node : NodeIds] BY <1>4, <2>1 DEF Unpair
  <2> QED BY <1>4, <2>1, <2>2, <2>3 DEF Unpair
<1>5. CASE ReadRemoved \/ RemoveTimesOut
  <2>1. Answer("timeout", node, 0) \in Answers BY RecordTypes
  <2>2. Answer(IF removeResult.ok THEN "ok" ELSE "failed", node, removeResult.by) \in Answers
    BY RecordTypes
  <2> QED BY <1>5, <2>1, <2>2 DEF ReadRemoved, RemoveTimesOut
<1>6. CASE ClearAsked \/ Forget \/ RemoveDevice
  BY <1>6 DEF ClearAsked, Forget, RemoveDevice
<1>7. CASE ResetPair \/ TakePaired \/ DeleteSemaphore
  <2>1. Result(TRUE, 0) \in Results BY RecordTypes
  <2> QED BY <1>7, <2>1 DEF ResetPair, TakePaired, DeleteSemaphore
<1>8. CASE PairTimesOut \/ ReadPaired
  <2>1. Answer("timeout", node, 0) \in Answers BY RecordTypes
  <2>2. Answer(IF pairResult.ok THEN "ok" ELSE "failed", node, pairResult.by) \in Answers
    BY RecordTypes
  <2> QED BY <1>8, <2>1, <2>2 DEF PairTimesOut, ReadPaired
<1>9. CASE PairOnNetwork
  BY <1>9 DEF PairOnNetwork
<1>10. CASE Interrogate
  BY <1>10 DEF Interrogate, KindInv
<1>11. CASE Respond
  <2>1. replies' \in [Requests -> Answers] BY <1>11 DEF Respond
  <2>2. pc' = "idle" BY <1>11 DEF Respond
  <2>3. UNCHANGED <<httpVars, outcome, nextId, removeVars, commissionVars, matterVars, callback,
                    devices, faults>>
    BY <1>11 DEF Respond
  <2> QED BY <2>1, <2>2, <2>3
<1>12. CASE MatchAsked \/ GiveRemoved \/ GivePaired
  <2>1. callback' \in Callbacks
    BY <1>12, RecordTypes, GoToType DEF MatchAsked, GiveRemoved, GivePaired
  <2>2. removeDone' \in BOOLEAN /\ pairDone' \in {"taken", "given", "deleted"}
    BY <1>12 DEF MatchAsked, GiveRemoved, GivePaired
  <2>3. UNCHANGED <<pc, httpVars, outcome, nextId, asked, removeResult, pairResult, matterVars,
                    devices, replies, faults>>
    BY <1>12 DEF MatchAsked, GiveRemoved, GivePaired
  <2> QED BY <2>1, <2>2, <2>3
<1>13. CASE WriteRemoved \/ WritePaired
  <2>1. Result(callback.ok, callback.of) \in Results BY RecordTypes
  <2>2. callback' \in Callbacks BY <1>13, GoToType DEF WriteRemoved, WritePaired
  <2>3. removeResult' \in Results /\ pairResult' \in Results
    BY <1>13, <2>1 DEF WriteRemoved, WritePaired
  <2>4. UNCHANGED <<pc, httpVars, outcome, nextId, asked, removeDone, pairDone, matterVars,
                    devices, replies, faults>>
    BY <1>13 DEF WriteRemoved, WritePaired
  <2> QED BY <2>2, <2>3, <2>4
<1>14. CASE Discovered \/ PaseFails
  BY <1>14 DEF Discovered, PaseFails, NoPairing
<1>15. ASSUME NEW ok \in BOOLEAN, PairingEnds(ok) PROVE TypeOK'
  <2>1. pairing.node \in NodeIds BY <1>15 DEF PairingEnds, IdsInv
  <2>2. callback' \in Callbacks BY <1>15 DEF PairingEnds, Callbacks
  <2>3. pairing' \in [at : {"none", "discovering", "pairing"}, of : Requests \cup {0},
                      node : NodeIds \cup {0}]
    BY <1>15 DEF PairingEnds, NoPairing
  <2>4. joined' \subseteq NodeIds BY <1>15, <2>1 DEF PairingEnds
  <2>5. UNCHANGED <<pc, httpVars, outcome, nextId, removeVars, commissionVars, unpairing, devices,
                    replies, faults>>
    BY <1>15 DEF PairingEnds
  <2> QED BY <2>2, <2>3, <2>4, <2>5
<1>16. ASSUME NEW u \in unpairing, NEW ok \in BOOLEAN, Removed(u, ok) PROVE TypeOK'
  <2>1. u.of \in Requests /\ u.node \in NodeIds BY <1>16
  <2>2. callback' \in Callbacks BY <1>16, <2>1 DEF Removed, Callbacks
  <2>3. unpairing' \subseteq [of : Requests, node : NodeIds] BY <1>16 DEF Removed
  <2>4. joined' \subseteq NodeIds BY <1>16 DEF Removed
  <2> QED BY <1>16, <2>2, <2>3, <2>4 DEF Removed
<1>17. CASE UNCHANGED vars BY <1>17 DEF vars
<1> QED
  BY <1>1, <1>2, <1>3, <1>4, <1>5, <1>6, <1>7, <1>8, <1>9, <1>10, <1>11, <1>12, <1>13, <1>14,
     <1>15, <1>16, <1>17 DEF Next, Http, Removal, Commissioning, Callback, PairingOver
(* What the HTTP task is doing.                                            *)
LEMMA KindStep ==
    ASSUME IInv, TypeOK', OneRemoval, [Next]_vars PROVE KindInv'
<1> USE DEF IInv, TypeOK, KindInv, OutstandingInv, Deleting, Waiting, Matched, RemovalPlaces, Awaited, OneRemoval, httpVars, removeVars, commissionVars, matterVars
<1>1. ASSUME NEW k \in Kinds, NEW n \in NodeIds, BeginRemove(k, n) PROVE KindInv'
  BY <1>1 DEF BeginRemove, Begin, Answer
<1>2. CASE BeginCommission
  BY <1>2 DEF BeginCommission, Begin, Answer, IdsInv
<1>3. CASE Drain \/ AskFor \/ ResetResult
  BY <1>3 DEF Drain, AskFor, ResetResult, Result
<1>4. CASE Unpair
  BY <1>4 DEF Unpair, Answer, NoCallback
<1>5. CASE TakeRemoved \/ ReadRemoved \/ RemoveTimesOut
  BY <1>5 DEF TakeRemoved, ReadRemoved, RemoveTimesOut, Answer
<1>6. CASE ClearAsked
  BY <1>6 DEF ClearAsked
<1>7. CASE Forget \/ RemoveDevice
  BY <1>7 DEF Forget, RemoveDevice, NoCallback
<1>8. CASE Respond
  BY <1>8 DEF Respond
<1>9. CASE ResetPair \/ TakePaired \/ DeleteSemaphore
  BY <1>9 DEF ResetPair, TakePaired, DeleteSemaphore
<1>10. CASE PairTimesOut \/ ReadPaired
  BY <1>10 DEF PairTimesOut, ReadPaired, Answer
<1>11. CASE PairOnNetwork
  BY <1>11 DEF PairOnNetwork, NoCallback
<1>12. CASE Interrogate
  BY <1>12 DEF Interrogate, NoCallback
<1>13. CASE MatchAsked
  BY <1>13, GoToFields DEF MatchAsked, NoCallback
<1>14. CASE WriteRemoved
  BY <1>14, GoToFields DEF WriteRemoved, Result
<1>15. CASE GiveRemoved
  BY <1>15 DEF GiveRemoved, NoCallback
<1>16. CASE WritePaired \/ GivePaired
  BY <1>16, GoToFields DEF WritePaired, GivePaired, NoCallback
<1>17. CASE Discovered \/ PaseFails
  BY <1>17 DEF Discovered, PaseFails, NoPairing, NoCallback
<1>18. ASSUME NEW ok \in BOOLEAN, PairingEnds(ok) PROVE KindInv'
  BY <1>18 DEF PairingEnds, NoPairing, NoCallback
<1>19. ASSUME NEW u \in unpairing, NEW ok \in BOOLEAN, Removed(u, ok) PROVE KindInv'
  BY <1>19 DEF Removed, NoCallback
<1>20. CASE UNCHANGED vars
  BY <1>20 DEF vars
<1> QED
  BY <1>1, <1>2, <1>3, <1>4, <1>5, <1>6, <1>7, <1>8, <1>9, <1>10, <1>11, <1>12, <1>13, <1>14,
     <1>15, <1>16, <1>17, <1>18, <1>19, <1>20
     DEF Next, Http, Removal, Commissioning, Callback, PairingOver

(* A step that gives out nothing, starts nothing and ends nothing.         *)
LEMMA IdsFrame ==
    ASSUME IdsInv,
           UNCHANGED <<httpVars, nextId, unpairing, pairing, joined>>,
           devices' \subseteq devices,
           callback' = callback \/ callback'.at \notin RemovalPlaces,
           pc' \in {"resetPair", "pair"} => pc \in {"resetPair", "pair"}
    PROVE  IdsInv'
  BY DEF IdsInv, Settled, httpVars

(* Node ids stay below the next one, and a new node is nobody else's.      *)
LEMMA IdsStep ==
    ASSUME IInv, TypeOK', OneRemoval, [Next]_vars PROVE IdsInv'
<1> USE DEF IInv, httpVars, removeVars, commissionVars, matterVars
<1>1. ASSUME NEW k \in Kinds, NEW n \in NodeIds, BeginRemove(k, n) PROVE IdsInv'
  BY <1>1 DEF TypeOK, IdsInv, Settled, RemovalPlaces, OneRemoval, BeginRemove, Begin, Answer
<1>2. CASE BeginCommission
  BY <1>2 DEF TypeOK, IdsInv, Settled, RemovalPlaces, OneRemoval, BeginCommission, Begin, Answer
<1>3. CASE Drain \/ AskFor \/ ResetResult
  BY <1>3, IdsFrame DEF Drain, AskFor, ResetResult
<1>4. CASE Unpair
  <2>1. kind = "delete" /\ node \in devices BY <1>4 DEF Unpair, KindInv, Deleting
  <2>2. \A u \in unpairing' : u \in unpairing \/ u.node = node BY <1>4 DEF Unpair
  <2> QED BY <1>4, <2>1, <2>2 DEF TypeOK, IdsInv, Settled, RemovalPlaces, OneRemoval, Unpair
<1>5. CASE TakeRemoved \/ ReadRemoved \/ RemoveTimesOut
  BY <1>5, IdsFrame DEF TakeRemoved, ReadRemoved, RemoveTimesOut
<1>6. CASE ClearAsked
  BY <1>6, IdsFrame DEF ClearAsked
<1>7. CASE Forget \/ RemoveDevice
  BY <1>7, IdsFrame DEF Forget, RemoveDevice
<1>8. CASE Respond
  BY <1>8, IdsFrame DEF Respond
<1>9. CASE ResetPair \/ TakePaired \/ DeleteSemaphore
  BY <1>9, IdsFrame DEF ResetPair, TakePaired, DeleteSemaphore
<1>10. CASE PairTimesOut \/ ReadPaired
  BY <1>10, IdsFrame DEF PairTimesOut, ReadPaired
<1>11. CASE PairOnNetwork
  BY <1>11 DEF TypeOK, IdsInv, Settled, RemovalPlaces, OneRemoval, PairOnNetwork, KindInv
<1>12. CASE Interrogate
  BY <1>12 DEF TypeOK, IdsInv, Settled, RemovalPlaces, OneRemoval, Interrogate, NoCallback
<1>13. CASE MatchAsked
  BY <1>13, GoToFields DEF TypeOK, IdsInv, Settled, RemovalPlaces, OneRemoval, MatchAsked, NoCallback
<1>14. CASE WriteRemoved
  BY <1>14, GoToFields DEF TypeOK, IdsInv, Settled, RemovalPlaces, OneRemoval, WriteRemoved, Result
<1>15. CASE GiveRemoved
  BY <1>15, IdsFrame DEF RemovalPlaces, GiveRemoved, NoCallback
<1>16. CASE WritePaired \/ GivePaired
  <2>1. callback'.at \notin RemovalPlaces
    BY <1>16, GoToFields DEF TypeOK, RemovalPlaces, WritePaired, GivePaired, NoCallback
  <2> QED BY <1>16, <2>1, IdsFrame DEF WritePaired, GivePaired
<1>17. CASE Discovered \/ PaseFails
  BY <1>17 DEF TypeOK, IdsInv, Settled, RemovalPlaces, OneRemoval, Discovered, PaseFails, NoPairing, NoCallback
<1>18. ASSUME NEW ok \in BOOLEAN, PairingEnds(ok) PROVE IdsInv'
  BY <1>18 DEF TypeOK, IdsInv, Settled, RemovalPlaces, OneRemoval, PairingEnds, NoPairing, NoCallback
<1>19. ASSUME NEW u \in unpairing, NEW ok \in BOOLEAN, Removed(u, ok) PROVE IdsInv'
  BY <1>19 DEF TypeOK, IdsInv, Settled, RemovalPlaces, OneRemoval, Removed, NoCallback
<1>20. CASE UNCHANGED vars
  BY <1>20, IdsFrame DEF vars
<1> QED
  BY <1>1, <1>2, <1>3, <1>4, <1>5, <1>6, <1>7, <1>8, <1>9, <1>10, <1>11, <1>12, <1>13, <1>14,
     <1>15, <1>16, <1>17, <1>18, <1>19, <1>20
     DEF Next, Http, Removal, Commissioning, Callback, PairingOver

(* Removals that have not reported, or are reporting.                      *)
LEMMA OutstandingStep ==
    ASSUME IInv, TypeOK', OneRemoval, [Next]_vars PROVE OutstandingInv'
<1> USE DEF IInv, TypeOK, OutstandingInv, KindInv, IdsInv, AnsweredInv, Deleting, Waiting, Matched,
            RemovalPlaces, Awaited, Settled, Left, OneRemoval, httpVars, removeVars, commissionVars,
            matterVars
<1>1. ASSUME NEW k \in Kinds, NEW n \in NodeIds, BeginRemove(k, n) PROVE OutstandingInv'
  BY <1>1 DEF BeginRemove, Begin, Answer
<1>2. CASE BeginCommission
  BY <1>2 DEF BeginCommission, Begin, Answer
<1>3. CASE Drain \/ AskFor \/ ResetResult
  BY <1>3 DEF Drain, AskFor, ResetResult, Result
<1>4. CASE Unpair
  BY <1>4 DEF Unpair, Answer, NoCallback
<1>5. CASE TakeRemoved \/ ReadRemoved \/ RemoveTimesOut
  BY <1>5 DEF TakeRemoved, ReadRemoved, RemoveTimesOut, Answer
<1>6. CASE ClearAsked
  BY <1>6 DEF ClearAsked
<1>7. CASE Forget \/ RemoveDevice
  BY <1>7 DEF Forget, RemoveDevice, NoCallback
<1>8. CASE Respond
  BY <1>8 DEF Respond
<1>9. CASE ResetPair \/ TakePaired \/ DeleteSemaphore
  BY <1>9 DEF ResetPair, TakePaired, DeleteSemaphore
<1>10. CASE PairTimesOut \/ ReadPaired
  BY <1>10 DEF PairTimesOut, ReadPaired, Answer
<1>11. CASE PairOnNetwork
  BY <1>11 DEF PairOnNetwork, NoCallback
<1>12. CASE Interrogate
  BY <1>12 DEF Interrogate, NoCallback
<1>13. CASE MatchAsked
  BY <1>13, GoToFields DEF MatchAsked, NoCallback
<1>14. CASE WriteRemoved
  BY <1>14, GoToFields DEF WriteRemoved, Result
<1>15. CASE GiveRemoved
  BY <1>15 DEF GiveRemoved, NoCallback
<1>16. CASE WritePaired \/ GivePaired
  BY <1>16, GoToFields DEF WritePaired, GivePaired, NoCallback
<1>17. CASE Discovered \/ PaseFails
  BY <1>17 DEF Discovered, PaseFails, NoPairing, NoCallback
<1>18. ASSUME NEW ok \in BOOLEAN, PairingEnds(ok) PROVE OutstandingInv'
  BY <1>18 DEF PairingEnds, NoPairing, NoCallback
<1>19. ASSUME NEW u \in unpairing, NEW ok \in BOOLEAN, Removed(u, ok) PROVE OutstandingInv'
  BY <1>19 DEF Removed, NoCallback
<1>20. CASE UNCHANGED vars
  BY <1>20 DEF vars
<1> HIDE DEF TypeOK, OutstandingInv, AnsweredInv, KindInv, IdsInv, Deleting, Waiting, Matched, RemovalPlaces,
             Awaited, Settled, Left, OneRemoval
<1> QED
  BY <1>1, <1>2, <1>3, <1>4, <1>5, <1>6, <1>7, <1>8, <1>9, <1>10, <1>11, <1>12, <1>13, <1>14,
     <1>15, <1>16, <1>17, <1>18, <1>19, <1>20
     DEF Next, Http, Removal, Commissioning, Callback, PairingOver

(* What is read is the report of this removal.                             *)
LEMMA AnsweredStep ==
    ASSUME IInv, TypeOK', OneRemoval, [Next]_vars PROVE AnsweredInv'
<1> USE DEF IInv, TypeOK, AnsweredInv, KindInv, IdsInv, OutstandingInv, Deleting, Waiting, Matched,
            RemovalPlaces, Awaited, Settled, Left, OneRemoval, httpVars, removeVars, commissionVars,
            matterVars
<1>1. ASSUME NEW k \in Kinds, NEW n \in NodeIds, BeginRemove(k, n) PROVE AnsweredInv'
  BY <1>1 DEF BeginRemove, Begin, Answer
<1>2. CASE BeginCommission
  BY <1>2 DEF BeginCommission, Begin, Answer
<1>3. CASE Drain \/ AskFor \/ ResetResult
  BY <1>3 DEF Drain, AskFor, ResetResult, Result
<1>4. CASE Unpair
  BY <1>4 DEF Unpair, Answer, NoCallback
<1>5. CASE TakeRemoved \/ ReadRemoved \/ RemoveTimesOut
  BY <1>5 DEF TakeRemoved, ReadRemoved, RemoveTimesOut, Answer
<1>6. CASE ClearAsked
  BY <1>6 DEF ClearAsked
<1>7. CASE Forget \/ RemoveDevice
  BY <1>7 DEF Forget, RemoveDevice, NoCallback
<1>8. CASE Respond
  BY <1>8 DEF Respond
<1>9. CASE ResetPair \/ TakePaired \/ DeleteSemaphore
  BY <1>9 DEF ResetPair, TakePaired, DeleteSemaphore
<1>10. CASE PairTimesOut \/ ReadPaired
  BY <1>10 DEF PairTimesOut, ReadPaired, Answer
<1>11. CASE PairOnNetwork
  BY <1>11 DEF PairOnNetwork, NoCallback
<1>12. CASE Interrogate
  BY <1>12 DEF Interrogate, NoCallback
<1>13. CASE MatchAsked
  BY <1>13, GoToFields DEF MatchAsked, NoCallback
<1>14. CASE WriteRemoved
  BY <1>14, GoToFields DEF WriteRemoved, Result
<1>15. CASE GiveRemoved
  BY <1>15 DEF GiveRemoved, NoCallback
<1>16. CASE WritePaired \/ GivePaired
  BY <1>16, GoToFields DEF WritePaired, GivePaired, NoCallback
<1>17. CASE Discovered \/ PaseFails
  BY <1>17 DEF Discovered, PaseFails, NoPairing, NoCallback
<1>18. ASSUME NEW ok \in BOOLEAN, PairingEnds(ok) PROVE AnsweredInv'
  BY <1>18 DEF PairingEnds, NoPairing, NoCallback
<1>19. ASSUME NEW u \in unpairing, NEW ok \in BOOLEAN, Removed(u, ok) PROVE AnsweredInv'
  BY <1>19 DEF Removed, NoCallback
<1>20. CASE UNCHANGED vars
  BY <1>20 DEF vars
<1> HIDE DEF TypeOK, OutstandingInv, AnsweredInv, KindInv, IdsInv, Deleting, Waiting, Matched, RemovalPlaces,
             Awaited, Settled, Left, OneRemoval
<1> QED
  BY <1>1, <1>2, <1>3, <1>4, <1>5, <1>6, <1>7, <1>8, <1>9, <1>10, <1>11, <1>12, <1>13, <1>14,
     <1>15, <1>16, <1>17, <1>18, <1>19, <1>20
     DEF Next, Http, Removal, Commissioning, Callback, PairingOver
LEMMA IInvStep == OneRemoval /\ IInv /\ [Next]_vars => IInv'
<1> SUFFICES ASSUME OneRemoval, IInv, [Next]_vars PROVE IInv'
  OBVIOUS
<1>1. TypeOK' BY TypeStep DEF IInv
<1>2. KindInv' BY <1>1, KindStep
<1>3. IdsInv' BY <1>1, IdsStep
<1>4. OutstandingInv' BY <1>1, OutstandingStep
<1>5. AnsweredInv' BY <1>1, AnsweredStep
<1> QED BY <1>1, <1>2, <1>3, <1>4, <1>5 DEF IInv

(* Every variable keeps its type, whatever is asked of the controller only *)
(* once.                                                                   *)
THEOREM RequestsTypeCorrect == ASSUME OneRemoval PROVE Spec => []TypeOK
<1>1. IInv => TypeOK BY DEF IInv
<1> QED BY InitIInv, IInvStep, <1>1, PTL DEF Spec

(* A deletion that is answered OK has taken its node off the fabric.       *)
THEOREM DeletedMeansLeft == ASSUME OneRemoval PROVE Spec => []RemovedMeansLeft
<1>1. IInv => RemovedMeansLeft BY DEF IInv, KindInv, AnsweredInv, Left, RemovedMeansLeft
<1> QED BY InitIInv, IInvStep, <1>1, PTL DEF Spec
=============================================================================
