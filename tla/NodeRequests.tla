---------------------------- MODULE NodeRequests ----------------------------
(***************************************************************************)
(* firmware/main/matter_controller.cpp: commissioning and removing a node. *)
(* The HTTP task blocks on a semaphore that a callback on the Matter task  *)
(* gives, or gives up after a time-out, which leaves the Matter operation  *)
(* and its callback outstanding.  A request is the number of its HTTP      *)
(* request; results carry the number of the request whose operation they   *)
(* are of, which the code does not have.  The controller's own node list   *)
(* in NVS is written and never read, and is left out.                      *)
(***************************************************************************)
EXTENDS Naturals

CONSTANTS
    Kinds,          \* the HTTP requests made: "commission", "delete", "unpair"
    Paired,         \* nodes commissioned before, ids below the next free one
    FirstFree,      \* the next free node id
    Again,          \* whether a node that was deleted before is removed again
    MaxRequests,    \* bound: HTTP requests
    MaxFaults       \* bound: operations that Matter refuses to start

ASSUME RequestsAssumption ==
    /\ Kinds \subseteq {"commission", "delete", "unpair"}
    /\ FirstFree \in Nat \ {0}
    /\ Paired \subseteq 1..(FirstFree - 1)
    /\ Again \in BOOLEAN
    /\ MaxRequests \in Nat
    /\ MaxFaults \in Nat

VARIABLES
    pc,                     \* where the HTTP task is
    request, kind, node,    \* its request, and the node it is about
    outcome,                \* what it will answer, and whose operation that is of
    nextId,                 \* HEM_NodeIdCounter
    asked, removeDone, removeResult,    \* s_remove_ctx
    pairDone, pairResult,               \* s_commission_ctx
    unpairing,              \* esp-matter: removals that have not reported
    pairing,                \* the pairing delegate: the pairing it serves, or nothing
    callback,               \* the callback being run
    joined,                 \* nodes that are on the fabric
    devices,                \* the device manager's list
    replies,                \* what each request was answered
    faults                  \* used up of the bound

httpVars    == <<request, kind, node>>
removeVars  == <<asked, removeDone, removeResult>>
commissionVars == <<pairDone, pairResult>>
matterVars  == <<unpairing, pairing, joined>>
vars == <<pc, httpVars, outcome, nextId, removeVars, commissionVars, matterVars, callback,
          devices, replies, faults>>

Requests == 1..MaxRequests
NodeIds  == 1..(FirstFree + MaxRequests)
Result(ok, by) == [ok |-> ok, by |-> by]
Answer(what, n, by) == [what |-> what, node |-> n, by |-> by]
NoPairing  == [at |-> "none", of |-> 0, node |-> 0]
NoCallback == [at |-> "none", of |-> 0, node |-> 0, ok |-> FALSE]

Results == [ok : BOOLEAN, by : Requests \cup {0}]
Answers == [what : {"none", "ok", "failed", "refused", "timeout"}, node : NodeIds \cup {0},
            by : Requests \cup {0}]
Callbacks == [at : {"none", "match", "removeResult", "removeGive", "pairResult", "pairGive"},
              of : Requests \cup {0}, node : NodeIds \cup {0}, ok : BOOLEAN]
TypeOK ==
    /\ pc \in {"idle", "drain", "ask", "reset", "unpair", "waitRemoved", "readRemoved", "clear",
               "respond", "forget", "removeDevice",
               "resetPair", "pair", "waitPaired", "readPaired", "deleteSemaphore", "interrogate"}
    /\ request \in Requests \cup {0}
    /\ kind \in Kinds \cup {"none"}
    /\ node \in NodeIds \cup {0}
    /\ outcome \in Answers
    /\ nextId \in Nat
    /\ asked \in NodeIds \cup {0}
    /\ removeDone \in BOOLEAN
    /\ removeResult \in Results
    /\ pairDone \in {"taken", "given", "deleted"}
    /\ pairResult \in Results
    /\ unpairing \subseteq [of : Requests, node : NodeIds]
    /\ pairing \in [at : {"none", "discovering", "pairing"}, of : Requests \cup {0},
                    node : NodeIds \cup {0}]
    /\ callback \in Callbacks
    /\ joined \subseteq NodeIds
    /\ devices \subseteq NodeIds
    /\ replies \in [Requests -> Answers]
    /\ faults \in Nat

-----------------------------------------------------------------------------
(* The HTTP task: removal of a node.                                       *)

Begin(k, n) ==
    /\ pc = "idle"
    /\ request < MaxRequests
    /\ request' = request + 1
    /\ kind' = k
    /\ node' = n
    /\ outcome' = Answer("none", n, 0)

BeginRemove(k, n) ==
    /\ k \in Kinds \cap {"delete", "unpair"}
    /\ n < nextId
    /\ Again \/ n \in devices
    /\ Begin(k, n)
    /\ pc' = "drain"
    /\ UNCHANGED <<nextId, removeVars, commissionVars, matterVars, callback, devices, replies, faults>>

(* Any stale give of a request that timed out is drained. *)
Drain ==
    /\ pc = "drain" /\ pc' = "ask"
    /\ removeDone' = FALSE
    /\ UNCHANGED <<httpVars, outcome, nextId, asked, removeResult, commissionVars, matterVars,
                   callback, devices, replies, faults>>

AskFor ==
    /\ pc = "ask" /\ pc' = "reset"
    /\ asked' = node
    /\ UNCHANGED <<httpVars, outcome, nextId, removeDone, removeResult, commissionVars, matterVars,
                   callback, devices, replies, faults>>

ResetResult ==
    /\ pc = "reset" /\ pc' = "unpair"
    /\ removeResult' = Result(TRUE, 0)
    /\ UNCHANGED <<httpVars, outcome, nextId, asked, removeDone, commissionVars, matterVars,
                   callback, devices, replies, faults>>

(* unpair, under the stack lock: it waits for the callback being run. *)
Unpair ==
    /\ pc = "unpair"
    /\ callback = NoCallback
    /\ \/ /\ unpairing' = unpairing \cup {[of |-> request, node |-> node]}
          /\ pc' = "waitRemoved"
          /\ UNCHANGED <<outcome, faults>>
       \/ /\ faults < MaxFaults /\ faults' = faults + 1
          /\ outcome' = Answer("refused", node, 0)
          /\ pc' = "clear"
          /\ UNCHANGED unpairing
    /\ UNCHANGED <<httpVars, nextId, removeVars, commissionVars, pairing, joined, callback,
                   devices, replies>>

TakeRemoved ==
    /\ pc = "waitRemoved" /\ pc' = "readRemoved"
    /\ removeDone
    /\ removeDone' = FALSE
    /\ UNCHANGED <<httpVars, outcome, nextId, asked, removeResult, commissionVars, matterVars,
                   callback, devices, replies, faults>>

ReadRemoved ==
    /\ pc = "readRemoved" /\ pc' = "clear"
    /\ outcome' = Answer(IF removeResult.ok THEN "ok" ELSE "failed", node, removeResult.by)
    /\ UNCHANGED <<httpVars, nextId, removeVars, commissionVars, matterVars, callback, devices,
                   replies, faults>>

(* kRemoveNodeTimeoutMs have passed. *)
RemoveTimesOut ==
    /\ pc = "waitRemoved" /\ pc' = "clear"
    /\ ~removeDone
    /\ outcome' = Answer("timeout", node, 0)
    /\ UNCHANGED <<httpVars, nextId, removeVars, commissionVars, matterVars, callback, devices,
                   replies, faults>>

ClearAsked ==
    /\ pc = "clear"
    /\ asked' = 0
    /\ pc' = IF kind = "unpair" THEN "respond"
             ELSE IF outcome.what = "ok" THEN "removeDevice" ELSE "forget"
    /\ UNCHANGED <<httpVars, outcome, nextId, removeDone, removeResult, commissionVars, matterVars,
                   callback, devices, replies, faults>>

(* Mutant of Forget: the stack lock is not taken. *)
ForgetUnlocked ==
    /\ pc = "forget" /\ pc' = "removeDevice"
    /\ UNCHANGED <<httpVars, outcome, nextId, removeVars, commissionVars, matterVars, callback,
                   devices, replies, faults>>

(* matter_controller_forget_node takes the stack lock. *)
Forget ==
    /\ pc = "forget" /\ pc' = "removeDevice"
    /\ callback = NoCallback
    /\ UNCHANGED <<httpVars, outcome, nextId, removeVars, commissionVars, matterVars, callback,
                   devices, replies, faults>>

RemoveDevice ==
    /\ pc = "removeDevice" /\ pc' = "respond"
    /\ devices' = devices \ {node}
    /\ UNCHANGED <<httpVars, outcome, nextId, removeVars, commissionVars, matterVars, callback,
                   replies, faults>>

Respond ==
    /\ pc = "respond" /\ pc' = "idle"
    /\ replies' = [replies EXCEPT ![request] = outcome]
    /\ UNCHANGED <<httpVars, outcome, nextId, removeVars, commissionVars, matterVars, callback,
                   devices, faults>>

-----------------------------------------------------------------------------
(* The HTTP task: commissioning.                                           *)

(* A new semaphore and a new node id, whatever becomes of the pairing. *)
BeginCommission ==
    /\ "commission" \in Kinds
    /\ Begin("commission", nextId)
    /\ nextId' = nextId + 1
    /\ pairDone' = "taken"
    /\ pc' = "resetPair"
    /\ UNCHANGED <<removeVars, pairResult, matterVars, callback, devices, replies, faults>>

ResetPair ==
    /\ pc = "resetPair" /\ pc' = "pair"
    /\ pairResult' = Result(TRUE, 0)
    /\ UNCHANGED <<httpVars, outcome, nextId, removeVars, pairDone, matterVars, callback, devices,
                   replies, faults>>

(* pairing_on_network, under the stack lock.  It does nothing while the    *)
(* delegate serves an earlier pairing; its result is ignored.  The delegate *)
(* stays registered when discovery cannot be started, which is then one    *)
(* that finds no device.                                                   *)
PairOnNetwork ==
    /\ pc = "pair" /\ pc' = "waitPaired"
    /\ callback = NoCallback
    /\ pairing' = IF pairing.at = "none"
                  THEN [at |-> "discovering", of |-> request, node |-> node]
                  ELSE pairing
    /\ UNCHANGED <<httpVars, outcome, nextId, removeVars, commissionVars, unpairing, joined,
                   callback, devices, replies, faults>>

TakePaired ==
    /\ pc = "waitPaired" /\ pc' = "readPaired"
    /\ pairDone = "given"
    /\ pairDone' = "taken"
    /\ UNCHANGED <<httpVars, outcome, nextId, removeVars, pairResult, matterVars, callback, devices,
                   replies, faults>>

(* Mutant of PairTimesOut: the wait has no time-out. *)
PairNeverTimesOut ==
    /\ pc = "waitPaired" /\ pc' = "deleteSemaphore"
    /\ pairDone = "deleted"
    /\ UNCHANGED <<httpVars, outcome, nextId, removeVars, commissionVars, matterVars, callback,
                   devices, replies, faults>>

PairTimesOut ==
    /\ pc = "waitPaired" /\ pc' = "deleteSemaphore"
    /\ pairDone # "given"
    /\ outcome' = Answer("timeout", node, 0)
    /\ UNCHANGED <<httpVars, nextId, removeVars, commissionVars, matterVars, callback, devices,
                   replies, faults>>

ReadPaired ==
    /\ pc = "readPaired" /\ pc' = "deleteSemaphore"
    /\ outcome' = Answer(IF pairResult.ok THEN "ok" ELSE "failed", node, pairResult.by)
    /\ UNCHANGED <<httpVars, nextId, removeVars, commissionVars, matterVars, callback, devices,
                   replies, faults>>

DeleteSemaphore ==
    /\ pc = "deleteSemaphore"
    /\ pairDone' = "deleted"
    /\ pc' = IF outcome.what = "ok" THEN "interrogate" ELSE "respond"
    /\ UNCHANGED <<httpVars, outcome, nextId, removeVars, pairResult, matterVars, callback, devices,
                   replies, faults>>

(* interrogate_node: the device is added; the read takes the stack lock.   *)
Interrogate ==
    /\ pc = "interrogate" /\ pc' = "respond"
    /\ callback = NoCallback
    /\ devices' = devices \cup {node}
    /\ UNCHANGED <<httpVars, outcome, nextId, removeVars, commissionVars, matterVars, callback,
                   replies, faults>>

-----------------------------------------------------------------------------
(* The Matter task.                                                        *)

(* remove_node_cb begins: the node left the fabric, or refused or could    *)
(* not be reached.                                                         *)
Removed(u, ok) ==
    /\ callback = NoCallback
    /\ u \in unpairing
    /\ ok => u.node \in joined
    /\ unpairing' = unpairing \ {u}
    /\ joined' = IF ok THEN joined \ {u.node} ELSE joined
    /\ callback' = [at |-> "match", of |-> u.of, node |-> u.node, ok |-> ok]
    /\ UNCHANGED <<pc, httpVars, outcome, nextId, removeVars, commissionVars, pairing, devices,
                   replies, faults>>

GoTo(place) == callback' = [callback EXCEPT !.at = place]

(* Is the waiter still blocked on this request? *)
MatchAsked ==
    /\ callback.at = "match"
    /\ IF callback.node = asked THEN GoTo("removeResult") ELSE callback' = NoCallback
    /\ UNCHANGED <<pc, httpVars, outcome, nextId, removeVars, commissionVars, matterVars, devices,
                   replies, faults>>

WriteRemoved ==
    /\ callback.at = "removeResult"
    /\ removeResult' = Result(callback.ok, callback.of)
    /\ GoTo("removeGive")
    /\ UNCHANGED <<pc, httpVars, outcome, nextId, asked, removeDone, commissionVars, matterVars,
                   devices, replies, faults>>

GiveRemoved ==
    /\ callback.at = "removeGive"
    /\ removeDone' = TRUE
    /\ callback' = NoCallback
    /\ UNCHANGED <<pc, httpVars, outcome, nextId, asked, removeResult, commissionVars, matterVars,
                   devices, replies, faults>>

(* OnDiscoveredDevice: a device in commissioning mode is found and paired. *)
Discovered ==
    /\ callback = NoCallback
    /\ pairing.at = "discovering"
    /\ pairing' = [pairing EXCEPT !.at = "pairing"]
    /\ UNCHANGED <<pc, httpVars, outcome, nextId, removeVars, commissionVars, unpairing, joined,
                   callback, devices, replies, faults>>

(* OnCommissioningSuccess and OnCommissioningFailure: the delegate is      *)
(* unregistered, then the callback of matter_controller.cpp is called.     *)
PairingEnds(ok) ==
    /\ callback = NoCallback
    /\ pairing.at = "pairing"
    /\ pairing' = NoPairing
    /\ joined' = IF ok THEN joined \cup {pairing.node} ELSE joined
    /\ callback' = [at |-> "pairResult", of |-> pairing.of, node |-> pairing.node, ok |-> ok]
    /\ UNCHANGED <<pc, httpVars, outcome, nextId, removeVars, commissionVars, unpairing, devices,
                   replies, faults>>

(* Mutant of PaseFails: the delegate is not unregistered. *)
PaseFailsSilently ==
    /\ callback = NoCallback
    /\ pairing.at = "pairing"
    /\ pairing' = [pairing EXCEPT !.at = "discovering"]
    /\ UNCHANGED <<pc, httpVars, outcome, nextId, removeVars, commissionVars, unpairing, joined,
                   callback, devices, replies, faults>>

(* OnPairingComplete with an error: no callback is called. *)
PaseFails ==
    /\ callback = NoCallback
    /\ pairing.at = "pairing"
    /\ pairing' = NoPairing
    /\ UNCHANGED <<pc, httpVars, outcome, nextId, removeVars, commissionVars, unpairing, joined,
                   callback, devices, replies, faults>>

WritePaired ==
    /\ callback.at = "pairResult"
    /\ pairResult' = Result(callback.ok, callback.of)
    /\ GoTo("pairGive")
    /\ UNCHANGED <<pc, httpVars, outcome, nextId, removeVars, pairDone, matterVars, devices,
                   replies, faults>>

(* Giving a semaphore that has been deleted is undefined; here it is lost. *)
GivePaired ==
    /\ callback.at = "pairGive"
    /\ pairDone' = IF pairDone = "deleted" THEN "deleted" ELSE "given"
    /\ callback' = NoCallback
    /\ UNCHANGED <<pc, httpVars, outcome, nextId, removeVars, pairResult, matterVars, devices,
                   replies, faults>>

-----------------------------------------------------------------------------
Init ==
    /\ pc = "idle"
    /\ request = 0 /\ kind = "none" /\ node = 0
    /\ outcome = Answer("none", 0, 0)
    /\ nextId = FirstFree
    /\ asked = 0 /\ removeDone = FALSE /\ removeResult = Result(TRUE, 0)
    /\ pairDone = "deleted" /\ pairResult = Result(TRUE, 0)
    /\ unpairing = {}
    /\ pairing = NoPairing
    /\ callback = NoCallback
    /\ joined = Paired
    /\ devices = Paired
    /\ replies = [r \in Requests |-> Answer("none", 0, 0)]
    /\ faults = 0

Removal ==
    \/ Drain \/ AskFor \/ ResetResult \/ Unpair \/ TakeRemoved \/ ReadRemoved \/ RemoveTimesOut
    \/ ClearAsked \/ Forget \/ RemoveDevice

Commissioning ==
    \/ ResetPair \/ PairOnNetwork \/ TakePaired \/ PairTimesOut \/ ReadPaired
    \/ DeleteSemaphore \/ Interrogate

Http == Removal \/ Commissioning \/ Respond

Callback == MatchAsked \/ WriteRemoved \/ GiveRemoved \/ WritePaired \/ GivePaired

PairingOver == PaseFails \/ \E ok \in BOOLEAN : PairingEnds(ok)

Next ==
    \/ \E k \in Kinds, n \in NodeIds : BeginRemove(k, n)
    \/ BeginCommission
    \/ Http \/ Callback \/ Discovered \/ PairingOver
    \/ \E u \in unpairing, ok \in BOOLEAN : Removed(u, ok)

Spec == Init /\ [][Next]_vars

(* The HTTP task runs and its waits time out; a callback that has begun    *)
(* ends; Matter ends a pairing it has begun.  No device need be found.     *)
FairSpec == Spec /\ WF_vars(Http) /\ WF_vars(Callback) /\ SF_vars(PairingOver)

-----------------------------------------------------------------------------
(* What holds.                                                             *)

(* When matter_controller_remove_node returns OK the node has left the     *)
(* fabric.  No late callback of another deletion answers for it, because   *)
(* the handler that timed out takes the stack lock once, in                *)
(* matter_controller_forget_node, before it returns.                       *)
RemovedMeansLeft ==
    kind \in {"delete", "unpair"} /\ outcome.what = "ok" => node \notin joined

(* Every HTTP request is answered. *)
RequestReturns == pc # "idle" ~> pc = "idle"

(* A pairing that found a device gives the delegate back, however it ends  *)
(* and whoever still waits for it: the next one can start.                 *)
DelegateReleased == pairing.at = "pairing" ~> pairing = NoPairing

-----------------------------------------------------------------------------
(* What the documentation says and the code does not do.                   *)

(* matter_controller.cpp: the waiter is only signalled if it is still      *)
(* blocked on this request; a stray give is drained by the next.           *)
AnswersItsNode ==
    \A r \in Requests : LET by == replies[r].by IN
        by # 0 /\ replies[by].what # "none" => replies[by].node = replies[r].node

(* The same comment, of two removals of one node: RemovedMeansLeft with     *)
(* Again.  node_id is set before result is reset, so the failure of an      *)
(* earlier, abandoned removal matches, is overwritten and read as success.  *)

(* companion_api.c: a 2xx is proof that the device really joined.          *)
CommissionedMeansJoined ==
    \A r \in Requests : replies[r].what = "ok" => replies[r].node \in joined

(* task-33: 504 on a time-out, 502 on other failures.  A pairing that was  *)
(* never started, because an older one has the delegate, did not time out. *)
RefusedIsNotTimeout ==
    [][pc = "waitPaired" /\ pc' = "deleteSemaphore" /\ outcome'.what = "timeout"
        => pairing.of \in {request, 0}]_vars
=============================================================================
