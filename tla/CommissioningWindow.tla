------------------------ MODULE CommissioningWindow ------------------------
(***************************************************************************)
(* firmware/main/commands/commissioning_window_command.cpp: the HTTP task  *)
(* asks a node to open its commissioning window and blocks until the       *)
(* callback on the Matter task hands it the answer, or 30 s pass.  Only    *)
(* the one httpd task calls it, so s_lock is always free.  The callback    *)
(* and OpenCommissioningWindow hold the Matter stack lock.                 *)
(***************************************************************************)
EXTENDS Naturals

CONSTANTS
    MaxRequests,    \* bound: requests made
    MaxRefusals     \* bound: requests that OpenCommissioningWindow refuses at once

ASSUME WindowAssumption == MaxRequests \in Nat /\ MaxRefusals \in Nat

VARIABLES
    pc,             \* where open_commissioning_window is
    request,        \* the number of the latest request
    refusals,       \* used up of the bound
    waiting,        \* s_waiting
    done,           \* s_done, a binary semaphore
    manual, qr,     \* s_result: the request whose callback wrote the code, or 0
    status,         \* s_status: the request whose callback wrote it, and its success
    openers,        \* requests whose callback has not come
    callback,       \* the callback being run: its place, request and success
    replies         \* what each request returned

vars == <<pc, request, refusals, waiting, done, manual, qr, status, openers, callback, replies>>
results  == <<manual, qr, status>>
requests == <<request, refusals>>

Requests == 1..MaxRequests
Writers  == Requests \cup {0}
Places   == {"none", "manual", "qr", "status", "give"}
NoCallback == [at |-> "none", of |-> 0, ok |-> FALSE]
Reply(kind, m, q, by) == [kind |-> kind, manual |-> m, qr |-> q, by |-> by]

TypeOK ==
    /\ pc \in {"idle", "drain", "arm", "start", "refused", "wait", "timedout", "claimed", "copy"}
    /\ request \in Writers
    /\ request = 0 => pc = "idle"
    /\ refusals \in Nat
    /\ waiting \in BOOLEAN
    /\ done \in BOOLEAN
    /\ manual \in Writers
    /\ qr \in Writers
    /\ status \in [of : Writers, ok : BOOLEAN]
    /\ openers \subseteq Requests
    /\ callback \in [at : Places, of : Writers, ok : BOOLEAN]
    /\ replies \in [Requests -> [kind : {"none", "ok", "error", "timeout"},
                                 manual : Writers, qr : Writers, by : Writers]]

-----------------------------------------------------------------------------
(* The HTTP task.                                                          *)

Return(r) == /\ pc' = "idle"
             /\ replies' = [replies EXCEPT ![request] = r]

(* A new opener; s_result is cleared. *)
Begin ==
    /\ pc = "idle"
    /\ request < MaxRequests
    /\ request' = request + 1
    /\ manual' = 0 /\ qr' = 0
    /\ pc' = "drain"
    /\ UNCHANGED <<refusals, waiting, done, status, openers, callback, replies>>

Drain ==
    /\ pc = "drain"
    /\ done' = FALSE
    /\ pc' = "arm"
    /\ UNCHANGED <<requests, waiting, results, openers, callback, replies>>

Arm ==
    /\ pc = "arm"
    /\ waiting' = TRUE
    /\ pc' = "start"
    /\ UNCHANGED <<requests, done, results, openers, callback, replies>>

(* OpenCommissioningWindow, under the stack lock: no callback is running.  *)
StartOpening ==
    /\ pc = "start"
    /\ callback = NoCallback
    /\ \/ openers' = openers \cup {request} /\ pc' = "wait" /\ UNCHANGED refusals
       \/ /\ refusals < MaxRefusals /\ refusals' = refusals + 1
          /\ pc' = "refused" /\ UNCHANGED openers
    /\ UNCHANGED <<request, waiting, done, results, callback, replies>>

(* The request was refused; the stack lock is released already. *)
Refused ==
    /\ pc = "refused"
    /\ waiting' = FALSE
    /\ Return(Reply("error", 0, 0, request))
    /\ UNCHANGED <<requests, done, results, openers, callback>>

TakeDone ==
    /\ pc \in {"wait", "claimed"}
    /\ done
    /\ done' = FALSE
    /\ pc' = "copy"
    /\ UNCHANGED <<requests, waiting, results, openers, callback, replies>>

(* OPEN_WINDOW_WAIT_MS have passed. *)
TimeOut ==
    /\ pc = "wait"
    /\ ~done
    /\ pc' = "timedout"
    /\ UNCHANGED <<requests, waiting, done, results, openers, callback, replies>>

(* Mutant of GiveUp: the wait is given up whether or not it was claimed.   *)
GiveUpRegardless ==
    /\ pc = "timedout"
    /\ waiting' = FALSE
    /\ Return(Reply("timeout", 0, 0, 0))
    /\ UNCHANGED <<requests, done, results, openers, callback>>

(* s_waiting.exchange(false) returns true: nobody has claimed the wait.    *)
GiveUp ==
    /\ pc = "timedout"
    /\ waiting
    /\ waiting' = FALSE
    /\ Return(Reply("timeout", 0, 0, 0))
    /\ UNCHANGED <<requests, done, results, openers, callback>>

(* It returns false: the callback is filling the result in now. *)
AwaitClaimed ==
    /\ pc = "timedout"
    /\ ~waiting
    /\ pc' = "claimed"
    /\ UNCHANGED <<requests, waiting, done, results, openers, callback, replies>>

CopyResult ==
    /\ pc = "copy"
    /\ Return(Reply(IF status.ok THEN "ok" ELSE "error", manual, qr, status.of))
    /\ UNCHANGED <<requests, waiting, done, results, openers, callback>>

-----------------------------------------------------------------------------
(* on_complete, on the Matter task.                                        *)

(* The device answers request r, late or not: the callback claims the wait *)
(* if there is one, else deletes the request and is over.  ok: the window  *)
(* is open and both codes can be generated.                                *)
Complete(r, ok) ==
    /\ callback = NoCallback
    /\ r \in openers
    /\ openers' = openers \ {r}
    /\ callback' = IF waiting
                   THEN [at |-> IF ok THEN "manual" ELSE "status", of |-> r, ok |-> ok]
                   ELSE NoCallback
    /\ waiting' = FALSE
    /\ UNCHANGED <<pc, requests, done, results, replies>>

GoTo(place) == callback' = [callback EXCEPT !.at = place]

(* Mutant of WriteManual: the semaphore is given before the QR code is    *)
(* written.                                                                *)
WriteManualAndGive ==
    /\ callback.at = "manual"
    /\ manual' = callback.of
    /\ done' = TRUE
    /\ GoTo("qr")
    /\ UNCHANGED <<pc, requests, waiting, qr, status, openers, replies>>

WriteManual ==
    /\ callback.at = "manual"
    /\ manual' = callback.of
    /\ GoTo("qr")
    /\ UNCHANGED <<pc, requests, waiting, done, qr, status, openers, replies>>

WriteQr ==
    /\ callback.at = "qr"
    /\ qr' = callback.of
    /\ GoTo("status")
    /\ UNCHANGED <<pc, requests, waiting, done, manual, status, openers, replies>>

(* Mutant of WriteStatus: a failure only writes the status. *)
WriteStatusOnly ==
    /\ callback.at = "status"
    /\ status' = [of |-> callback.of, ok |-> callback.ok]
    /\ IF callback.ok THEN GoTo("give") ELSE callback' = NoCallback
    /\ UNCHANGED <<pc, requests, waiting, done, manual, qr, openers, replies>>

WriteStatus ==
    /\ callback.at = "status"
    /\ status' = [of |-> callback.of, ok |-> callback.ok]
    /\ GoTo("give")
    /\ UNCHANGED <<pc, requests, waiting, done, manual, qr, openers, replies>>

GiveDone ==
    /\ callback.at = "give"
    /\ done' = TRUE
    /\ callback' = NoCallback
    /\ UNCHANGED <<pc, requests, waiting, results, openers, replies>>

-----------------------------------------------------------------------------
Init ==
    /\ pc = "idle"
    /\ request = 0 /\ refusals = 0
    /\ waiting = FALSE /\ done = FALSE
    /\ manual = 0 /\ qr = 0
    /\ status = [of |-> 0, ok |-> TRUE]
    /\ openers = {}
    /\ callback = NoCallback
    /\ replies = [r \in Requests |-> Reply("none", 0, 0, 0)]

Http ==
    \/ Drain \/ Arm \/ StartOpening \/ Refused \/ TakeDone \/ TimeOut
    \/ GiveUp \/ AwaitClaimed \/ CopyResult

OnComplete == WriteManual \/ WriteQr \/ WriteStatus \/ GiveDone

Next ==
    \/ Begin \/ Http \/ OnComplete
    \/ \E r \in Requests, ok \in BOOLEAN : Complete(r, ok)

Spec == Init /\ [][Next]_vars

(* The HTTP task runs when it can, 30 s pass, and a callback that has      *)
(* begun ends; nothing is assumed about whether the device answers.        *)
FairSpec == Spec /\ WF_vars(Http) /\ WF_vars(OnComplete)

-----------------------------------------------------------------------------
(* What holds.                                                             *)

(* As long as no request was refused at once, the result is written only   *)
(* while a request waits for it: a time-out that races a callback loses.   *)
WrittenWhileAwaited ==
    refusals = 0 /\ callback.at # "none" => pc \in {"start", "wait", "timedout", "claimed"}

WholeAnswer(r) ==
    replies[r].kind = "ok" =>
        replies[r].manual = replies[r].by /\ replies[r].qr = replies[r].by /\ replies[r].by # 0

(* Under the same condition, an answer that says OK carries both codes, and *)
(* both come from the callback that said OK: never half of an answer, or   *)
(* of two.                                                                 *)
AnswerIsComplete == refusals = 0 => \A r \in Requests : WholeAnswer(r)

(* The HTTP task, the only one the web server has, always comes back, even *)
(* from the wait without a time-out.                                       *)
RequestReturns == pc # "idle" ~> pc = "idle"

-----------------------------------------------------------------------------
(* What a comment says and the code does not do.                           *)

(* on_complete: a result for a request the caller already gave up on is    *)
(* dropped, so it can't satisfy the next one.                              *)
LateResultIsDropped ==
    \A r \in Requests : replies[r].kind \in {"ok", "error"} => replies[r].by = r

(* commissioning_window_command.h: ESP_OK means that the answer is filled  *)
(* in.  Not after a request that was refused at once.                      *)
OkIsComplete == \A r \in Requests : WholeAnswer(r)
=============================================================================
