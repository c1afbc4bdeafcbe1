--------------------- MODULE CommissioningWindow_proofs ---------------------
(***************************************************************************)
(* What holds of CommissioningWindow until OpenCommissioningWindow refuses *)
(* a request at once, for any number of requests and any late answers.     *)
(***************************************************************************)
EXTENDS CommissioningWindow, TLAPS

USE WindowAssumption DEF Requests, Writers

(* Where the binary semaphore, the flag and the callback can be.  The flag *)
(* is up, the callback writes, or the semaphore is given: one at a time,   *)
(* and only while the HTTP task is between arming and taking the answer.   *)
Watched == {"start", "wait", "timedout", "claimed"}
OneAtATime ==
    /\ callback.at # "none" => ~waiting /\ ~done /\ pc \in Watched
    /\ done => ~waiting /\ pc \in Watched
    /\ waiting => pc \in Watched \ {"claimed"}

(* How far the callback has got with the result. *)
Progress ==
    /\ callback.at # "none" => callback.of # 0
    /\ callback.at \in {"manual", "qr"} => callback.ok
    /\ callback.at = "qr" => manual = callback.of
    /\ callback.at \in {"status", "give"} /\ callback.ok => manual = callback.of /\ qr = callback.of
    /\ callback.at = "give" => status = [of |-> callback.of, ok |-> callback.ok]

(* What the HTTP task will find. *)
Delivered ==
    (done \/ pc = "copy") /\ status.ok =>
        manual = status.of /\ qr = status.of /\ status.of # 0

Safe == OneAtATime /\ Progress /\ Delivered /\ AnswerIsComplete
Inv == /\ TypeOK
       /\ pc = "refused" => refusals # 0
       /\ refusals = 0 => Safe

LEMMA InitInv == Init => Inv
<1> SUFFICES ASSUME Init PROVE Inv
  OBVIOUS
<1>1. \A r \in Requests : replies[r] = Reply("none", 0, 0, 0) BY DEF Init
<1>2. TypeOK BY DEF Init, TypeOK, Reply, NoCallback, Places
<1>3. AnswerIsComplete BY <1>1 DEF AnswerIsComplete, WholeAnswer, Reply
<1> QED BY <1>2, <1>3 DEF Init, Inv, Safe, OneAtATime, Progress, Delivered, NoCallback

LEMMA ReplyType ==
    ASSUME TypeOK, NEW r \in [kind : {"none", "ok", "error", "timeout"},
                              manual : Writers, qr : Writers, by : Writers], Return(r)
    PROVE  /\ replies' \in [Requests -> [kind : {"none", "ok", "error", "timeout"},
                                         manual : Writers, qr : Writers, by : Writers]]
           /\ \A q \in Requests : replies'[q] = r \/ replies'[q] = replies[q]
  BY DEF TypeOK, Return

(* Types. *)
LEMMA TypeStep == TypeOK /\ [Next]_vars => TypeOK'
<1> SUFFICES ASSUME TypeOK, [Next]_vars PROVE TypeOK'
  OBVIOUS
<1> USE DEF TypeOK, requests, results, Places
<1>1. CASE Begin BY <1>1 DEF Begin
<1>2. CASE Drain \/ Arm \/ TakeDone \/ TimeOut \/ AwaitClaimed
  BY <1>2 DEF Drain, Arm, TakeDone, TimeOut, AwaitClaimed
<1>3. CASE StartOpening
  <2>1. request \in Requests BY <1>3 DEF StartOpening
  <2>2. openers' \subseteq Requests BY <1>3, <2>1 DEF StartOpening
  <2> QED BY <1>3, <2>2 DEF StartOpening
<1>4. CASE Refused
  BY <1>4, ReplyType DEF Refused, Return, Reply
<1>5. CASE GiveUp
  BY <1>5, ReplyType DEF GiveUp, Return, Reply
<1>6. CASE CopyResult
  BY <1>6, ReplyType DEF CopyResult, Return, Reply
<1>7. ASSUME NEW r \in Requests, NEW ok \in BOOLEAN, Complete(r, ok) PROVE TypeOK'
  BY <1>7 DEF Complete, NoCallback
<1>8. CASE OnComplete
  <2>1. callback' \in [at : Places, of : Writers, ok : BOOLEAN]
    <3>1. ASSUME NEW place \in Places, GoTo(place) PROVE callback' \in [at : Places, of : Writers, ok : BOOLEAN]
      BY <3>1 DEF GoTo
    <3>2. NoCallback \in [at : Places, of : Writers, ok : BOOLEAN] BY DEF NoCallback
    <3> QED BY <1>8, <3>1, <3>2 DEF OnComplete, WriteManual, WriteQr, WriteStatus, GiveDone
  <2>2. callback.of \in Writers /\ callback.ok \in BOOLEAN OBVIOUS
  <2>3. CASE WriteManual BY <2>1, <2>2, <2>3 DEF WriteManual
  <2>4. CASE WriteQr BY <2>1, <2>2, <2>4 DEF WriteQr
  <2>5. CASE WriteStatus BY <2>1, <2>2, <2>5 DEF WriteStatus
  <2>6. CASE GiveDone BY <2>1, <2>6 DEF GiveDone
  <2> QED BY <1>8, <2>3, <2>4, <2>5, <2>6 DEF OnComplete
<1>9. CASE UNCHANGED vars BY <1>9 DEF vars
<1> QED BY <1>1, <1>2, <1>3, <1>4, <1>5, <1>6, <1>7, <1>8, <1>9 DEF Next, Http

(* A refusal is counted before it is answered, and stays counted.          *)
LEMMA RefusalStep ==
    ASSUME TypeOK, pc = "refused" => refusals # 0, [Next]_vars
    PROVE  (pc' = "refused" => refusals' # 0) /\ (refusals' = 0 => refusals = 0)
<1> USE DEF TypeOK, requests
<1>1. CASE Begin \/ Http
  BY <1>1 DEF Begin, Http, Drain, Arm, StartOpening, Refused, TakeDone, TimeOut, GiveUp,
              AwaitClaimed, CopyResult, Return
<1>2. CASE OnComplete \/ UNCHANGED vars
  BY <1>2 DEF OnComplete, WriteManual, WriteQr, WriteStatus, GiveDone, vars
<1>3. ASSUME NEW r \in Requests, NEW ok \in BOOLEAN, Complete(r, ok)
      PROVE  (pc' = "refused" => refusals' # 0) /\ (refusals' = 0 => refusals = 0)
  BY <1>3 DEF Complete
<1> QED BY <1>1, <1>2, <1>3 DEF Next

LEMMA SafeStep ==
    ASSUME TypeOK, TypeOK', refusals = 0, refusals' = 0, pc # "refused", Safe, [Next]_vars
    PROVE  Safe'
<1> USE DEF Safe, OneAtATime, Progress, Delivered, Watched, TypeOK, requests, results
<1>1. CASE Begin
  BY <1>1 DEF Begin, AnswerIsComplete, WholeAnswer
<1>2. CASE Drain
  BY <1>2 DEF Drain, AnswerIsComplete, WholeAnswer
<1>3. CASE Arm
  BY <1>3 DEF Arm, AnswerIsComplete, WholeAnswer
<1>4. CASE StartOpening
  BY <1>4 DEF StartOpening, NoCallback, AnswerIsComplete, WholeAnswer
<1>5. CASE Refused
  BY <1>5 DEF Refused
<1>6. CASE TakeDone
  BY <1>6 DEF TakeDone, AnswerIsComplete, WholeAnswer
<1>7. CASE TimeOut \/ AwaitClaimed
  BY <1>7 DEF TimeOut, AwaitClaimed, AnswerIsComplete, WholeAnswer
<1>8. CASE GiveUp
  <2>1. AnswerIsComplete'
    BY <1>8, ReplyType DEF GiveUp, Reply, AnswerIsComplete, WholeAnswer
  <2> QED BY <1>8, <2>1 DEF GiveUp, Return
<1>9. CASE CopyResult
  <2> DEFINE r == Reply(IF status.ok THEN "ok" ELSE "error", manual, qr, status.of)
  <2>1. r.kind = "ok" => r.manual = r.by /\ r.qr = r.by /\ r.by # 0
    BY <1>9 DEF CopyResult, Reply
  <2>2. \A q \in Requests : replies'[q] = r \/ replies'[q] = replies[q]
    BY <1>9, ReplyType DEF CopyResult, Reply
  <2>3. AnswerIsComplete'
    BY <2>1, <2>2 DEF AnswerIsComplete, WholeAnswer
  <2> QED BY <1>9, <2>3 DEF CopyResult, Return
<1>10. ASSUME NEW r \in Requests, NEW ok \in BOOLEAN, Complete(r, ok) PROVE Safe'
  BY <1>10 DEF Complete, NoCallback, AnswerIsComplete, WholeAnswer
<1>11. CASE WriteManual
  BY <1>11 DEF WriteManual, GoTo, AnswerIsComplete, WholeAnswer
<1>12. CASE WriteQr
  BY <1>12 DEF WriteQr, GoTo, AnswerIsComplete, WholeAnswer
<1>13. CASE WriteStatus
  BY <1>13 DEF WriteStatus, GoTo, AnswerIsComplete, WholeAnswer
<1>14. CASE GiveDone
  BY <1>14 DEF GiveDone, NoCallback, AnswerIsComplete, WholeAnswer
<1>15. CASE UNCHANGED vars
  BY <1>15 DEF vars, AnswerIsComplete, WholeAnswer
<1> QED
  BY <1>1, <1>2, <1>3, <1>4, <1>5, <1>6, <1>7, <1>8, <1>9, <1>10, <1>11, <1>12, <1>13, <1>14,
     <1>15 DEF Next, Http, OnComplete

LEMMA InvStep == Inv /\ [Next]_vars => Inv'
<1> SUFFICES ASSUME Inv, [Next]_vars PROVE Inv'
  OBVIOUS
<1>1. TypeOK' BY TypeStep DEF Inv
<1>2. (pc' = "refused" => refusals' # 0) /\ (refusals' = 0 => refusals = 0)
  BY RefusalStep DEF Inv
<1>3. refusals' = 0 => Safe' BY <1>1, <1>2, SafeStep DEF Inv
<1> QED BY <1>1, <1>2, <1>3 DEF Inv

(* Every variable keeps its type. *)
THEOREM WindowTypeCorrect == Spec => []TypeOK
<1>1. Inv => TypeOK BY DEF Inv
<1> QED BY InitInv, InvStep, <1>1, PTL DEF Spec

(* Until a request is refused at once, an answer that says OK is one whole *)
(* answer of one callback.                                                 *)
THEOREM CompleteAnswers == Spec => []AnswerIsComplete
<1>1. Inv => AnswerIsComplete BY DEF Inv, Safe, AnswerIsComplete
<1> QED BY InitInv, InvStep, <1>1, PTL DEF Spec

(* Until then the result is only written while a request waits for it.     *)
THEOREM OnlyWhileAwaited == Spec => []WrittenWhileAwaited
<1>1. Inv => WrittenWhileAwaited BY DEF Inv, Safe, OneAtATime, Watched, WrittenWhileAwaited
<1> QED BY InitInv, InvStep, <1>1, PTL DEF Spec
=============================================================================
