---------------------------- MODULE WebApp_proofs ----------------------------
(***************************************************************************)
(* Proofs about the pages in their composition: what keeps the Topology    *)
(* page live, the charts of the Power page and the list of devices,        *)
(* whatever pages the user visits, for any bounds.                         *)
(***************************************************************************)
EXTENDS WebApp, SequenceTheorems, FiniteSetTheorems, WellFoundedInduction, TLAPS

(* What a step of the app does to the connection and the price: one of     *)
(* their own steps, or nothing.                                            *)
LiveStep == L!Step \/ L!Mount \/ L!Unmount \/ UNCHANGED live

LEMMA LiveSteps == [Next]_vars => LiveStep
<1> SUFFICES ASSUME [Next]_vars PROVE LiveStep
  OBVIOUS
<1>1. CASE \E to \in {"power", "devices", "topology"} : Goto(to)
  BY <1>1 DEF Goto, TopologyFollows, LiveStep
<1>2. CASE ShowCode
  BY <1>2 DEF ShowCode, TopologyFollows, LiveStep
<1>3. CASE PowerStep \/ DevicesStep
  BY <1>3 DEF PowerStep, DevicesStep, LiveStep
<1>4. CASE TopologyStep
  BY <1>4 DEF TopologyStep, LiveStep
<1>5. CASE UNCHANGED vars
  BY <1>5 DEF vars, LiveStep
<1> QED BY <1>1, <1>2, <1>3, <1>4, <1>5 DEF Next

-----------------------------------------------------------------------------
(* The socket.                                                             *)

Socket == [visit : Visits, n : Nat, open : BOOLEAN]
Timer == [visit : Visits, n : Nat]

Typed ==
    /\ lvisit \in Nat /\ here \in {0} \cup Visits
    /\ attempt \in [Visits -> Nat]
    /\ sockets \subseteq Socket /\ timers \subseteq Timer

(* Sockets and timers are of the latest attempt of a visit that has begun, *)
(* and a visit has at most one of them.                                    *)
Single ==
    /\ \A s \in sockets : s.n = attempt[s.visit] /\ s.visit <= lvisit
    /\ \A t \in timers : t.n = attempt[t.visit] /\ t.visit <= lvisit
    /\ \A r, s \in sockets : r.visit = s.visit => r = s
    /\ \A s \in sockets : \A t \in timers : s.visit # t.visit

SocketInv == Typed /\ Single

LEMMA SocketStart == Init => SocketInv
BY VisitsAssumption DEF Init, L!Init, SocketInv, Typed, Single

(* A timer of a visit is known by the visit. *)
LEMMA OneTimer ==
    ASSUME SocketInv, NEW t \in timers, NEW u \in timers, t.visit = u.visit PROVE t = u
<1>1. t = [visit |-> t.visit, n |-> t.n] /\ u = [visit |-> u.visit, n |-> u.n]
  BY DEF SocketInv, Typed, Timer
<1> QED BY <1>1 DEF SocketInv, Single

LEMMA OpensKeeps == ASSUME SocketInv, NEW s \in sockets, L!Opens(s) PROVE SocketInv'
<1> DEFINE o == [s EXCEPT !.open = TRUE]
<1>1. o \in Socket /\ o.visit = s.visit /\ o.n = s.n
  BY DEF SocketInv, Typed, Socket
<1>2. sockets' = (sockets \ {s}) \cup {o} /\ UNCHANGED <<here, lvisit, timers, attempt>>
  BY DEF L!Opens
<1> HIDE DEF o
<1>3. Typed'
  BY <1>1, <1>2 DEF SocketInv, Typed
<1>4. Single'
  BY <1>1, <1>2 DEF SocketInv, Single
<1> QED BY <1>3, <1>4 DEF SocketInv

(* What a closed socket leaves is a timer. *)
LEMMA CloseKeeps ==
    ASSUME SocketInv, NEW s \in sockets, L!Close(s), here' \in {0} \cup Visits,
           UNCHANGED <<lvisit, attempt>>
    PROVE  SocketInv'
<1> DEFINE t == [visit |-> s.visit, n |-> s.n]
<1>1. t \in Timer /\ t.visit = s.visit /\ t.n = s.n
  BY DEF SocketInv, Typed, Socket, Timer
<1>2. sockets' = sockets \ {s} /\ timers' = timers \cup {t}
  BY DEF L!Close
<1> HIDE DEF t
<1>3. Typed'
  BY <1>1, <1>2 DEF SocketInv, Typed
<1>4. Single'
  BY <1>1, <1>2 DEF SocketInv, Single
<1> QED BY <1>3, <1>4 DEF SocketInv

(* A visit that has neither connects. *)
LEMMA ConnectKeeps ==
    ASSUME SocketInv, NEW v \in Visits, L!Connect(v),
           timers' \in SUBSET timers, lvisit' \in Nat, lvisit <= lvisit', v <= lvisit',
           here' \in {0} \cup Visits,
           \A s \in sockets : s.visit # v, \A t \in timers' : t.visit # v
    PROVE  SocketInv'
<1> DEFINE c == [visit |-> v, n |-> attempt[v] + 1, open |-> FALSE]
<1>1. c \in Socket /\ c.visit = v /\ c.n = attempt[v] + 1
  BY DEF SocketInv, Typed, Socket
<1>2. /\ sockets' = sockets \cup {c}
      /\ attempt' = [attempt EXCEPT ![v] = @ + 1]
  BY DEF L!Connect
<1> HIDE DEF c
<1>3. attempt' \in [Visits -> Nat] /\ attempt'[v] = attempt[v] + 1
      /\ \A w \in Visits \ {v} : attempt'[w] = attempt[w]
  BY <1>2 DEF SocketInv, Typed
<1>4. Typed'
  BY <1>1, <1>2, <1>3 DEF SocketInv, Typed
<1>5. /\ \A s \in sockets : s.visit \in Visits \ {v}
      /\ \A t \in timers' : t.visit \in Visits \ {v}
  BY DEF SocketInv, Typed, Socket, Timer
<1>6. Visits \subseteq Nat
  BY VisitsAssumption
<1>7. ASSUME NEW x \in sockets' \cup timers' PROVE x.n = attempt'[x.visit] /\ x.visit <= lvisit'
  <2>1. CASE x = c
    BY <1>1, <1>3, <2>1
  <2>2. CASE x \in sockets \cup timers'
    <3>1. x.n = attempt[x.visit] /\ x.visit <= lvisit /\ x.visit \in Visits \ {v}
      BY <1>5, <2>2 DEF SocketInv, Single
    <3>2. x.visit \in Nat /\ lvisit \in Nat
      BY <3>1, <1>6 DEF SocketInv, Typed
    <3>3. x.visit <= lvisit'
      BY <3>1, <3>2
    <3> QED BY <3>1, <3>3, <1>3
  <2> QED BY <1>2, <2>1, <2>2
<1>8. /\ \A r, s \in sockets' : r.visit = s.visit => r = s
      /\ \A s \in sockets' : \A t \in timers' : s.visit # t.visit
  BY <1>1, <1>2 DEF SocketInv, Single
<1> QED BY <1>4, <1>7, <1>8 DEF SocketInv, Single

LEMMA SocketStep == SocketInv /\ LiveStep => SocketInv'
<1> SUFFICES ASSUME SocketInv, LiveStep PROVE SocketInv'
  OBVIOUS
<1> USE VisitsAssumption
<1>1. ASSUME NEW s \in sockets, L!Opens(s) PROVE SocketInv'
  BY <1>1, OpensKeeps
<1>2. ASSUME NEW s \in sockets, L!Drop(s) PROVE SocketInv'
  BY <1>2, CloseKeeps DEF L!Drop, SocketInv, Typed
<1>3. ASSUME NEW t \in timers, L!Retry(t) PROVE SocketInv'
  <2>1. t.visit \in Visits /\ t.visit <= lvisit
    BY DEF SocketInv, Typed, Single, Timer
  <2>2. \A u \in timers' : u.visit # t.visit
    BY <1>3, OneTimer DEF L!Retry
  <2>3. timers' \in SUBSET timers /\ lvisit' = lvisit /\ here' = here /\ L!Connect(t.visit)
    BY <1>3 DEF L!Retry
  <2>4. \A s \in sockets : s.visit # t.visit
    BY DEF SocketInv, Single
  <2>5. lvisit \in Nat /\ lvisit <= lvisit /\ here \in {0} \cup Visits
    BY DEF SocketInv, Typed
  <2> QED BY <2>1, <2>2, <2>3, <2>4, <2>5, ConnectKeeps
<1>4. CASE L!PriceTimer \/ L!Tick \/ \E ok \in BOOLEAN : L!PriceAnswer(ok)
  <2>1. UNCHANGED <<here, lvisit, sockets, timers, attempt>>
    BY <1>4 DEF L!PriceTimer, L!Tick, L!PriceAnswer, L!live
  <2> QED BY <2>1 DEF SocketInv, Typed, Single
<1>5. CASE L!Mount
  <2>1. /\ lvisit' = lvisit + 1 /\ here' = lvisit + 1 /\ timers' = timers
        /\ L!Connect(lvisit + 1) /\ lvisit \in Nat
    BY <1>5 DEF L!Mount, SocketInv, Typed
  <2>2. lvisit + 1 \in Visits
    BY <1>5, <2>1 DEF L!Mount
  <2>3. \A s \in sockets : s.visit # lvisit + 1
    BY <2>1 DEF SocketInv, Single, Typed, Socket
  <2>4. \A t \in timers' : t.visit # lvisit + 1
    BY <2>1 DEF SocketInv, Single, Typed, Timer
  <2>5. lvisit' \in Nat /\ lvisit <= lvisit' /\ lvisit + 1 <= lvisit' /\ here' \in {0} \cup Visits
        /\ timers' \in SUBSET timers
    BY <2>1, <2>2
  <2> QED BY <2>1, <2>2, <2>3, <2>4, <2>5, ConnectKeeps
<1>6. CASE L!Unmount
  <2>1. here' = 0 /\ lvisit' = lvisit /\ attempt' = attempt
    BY <1>6 DEF L!Unmount, L!Leave
  <2>2. CASE \E s \in L!Latest(here) : L!Close(s)
    BY <2>1, <2>2, CloseKeeps DEF L!Latest
  <2>3. CASE UNCHANGED sockets /\ timers' \in SUBSET timers
    BY <2>1, <2>3 DEF SocketInv, Typed, Single
  <2> QED BY <1>6, <2>2, <2>3 DEF L!Unmount, L!Leave
<1>7. CASE UNCHANGED live
  BY <1>7 DEF live, SocketInv, Typed, Single
<1> QED BY <1>1, <1>2, <1>3, <1>4, <1>5, <1>6, <1>7 DEF LiveStep, L!Step

LEMMA SocketSafe == SocketInv => OneConnection
BY OneTimer DEF SocketInv, Single, OneConnection, L!OneConnection

(* useWebSocket.ts: each visit of the page has one socket or one timer     *)
(* that will connect, however connections drop and pages are left.         *)
THEOREM OneConnectionAlways == Spec => []OneConnection
<1>1. SocketInv /\ [Next]_vars => SocketInv'
  BY LiveSteps, SocketStep
<1> QED BY SocketStart, SocketSafe, <1>1, PTL DEF Spec

-----------------------------------------------------------------------------
(* The delays between attempts.                                            *)

(* The delay after n retries that failed. *)
Delay(n) == L!Min({BaseRetry * L!TwoTo[n], MaxRetry})

(* What the delay of a visit is after one retry more than failed. *)
Counted ==
    /\ retry \in [Visits -> Nat] /\ failed \in [Visits -> Nat]
    /\ \A v \in Visits : L!TwoTo[failed[v]] \in Nat
    /\ \A v \in Visits : lvisit < v => attempt[v] = 0
    /\ \A v \in Visits : attempt[v] = 0 => failed[v] = 0 /\ retry[v] = BaseRetry

(* A visit whose timer runs counted its last retry if that failed; one     *)
(* whose retry has not been answered did not yet; an open connection and   *)
(* the first attempt start from the beginning.                             *)
Backed ==
    /\ \A t \in timers : t.n # 0 /\ retry[t.visit] = Delay(failed[t.visit])
    /\ \A s \in sockets : s.n # 0
    /\ \A s \in sockets : s.open \/ s.n = 1 => failed[s.visit] = 0 /\ retry[s.visit] = BaseRetry
    /\ \A s \in sockets : ~s.open /\ s.n # 1 => retry[s.visit] = Delay(failed[s.visit] + 1)

BackoffInv == SocketInv /\ Counted /\ Backed

LEMMA MinOf ==
    ASSUME NEW a \in Int, NEW b \in Int
    PROVE  L!Min({a, b}) = IF a <= b THEN a ELSE b
<1> DEFINE m == IF a <= b THEN a ELSE b
<1>1. m \in {a, b} /\ \A y \in {a, b} : m <= y
  OBVIOUS
<1>2. ASSUME NEW x \in {a, b}, \A y \in {a, b} : x <= y PROVE x = m
  BY <1>2
<1> QED BY <1>1, <1>2 DEF L!Min

(* Any set of numbers has a smallest one. *)
LEMMA SmallestOf ==
    ASSUME NEW T, T \subseteq Nat, T # {} PROVE \E m \in T : \A y \in T : ~(y < m)
<1>1. PICK m \in T : \A y \in T : <<y, m>> \notin OpToRel(<, Nat)
  BY NatLessThanWellFounded, WFMin
<1> QED BY <1>1 DEF OpToRel

(* The powers of two up to the n-th. *)
Powers(h, n) == h = [i \in 0..n |-> IF i = 0 THEN 1 ELSE 2 * h[i - 1]]

LEMMA PowersExist == ASSUME NEW l \in Nat PROVE \E h : Powers(h, l)
<1> DEFINE T == {n \in Nat : ~\E h : Powers(h, n)}
<1>1. ASSUME T # {} PROVE FALSE
  <2>1. PICK m \in T : \A y \in T : ~(y < m)
    BY <1>1, SmallestOf
  <2>2. m # 0
    <3>1. Powers([i \in 0..0 |-> 1], 0)
      BY DEF Powers
    <3> QED BY <2>1, <3>1
  <2>3. m - 1 \in Nat /\ m - 1 < m
    BY <2>1, <2>2
  <2>4. PICK h : Powers(h, m - 1)
    BY <2>1, <2>3
  <2> DEFINE k == [i \in 0..m |-> IF i = m THEN 2 * h[m - 1] ELSE h[i]]
  <2>5. ASSUME NEW i \in 0..m PROVE k[i] = IF i = 0 THEN 1 ELSE 2 * k[i - 1]
    <3>1. CASE i = m
      <4>1. k[m - 1] = h[m - 1] /\ k[m] = 2 * h[m - 1]
        BY <2>3
      <4> QED BY <2>2, <3>1, <4>1
    <3>2. CASE i # m
      <4>1. i \in 0..(m - 1) /\ k[i] = h[i] /\ (i # 0 => k[i - 1] = h[i - 1])
        BY <3>2, <2>3
      <4>2. h[i] = IF i = 0 THEN 1 ELSE 2 * h[i - 1]
        BY <2>4, <4>1 DEF Powers
      <4> QED BY <4>1, <4>2
    <3> QED BY <3>1, <3>2
  <2>6. k = [i \in 0..m |-> k[i]]
    OBVIOUS
  <2> HIDE DEF k
  <2>7. Powers(k, m)
    BY <2>5, <2>6 DEF Powers
  <2> QED BY <2>1, <2>7
<1> QED BY <1>1

LEMMA PowersAgree ==
    ASSUME NEW n \in Nat, NEW h, Powers(h, n), NEW k, Powers(k, n + 1)
    PROVE  \A i \in 0..n : h[i] = k[i]
<1> DEFINE T == {i \in 0..n : h[i] # k[i]}
<1>0. T \subseteq Nat
  OBVIOUS
<1>1. ASSUME T # {} PROVE FALSE
  <2>1. PICK m \in T : \A y \in T : ~(y < m)
    BY <1>0, <1>1, SmallestOf
  <2>2. m \in 0..n /\ m \in 0..(n + 1) /\ (m # 0 => m - 1 \in 0..n /\ m - 1 < m)
    BY <2>1
  <2>3. m # 0 => h[m - 1] = k[m - 1]
    BY <2>1, <2>2
  <2> QED BY <2>1, <2>2, <2>3 DEF Powers
<1> QED BY <1>1

LEMMA TwoToExists == \E f : f = [n \in Nat |-> IF n = 0 THEN 1 ELSE 2 * f[n - 1]]
<1> DEFINE H(n) == CHOOSE h : Powers(h, n)
           f == [n \in Nat |-> H(n)[n]]
<1>1. \A n \in Nat : Powers(H(n), n)
  BY PowersExist
<1>2. f = [n \in Nat |-> f[n]] /\ \A n \in Nat : f[n] = H(n)[n]
  OBVIOUS
<1> HIDE DEF H, f
<1>3. ASSUME NEW n \in Nat PROVE f[n] = IF n = 0 THEN 1 ELSE 2 * f[n - 1]
  <2>1. H(n)[n] = IF n = 0 THEN 1 ELSE 2 * H(n)[n - 1]
    BY <1>1 DEF Powers
  <2>2. ASSUME n # 0 PROVE H(n)[n - 1] = H(n - 1)[n - 1]
    <3> DEFINE m == n - 1
    <3>1. m \in Nat /\ m + 1 = n /\ m \in 0..m
      BY <2>2
    <3>2. Powers(H(m), m) /\ Powers(H(n), m + 1)
      BY <1>1, <3>1
    <3> HIDE DEF m
    <3>3. H(m)[m] = H(n)[m]
      BY <3>1, <3>2, PowersAgree
    <3> QED BY <3>3 DEF m
  <2>3. n # 0 => n - 1 \in Nat
    OBVIOUS
  <2> QED BY <1>2, <2>1, <2>2, <2>3
<1> QED BY <1>2, <1>3

LEMMA Twice == ASSUME NEW n \in Nat PROVE L!TwoTo[0] = 1 /\ L!TwoTo[n + 1] = 2 * L!TwoTo[n]
<1>1. L!TwoTo = [m \in Nat |-> IF m = 0 THEN 1 ELSE 2 * L!TwoTo[m - 1]]
  BY TwoToExists DEF L!TwoTo
<1>2. n + 1 \in Nat /\ n + 1 # 0 /\ (n + 1) - 1 = n
  OBVIOUS
<1> QED BY <1>1, <1>2

LEMMA FirstDelay == Delay(0) = BaseRetry
<1>1. L!TwoTo[0] = 1
  BY Twice
<1>2. BaseRetry * 1 = BaseRetry /\ BaseRetry \in Int /\ MaxRetry \in Int /\ BaseRetry <= MaxRetry
  BY RetryAssumption
<1>3. L!Min({BaseRetry, MaxRetry}) = BaseRetry
  BY <1>2, MinOf
<1> QED BY <1>1, <1>2, <1>3 DEF Delay

(* The timer doubles the delay. *)
LEMMA NextDelay ==
    ASSUME NEW n \in Nat, L!TwoTo[n] \in Nat
    PROVE  /\ L!TwoTo[n + 1] \in Nat /\ Delay(n + 1) \in Nat
           /\ L!Min({2 * Delay(n), MaxRetry}) = Delay(n + 1)
<1> DEFINE p == BaseRetry * L!TwoTo[n]
           q == BaseRetry * L!TwoTo[n + 1]
<1>1. L!TwoTo[n + 1] = 2 * L!TwoTo[n] /\ L!TwoTo[n + 1] \in Nat
  BY Twice
<1>2. p \in Nat /\ q = 2 * p /\ MaxRetry \in Nat
  <2> DEFINE x == L!TwoTo[n]
  <2>1. x \in Nat /\ BaseRetry \in Nat /\ MaxRetry \in Nat
    BY RetryAssumption
  <2>2. q = BaseRetry * (2 * x) /\ p = BaseRetry * x
    BY <1>1
  <2> HIDE DEF x, p, q
  <2> QED BY <2>1, <2>2
<1>3. Delay(n) = L!Min({p, MaxRetry}) /\ Delay(n + 1) = L!Min({q, MaxRetry})
  BY DEF Delay
<1> HIDE DEF p, q
<1>4. Delay(n) = IF p <= MaxRetry THEN p ELSE MaxRetry
  BY <1>2, <1>3, MinOf
<1>5. Delay(n + 1) = IF 2 * p <= MaxRetry THEN 2 * p ELSE MaxRetry
  BY <1>2, <1>3, MinOf
<1>6. Delay(n + 1) \in Nat /\ 2 * Delay(n) \in Int
  BY <1>2, <1>4, <1>5
<1>7. L!Min({2 * Delay(n), MaxRetry}) = IF 2 * Delay(n) <= MaxRetry THEN 2 * Delay(n) ELSE MaxRetry
  BY <1>2, <1>6, MinOf
<1> QED BY <1>1, <1>2, <1>4, <1>5, <1>6, <1>7

LEMMA BackoffStart == Init => BackoffInv
<1> SUFFICES ASSUME Init PROVE BackoffInv
  OBVIOUS
<1>1. /\ sockets = {} /\ timers = {} /\ attempt = [v \in Visits |-> 0]
      /\ retry = [v \in Visits |-> BaseRetry] /\ failed = [v \in Visits |-> 0]
  BY DEF Init, L!Init
<1>2. L!TwoTo[0] = 1 /\ BaseRetry \in Nat
  BY Twice, RetryAssumption
<1> QED BY <1>1, <1>2, SocketStart DEF BackoffInv, Counted, Backed

LEMMA Seen ==
    ASSUME BackoffInv
    PROVE  /\ \A s \in sockets : s.visit \in Visits /\ s.n \in Nat /\ s.open \in BOOLEAN
           /\ \A t \in timers : t.visit \in Visits /\ t.n \in Nat
BY DEF BackoffInv, SocketInv, Typed, Socket, Timer

(* What is decided by the delay, the failures and the attempts of a visit. *)
LEMMA CountedSame ==
    ASSUME Counted, UNCHANGED <<lvisit, attempt, retry, failed>> PROVE Counted'
BY DEF Counted

LEMMA OpensBacks == ASSUME BackoffInv, NEW s \in sockets, L!Opens(s) PROVE BackoffInv'
<1> DEFINE o == [s EXCEPT !.open = TRUE]
<1>1. /\ s.visit \in Visits /\ s.n \in Nat /\ o.visit = s.visit /\ o.n = s.n /\ o.open
  BY Seen DEF BackoffInv, SocketInv, Typed, Socket
<1>2. /\ sockets' = (sockets \ {s}) \cup {o} /\ UNCHANGED <<here, lvisit, timers, attempt>>
      /\ retry' = [retry EXCEPT ![s.visit] = BaseRetry] /\ failed' = [failed EXCEPT ![s.visit] = 0]
  BY DEF L!Opens
<1> HIDE DEF o
<1>3. /\ retry'[s.visit] = BaseRetry /\ failed'[s.visit] = 0
      /\ \A v \in Visits \ {s.visit} : retry'[v] = retry[v] /\ failed'[v] = failed[v]
      /\ retry' \in [Visits -> Nat] /\ failed' \in [Visits -> Nat]
  BY <1>1, <1>2, RetryAssumption DEF BackoffInv, Counted
<1>4. SocketInv'
  BY OpensKeeps DEF BackoffInv
<1>5. L!TwoTo[0] \in Nat
  BY Twice
<1>6. Counted'
  BY <1>2, <1>3, <1>5 DEF BackoffInv, Counted
<1>7. /\ \A r \in sockets \ {s} : r.visit \in Visits \ {s.visit}
      /\ \A t \in timers : t.visit \in Visits \ {s.visit}
  BY Seen DEF BackoffInv, SocketInv, Single
<1>8. ASSUME NEW t \in timers PROVE t.n # 0 /\ retry'[t.visit] = Delay(failed'[t.visit])
  BY <1>3, <1>7 DEF BackoffInv, Backed
<1>9. ASSUME NEW r \in sockets \ {s}
      PROVE  /\ r.n # 0
             /\ r.open \/ r.n = 1 => failed'[r.visit] = 0 /\ retry'[r.visit] = BaseRetry
             /\ ~r.open /\ r.n # 1 => retry'[r.visit] = Delay(failed'[r.visit] + 1)
  BY <1>3, <1>7 DEF BackoffInv, Backed
<1>10. o.n # 0
  BY <1>1 DEF BackoffInv, Backed
<1>11. \A n : Delay(n)' = Delay(n)
  BY DEF Delay
<1>12. Backed'
  BY <1>1, <1>2, <1>3, <1>8, <1>9, <1>10, <1>11 DEF Backed
<1> QED BY <1>4, <1>6, <1>12 DEF BackoffInv

LEMMA CloseBacks ==
    ASSUME BackoffInv, NEW s \in sockets, L!Close(s), here' \in {0} \cup Visits,
           UNCHANGED <<lvisit, attempt, retry>>
    PROVE  BackoffInv'
<1> DEFINE u == [visit |-> s.visit, n |-> s.n]
           v == s.visit
<1>1. v \in Visits /\ s.n \in Nat /\ s.open \in BOOLEAN /\ u.visit = v /\ u.n = s.n /\ s.n # 0
  BY Seen DEF BackoffInv, Backed
<1>2. /\ sockets' = sockets \ {s} /\ timers' = timers \cup {u}
      /\ failed' = IF s.open \/ s.n = 1 THEN failed ELSE [failed EXCEPT ![v] = @ + 1]
  BY DEF L!Close
<1> HIDE DEF u
<1>3. failed[v] \in Nat /\ L!TwoTo[failed[v]] \in Nat
  BY <1>1 DEF BackoffInv, Counted
<1>4. /\ failed' \in [Visits -> Nat] /\ L!TwoTo[failed'[v]] \in Nat
      /\ \A w \in Visits \ {v} : failed'[w] = failed[w]
      /\ retry[v] = Delay(failed'[v])
  <2>1. CASE s.open \/ s.n = 1
    BY <1>1, <1>2, <1>3, <2>1, FirstDelay DEF BackoffInv, Counted, Backed
  <2>2. CASE ~(s.open \/ s.n = 1)
    <3>1. failed' = [failed EXCEPT ![v] = @ + 1] /\ failed \in [Visits -> Nat]
      BY <1>2, <2>2 DEF BackoffInv, Counted
    <3>2. retry[v] = Delay(failed[v] + 1)
      BY <2>2 DEF BackoffInv, Backed
    <3> HIDE DEF v
    <3>3. L!TwoTo[failed[v] + 1] \in Nat
      BY <1>3, NextDelay
    <3>4. failed'[v] = failed[v] + 1
      BY <1>1, <3>1
    <3> QED BY <1>1, <3>1, <3>2, <3>3, <3>4
  <2> QED BY <2>1, <2>2
<1>5. SocketInv'
  BY CloseKeeps DEF BackoffInv
<1>6. attempt[v] # 0
  BY <1>1 DEF BackoffInv, SocketInv, Single
<1>7. /\ \A r \in sockets \ {s} : r.visit \in Visits \ {v}
      /\ \A t \in timers : t.visit \in Visits \ {v}
  BY Seen DEF BackoffInv, SocketInv, Single
<1> HIDE DEF v
<1>8. Counted'
  BY <1>4, <1>6 DEF BackoffInv, Counted
<1>9. \A n : Delay(n)' = Delay(n)
  BY DEF Delay
<1>10. ASSUME NEW t \in timers PROVE t.n # 0 /\ retry[t.visit] = Delay(failed'[t.visit])
  BY <1>4, <1>7 DEF BackoffInv, Backed
<1>11. ASSUME NEW r \in sockets \ {s}
       PROVE  /\ r.n # 0
              /\ r.open \/ r.n = 1 => failed'[r.visit] = 0 /\ retry[r.visit] = BaseRetry
              /\ ~r.open /\ r.n # 1 => retry[r.visit] = Delay(failed'[r.visit] + 1)
  BY <1>4, <1>7 DEF BackoffInv, Backed
<1>12. Backed'
  BY <1>1, <1>2, <1>4, <1>9, <1>10, <1>11 DEF Backed
<1> QED BY <1>5, <1>8, <1>12 DEF BackoffInv

(* The retry timer. *)
LEMMA RetryBacks == ASSUME BackoffInv, NEW t \in timers, L!Retry(t), SocketInv' PROVE BackoffInv'
<1> DEFINE v == t.visit
           c == [visit |-> v, n |-> attempt[v] + 1, open |-> FALSE]
<1>1. /\ timers' = timers \ {t} /\ UNCHANGED <<here, lvisit, failed>>
      /\ retry' = [retry EXCEPT ![v] = L!Min({2 * @, MaxRetry})]
      /\ sockets' = sockets \cup {c} /\ attempt' = [attempt EXCEPT ![v] = @ + 1]
  BY DEF L!Retry, L!Connect
<1>2. v \in Visits /\ t.n = attempt[v] /\ attempt \in [Visits -> Nat] /\ lvisit \in Nat
  BY Seen DEF BackoffInv, SocketInv, Single, Typed
<1>3. t.n # 0 /\ retry[v] = Delay(failed[v]) /\ failed[v] \in Nat /\ L!TwoTo[failed[v]] \in Nat
  BY <1>2 DEF BackoffInv, Backed, Counted
<1>4. c.visit = v /\ c.n = attempt[v] + 1 /\ ~c.open
  OBVIOUS
<1>5. v <= lvisit
  BY DEF BackoffInv, SocketInv, Single
<1>6. /\ \A r \in sockets : r.visit \in Visits \ {v}
      /\ \A u \in timers \ {t} : u.visit \in Visits \ {v}
  BY Seen, OneTimer DEF BackoffInv, SocketInv, Single
<1> HIDE DEF c, v
<1>7. Delay(failed[v] + 1) \in Nat /\ L!Min({2 * Delay(failed[v]), MaxRetry}) = Delay(failed[v] + 1)
  BY <1>3, NextDelay
<1>8. /\ retry' \in [Visits -> Nat] /\ retry'[v] = Delay(failed[v] + 1)
      /\ \A w \in Visits \ {v} : retry'[w] = retry[w] /\ attempt'[w] = attempt[w]
      /\ attempt'[v] = attempt[v] + 1
  BY <1>1, <1>2, <1>3, <1>7 DEF BackoffInv, Counted
<1>9. v \in Nat
  BY <1>2, VisitsAssumption
<1>10. Counted'
  BY <1>1, <1>2, <1>5, <1>8, <1>9 DEF BackoffInv, Counted
<1>11. \A n : Delay(n)' = Delay(n)
  BY DEF Delay
<1>12. c.n # 0 /\ c.n # 1
  BY <1>2, <1>3, <1>4
<1>13. ASSUME NEW u \in timers \ {t} PROVE u.n # 0 /\ retry'[u.visit] = Delay(failed[u.visit])
  BY <1>6, <1>8 DEF BackoffInv, Backed
<1>14. ASSUME NEW r \in sockets
       PROVE  /\ r.n # 0
              /\ r.open \/ r.n = 1 => failed[r.visit] = 0 /\ retry'[r.visit] = BaseRetry
              /\ ~r.open /\ r.n # 1 => retry'[r.visit] = Delay(failed[r.visit] + 1)
  BY <1>6, <1>8 DEF BackoffInv, Backed
<1>15. Backed'
  BY <1>1, <1>4, <1>8, <1>11, <1>12, <1>13, <1>14 DEF Backed
<1> QED BY <1>10, <1>15 DEF BackoffInv

(* The first attempt of a visit. *)
LEMMA MountBacks == ASSUME BackoffInv, L!Mount, SocketInv' PROVE BackoffInv'
<1> DEFINE v == lvisit + 1
           c == [visit |-> v, n |-> attempt[v] + 1, open |-> FALSE]
<1>1. /\ v \in Visits /\ lvisit' = v /\ UNCHANGED <<timers, retry, failed>>
      /\ sockets' = sockets \cup {c} /\ attempt' = [attempt EXCEPT ![v] = @ + 1]
  BY DEF L!Mount, L!Connect
<1>2. lvisit \in Nat /\ attempt \in [Visits -> Nat] /\ lvisit < v
  BY DEF BackoffInv, SocketInv, Typed
<1>3. attempt[v] = 0 /\ failed[v] = 0 /\ retry[v] = BaseRetry
  BY <1>1, <1>2 DEF BackoffInv, Counted
<1>4. c.visit = v /\ c.n = 1 /\ ~c.open
  BY <1>3
<1>5. v = lvisit + 1
  OBVIOUS
<1> HIDE DEF c, v
<1>6. \A w \in Visits \ {v} : attempt'[w] = attempt[w]
  BY <1>1, <1>2
<1>7. Visits \subseteq Nat
  BY VisitsAssumption
<1>8. Counted'
  BY <1>1, <1>2, <1>3, <1>5, <1>6, <1>7 DEF BackoffInv, Counted
<1>9. \A n : Delay(n)' = Delay(n)
  BY DEF Delay
<1>10. Backed'
  BY <1>1, <1>3, <1>4, <1>9 DEF BackoffInv, Backed
<1> QED BY <1>8, <1>10 DEF BackoffInv

LEMMA BackoffStep == BackoffInv /\ LiveStep => BackoffInv'
<1> SUFFICES ASSUME BackoffInv, LiveStep PROVE BackoffInv'
  OBVIOUS
<1>0. SocketInv'
  BY SocketStep DEF BackoffInv
<1>1. ASSUME NEW s \in sockets, L!Opens(s) PROVE BackoffInv'
  BY <1>1, OpensBacks
<1>2. ASSUME NEW s \in sockets, L!Drop(s) PROVE BackoffInv'
  BY <1>2, CloseBacks DEF L!Drop, BackoffInv, SocketInv, Typed
<1>3. ASSUME NEW t \in timers, L!Retry(t) PROVE BackoffInv'
  BY <1>0, <1>3, RetryBacks
<1>4. ASSUME UNCHANGED <<lvisit, sockets, attempt, retry, failed>>, timers' \in SUBSET timers
      PROVE  BackoffInv'
  <2>1. \A n : Delay(n)' = Delay(n)
    BY DEF Delay
  <2>2. Backed'
    BY <1>4, <2>1 DEF BackoffInv, Backed
  <2> QED BY <1>0, <1>4, <2>2, CountedSame DEF BackoffInv
<1>5. CASE L!PriceTimer \/ L!Tick \/ \E ok \in BOOLEAN : L!PriceAnswer(ok)
  <2>1. UNCHANGED <<lvisit, sockets, timers, attempt, retry, failed>>
    BY <1>5 DEF L!PriceTimer, L!Tick, L!PriceAnswer, L!live
  <2> QED BY <1>4, <2>1
<1>6. CASE L!Mount
  BY <1>0, <1>6, MountBacks
<1>7. CASE L!Unmount
  <2>1. here' = 0 /\ UNCHANGED <<lvisit, attempt, retry>>
    BY <1>7 DEF L!Unmount, L!Leave
  <2>2. CASE \E s \in L!Latest(here) : L!Close(s)
    BY <2>1, <2>2, CloseBacks DEF L!Latest
  <2>3. CASE UNCHANGED <<sockets, failed>> /\ timers' \in SUBSET timers
    BY <1>4, <2>1, <2>3
  <2> QED BY <1>7, <2>2, <2>3 DEF L!Unmount, L!Leave
<1>8. CASE UNCHANGED live
  BY <1>4, <1>8 DEF live
<1> QED BY <1>1, <1>2, <1>3, <1>5, <1>6, <1>7, <1>8 DEF LiveStep, L!Step

(* useWebSocket.ts: the delay before an attempt is the base delay doubled  *)
(* for every retry in a row that failed, and at most MAX_RETRY_MS, however *)
(* often the page is left and opened.                                      *)
THEOREM AlwaysBacksOff == Spec => []BacksOff
<1>1. BackoffInv /\ [Next]_vars => BackoffInv'
  BY LiveSteps, BackoffStep
<1>2. BackoffInv => BacksOff
  BY DEF BackoffInv, Backed, Delay, BacksOff, L!BacksOff
<1> QED BY BackoffStart, <1>1, <1>2, PTL DEF Spec

-----------------------------------------------------------------------------
(* The price.                                                              *)

Day == {L!DayOf(t) : t \in Int}

(* While the page is shown the last price asked for is of the time it was  *)
(* read last, and once all are answered it is that one which is shown.     *)
PriceInv ==
    /\ loads \in Seq([visit : Nat, day : Day]) /\ lvisit \in Nat /\ clock \in Int
    /\ here # 0 =>
        /\ here = lvisit
        /\ slot = L!SlotOf(lastLoad)
        /\ loads # << >> => loads[Len(loads)] = [visit |-> here, day |-> L!DayOf(lastLoad)]
        /\ loads = << >> /\ ~priceFailed => day = {L!DayOf(lastLoad)}

LEMMA PriceStart == Init => PriceInv
BY SlotsAssumption DEF Init, L!Init, PriceInv

LEMMA Primed == L!DayOf(lastLoad)' = L!DayOf(lastLoad') /\ L!SlotOf(lastLoad)' = L!SlotOf(lastLoad')
BY DEF L!DayOf, L!SlotOf

LEMMA LoadKeeps ==
    ASSUME PriceInv, L!Load(clock), lvisit' \in Nat, clock' \in Int, here' \in {0, lvisit'}
    PROVE  PriceInv'
<1> DEFINE q == [visit |-> lvisit', day |-> L!DayOf(clock)]
<1>1. q \in [visit : Nat, day : Day]
  BY DEF PriceInv, Day
<1>2. slot' = L!SlotOf(clock) /\ loads' = Append(loads, q) /\ lastLoad' = clock
  BY DEF L!Load
<1>3. q = [visit |-> lvisit', day |-> L!DayOf(clock)]
  OBVIOUS
<1> HIDE DEF q
<1>4. /\ loads' \in Seq([visit : Nat, day : Day])
      /\ loads' # << >> /\ loads'[Len(loads')] = q
  BY <1>1, <1>2 DEF PriceInv
<1>5. slot' = L!SlotOf(lastLoad)' /\ q = [visit |-> lvisit', day |-> L!DayOf(lastLoad)']
  BY <1>2, <1>3, Primed
<1> QED BY <1>4, <1>5 DEF PriceInv

LEMMA PriceSame ==
    ASSUME PriceInv, UNCHANGED <<here, lvisit, slot, day, loads, lastLoad, priceFailed>>, clock' \in Int
    PROVE  PriceInv'
<1>1. L!DayOf(lastLoad)' = L!DayOf(lastLoad) /\ L!SlotOf(lastLoad)' = L!SlotOf(lastLoad)
  BY Primed
<1> QED BY <1>1 DEF PriceInv

LEMMA AnswerKeeps == ASSUME PriceInv, NEW ok \in BOOLEAN, L!PriceAnswer(ok) PROVE PriceInv'
<1>1. /\ loads # << >> /\ loads' = Tail(loads)
      /\ day' = IF ok /\ Head(loads).visit = here THEN {Head(loads).day} ELSE day
      /\ priceFailed' = (here # 0 /\ (priceFailed \/ ~ok))
      /\ UNCHANGED <<here, lvisit, clock, slot, lastLoad>>
  BY DEF L!PriceAnswer
<1>2. L!DayOf(lastLoad)' = L!DayOf(lastLoad) /\ L!SlotOf(lastLoad)' = L!SlotOf(lastLoad)
  BY <1>1, Primed
<1>3. loads' \in Seq([visit : Nat, day : Day]) /\ lvisit' \in Nat /\ clock' \in Int
  BY <1>1 DEF PriceInv
<1>4. CASE here = 0
  BY <1>1, <1>3, <1>4 DEF PriceInv
<1>5. CASE here # 0 /\ Tail(loads) # << >>
  <2>1. loads'[Len(loads')] = loads[Len(loads)]
    BY <1>1, <1>5 DEF PriceInv
  <2> QED BY <1>1, <1>2, <1>3, <1>5, <2>1 DEF PriceInv
<1>6. CASE here # 0 /\ Tail(loads) = << >>
  <2>1. Len(loads) = 1
    <3> DEFINE T == [visit : Nat, day : Day]
    <3>1. loads \in Seq(T) /\ loads # << >>
      BY <1>1 DEF PriceInv
    <3> HIDE DEF T
    <3>2. Len(Tail(loads)) = Len(loads) - 1 /\ Len(loads) \in Nat
      BY <3>1
    <3>3. Tail(loads) = << >>
      BY <1>6
    <3>4. Len(Tail(loads)) = Len(<< >>) /\ Len(<< >>) = 0
      BY <3>3
    <3> QED BY <3>2, <3>4
  <2>2. Head(loads) = [visit |-> here, day |-> L!DayOf(lastLoad)]
    BY <1>1, <1>6, <2>1 DEF PriceInv
  <2>3. ~priceFailed' => ok
    BY <1>1, <1>6
  <2>4. ~priceFailed' => day' = {L!DayOf(lastLoad)}
    BY <1>1, <2>2, <2>3
  <2> QED BY <1>1, <1>2, <1>3, <1>6, <2>4 DEF PriceInv
<1> QED BY <1>4, <1>5, <1>6

LEMMA PriceStep == PriceInv /\ LiveStep => PriceInv'
<1> SUFFICES ASSUME PriceInv, LiveStep PROVE PriceInv'
  OBVIOUS
<1>1. CASE (\E s \in sockets : L!Opens(s) \/ L!Drop(s)) \/ \E t \in timers : L!Retry(t)
  <2>1. UNCHANGED <<here, lvisit, clock, slot, day, loads, lastLoad, priceFailed>>
    BY <1>1 DEF L!Opens, L!Drop, L!Retry, L!price
  <2> QED BY <2>1, PriceSame DEF PriceInv
<1>2. CASE L!PriceTimer
  <2>1. L!Load(clock) /\ UNCHANGED <<here, lvisit, clock>>
    BY <1>2 DEF L!PriceTimer
  <2> QED BY <2>1, LoadKeeps DEF PriceInv
<1>3. CASE L!Tick
  BY <1>3, PriceSame DEF L!Tick, PriceInv
<1>4. CASE \E ok \in BOOLEAN : L!PriceAnswer(ok)
  BY <1>4, AnswerKeeps
<1>5. CASE L!Mount
  <2>1. L!Load(clock) /\ here' = lvisit + 1 /\ lvisit' = lvisit + 1 /\ clock' = clock
    BY <1>5 DEF L!Mount
  <2> QED BY <2>1, LoadKeeps DEF PriceInv
<1>6. CASE L!Unmount
  BY <1>6 DEF L!Unmount, PriceInv
<1>7. CASE UNCHANGED live
  BY <1>7, PriceSame DEF live, PriceInv
<1> QED BY <1>1, <1>2, <1>3, <1>4, <1>5, <1>6, <1>7 DEF LiveStep, L!Step

(* tariff.ts: once everything asked for is answered, the price shown is of *)
(* the slot and the day of the last read, unless a read failed.            *)
THEOREM PriceAlwaysOfLastLoad == Spec => []PriceIsOfLastLoad
<1>1. PriceInv /\ [Next]_vars => PriceInv'
  BY LiveSteps, PriceStep
<1>2. PriceInv => PriceIsOfLastLoad
  BY DEF PriceInv, PriceIsOfLastLoad, L!PriceIsOfLastLoad
<1> QED BY PriceStart, <1>1, <1>2, PTL DEF Spec

-----------------------------------------------------------------------------
(* The charts.                                                             *)

PowerFollowed == P!Step \/ P!Mount \/ P!Unmount \/ UNCHANGED power

LEMMA PowerSteps == [Next]_vars => PowerFollowed
<1> SUFFICES ASSUME [Next]_vars PROVE PowerFollowed
  OBVIOUS
<1>1. CASE \E to \in {"power", "devices", "topology"} : Goto(to)
  BY <1>1 DEF Goto, PowerFollows, PowerFollowed
<1>2. CASE ShowCode
  BY <1>2 DEF ShowCode, PowerFollows, PowerFollowed
<1>3. CASE TopologyStep \/ DevicesStep
  BY <1>3 DEF TopologyStep, DevicesStep, PowerFollowed
<1>4. CASE PowerStep
  BY <1>4 DEF PowerStep, PowerFollowed
<1>5. CASE UNCHANGED vars
  BY <1>5 DEF vars, PowerFollowed
<1> QED BY <1>1, <1>2, <1>3, <1>4, <1>5 DEF Next

Asked == [what : {"nodes", "usage", "chart"}, node : P!Connected \cup {P!NoNode},
          day : Dates \cup {P!NoDay}, visit : Nat, aborted : BOOLEAN]
Chart == [loading : BOOLEAN, error : BOOLEAN, of : Dates \cup {P!NoDay}]

PowerTyped ==
    /\ view \in {"away", "loading", "shown", "failed"}
    /\ visit \in Nat /\ date \in Dates /\ queue \in Seq(Asked) /\ sent \in BOOLEAN
    /\ sent => queue # << >> /\ ~queue[1].aborted
    /\ charts \in [P!Connected -> Chart]
    /\ \A i \in DOMAIN queue : queue[i].visit <= visit

(* What the requests of this visit are for, in each view of the page.      *)
Loading == \A i \in DOMAIN queue : queue[i].visit = visit => i = Len(queue) /\ queue[i].what = "nodes"
Failed == \A i \in DOMAIN queue : queue[i].visit # visit
Fresh(r) == r.visit = visit => r.what # "nodes" /\ (r.what = "chart" /\ ~r.aborted => r.day = date)
Shown == \A i \in DOMAIN queue : Fresh(queue[i])

ChartInv ==
    /\ PowerTyped
    /\ view = "loading" => Loading /\ \A n \in P!Connected : charts[n].loading
    /\ view = "failed" => Failed
    /\ view = "shown" => Shown
    /\ ChartsShowTheDay

LEMMA ChartStart == Init => ChartInv
<1> SUFFICES ASSUME Init PROVE ChartInv
  OBVIOUS
<1>1. /\ view = "away" /\ visit = 0 /\ date = Today /\ queue = << >> /\ sent = FALSE
      /\ charts = [n \in P!Connected |-> P!NoChart]
  BY DEF Init, P!Init
<1>2. P!NoChart \in Chart
  BY DEF P!NoChart, Chart
<1>3. PowerTyped
  <2>1. queue \in Seq(Asked)
    BY <1>1
  <2>2. DOMAIN queue = {}
    BY <1>1
  <2>3. charts \in [P!Connected -> Chart]
    BY <1>1, <1>2
  <2> QED BY <1>1, <2>1, <2>2, <2>3, DatesAssumption DEF PowerTyped
<1>4. ChartsShowTheDay
  BY <1>1 DEF ChartsShowTheDay, P!ChartsShowTheDay, P!Drawn
<1> QED BY <1>1, <1>3, <1>4 DEF ChartInv

LEMMA RequestTyped ==
    ASSUME PowerTyped, NEW what \in {"nodes", "usage", "chart"},
           NEW node \in P!Connected \cup {P!NoNode}, NEW d \in Dates \cup {P!NoDay}
    PROVE  /\ P!Request(what, node, d) \in Asked
           /\ P!Request(what, node, d).what = what /\ P!Request(what, node, d).day = d
           /\ P!Request(what, node, d).visit = visit
BY DEF PowerTyped, P!Request, Asked

LEMMA ChartsTyped ==
    ASSUME PowerTyped, NEW d \in Dates
    PROVE  /\ P!Charts(d) \in Seq(Asked)
           /\ \A i \in DOMAIN P!Charts(d) :
                  P!Charts(d)[i].visit = visit /\ P!Charts(d)[i].what = "chart" /\ P!Charts(d)[i].day = d
<1>1. Len(P!InOrder) \in Nat /\ DOMAIN P!InOrder = 1..Len(P!InOrder)
      /\ \A i \in DOMAIN P!InOrder : P!InOrder[i] \in P!Connected
  BY WiringAssumption, LenProperties, ElementOfSeq
<1>2. \A i \in DOMAIN P!InOrder : /\ P!Request("chart", P!InOrder[i], d) \in Asked
                                  /\ P!Request("chart", P!InOrder[i], d).visit = visit
                                  /\ P!Request("chart", P!InOrder[i], d).what = "chart"
                                  /\ P!Request("chart", P!InOrder[i], d).day = d
  BY <1>1, RequestTyped
<1>3. P!Charts(d) = [i \in 1..Len(P!InOrder) |-> P!Request("chart", P!InOrder[i], d)]
  BY <1>1 DEF P!Charts
<1> QED BY <1>1, <1>2, <1>3

(* The queue once the charts of this visit gave up. *)
LEMMA AbortedTyped ==
    ASSUME PowerTyped
    PROVE  /\ P!Aborted \in Seq(Asked)
           /\ \A i \in DOMAIN P!Aborted : \E j \in DOMAIN queue :
                  /\ P!Aborted[i].visit = queue[j].visit /\ P!Aborted[i].what = queue[j].what
                  /\ P!Aborted[i].what = "chart" /\ P!Aborted[i].visit = visit => P!Aborted[i].aborted
           /\ sent /\ ~P!BreaksOff => P!Aborted # << >> /\ ~P!Aborted[1].aborted
<1> DEFINE mark(r) == [r EXCEPT !.aborted = @ \/ P!IsChart(r)]
           marked == [i \in DOMAIN queue |-> mark(queue[i])]
<1>1. /\ Len(queue) \in Nat /\ DOMAIN queue = 1..Len(queue)
      /\ \A i \in DOMAIN queue : queue[i] \in Asked
  BY LenProperties, ElementOfSeq DEF PowerTyped
<1>2. ASSUME NEW r \in Asked
      PROVE  /\ mark(r) \in Asked /\ mark(r).visit = r.visit /\ mark(r).what = r.what
             /\ r.what = "chart" /\ r.visit = visit => mark(r).aborted
             /\ ~P!IsChart(r) => mark(r).aborted = r.aborted
  BY DEF Asked, P!IsChart
<1>3. P!Aborted = IF P!BreaksOff THEN Tail(marked) ELSE marked
  BY DEF P!Aborted
<1> HIDE DEF mark
<1>4. marked \in Seq(Asked) /\ DOMAIN marked = DOMAIN queue /\ Len(marked) = Len(queue)
      /\ \A i \in DOMAIN queue : marked[i] = mark(queue[i])
  BY <1>1, <1>2
<1> HIDE DEF marked
<1>5. \A i \in DOMAIN marked :
          /\ marked[i].visit = queue[i].visit /\ marked[i].what = queue[i].what
          /\ marked[i].what = "chart" /\ marked[i].visit = visit => marked[i].aborted
  BY <1>1, <1>2, <1>4
<1>6. CASE P!BreaksOff
  <2>1. queue # << >> BY <1>6 DEF P!BreaksOff, PowerTyped
  <2>2. Len(queue) # 0 BY <1>1, <2>1, EmptySeq DEF PowerTyped
  <2>3. marked # << >> BY <1>4, <2>2
  <2>4. Tail(marked) \in Seq(Asked) /\ DOMAIN Tail(marked) = 1..(Len(queue) - 1)
        /\ \A i \in DOMAIN Tail(marked) : i + 1 \in DOMAIN marked /\ Tail(marked)[i] = marked[i + 1]
    BY <1>1, <1>4, <2>2, <2>3, HeadTailProperties, LenProperties
  <2> QED BY <1>3, <1>4, <1>5, <1>6, <2>4
<1>7. CASE ~P!BreaksOff
  <2>1. P!Aborted = marked BY <1>3, <1>7
  <2>2. ASSUME sent PROVE P!Aborted # << >> /\ ~P!Aborted[1].aborted
    <3>1. queue # << >> /\ ~queue[1].aborted BY <2>2 DEF PowerTyped
    <3>2. Len(queue) # 0 BY <1>1, <3>1, EmptySeq DEF PowerTyped
    <3>3. marked # << >> /\ 1 \in DOMAIN queue BY <1>1, <1>4, <3>2
    <3>4. ~P!IsChart(queue[1]) BY <1>7, <2>2, <3>1 DEF P!BreaksOff
    <3>5. marked[1] = mark(queue[1]) /\ mark(queue[1]).aborted = queue[1].aborted
      BY <1>1, <1>2, <1>4, <3>3, <3>4
    <3> QED BY <2>1, <3>1, <3>3, <3>5
  <2> QED BY <1>4, <1>5, <1>7, <2>1, <2>2
<1> QED BY <1>6, <1>7

LEMMA TailTyped ==
    ASSUME PowerTyped, queue # << >>
    PROVE  /\ Tail(queue) \in Seq(Asked)
           /\ Len(Tail(queue)) = Len(queue) - 1
           /\ \A i \in DOMAIN Tail(queue) : i + 1 \in DOMAIN queue /\ Tail(queue)[i] = queue[i + 1]
           /\ queue[1] \in Asked /\ 1 \in DOMAIN queue
           /\ \A i \in DOMAIN Tail(queue) : i \in Nat \ {0} /\ i <= Len(Tail(queue))
<1>1. queue \in Seq(Asked) BY DEF PowerTyped
<1>2. Len(queue) \in Nat \ {0} /\ DOMAIN queue = 1..Len(queue) BY <1>1, EmptySeq, LenProperties
<1>3. Tail(queue) \in Seq(Asked) /\ Len(Tail(queue)) = Len(queue) - 1
  BY <1>1, HeadTailProperties
<1>4. DOMAIN Tail(queue) = 1..(Len(queue) - 1) BY <1>2, <1>3, LenProperties
<1>5. \A i \in DOMAIN Tail(queue) : Tail(queue)[i] = queue[i + 1]
  BY <1>1, <1>2, <1>4, HeadTailProperties
<1>6. queue[1] \in Asked BY <1>1, <1>2, ElementOfSeq
<1> QED BY <1>2, <1>3, <1>4, <1>5, <1>6

(* The oldest request leaves the queue. *)
LEMMA PopKeeps ==
    ASSUME ChartInv, queue # << >>, queue' = Tail(queue), sent' = FALSE,
           UNCHANGED <<view, visit, date>>, charts' \in [P!Connected -> Chart],
           ChartsShowTheDay', view = "loading" => charts' = charts
    PROVE  ChartInv'
<1>1. PowerTyped BY DEF ChartInv
<1>2. /\ queue' \in Seq(Asked) /\ Len(queue') = Len(queue) - 1
      /\ \A i \in DOMAIN queue' : i + 1 \in DOMAIN queue /\ queue'[i] = queue[i + 1] /\ i \in Nat
  BY <1>1, TailTyped
<1>3. PowerTyped' BY <1>1, <1>2 DEF PowerTyped
<1>4. view = "loading" => Loading'
  <2> SUFFICES ASSUME view = "loading", NEW i \in DOMAIN queue', queue'[i].visit = visit
               PROVE  i = Len(queue') /\ queue'[i].what = "nodes"
    BY DEF Loading
  <2>1. i + 1 = Len(queue) /\ queue[i + 1].what = "nodes" BY <1>2 DEF ChartInv, Loading
  <2> QED BY <1>2, <2>1
<1>5. view = "failed" => Failed' BY <1>2 DEF ChartInv, Failed
<1>6. view = "shown" => Shown' BY <1>2 DEF ChartInv, Shown, Fresh
<1> QED BY <1>3, <1>4, <1>5, <1>6 DEF ChartInv

LEMMA MountKeeps == ASSUME ChartInv, P!Mount PROVE ChartInv'
<1> DEFINE r == [P!Request("nodes", P!NoNode, P!NoDay) EXCEPT !.visit = visit + 1]
<1>1. PowerTyped BY DEF ChartInv
<1>2. r \in Asked /\ r.visit = visit + 1 /\ r.what = "nodes"
  <2>1. P!Request("nodes", P!NoNode, P!NoDay) \in Asked
        /\ P!Request("nodes", P!NoNode, P!NoDay).what = "nodes"
    BY <1>1, RequestTyped
  <2>2. visit + 1 \in Nat
    BY <1>1 DEF PowerTyped
  <2> HIDE DEF P!Request
  <2> QED BY <2>1, <2>2 DEF Asked
<1>3. /\ view' = "loading" /\ visit' = visit + 1 /\ date' = Today /\ sent' = sent
      /\ charts' = [n \in P!Connected |-> P!NoChart] /\ queue' = Append(queue, r)
  BY DEF P!Mount
<1> HIDE DEF r
<1>4. Len(queue) \in Nat /\ DOMAIN queue = 1..Len(queue)
  BY <1>1, LenProperties DEF PowerTyped
<1>5. /\ queue' \in Seq(Asked) /\ Len(queue') = Len(queue) + 1 /\ DOMAIN queue' = 1..(Len(queue) + 1)
      /\ queue'[Len(queue) + 1] = r /\ \A i \in DOMAIN queue : queue'[i] = queue[i]
  <2>1. queue \in Seq(Asked) BY <1>1 DEF PowerTyped
  <2> QED BY <1>2, <1>3, <1>4, <2>1, AppendProperties, LenProperties
<1>6. \A i \in DOMAIN queue : queue[i].visit <= visit /\ queue[i].visit \in Nat
  <2>1. \A i \in DOMAIN queue : queue[i] \in Asked BY <1>1, ElementOfSeq, <1>4 DEF PowerTyped
  <2> QED BY <1>1, <2>1 DEF PowerTyped, Asked
<1>7. PowerTyped'
  <2>1. P!NoChart \in Chart BY DEF P!NoChart, Chart
  <2>2. charts' \in [P!Connected -> Chart] BY <1>3, <2>1
  <2>3. sent' => queue' # << >> /\ ~queue'[1].aborted
    <3>1. sent => queue # << >> BY <1>1 DEF PowerTyped
    <3>2. queue # << >> => 1 \in DOMAIN queue
      <4>1. queue \in Seq(Asked) BY <1>1 DEF PowerTyped
      <4> QED BY <1>4, <4>1, EmptySeq
    <3>3. queue' # << >> BY <1>4, <1>5
    <3> QED BY <1>1, <1>3, <1>5, <3>1, <3>2, <3>3 DEF PowerTyped
  <2>4. \A i \in DOMAIN queue' : queue'[i].visit <= visit'
    BY <1>1, <1>2, <1>3, <1>4, <1>5, <1>6 DEF PowerTyped
  <2> QED BY <1>1, <1>3, <1>5, <2>2, <2>3, <2>4, DatesAssumption DEF PowerTyped
<1>8. Loading'
  <2> SUFFICES ASSUME NEW i \in DOMAIN queue', queue'[i].visit = visit + 1
               PROVE  i = Len(queue') /\ queue'[i].what = "nodes"
    BY <1>3 DEF Loading
  <2>1. i = Len(queue) + 1
    <3>1. visit \in Nat BY <1>1 DEF PowerTyped
    <3> QED BY <1>4, <1>5, <1>6, <3>1
  <2> QED BY <1>2, <1>5, <2>1
<1>9. (\A n \in P!Connected : charts[n].loading)' BY <1>3 DEF P!NoChart
<1>10. ChartsShowTheDay' BY <1>3 DEF ChartsShowTheDay, P!ChartsShowTheDay, P!Drawn
<1> QED BY <1>3, <1>7, <1>8, <1>9, <1>10 DEF ChartInv

LEMMA UnmountKeeps == ASSUME ChartInv, P!Unmount PROVE ChartInv'
<1>1. PowerTyped BY DEF ChartInv
<1>2. /\ view' = "away" /\ date' = Today /\ visit' = visit
      /\ charts' = [n \in P!Connected |-> P!NoChart]
      /\ queue' = P!Aborted /\ sent' = (sent /\ ~P!BreaksOff)
  BY DEF P!Unmount
<1>3. P!NoChart \in Chart BY DEF P!NoChart, Chart
<1>4. \A i \in DOMAIN queue' : queue'[i].visit <= visit
  BY <1>1, <1>2, AbortedTyped DEF PowerTyped
<1>5. sent' \in BOOLEAN /\ (sent' => queue' # << >> /\ ~queue'[1].aborted)
  BY <1>1, <1>2, AbortedTyped
<1>6. PowerTyped'
  BY <1>1, <1>2, <1>3, <1>4, <1>5, AbortedTyped, DatesAssumption DEF PowerTyped
<1>7. ChartsShowTheDay' BY <1>2 DEF ChartsShowTheDay, P!ChartsShowTheDay, P!Drawn
<1> QED BY <1>2, <1>6, <1>7 DEF ChartInv

(* The requests of a sequence followed by those of another. *)
LEMMA ConcatHolds ==
    ASSUME NEW a \in Seq(Asked), NEW b \in Seq(Asked)
    PROVE  /\ a \o b \in Seq(Asked)
           /\ \A i \in DOMAIN (a \o b) : \/ \E j \in DOMAIN a : (a \o b)[i] = a[j]
                                         \/ \E j \in DOMAIN b : (a \o b)[i] = b[j]
           /\ a # << >> => a \o b # << >> /\ (a \o b)[1] = a[1]
<1>1. /\ Len(a) \in Nat /\ DOMAIN a = 1..Len(a) /\ Len(b) \in Nat /\ DOMAIN b = 1..Len(b)
      /\ a \o b \in Seq(Asked) /\ Len(a \o b) = Len(a) + Len(b)
      /\ DOMAIN (a \o b) = 1..(Len(a) + Len(b))
  BY ConcatProperties, LenProperties
<1>2. \A i \in 1..(Len(a) + Len(b)) :
          (a \o b)[i] = IF i <= Len(a) THEN a[i] ELSE b[i - Len(a)]
  BY <1>1, ConcatProperties
<1>3. \A i \in 1..(Len(a) + Len(b)) : IF i <= Len(a) THEN i \in DOMAIN a ELSE i - Len(a) \in DOMAIN b
  BY <1>1
<1>4. ASSUME a # << >> PROVE a \o b # << >> /\ (a \o b)[1] = a[1]
  <2>1. Len(a) # 0 BY <1>1, <1>4, EmptySeq
  <2> QED BY <1>1, <1>2, <2>1
<1> QED BY <1>1, <1>2, <1>3, <1>4

LEMMA SelectKeeps == ASSUME ChartInv, NEW d \in Dates, P!Select(d) PROVE ChartInv'
<1>1. PowerTyped BY DEF ChartInv
<1>2. view # "away" /\ date' = d /\ UNCHANGED <<view, visit>>
  BY DEF P!Select
<1>3. CASE view # "shown"
  <2>1. UNCHANGED <<charts, queue, sent>> BY <1>3 DEF P!Select
  <2>2. PowerTyped' BY <1>1, <1>2, <2>1 DEF PowerTyped
  <2>3. ChartsShowTheDay' BY <1>2, <1>3, <2>1 DEF ChartsShowTheDay, P!ChartsShowTheDay, P!Drawn
  <2> QED BY <1>2, <1>3, <2>1, <2>2, <2>3 DEF ChartInv, Loading, Failed
<1>4. CASE view = "shown"
  <2>1. /\ charts' = [n \in P!Connected |-> [charts[n] EXCEPT !.loading = TRUE, !.error = FALSE]]
        /\ queue' = P!Aborted \o P!Charts(d) /\ sent' = (sent /\ ~P!BreaksOff)
    BY <1>4 DEF P!Select
  <2>2. charts' \in [P!Connected -> Chart] /\ \A n \in P!Connected : charts'[n].loading
    BY <1>1, <2>1 DEF PowerTyped, Chart
  <2>3. P!Aborted \in Seq(Asked) /\ P!Charts(d) \in Seq(Asked)
    BY <1>1, AbortedTyped, ChartsTyped
  <2>4. queue' \in Seq(Asked) BY <2>1, <2>3, ConcatHolds
  <2>5. sent' \in BOOLEAN /\ (sent' => queue' # << >> /\ ~queue'[1].aborted)
    BY <1>1, <2>1, <2>3, AbortedTyped, ConcatHolds
  <2>6. ASSUME NEW i \in DOMAIN queue'
        PROVE  /\ queue'[i].visit <= visit
               /\ queue'[i].visit = visit => /\ queue'[i].what # "nodes"
                                             /\ queue'[i].what = "chart" /\ ~queue'[i].aborted
                                                    => queue'[i].day = d
    <3>1. CASE \E j \in DOMAIN P!Aborted : queue'[i] = P!Aborted[j]
      <4>1. PICK j \in DOMAIN P!Aborted : queue'[i] = P!Aborted[j] BY <3>1
      <4>2. PICK k \in DOMAIN queue : P!Aborted[j].visit = queue[k].visit
                                      /\ P!Aborted[j].what = queue[k].what
        BY <1>1, AbortedTyped
      <4>3. P!Aborted[j].what = "chart" /\ P!Aborted[j].visit = visit => P!Aborted[j].aborted
        BY <1>1, AbortedTyped
      <4>4. queue[k].visit <= visit /\ Fresh(queue[k]) BY <1>1, <1>4 DEF PowerTyped, ChartInv, Shown
      <4> QED BY <4>1, <4>2, <4>3, <4>4 DEF Fresh
    <3>2. CASE \E j \in DOMAIN P!Charts(d) : queue'[i] = P!Charts(d)[j]
      <4>1. visit <= visit BY <1>1 DEF PowerTyped
      <4> QED BY <1>1, <3>2, <4>1, ChartsTyped
    <3> QED BY <2>1, <2>3, <3>1, <3>2, ConcatHolds
  <2>7. PowerTyped' BY <1>1, <1>2, <2>2, <2>4, <2>5, <2>6 DEF PowerTyped
  <2>8. Shown' BY <1>2, <2>6 DEF Shown, Fresh
  <2>9. ChartsShowTheDay' BY <2>2 DEF ChartsShowTheDay, P!ChartsShowTheDay, P!Drawn
  <2> QED BY <1>2, <1>4, <2>7, <2>8, <2>9 DEF ChartInv
<1> QED BY <1>3, <1>4

LEMMA NodesKeeps ==
    ASSUME ChartInv, NEW ok \in BOOLEAN, sent, sent' = FALSE, visit' = visit,
           queue[1].what = "nodes", P!NodesAnswer(queue[1], ok)
    PROVE  ChartInv'
<1>1. PowerTyped /\ queue # << >> BY DEF ChartInv, PowerTyped
<1>2. UNCHANGED <<date, charts>> BY DEF P!NodesAnswer, P!page
<1>3. CASE queue[1].visit # visit \/ view = "away"
  <2>1. UNCHANGED view /\ queue' = Tail(queue) BY <1>3 DEF P!NodesAnswer, P!page
  <2>2. ChartsShowTheDay'
    BY <1>2, <2>1 DEF ChartInv, ChartsShowTheDay, P!ChartsShowTheDay, P!Drawn
  <2>3. charts' \in [P!Connected -> Chart] BY <1>1, <1>2 DEF PowerTyped
  <2> QED BY <1>1, <1>2, <2>1, <2>2, <2>3, PopKeeps
<1>4. CASE queue[1].visit = visit /\ view # "away"
  <2>1. queue[1] \in Asked /\ 1 \in DOMAIN queue /\ Len(queue) \in Nat
    BY <1>1, TailTyped, LenProperties DEF PowerTyped
  <2>2. view = "loading"
    BY <1>1, <1>4, <2>1 DEF ChartInv, PowerTyped, Failed, Shown, Fresh
  <2>3. Len(queue) = 1 /\ \A n \in P!Connected : charts[n].loading
    BY <1>4, <2>1, <2>2 DEF ChartInv, Loading
  <2>4. Tail(queue) = << >>
    <3>1. Tail(queue) \in Seq(Asked) /\ Len(Tail(queue)) = 0
      BY <1>1, <2>3, TailTyped
    <3> QED BY <3>1, EmptySeq
  <2>5. CASE ok
    <3> DEFINE u == P!Request("usage", P!NoNode, P!NoDay)
    <3>1. u \in Asked /\ u.what = "usage" /\ u.visit = visit
      BY <1>1, RequestTyped
    <3>2. view' = "shown" /\ queue' = (<< >> \o <<u>>) \o P!Charts(date)
      BY <1>4, <2>4, <2>5 DEF P!NodesAnswer
    <3> HIDE DEF u
    <3>3. << >> \o <<u>> = <<u>> /\ <<u>> \in Seq(Asked)
      BY <3>1
    <3>4. queue' \in Seq(Asked) /\ P!Charts(date) \in Seq(Asked)
      <4>1. date \in Dates BY <1>1 DEF PowerTyped
      <4>2. P!Charts(date) \in Seq(Asked) BY <1>1, <4>1, ChartsTyped
      <4> QED BY <3>2, <3>3, <4>2, ConcatHolds
    <3>5. ASSUME NEW i \in DOMAIN queue'
          PROVE  /\ queue'[i].visit = visit /\ queue'[i].what # "nodes"
                 /\ queue'[i].what = "chart" => queue'[i].day = date
      <4>1. CASE \E j \in DOMAIN <<u>> : queue'[i] = <<u>>[j]
        <5>1. queue'[i] = u BY <4>1
        <5> QED BY <3>1, <5>1
      <4>2. CASE \E j \in DOMAIN P!Charts(date) : queue'[i] = P!Charts(date)[j]
        <5>1. date \in Dates BY <1>1 DEF PowerTyped
        <5> QED BY <1>1, <4>2, <5>1, ChartsTyped
      <4> QED BY <3>2, <3>3, <3>4, <4>1, <4>2, ConcatHolds
    <3>6. PowerTyped'
      <4>1. visit \in Nat BY <1>1 DEF PowerTyped
      <4>2. \A i \in DOMAIN queue' : queue'[i].visit <= visit BY <3>5, <4>1
      <4> QED BY <1>1, <1>2, <3>2, <3>4, <4>2 DEF PowerTyped
    <3>7. Shown' BY <1>2, <3>5 DEF Shown, Fresh
    <3>8. ChartsShowTheDay'
      BY <1>2, <2>3 DEF ChartsShowTheDay, P!ChartsShowTheDay, P!Drawn
    <3> QED BY <3>2, <3>6, <3>7, <3>8 DEF ChartInv
  <2>6. CASE ~ok
    <3>1. view' = "failed" /\ queue' = << >>
      BY <1>4, <2>4, <2>6 DEF P!NodesAnswer
    <3>2. DOMAIN queue' = {} /\ queue' \in Seq(Asked)
      BY <3>1
    <3>3. PowerTyped' BY <1>1, <1>2, <3>1, <3>2 DEF PowerTyped
    <3>4. ChartsShowTheDay' BY <3>1 DEF ChartsShowTheDay, P!ChartsShowTheDay, P!Drawn
    <3> QED BY <3>1, <3>2, <3>3, <3>4 DEF ChartInv, Failed
  <2> QED BY <2>5, <2>6
<1> QED BY <1>3, <1>4

LEMMA UsageKeeps ==
    ASSUME ChartInv, NEW ok \in BOOLEAN, sent, sent' = FALSE, visit' = visit,
           P!UsageAnswer(queue[1], ok)
    PROVE  ChartInv'
<1>1. PowerTyped /\ queue # << >> BY DEF ChartInv, PowerTyped
<1>2. UNCHANGED <<view, date, charts>> /\ queue' = Tail(queue)
  BY DEF P!UsageAnswer
<1>3. ChartsShowTheDay'
  BY <1>2 DEF ChartInv, ChartsShowTheDay, P!ChartsShowTheDay, P!Drawn
<1>4. charts' \in [P!Connected -> Chart] BY <1>1, <1>2 DEF PowerTyped
<1> QED BY <1>1, <1>2, <1>3, <1>4, PopKeeps

(* The answer that is drawn is of the day that is selected: a request for  *)
(* another day of this visit gave up before it was sent.                   *)
LEMMA ChartKeeps ==
    ASSUME ChartInv, NEW ok \in BOOLEAN, sent, sent' = FALSE, visit' = visit,
           queue[1].what = "chart", P!ChartAnswer(queue[1], ok)
    PROVE  ChartInv'
<1>1. PowerTyped /\ queue # << >> /\ ~queue[1].aborted BY DEF ChartInv, PowerTyped
<1>2. UNCHANGED <<view, date>> /\ queue' = Tail(queue)
  BY DEF P!ChartAnswer
<1>3. queue[1] \in Asked /\ 1 \in DOMAIN queue
  BY <1>1, TailTyped
<1>4. CASE view = "away" \/ queue[1].visit # visit
  <2>1. charts' = charts BY <1>4 DEF P!ChartAnswer
  <2>2. ChartsShowTheDay'
    BY <1>2, <2>1 DEF ChartInv, ChartsShowTheDay, P!ChartsShowTheDay, P!Drawn
  <2>3. charts' \in [P!Connected -> Chart] BY <1>1, <2>1 DEF PowerTyped
  <2> QED BY <1>1, <1>2, <2>1, <2>2, <2>3, PopKeeps
<1>5. CASE view # "away" /\ queue[1].visit = visit
  <2> DEFINE m == queue[1].node
             c == [loading |-> FALSE, error |-> ~ok, of |-> IF ok THEN queue[1].day ELSE charts[m].of]
  <2>1. charts' = [charts EXCEPT ![m] = c]
    BY <1>5 DEF P!ChartAnswer
  <2>2. queue[1].day \in Dates \cup {P!NoDay} BY <1>3 DEF Asked
  <2>3. charts \in [P!Connected -> Chart] BY <1>1 DEF PowerTyped
  <2>4. m \in P!Connected => c \in Chart
    BY <2>2, <2>3 DEF Chart
  <2>5. c.error = ~ok /\ c.of = IF ok THEN queue[1].day ELSE charts[m].of
    OBVIOUS
  <2> HIDE DEF c, m
  <2>6. charts' \in [P!Connected -> Chart]
        /\ \A n \in P!Connected : charts'[n] = IF n = m THEN c ELSE charts[n]
    BY <2>1, <2>3, <2>4
  <2>7. view = "shown"
    BY <1>1, <1>3, <1>5 DEF ChartInv, PowerTyped, Loading, Failed
  <2>8. queue[1].day = date
    BY <1>1, <1>3, <1>5, <2>7 DEF ChartInv, Shown, Fresh
  <2>9. ChartsShowTheDay'
    BY <1>2, <2>5, <2>6, <2>7, <2>8 DEF ChartInv, ChartsShowTheDay, P!ChartsShowTheDay, P!Drawn
  <2> QED BY <1>1, <1>2, <2>6, <2>7, <2>9, PopKeeps
<1> QED BY <1>4, <1>5

LEMMA ChartStep == ChartInv /\ PowerFollowed => ChartInv'
<1> SUFFICES ASSUME ChartInv, PowerFollowed PROVE ChartInv'
  OBVIOUS
<1>1. CASE P!Mount
  BY <1>1, MountKeeps
<1>2. CASE P!Unmount
  BY <1>2, UnmountKeeps
<1>3. CASE UNCHANGED power
  BY <1>3 DEF power, ChartInv, PowerTyped, Loading, Failed, Shown, Fresh,
              ChartsShowTheDay, P!ChartsShowTheDay, P!Drawn
<1>4. ASSUME NEW d \in Dates, P!Select(d) PROVE ChartInv'
  BY <1>4, SelectKeeps
<1>5. CASE P!Send
  <2>1. sent' = TRUE /\ UNCHANGED <<view, visit, date, charts, queue>>
        /\ queue # << >> /\ ~queue[1].aborted
    BY <1>5 DEF P!Send, P!Waiting, P!page
  <2> QED BY <2>1 DEF ChartInv, PowerTyped, Loading, Failed, Shown, Fresh,
                      ChartsShowTheDay, P!ChartsShowTheDay, P!Drawn
<1>6. CASE P!Skip
  <2>1. queue # << >> /\ queue' = Tail(queue) /\ ~sent /\ UNCHANGED <<view, visit, date, charts, sent>>
    BY <1>6 DEF P!Skip, P!Waiting, P!page
  <2>2. sent' = FALSE /\ charts' \in [P!Connected -> Chart]
    BY <2>1 DEF ChartInv, PowerTyped
  <2>3. ChartsShowTheDay'
    BY <2>1 DEF ChartInv, ChartsShowTheDay, P!ChartsShowTheDay, P!Drawn
  <2> QED BY <2>1, <2>2, <2>3, PopKeeps
<1>7. ASSUME NEW ok \in BOOLEAN, P!Answer(ok) PROVE ChartInv'
  <2>1. sent /\ sent' = FALSE /\ visit' = visit
    BY <1>7 DEF P!Answer
  <2>2. CASE queue[1].what = "nodes" /\ P!NodesAnswer(queue[1], ok)
    BY <2>1, <2>2, NodesKeeps
  <2>3. CASE queue[1].what = "usage" /\ P!UsageAnswer(queue[1], ok)
    BY <2>1, <2>3, UsageKeeps
  <2>4. CASE queue[1].what = "chart" /\ P!ChartAnswer(queue[1], ok)
    BY <2>1, <2>4, ChartKeeps
  <2> QED BY <1>7, <2>2, <2>3, <2>4 DEF P!Answer
<1> QED BY <1>1, <1>2, <1>3, <1>4, <1>5, <1>6, <1>7 DEF PowerFollowed, P!Step

(* Power.tsx: whatever days are selected while answers are on their way,   *)
(* and whenever the page is left and returned to, a drawn chart shows the  *)
(* records of the day that is selected.                                    *)
THEOREM ChartsAlwaysShowTheDay == Spec => []ChartsShowTheDay
<1>1. ChartInv /\ [Next]_vars => ChartInv'
  BY PowerSteps, ChartStep
<1>2. ChartInv => ChartsShowTheDay
  BY DEF ChartInv
<1> QED BY ChartStart, <1>1, <1>2, PTL DEF Spec

-----------------------------------------------------------------------------
(* The list of devices.                                                    *)

(* What a step of the app does to the Devices page and its requests.       *)
DevicesFollowed ==
    \/ D!Step \/ D!Mount \/ UNCHANGED devices
    \/ D!Unmount /\ UNCHANGED <<stored, calls>>
    \/ D!WindowOpened /\ (D!Unmount \/ UNCHANGED <<listed, shown, dvisit, editing, draft>>)

LEMMA DevicesSteps == [Next]_vars => DevicesFollowed
<1> SUFFICES ASSUME [Next]_vars PROVE DevicesFollowed
  OBVIOUS
<1>1. CASE \E to \in {"power", "devices", "topology"} : Goto(to)
  BY <1>1 DEF Goto, DevicesFollowed
<1>2. CASE ShowCode
  BY <1>2 DEF ShowCode, DevicesFollowed
<1>3. CASE PowerStep \/ TopologyStep
  BY <1>3 DEF PowerStep, TopologyStep, DevicesFollowed
<1>4. CASE DevicesStep
  BY <1>4 DEF DevicesStep, DevicesFollowed
<1>5. CASE UNCHANGED vars
  BY <1>5 DEF vars, DevicesFollowed
<1> QED BY <1>1, <1>2, <1>3, <1>4, <1>5 DEF Next

Someone == D!Devices \cup {D!NoDevice}
Given == Names \cup {D!NoName} \cup {Paired[d] : d \in D!Devices}
Asking == [op : {"list", "rename", "delete", "interrogate", "window"}, device : Someone,
           name : Given, visit : Nat]

Named(f) == DOMAIN f \subseteq D!Devices /\ \A d \in DOMAIN f : f[d] \in Given

(* Requests are answered in the order of the visits they are of, none of   *)
(* which is later than visit v.                                            *)
InTurn(q, v) ==
    /\ q \in Seq(Asking)
    /\ \A i \in DOMAIN q : q[i].visit <= v
    /\ \A i, j \in DOMAIN q : i <= j => q[i].visit <= q[j].visit
AllOf(q, v) == \A i \in DOMAIN q : q[i].visit = v

(* Once the list of this visit has come the requests under way are all of  *)
(* this visit: each changes the list as it changes what is stored.         *)
ListInv ==
    /\ dvisit \in Nat /\ editing \in Someone /\ draft \in Given
    /\ Named(stored) /\ Named(listed)
    /\ InTurn(calls, dvisit)
    /\ shown = "list" => listed = stored /\ AllOf(calls, dvisit)

LEMMA ListStart == Init => ListInv
<1> SUFFICES ASSUME Init PROVE ListInv
  OBVIOUS
<1>1. /\ stored = Paired /\ listed = << >> /\ shown = "away" /\ dvisit = 0
      /\ editing = D!NoDevice /\ draft = D!NoName /\ calls = << >>
  BY DEF Init, D!Init
<1>2. Named(stored)
  BY <1>1 DEF Named, Given, D!Devices
<1>3. Named(listed) /\ InTurn(calls, dvisit)
  BY <1>1 DEF Named, InTurn
<1> QED BY <1>1, <1>2, <1>3 DEF ListInv, Someone, Given

LEMMA InTurnAppend ==
    ASSUME NEW q, NEW v \in Nat, NEW w \in Nat, v <= w, InTurn(q, v), NEW c \in Asking, c.visit = w
    PROVE  InTurn(Append(q, c), w) /\ (AllOf(q, w) => AllOf(Append(q, c), w))
<1>1. q \in Seq(Asking) BY DEF InTurn
<1>2. Len(q) \in Nat /\ DOMAIN q = 1..Len(q) BY <1>1, LenProperties
<1>3. \A i \in DOMAIN q : q[i].visit \in Nat /\ q[i].visit <= w
  <2>0. \A i \in DOMAIN q : q[i] \in Asking BY <1>1, <1>2, ElementOfSeq
  <2>1. \A i \in DOMAIN q : q[i].visit \in Nat BY <2>0 DEF Asking
  <2> QED BY <2>1 DEF InTurn
<1> DEFINE r == Append(q, c)
<1>4. r \in Seq(Asking) /\ DOMAIN r = 1..(Len(q) + 1)
      /\ r[Len(q) + 1] = c /\ \A i \in DOMAIN q : r[i] = q[i]
  BY <1>1, <1>2, AppendProperties, LenProperties
<1> HIDE DEF r
<1>5. \A i \in DOMAIN r : i \in DOMAIN q \/ i = Len(q) + 1 BY <1>2, <1>4
<1>6. \A i \in DOMAIN r : r[i].visit <= w BY <1>3, <1>4, <1>5
<1>7. ASSUME NEW i \in DOMAIN r, NEW j \in DOMAIN r, i <= j PROVE r[i].visit <= r[j].visit
  <2>1. CASE j \in DOMAIN q
    <3>1. i \in DOMAIN q BY <1>2, <1>5, <1>7, <2>1
    <3> QED BY <1>4, <1>7, <2>1, <3>1 DEF InTurn
  <2>2. CASE j = Len(q) + 1
    BY <1>4, <1>6, <2>2
  <2> QED BY <1>5, <2>1, <2>2
<1>8. AllOf(q, w) => AllOf(r, w) BY <1>4, <1>5 DEF AllOf
<1>9. InTurn(r, w) BY <1>4, <1>6, <1>7 DEF InTurn
<1> QED BY <1>8, <1>9 DEF r

LEMMA InTurnTail ==
    ASSUME NEW q, NEW v \in Nat, InTurn(q, v), q # << >>
    PROVE  /\ q[1] \in Asking /\ 1 \in DOMAIN q
           /\ InTurn(Tail(q), v)
           /\ AllOf(q, v) \/ q[1].visit = v => AllOf(Tail(q), v)
<1>1. q \in Seq(Asking) BY DEF InTurn
<1>2. Len(q) \in Nat \ {0} /\ DOMAIN q = 1..Len(q) BY <1>1, EmptySeq, LenProperties
<1>3. \A i \in DOMAIN q : q[i] \in Asking BY <1>1, <1>2, ElementOfSeq
<1> DEFINE r == Tail(q)
<1>4. r \in Seq(Asking) /\ Len(r) = Len(q) - 1 BY <1>1, HeadTailProperties
<1>5. DOMAIN r = 1..(Len(q) - 1) BY <1>4, LenProperties
<1>6. \A i \in DOMAIN r : r[i] = q[i + 1] BY <1>1, <1>2, <1>5, HeadTailProperties
<1> HIDE DEF r
<1>7. \A i \in DOMAIN r : i \in Nat /\ i + 1 \in DOMAIN q /\ 1 <= i + 1 BY <1>2, <1>5
<1>8. \A i \in DOMAIN r : r[i].visit <= v BY <1>6, <1>7 DEF InTurn
<1>9. \A i, j \in DOMAIN r : i <= j => r[i].visit <= r[j].visit BY <1>6, <1>7 DEF InTurn
<1>10. InTurn(r, v) BY <1>4, <1>8, <1>9 DEF InTurn
<1>11. AllOf(q, v) => AllOf(r, v) BY <1>6, <1>7 DEF AllOf
<1>12. ASSUME q[1].visit = v PROVE AllOf(r, v)
  <2> SUFFICES ASSUME NEW i \in DOMAIN r PROVE r[i].visit = v
    BY DEF AllOf
  <2>1. 1 \in DOMAIN q BY <1>2
  <2>2. q[1].visit <= q[i + 1].visit /\ q[i + 1].visit <= v BY <1>7, <2>1 DEF InTurn
  <2>3. q[i + 1].visit \in Nat BY <1>3, <1>7 DEF Asking
  <2> QED BY <1>6, <1>12, <2>2, <2>3
<1> QED BY <1>2, <1>3, <1>10, <1>11, <1>12 DEF r

(* The user asks for something. *)
LEMMA AskKeeps ==
    ASSUME ListInv, NEW c \in Asking, c.visit = dvisit, calls' = Append(calls, c),
           UNCHANGED <<stored, listed, shown, dvisit>>, editing' \in Someone, draft' \in Given
    PROVE  ListInv'
<1>1. dvisit \in Nat /\ dvisit <= dvisit /\ InTurn(calls, dvisit) BY DEF ListInv
<1>2. InTurn(calls', dvisit') /\ (AllOf(calls, dvisit) => AllOf(calls', dvisit'))
  BY <1>1, InTurnAppend
<1>3. Named(stored)' /\ Named(listed)' BY DEF ListInv, Named, Given, D!Devices
<1> QED BY <1>2, <1>3 DEF ListInv, Someone, Given, D!Devices

(* A step that asks for nothing. *)
LEMMA NothingAsked ==
    ASSUME ListInv, UNCHANGED <<stored, calls, dvisit>>, editing' \in Someone, draft' \in Given,
           UNCHANGED <<listed, shown>> \/ (shown' = "away" /\ listed' = << >>)
    PROVE  ListInv'
<1>1. Named(stored)' /\ Named(listed)' BY DEF ListInv, Named, Given, D!Devices
<1>2. InTurn(calls', dvisit') BY DEF ListInv
<1> QED BY <1>1, <1>2 DEF ListInv, Someone, Given, D!Devices

LEMMA NewCall ==
    ASSUME ListInv, NEW op \in {"list", "rename", "delete", "interrogate", "window"}, NEW d \in Someone
    PROVE  D!Call(op, d) \in Asking /\ D!Call(op, d).visit = dvisit
BY DEF ListInv, D!Call, Asking, Given

LEMMA UserKeeps ==
    ASSUME ListInv,
           \/ \E d \in D!Devices : D!StartEdit(d) \/ D!Delete(d) \/ D!Reinterrogate(d) \/ D!OpenWindow(d)
           \/ \E name \in Names : D!Type(name)
           \/ D!CancelEdit \/ D!SaveName
    PROVE  ListInv'
<1>0. /\ D!NoDevice \in Someone /\ D!NoName \in Given /\ Names \subseteq Given
      /\ D!Devices \subseteq Someone /\ editing \in Someone /\ draft \in Given
  BY DEF Someone, Given, ListInv
<1>1. ASSUME NEW d \in D!Devices, D!StartEdit(d) PROVE ListInv'
  <2>1. d \in DOMAIN listed /\ editing' = d /\ draft' = listed[d] /\ UNCHANGED <<stored, listed, shown, dvisit, calls>>
    BY <1>1 DEF D!StartEdit, D!Keeps
  <2>2. draft' \in Given BY <2>1 DEF ListInv, Named
  <2> QED BY <1>0, <2>1, <2>2, NothingAsked
<1>2. ASSUME NEW name \in Names, D!Type(name) PROVE ListInv'
  <2>1. draft' = name /\ UNCHANGED <<stored, listed, shown, dvisit, calls, editing>>
    BY <1>2 DEF D!Type, D!Keeps
  <2> QED BY <1>0, <2>1, NothingAsked
<1>3. CASE D!CancelEdit
  <2>1. editing' = D!NoDevice /\ draft' = D!NoName /\ UNCHANGED <<stored, listed, shown, dvisit, calls>>
    BY <1>3 DEF D!CancelEdit, D!Keeps
  <2> QED BY <1>0, <2>1, NothingAsked
<1>4. CASE D!SaveName
  <2> DEFINE c == [D!Call("rename", editing) EXCEPT !.name = draft]
  <2>1. calls' = Append(calls, c) /\ UNCHANGED <<stored, listed, shown, dvisit, editing, draft>>
    BY <1>4 DEF D!SaveName, D!Keeps, D!Ask
  <2>2. D!Call("rename", editing) \in Asking /\ D!Call("rename", editing).visit = dvisit
    BY <1>0, NewCall
  <2>3. c \in Asking /\ c.visit = dvisit BY <1>0, <2>2 DEF Asking
  <2> HIDE DEF c
  <2> QED BY <1>0, <2>1, <2>3, AskKeeps
<1>5. ASSUME NEW d \in D!Devices, NEW op \in {"delete", "interrogate", "window"},
             D!Ask(D!Call(op, d)), UNCHANGED <<stored, listed, shown, dvisit, editing, draft>>
      PROVE  ListInv'
  <2>1. D!Call(op, d) \in Asking /\ D!Call(op, d).visit = dvisit BY <1>0, NewCall
  <2>2. calls' = Append(calls, D!Call(op, d)) BY <1>5 DEF D!Ask
  <2> HIDE DEF D!Call
  <2> QED BY <1>0, <1>5, <2>1, <2>2, AskKeeps
<1>6. ASSUME NEW d \in D!Devices, D!Delete(d) PROVE ListInv'
  BY <1>6, <1>5 DEF D!Delete, D!Keeps
<1>7. ASSUME NEW d \in D!Devices, D!Reinterrogate(d) PROVE ListInv'
  BY <1>7, <1>5 DEF D!Reinterrogate, D!Keeps
<1>8. ASSUME NEW d \in D!Devices, D!OpenWindow(d) PROVE ListInv'
  BY <1>8, <1>5 DEF D!OpenWindow, D!Keeps
<1> QED BY <1>1, <1>2, <1>3, <1>4, <1>6, <1>7, <1>8

(* The oldest request is answered; what the answer has to do. *)
LEMMA TailKeeps ==
    ASSUME ListInv, calls # << >>, calls' = Tail(calls), UNCHANGED dvisit,
           editing' \in Someone, draft' \in Given, Named(stored)', Named(listed)',
           shown' = "list" => listed' = stored' /\ (calls[1].visit = dvisit \/ shown = "list")
    PROVE  ListInv'
<1>1. dvisit \in Nat /\ InTurn(calls, dvisit) BY DEF ListInv
<1>2. InTurn(calls', dvisit')
      /\ (AllOf(calls, dvisit) \/ calls[1].visit = dvisit => AllOf(calls', dvisit'))
  BY <1>1, InTurnTail
<1> QED BY <1>1, <1>2 DEF ListInv

LEMMA AnswerKeepsList == ASSUME ListInv, NEW ok \in BOOLEAN, D!Answer(ok) PROVE ListInv'
<1> DEFINE c == calls[1]
<1>1. calls # << >> /\ calls' = Tail(calls) /\ UNCHANGED dvisit
  BY DEF D!Answer
<1>2. c \in Asking /\ 1 \in DOMAIN calls
  BY <1>1, InTurnTail DEF ListInv
<1>3. /\ D!NoDevice \in Someone /\ D!NoName \in Given
      /\ editing \in Someone /\ draft \in Given /\ Named(stored) /\ Named(listed)
  BY DEF Someone, Given, ListInv
<1>4. shown = "list" => listed = stored /\ c.visit = dvisit
  BY <1>2 DEF ListInv, AllOf
<1>5. \A f : Named(f)' <=> Named(f)
  BY DEF Named, Given, D!Devices
<1>6. CASE D!ListAnswer(c, ok)
  <2>1. Named(<< >>) BY DEF Named
  <2>2. Named(stored)' /\ Named(listed)' /\ editing' \in Someone /\ draft' \in Given
    BY <1>3, <1>6, <2>1 DEF D!ListAnswer, Named, Given, D!Devices
  <2>3. shown' = "list" => listed' = stored' /\ (c.visit = dvisit \/ shown = "list")
    BY <1>4, <1>6 DEF D!ListAnswer, D!Here
  <2> QED BY <1>1, <2>2, <2>3, TailKeeps
<1>7. CASE D!RenameAnswer(c, ok)
  <2>1. c.name \in Given BY <1>2 DEF Asking
  <2>2. Named(stored)' /\ Named(listed)' /\ editing' \in Someone /\ draft' \in Given
    BY <1>3, <1>7, <2>1 DEF D!RenameAnswer, Named, Given, D!Devices
  <2>3. shown' = "list" => listed' = stored' /\ (c.visit = dvisit \/ shown = "list")
    BY <1>4, <1>7 DEF D!RenameAnswer, D!Here
  <2> QED BY <1>1, <2>2, <2>3, TailKeeps
<1>8. CASE D!DeleteAnswer(c, ok)
  <2>1. Named(stored)' /\ Named(listed)' /\ editing' \in Someone /\ draft' \in Given
    BY <1>3, <1>8 DEF D!DeleteAnswer, Named, Given, D!Devices, D!Restrict
  <2>2. shown' = "list" => listed' = stored' /\ (c.visit = dvisit \/ shown = "list")
    BY <1>4, <1>8 DEF D!DeleteAnswer, D!Here
  <2> QED BY <1>1, <2>1, <2>2, TailKeeps
<1>9. CASE UNCHANGED <<stored, listed, shown, editing, draft>>
  <2>1. Named(stored)' /\ Named(listed)' /\ editing' \in Someone /\ draft' \in Given
    BY <1>3, <1>9 DEF Named, Given, D!Devices
  <2> QED BY <1>1, <1>4, <1>9, <2>1, TailKeeps
<1> QED BY <1>6, <1>7, <1>8, <1>9 DEF D!Answer, D!page

LEMMA ListStep == ListInv /\ DevicesFollowed => ListInv'
<1> SUFFICES ASSUME ListInv, DevicesFollowed PROVE ListInv'
  OBVIOUS
<1>0. /\ D!NoDevice \in Someone /\ D!NoName \in Given /\ editing \in Someone /\ draft \in Given
  BY DEF Someone, Given, ListInv
<1>1. CASE D!Step
  BY <1>1, UserKeeps, AnswerKeepsList DEF D!Step
<1>2. CASE D!Mount
  <2> DEFINE c == [D!Call("list", D!NoDevice) EXCEPT !.visit = dvisit + 1]
  <2>1. /\ calls' = Append(calls, c) /\ dvisit' = dvisit + 1 /\ shown' = "loading" /\ listed' = << >>
        /\ editing' = D!NoDevice /\ draft' = D!NoName /\ stored' = stored
    BY <1>2 DEF D!Mount
  <2>2. dvisit \in Nat /\ dvisit + 1 \in Nat /\ dvisit <= dvisit + 1 /\ InTurn(calls, dvisit)
    BY DEF ListInv
  <2>3. D!Call("list", D!NoDevice) \in Asking BY <1>0, NewCall
  <2>4. c \in Asking /\ c.visit = dvisit + 1 BY <2>2, <2>3 DEF Asking
  <2> HIDE DEF c
  <2>5. InTurn(calls', dvisit') BY <2>1, <2>2, <2>4, InTurnAppend
  <2>6. Named(stored)' /\ Named(listed)' BY <2>1 DEF ListInv, Named, Given, D!Devices
  <2> QED BY <1>0, <2>1, <2>2, <2>5, <2>6 DEF ListInv
<1>3. CASE UNCHANGED devices
  BY <1>0, <1>3, NothingAsked DEF devices
<1>4. CASE D!Unmount /\ UNCHANGED <<stored, calls>>
  BY <1>0, <1>4, NothingAsked DEF D!Unmount
<1>5. CASE D!WindowOpened /\ (D!Unmount \/ UNCHANGED <<listed, shown, dvisit, editing, draft>>)
  <2>1. calls # << >> /\ calls' = Tail(calls) /\ stored' = stored
    BY <1>5 DEF D!WindowOpened
  <2>2. 1 \in DOMAIN calls BY <2>1, InTurnTail DEF ListInv
  <2>3. \/ shown' = "away" /\ listed' = << >> /\ dvisit' = dvisit /\ editing' = D!NoDevice /\ draft' = D!NoName
        \/ UNCHANGED <<listed, shown, dvisit, editing, draft>>
    BY <1>5 DEF D!Unmount
  <2>4. Named(stored)' /\ Named(listed)' BY <2>1, <2>3 DEF ListInv, Named, Given, D!Devices
  <2>5. editing' \in Someone /\ draft' \in Given BY <1>0, <2>3
  <2>6. shown' = "list" => shown = "list" /\ listed' = stored' BY <2>1, <2>3 DEF ListInv
  <2> QED BY <2>1, <2>3, <2>4, <2>5, <2>6, TailKeeps
<1> QED BY <1>1, <1>2, <1>3, <1>4, <1>5 DEF DevicesFollowed

(* Devices.tsx: with nothing under way the list is what the firmware has,  *)
(* whatever was asked, answered or failed, on this visit of the page or    *)
(* before it.                                                              *)
THEOREM ListAlwaysStored == Spec => []ListIsStored
<1>1. ListInv /\ [Next]_vars => ListInv'
  BY DevicesSteps, ListStep
<1>2. ListInv => ListIsStored
  BY DEF ListInv, ListIsStored, D!ListIsStored
<1> QED BY ListStart, <1>1, <1>2, PTL DEF Spec

-----------------------------------------------------------------------------
(* The usage.                                                             *)

(* The sum of f over the subsets of S, as FiniteSetsExt has it.            *)
Pick(s) == CHOOSE x \in s : TRUE
Sums(g, f, S) ==
    g = [s \in SUBSET S |-> IF s = {} THEN 0 ELSE f[Pick(s)] + g[s \ {Pick(s)}]]

LEMMA Picked ==
    ASSUME NEW S, IsFiniteSet(S), NEW s \in SUBSET S
    PROVE  /\ Cardinality(s) \in Nat /\ (Cardinality(s) = 0 <=> s = {})
           /\ s # {} => /\ Pick(s) \in S /\ s \ {Pick(s)} \in SUBSET S
                        /\ Cardinality(s \ {Pick(s)}) = Cardinality(s) - 1
<1>1. IsFiniteSet(s)
  BY FS_Subset
<1>2. Cardinality(s) \in Nat /\ (Cardinality(s) = 0 <=> s = {})
  BY <1>1, FS_CardinalityType, FS_EmptySet
<1>3. s # {} => Pick(s) \in s
  BY DEF Pick
<1>4. s # {} => Cardinality(s \ {Pick(s)}) = Cardinality(s) - 1
  BY <1>1, <1>3, FS_RemoveElement
<1> QED BY <1>2, <1>3, <1>4

LEMMA SumsExist == ASSUME NEW S, IsFiniteSet(S), NEW f PROVE \E g : Sums(g, f, S)
<1> DEFINE Small(n) == {s \in SUBSET S : Cardinality(s) <= n}
           Rest(s, g) == IF s = {} THEN 0 ELSE f[Pick(s)] + g[s \ {Pick(s)}]
           Upto(g, n) == g = [s \in Small(n) |-> Rest(s, g)]
           T == {n \in Nat : ~\E g : Upto(g, n)}
<1>0. T \subseteq Nat
  OBVIOUS
<1>1. ASSUME T # {} PROVE FALSE
  <2>1. PICK m \in T : \A y \in T : ~(y < m)
    <3> HIDE DEF T
    <3> QED BY <1>0, <1>1, SmallestOf
  <2>2. m \in Nat /\ \A g : ~Upto(g, m)
    BY <2>1
  <2>3. m # 0
    <3>1. ASSUME NEW s \in Small(0) PROVE s = {}
      <4>1. s \in SUBSET S /\ Cardinality(s) <= 0
        OBVIOUS
      <4>2. Cardinality(s) \in Nat /\ (Cardinality(s) = 0 <=> s = {})
        BY <4>1, Picked
      <4> QED BY <4>1, <4>2
    <3>2. Upto([s \in Small(0) |-> 0], 0)
      BY <3>1
    <3> QED BY <2>2, <3>2
  <2>4. m - 1 \in Nat /\ m - 1 < m
    BY <2>2, <2>3
  <2>5. PICK h : Upto(h, m - 1)
    BY <2>1, <2>4
  <2> DEFINE k == [s \in Small(m) |-> Rest(s, h)]
  <2>6. \A s \in Small(m - 1) : s \in Small(m) /\ k[s] = h[s]
    <3>1. ASSUME NEW s \in Small(m - 1) PROVE s \in Small(m)
      <4>1. s \in SUBSET S /\ Cardinality(s) <= m - 1
        OBVIOUS
      <4>2. Cardinality(s) \in Nat
        BY <4>1, Picked
      <4> QED BY <2>2, <4>1, <4>2
    <3> QED BY <2>5, <3>1
  <2>7. ASSUME NEW s \in Small(m) PROVE Rest(s, h) = Rest(s, k)
    <3>1. ASSUME s # {} PROVE s \ {Pick(s)} \in Small(m - 1)
      BY <2>2, <3>1, Picked
    <3> HIDE DEF k, Small
    <3> QED BY <2>6, <3>1
  <2>8. k = [s \in Small(m) |-> Rest(s, k)]
    BY <2>7
  <2> QED BY <2>2, <2>8
<1>2. PICK g : Upto(g, Cardinality(S))
  BY <1>1, FS_CardinalityType
<1>3. Small(Cardinality(S)) = SUBSET S
  <2>1. \A s \in SUBSET S : Cardinality(s) <= Cardinality(S)
    BY FS_Subset
  <2> QED BY <2>1
<1> QED BY <1>2, <1>3 DEF Sums

LEMMA SumsInt ==
    ASSUME NEW S, IsFiniteSet(S), NEW f, \A x \in S : f[x] \in Int, NEW g, Sums(g, f, S)
    PROVE  g[S] \in Int
<1> DEFINE T == {n \in Nat : \E s \in SUBSET S : Cardinality(s) = n /\ g[s] \notin Int}
<1>0. T \subseteq Nat
  OBVIOUS
<1>1. ASSUME T # {} PROVE FALSE
  <2>1. PICK m \in T : \A y \in T : ~(y < m)
    <3> HIDE DEF T
    <3> QED BY <1>0, <1>1, SmallestOf
  <2>2. PICK s \in SUBSET S : Cardinality(s) = m /\ g[s] \notin Int
    BY <2>1
  <2>3. g[s] = IF s = {} THEN 0 ELSE f[Pick(s)] + g[s \ {Pick(s)}]
    BY DEF Sums
  <2>4. s # {}
    BY <2>2, <2>3
  <2>5. Pick(s) \in S /\ s \ {Pick(s)} \in SUBSET S /\ Cardinality(s \ {Pick(s)}) = m - 1 /\ m # 0
    BY <2>2, <2>4, Picked
  <2>6. m \in Nat /\ m - 1 \in Nat /\ m - 1 < m
    BY <2>1, <2>5
  <2>7. g[s \ {Pick(s)}] \in Int
    BY <2>1, <2>5, <2>6
  <2> QED BY <2>2, <2>3, <2>4, <2>5, <2>7
<1> QED BY <1>1, FS_CardinalityType

SumOf(f, S) == P!MapThenSumSet(LAMBDA s : f[s], S)
KwhOf(rec, S) == P!MapThenSumSet(LAMBDA s : P!Kwh(rec, s), S)

LEMMA SumIsInt ==
    ASSUME NEW S, IsFiniteSet(S), NEW f, \A x \in S : f[x] \in Int
    PROVE  SumOf(f, S) \in Int
<1> DEFINE iter[s \in SUBSET S] ==
               IF s = {} THEN 0 ELSE f[CHOOSE x \in s : TRUE] + iter[s \ {CHOOSE x \in s : TRUE}]
<1>1. SumOf(f, S) = iter[S]
  BY DEF SumOf, P!MapThenSumSet, P!MapThenFoldSet
<1>2. \E g : Sums(g, f, S)
  BY SumsExist
<1>3. Sums(iter, f, S)
  BY <1>2 DEF Sums, Pick
<1> HIDE DEF iter
<1>4. iter[S] \in Int
  BY <1>3, SumsInt
<1> QED BY <1>1, <1>4

LEMMA KwhInt ==
    ASSUME NEW rec \in Energy, NEW S, IsFiniteSet(S)
    PROVE  KwhOf(rec, S) \in Int
<1> DEFINE f == [x \in S |-> P!Kwh(rec, x)]
           iter[s \in SUBSET S] ==
               IF s = {} THEN 0
               ELSE P!Kwh(rec, CHOOSE x \in s : TRUE) + iter[s \ {CHOOSE x \in s : TRUE}]
           Is(g) == g = [s \in SUBSET S |->
               IF s = {} THEN 0
               ELSE P!Kwh(rec, CHOOSE x \in s : TRUE) + g[s \ {CHOOSE x \in s : TRUE}]]
<1>1. KwhOf(rec, S) = iter[S]
  BY DEF KwhOf, P!MapThenSumSet, P!MapThenFoldSet
<1>2. PICK g : Sums(g, f, S)
  BY SumsExist
<1>3. ASSUME NEW h PROVE Is(h) <=> Sums(h, f, S)
  <2>1. ASSUME NEW s \in SUBSET S, s # {}
        PROVE  Pick(s) \in S /\ f[Pick(s)] = P!Kwh(rec, CHOOSE x \in s : TRUE)
    BY <2>1 DEF Pick
  <2> HIDE DEF f
  <2>2. \A s \in SUBSET S : s # {} => f[Pick(s)] = P!Kwh(rec, CHOOSE x \in s : TRUE)
    BY <2>1
  <2> QED BY <2>2 DEF Sums, Pick
<1>4. \E h : Is(h)
  <2> HIDE DEF Is, f
  <2> QED BY <1>2, <1>3
<1>5. Is(iter)
  BY <1>4
<1>6. \A x \in S : f[x] \in Int
  BY EnergyAssumption DEF P!Kwh
<1> HIDE DEF iter, f, Is
<1>7. iter[S] \in Int
  BY <1>3, <1>5, <1>6, SumsInt
<1> QED BY <1>1, <1>7

LEMMA MaxOf ==
    ASSUME NEW a \in Int, NEW b \in Int
    PROVE  P!Max({a, b}) = IF a >= b THEN a ELSE b
<1> DEFINE m == IF a >= b THEN a ELSE b
<1>1. m \in {a, b} /\ \A y \in {a, b} : m >= y
  OBVIOUS
<1>2. ASSUME NEW x \in {a, b}, \A y \in {a, b} : x >= y PROVE x = m
  BY <1>2
<1> QED BY <1>1, <1>2 DEF P!Max

LEMMA PartsAddUp ==
    ASSUME NEW rec \in Energy
    PROVE  LET parts == P!Parts(rec)
               measured == P!MapThenSumSet(LAMBDA s : parts.loads[s], LoadStreams)
               Sum(ss) == P!MapThenSumSet(LAMBDA s : P!Kwh(rec, s), ss) IN
        /\ parts.unmonitored >= 0 /\ measured + parts.unmonitored = parts.total
        /\ Sum(GridStreams) - Sum(SolarStreams) >= measured
              => parts.total = Sum(GridStreams) - Sum(SolarStreams)
<1> DEFINE ls == [s \in LoadStreams |-> P!Max({0, P!Kwh(rec, s)})]
           l == SumOf(ls, LoadStreams)
           a == KwhOf(rec, GridStreams)
           b == KwhOf(rec, SolarStreams)
           parts == P!Parts(rec)
<1>1. parts = [total |-> P!Max({l, a - b}), loads |-> ls, unmonitored |-> P!Max({l, a - b}) - l]
  BY DEF P!Parts, P!Used, SumOf, KwhOf
<1>2. a \in Int /\ b \in Int
  BY KwhInt, EnergyAssumption
<1>3. \A s \in LoadStreams : ls[s] \in Int
  BY EnergyAssumption, MaxOf DEF P!Kwh
<1>4. l \in Int
  <2> HIDE DEF ls
  <2> QED BY <1>3, SumIsInt, EnergyAssumption
<1>5. P!MapThenSumSet(LAMBDA s : parts.loads[s], LoadStreams) = l
  <2>1. parts.loads = ls
    BY <1>1
  <2> HIDE DEF parts, ls
  <2> QED BY <2>1 DEF SumOf
<1> DEFINE t == P!Max({l, a - b})
<1>6. parts.total = t /\ parts.unmonitored = t - l
  BY <1>1
<1> HIDE DEF l, a, b, parts, t
<1>7. t = IF l >= a - b THEN l ELSE a - b
  BY <1>2, <1>4, MaxOf DEF t
<1>8. /\ parts.unmonitored >= 0 /\ l + parts.unmonitored = parts.total
      /\ a - b >= l => parts.total = a - b
  BY <1>2, <1>4, <1>6, <1>7
<1> QED BY <1>5, <1>8 DEF a, b, parts, KwhOf

(* buildHistory: whatever streams have data for a day, its parts add up.   *)
THEOREM UsageAlwaysAddsUp == Spec => []UsageAddsUp
<1>1. UsageAddsUp
  BY PartsAddUp DEF UsageAddsUp, P!UsageAddsUp, P!HasGrid
<1> QED BY <1>1, PTL

-----------------------------------------------------------------------------
(* The records of a day.                                                   *)

(* The parts of a sequence of sequences put together, part by part.        *)
Whole(h, cut, l) == h = [i \in 1..l |-> IF i = 1 THEN cut[i] ELSE h[i - 1] \o cut[i]]

LEMMA WholeExists == ASSUME NEW cut, NEW l \in Nat PROVE \E h : Whole(h, cut, l)
<1> DEFINE T == {n \in Nat : ~\E h : Whole(h, cut, n)}
<1>1. ASSUME T # {} PROVE FALSE
  <2>1. PICK m \in T : \A y \in T : ~(y < m)
    BY <1>1, SmallestOf
  <2>2. m # 0
    <3>1. Whole([i \in 1..0 |-> 0], cut, 0)
      BY DEF Whole
    <3> QED BY <2>1, <3>1
  <2>3. m - 1 \in Nat /\ m - 1 < m
    BY <2>1, <2>2
  <2>4. PICK h : Whole(h, cut, m - 1)
    BY <2>1, <2>3
  <2> DEFINE k == [i \in 1..m |-> IF i < m THEN h[i]
                                  ELSE IF i = 1 THEN cut[i] ELSE h[i - 1] \o cut[i]]
  <2>5. ASSUME NEW i \in 1..m PROVE k[i] = IF i = 1 THEN cut[i] ELSE k[i - 1] \o cut[i]
    <3>1. i # 1 => i - 1 \in 1..m /\ k[i - 1] = h[i - 1]
      BY <2>3
    <3>2. CASE i < m
      <4>1. i \in 1..(m - 1) /\ k[i] = h[i]
        BY <3>2, <2>3
      <4>2. h[i] = IF i = 1 THEN cut[i] ELSE h[i - 1] \o cut[i]
        BY <2>4, <4>1 DEF Whole
      <4> QED BY <3>1, <4>1, <4>2
    <3>3. CASE ~(i < m)
      <4>1. k[i] = IF i = 1 THEN cut[i] ELSE h[i - 1] \o cut[i]
        BY <3>3
      <4> QED BY <3>1, <4>1
    <3> QED BY <3>2, <3>3
  <2>6. k = [i \in 1..m |-> k[i]]
    OBVIOUS
  <2> HIDE DEF k
  <2>7. Whole(k, cut, m)
    BY <2>5, <2>6 DEF Whole
  <2> QED BY <2>1, <2>7
<1> QED BY <1>1

LEMMA WholeAt ==
    ASSUME NEW h, NEW cut, NEW l, Whole(h, cut, l), NEW i \in 1..l
    PROVE  h[i] = IF i = 1 THEN cut[i] ELSE h[i - 1] \o cut[i]
BY DEF Whole

LEMMA FlattenIs ==
    ASSUME NEW cut, Len(cut) \in Nat \ {0}
    PROVE  \E h : Whole(h, cut, Len(cut)) /\ P!FlattenSeq(cut) = h[Len(cut)]
<1> DEFINE l == Len(cut)
           flatten[i \in 1..Len(cut)] == IF i = 1 THEN cut[i] ELSE flatten[i - 1] \o cut[i]
<1>1. P!FlattenSeq(cut) = flatten[l]
  BY DEF P!FlattenSeq
<1>2. \E h : Whole(h, cut, l)
  BY WholeExists
<1>3. Whole(flatten, cut, l)
  BY <1>2 DEF Whole
<1> QED BY <1>1, <1>3

LEMMA WholeTyped ==
    ASSUME NEW cut \in Seq(Seq(Nat)), NEW h, Whole(h, cut, Len(cut))
    PROVE  \A i \in 1..Len(cut) : h[i] \in Seq(Nat)
<1> DEFINE T == {i \in 1..Len(cut) : h[i] \notin Seq(Nat)}
<1>0. Len(cut) \in Nat /\ T \subseteq Nat
  OBVIOUS
<1>1. ASSUME T # {} PROVE FALSE
  <2>1. PICK m \in T : \A y \in T : ~(y < m)
    <3> HIDE DEF T
    <3> QED BY <1>0, <1>1, SmallestOf
  <2>2. m \in 1..Len(cut) /\ cut[m] \in Seq(Nat) /\ h[m] \notin Seq(Nat)
    BY <2>1, ElementOfSeq
  <2>3. m # 1
    BY <2>2 DEF Whole
  <2>4. m - 1 \in 1..Len(cut) /\ m - 1 < m
    BY <1>0, <2>2, <2>3
  <2>5. h[m - 1] \in Seq(Nat)
    BY <2>1, <2>4
  <2>6. h[m] = h[m - 1] \o cut[m]
    BY <2>2, <2>3 DEF Whole
  <2>7. h[m - 1] \o cut[m] \in Seq(Nat)
    BY <2>2, <2>5, ConcatProperties
  <2> QED BY <2>2, <2>6, <2>7
<1> QED BY <1>1

(* It depends on the parts so far. *)
Alike(cut, alt, l) == \A i \in 1..l : cut[i] = alt[i]

LEMMA WholeAgree ==
    ASSUME NEW cut, NEW alt, NEW l \in Nat, NEW m \in Nat, NEW n \in Nat, l <= m, l <= n,
           NEW h, Whole(h, cut, m), NEW k, Whole(k, alt, n), Alike(cut, alt, l)
    PROVE  Alike(h, k, l)
<1> DEFINE T == {i \in 1..l : h[i] # k[i]}
<1>0. T \subseteq Nat
  OBVIOUS
<1>1. ASSUME T # {} PROVE FALSE
  <2>1. PICK y \in T : \A z \in T : ~(z < y)
    <3> HIDE DEF T
    <3> QED BY <1>0, <1>1, SmallestOf
  <2>2. y \in 1..l /\ y \in 1..m /\ y \in 1..n /\ (y # 1 => y - 1 \in 1..l /\ y - 1 < y)
    BY <2>1
  <2>3. y # 1 => h[y - 1] = k[y - 1]
    BY <2>1, <2>2
  <2>4. /\ h[y] = IF y = 1 THEN cut[y] ELSE h[y - 1] \o cut[y]
        /\ k[y] = IF y = 1 THEN alt[y] ELSE k[y - 1] \o alt[y]
    BY <2>2, WholeAt
  <2> QED BY <2>1, <2>2, <2>3, <2>4 DEF Alike
<1> QED BY <1>1 DEF Alike

LEMMA ConcatAppend ==
    ASSUME NEW a \in Seq(Nat), NEW b \in Seq(Nat), NEW t \in Nat
    PROVE  a \o Append(b, t) = Append(a \o b, t)
<1>1. Append(b, t) = b \o <<t>> /\ a \o b \in Seq(Nat) /\ <<t>> \in Seq(Nat)
  BY AppendIsConcat, ConcatProperties
<1>2. Append(a \o b, t) = (a \o b) \o <<t>>
  BY <1>1, AppendIsConcat
<1> QED BY <1>1, <1>2, ConcatAssociative

(* The last part gets longer by one, or another part of one is added.      *)
LEMMA FlattenLonger ==
    ASSUME NEW cut \in Seq(Seq(Nat)), cut # << >>, NEW t \in Nat
    PROVE  /\ P!FlattenSeq(cut) \in Seq(Nat)
           /\ P!FlattenSeq([cut EXCEPT ![Len(cut)] = Append(@, t)]) = Append(P!FlattenSeq(cut), t)
<1> DEFINE l == Len(cut)
           alt == [cut EXCEPT ![l] = Append(@, t)]
<1>1. l \in Nat \ {0} /\ l \in 1..l /\ cut[l] \in Seq(Nat)
  BY EmptySeq, ElementOfSeq
<1>2. Append(cut[l], t) \in Seq(Nat)
  BY <1>1, AppendProperties
<1>3. /\ alt \in Seq(Seq(Nat)) /\ Len(alt) = l /\ alt[l] = Append(cut[l], t)
      /\ \A i \in 1..(l - 1) : cut[i] = alt[i]
  BY <1>1, <1>2, ExceptSeq
<1> HIDE DEF alt, l
<1>4. PICK h : Whole(h, cut, l) /\ P!FlattenSeq(cut) = h[l]
  BY <1>1, FlattenIs DEF l
<1>5. PICK k : Whole(k, alt, l) /\ P!FlattenSeq(alt) = k[l]
  BY <1>1, <1>3, FlattenIs
<1>6. \A i \in 1..l : h[i] \in Seq(Nat)
  BY <1>4, WholeTyped DEF l
<1>7. k[l] = Append(h[l], t)
  <2>1. CASE l = 1
    BY <1>1, <1>3, <1>4, <1>5, <2>1 DEF Whole
  <2>2. CASE l # 1
    <3>1. l - 1 \in 1..l /\ l - 1 \in 1..(l - 1) /\ l - 1 \in Nat /\ l \in Nat /\ l - 1 <= l
      BY <1>1, <2>2
    <3>2. \A i \in 1..(l - 1) : h[i] = k[i]
      <4> DEFINE p == l - 1
      <4>1. p \in Nat /\ p <= l /\ Alike(cut, alt, p)
        BY <1>3, <3>1 DEF Alike
      <4> HIDE DEF p
      <4>2. Alike(h, k, p)
        BY <1>4, <1>5, <3>1, <4>1, WholeAgree
      <4> QED BY <4>2 DEF Alike, p
    <3>3. h[l] = h[l - 1] \o cut[l] /\ k[l] = k[l - 1] \o alt[l]
      BY <1>1, <1>4, <1>5, <2>2 DEF Whole
    <3>4. h[l - 1] \o Append(cut[l], t) = Append(h[l - 1] \o cut[l], t)
      BY <1>1, <1>6, <3>1, ConcatAppend
    <3> QED BY <1>3, <3>1, <3>2, <3>3, <3>4
  <2> QED BY <2>1, <2>2
<1> QED BY <1>1, <1>4, <1>5, <1>6, <1>7 DEF alt, l

LEMMA FlattenMore ==
    ASSUME NEW cut \in Seq(Seq(Nat)), NEW t \in Nat
    PROVE  P!FlattenSeq(Append(cut, <<t>>)) = Append(P!FlattenSeq(cut), t)
<1> DEFINE l == Len(cut)
           alt == Append(cut, <<t>>)
<1>1. l \in Nat /\ <<t>> \in Seq(Nat)
  OBVIOUS
<1>2. /\ alt \in Seq(Seq(Nat)) /\ Len(alt) = l + 1 /\ alt[l + 1] = <<t>>
      /\ \A i \in 1..l : cut[i] = alt[i]
  BY <1>1, AppendProperties
<1> HIDE DEF alt
<1>3. PICK k : Whole(k, alt, l + 1) /\ P!FlattenSeq(alt) = k[l + 1]
  <2>1. Len(alt) \in Nat \ {0}
    BY <1>1, <1>2
  <2> QED BY <1>2, <2>1, FlattenIs
<1>4. CASE cut = << >>
  <2>1. l = 0 /\ P!FlattenSeq(cut) = << >>
    BY <1>4 DEF P!FlattenSeq
  <2>2. k[1] = <<t>>
    BY <1>2, <1>3, <2>1 DEF Whole
  <2> QED BY <1>3, <2>1, <2>2 DEF alt
<1>5. CASE cut # << >>
  <2> DEFINE m == l + 1
  <2>1. /\ l \in Nat \ {0} /\ l \in Nat /\ l \in 1..l /\ l <= l
        /\ m \in Nat /\ m \in 1..m /\ m # 1 /\ m - 1 = l /\ l <= m
    BY <1>5, EmptySeq
  <2>2. PICK h : Whole(h, cut, l) /\ P!FlattenSeq(cut) = h[l]
    BY <2>1, FlattenIs
  <2>3. h[l] \in Seq(Nat)
    BY <2>1, <2>2, WholeTyped
  <2>4. Whole(k, alt, m) /\ P!FlattenSeq(alt) = k[m] /\ alt[m] = <<t>> /\ Alike(cut, alt, l)
    BY <1>2, <1>3 DEF Alike
  <2> HIDE DEF l, m
  <2>5. Alike(h, k, l)
    BY <2>1, <2>2, <2>4, WholeAgree
  <2>6. k[m] = h[l] \o <<t>>
    <3>1. k[m] = k[m - 1] \o alt[m]
      BY <2>1, <2>4 DEF Whole
    <3>2. h[l] = k[l]
      BY <2>1, <2>5 DEF Alike
    <3> QED BY <2>1, <2>4, <3>1, <3>2
  <2>7. Append(h[l], t) = h[l] \o <<t>>
    BY <2>3, AppendIsConcat
  <2> QED BY <2>2, <2>4, <2>6, <2>7 DEF alt
<1> QED BY <1>4, <1>5

-----------------------------------------------------------------------------
(* The records cut record by record: the last one of a set is its largest. *)
Cut(cut, t) ==
    IF cut # << >> /\ t - P!Last(P!Last(cut)) <= P!GapThreshold
    THEN [cut EXCEPT ![Len(cut)] = Append(@, t)] ELSE Append(cut, <<t>>)

Cuts(g, rs, dom) ==
    g = [s \in dom |-> IF s = {} THEN << >> ELSE Cut(g[s \ {P!Max(s)}], rs[P!Max(s)])]

LEMMA MaxOfSome ==
    ASSUME NEW n \in Nat, NEW s \in SUBSET (1..n), s # {}
    PROVE  P!Max(s) \in s /\ \A y \in s : y <= P!Max(s)
<1> DEFINE T == {n - x : x \in s}
<1>1. T \subseteq Nat /\ T # {}
  OBVIOUS
<1>2. PICK m \in T : \A y \in T : ~(y < m)
  BY <1>1, SmallestOf
<1>3. PICK x \in s : m = n - x
  OBVIOUS
<1>4. \A y \in s : x >= y
  <2> SUFFICES ASSUME NEW y \in s PROVE x >= y
    OBVIOUS
  <2>1. ~(n - y < m)
    BY <1>2
  <2> QED BY <1>3, <2>1
<1>5. \E z \in s : \A y \in s : z >= y
  BY <1>4
<1> QED BY <1>5 DEF P!Max

LEMMA CutsExist == ASSUME NEW rs, NEW n \in Nat PROVE \E g : Cuts(g, rs, SUBSET (1..n))
<1> DEFINE T == {m \in Nat : ~\E g : Cuts(g, rs, SUBSET (1..m))}
<1>0. T \subseteq Nat
  OBVIOUS
<1>1. ASSUME T # {} PROVE FALSE
  <2>1. PICK m \in T : \A y \in T : ~(y < m)
    <3> HIDE DEF T
    <3> QED BY <1>0, <1>1, SmallestOf
  <2>2. m \in Nat /\ \A g : ~Cuts(g, rs, SUBSET (1..m))
    BY <2>1
  <2>3. m # 0
    <3>1. SUBSET (1..0) = {{}}
      OBVIOUS
    <3>2. Cuts([s \in {{}} |-> << >>], rs, {{}})
      BY DEF Cuts
    <3> QED BY <2>2, <3>1, <3>2
  <2>4. m - 1 \in Nat /\ m - 1 < m
    BY <2>2, <2>3
  <2>5. PICK h : Cuts(h, rs, SUBSET (1..(m - 1)))
    BY <2>1, <2>4
  <2> DEFINE Rest(s, g) == IF s = {} THEN << >> ELSE Cut(g[s \ {P!Max(s)}], rs[P!Max(s)])
             k == [s \in SUBSET (1..m) |-> Rest(s, h)]
  <2>6. \A s \in SUBSET (1..(m - 1)) : s \in SUBSET (1..m) /\ k[s] = h[s]
    <3>1. \A s \in SUBSET (1..(m - 1)) : s \in SUBSET (1..m)
      BY <2>2
    <3>2. \A s \in SUBSET (1..(m - 1)) : h[s] = Rest(s, h)
      BY <2>5 DEF Cuts
    <3> QED BY <3>1, <3>2
  <2>7. ASSUME NEW s \in SUBSET (1..m) PROVE Rest(s, h) = Rest(s, k)
    <3>1. ASSUME s # {} PROVE s \ {P!Max(s)} \in SUBSET (1..(m - 1))
      <4>1. P!Max(s) \in s /\ \A y \in s : y <= P!Max(s)
        BY <2>2, <3>1, MaxOfSome
      <4>2. ASSUME NEW y \in s, y # P!Max(s) PROVE y \in 1..(m - 1)
        <5>1. y \in 1..m /\ P!Max(s) \in 1..m /\ y <= P!Max(s)
          BY <4>1
        <5> QED BY <2>2, <4>2, <5>1
      <4> QED BY <4>2
    <3> HIDE DEF k
    <3> QED BY <2>6, <3>1
  <2>8. k = [s \in SUBSET (1..m) |-> Rest(s, k)]
    BY <2>7
  <2> HIDE DEF k
  <2>9. Cuts(k, rs, SUBSET (1..m))
    BY <2>8 DEF Cuts
  <2> QED BY <2>2, <2>9
<1> QED BY <1>1

LEMMA SegmentsSteps ==
    ASSUME NEW rs \in Seq(Nat)
    PROVE  \E c : /\ c[0] = << >> /\ \A k \in 1..Len(rs) : c[k] = Cut(c[k - 1], rs[k])
                  /\ P!Segments(rs) = c[Len(rs)]
<1> DEFINE n == Len(rs)
           iter[s \in SUBSET DOMAIN rs] ==
               IF s = {} THEN << >> ELSE Cut(iter[s \ {P!Max(s)}], rs[P!Max(s)])
           c == [k \in 0..n |-> iter[1..k]]
<1>1. n \in Nat /\ DOMAIN rs = 1..n
  BY LenProperties
<1>2. P!Segments(rs) = iter[DOMAIN rs]
  BY DEF P!Segments, P!FoldLeft, P!MapThenFoldSet, Cut
<1>3. \E g : Cuts(g, rs, SUBSET DOMAIN rs)
  BY <1>1, CutsExist
<1>4. Cuts(iter, rs, SUBSET DOMAIN rs)
  BY <1>3 DEF Cuts
<1> HIDE DEF iter
<1>5. iter[{}] = << >> /\ 1..0 = {}
  BY <1>4 DEF Cuts
<1>6. ASSUME NEW k \in 1..n PROVE iter[1..k] = Cut(iter[1..(k - 1)], rs[k])
  <2>0. n \in Nat /\ k \in Nat /\ 1 <= k /\ k <= n /\ k \in 1..k
    BY <1>1
  <2>1. 1..k \in SUBSET DOMAIN rs /\ 1..k # {} /\ k \in 1..k /\ 1..k \in SUBSET (1..n)
    <3> HIDE DEF n
    <3>1. \A i \in 1..k : i \in 1..n
      BY <2>0
    <3> QED BY <1>1, <2>0, <3>1
  <2>2. P!Max(1..k) = k
    <3>1. P!Max(1..k) \in 1..k /\ k <= P!Max(1..k)
      BY <1>1, <2>1, MaxOfSome
    <3> QED BY <3>1
  <2>3. (1..k) \ {k} = 1..(k - 1)
    OBVIOUS
  <2>4. iter[1..k] = Cut(iter[(1..k) \ {P!Max(1..k)}], rs[P!Max(1..k)])
    BY <1>4, <2>1 DEF Cuts
  <2> QED BY <2>2, <2>3, <2>4
<1>7. /\ c[0] = << >> /\ c[n] = iter[DOMAIN rs]
      /\ \A k \in 1..n : c[k] = iter[1..k] /\ c[k - 1] = iter[1..(k - 1)]
  BY <1>1, <1>5
<1> HIDE DEF c
<1> QED BY <1>2, <1>6, <1>7

(* The first k records cut: what is on a line, what is between two lines,  *)
(* and nothing else.                                                       *)
Ascending(rs) == \A i, j \in DOMAIN rs : i <= j => rs[i] <= rs[j]

Lines(cut) ==
    /\ cut \in Seq(Seq(Nat))
    /\ \A i \in DOMAIN cut : cut[i] # << >> /\ Head(cut[i]) <= P!Last(cut[i])
    /\ \A i \in DOMAIN cut : \A j \in 2..Len(cut[i]) : cut[i][j] - cut[i][j - 1] <= P!GapThreshold
Ended(cut, rs, k) == IF k = 0 THEN cut = << >> ELSE cut # << >> /\ P!Last(P!Last(cut)) = rs[k]
Complete(cut, rs, k) ==
    /\ P!FlattenSeq(cut) \in Seq(Nat) /\ Len(P!FlattenSeq(cut)) = k
    /\ \A i \in 1..k : P!FlattenSeq(cut)[i] = rs[i]
Between(cut, rs, k) ==
    \A i \in 1..(Len(cut) - 1) : \E j \in 1..(k - 1) :
        P!Last(cut[i]) = rs[j] /\ Head(cut[i + 1]) = rs[j + 1] /\ rs[j + 1] - rs[j] > P!GapThreshold
Covered(cut, rs, k) ==
    \A j \in 1..(k - 1) :
        \/ \E i \in DOMAIN cut : Head(cut[i]) <= rs[j] /\ rs[j + 1] <= P!Last(cut[i])
        \/ \E i \in 1..(Len(cut) - 1) : P!Last(cut[i]) = rs[j] /\ Head(cut[i + 1]) = rs[j + 1]

Parted(cut, rs, k) ==
    /\ Lines(cut)
    /\ Ended(cut, rs, k)
    /\ Complete(cut, rs, k)
    /\ Between(cut, rs, k)
    /\ Covered(cut, rs, k)

LEMMA AppendOne ==
    ASSUME NEW p \in Seq(Nat), NEW t \in Nat
    PROVE  /\ Append(p, t) \in Seq(Nat) /\ Append(p, t) # << >> /\ Len(Append(p, t)) = Len(p) + 1
           /\ P!Last(Append(p, t)) = t /\ (p # << >> => Head(Append(p, t)) = Head(p))
           /\ \A j \in 1..Len(p) : Append(p, t)[j] = p[j]
<1>1. Head(Append(p, t)) = IF p = << >> THEN t ELSE Head(p)
  BY HeadTailAppend
<1>2. /\ Append(p, t) \in Seq(Nat) /\ Append(p, t) # << >> /\ Len(Append(p, t)) = Len(p) + 1
      /\ Append(p, t)[Len(p) + 1] = t /\ \A j \in 1..Len(p) : Append(p, t)[j] = p[j]
  BY AppendProperties
<1>3. P!Last(Append(p, t)) = t
  BY <1>2 DEF P!Last
<1> QED BY <1>1, <1>2, <1>3

LEMMA AppendPart ==
    ASSUME NEW p \in Seq(Seq(Nat)), NEW q \in Seq(Nat)
    PROVE  /\ Append(p, q) \in Seq(Seq(Nat)) /\ Append(p, q) # << >> /\ Len(Append(p, q)) = Len(p) + 1
           /\ Append(p, q)[Len(p) + 1] = q /\ DOMAIN Append(p, q) = 1..(Len(p) + 1)
           /\ \A j \in 1..Len(p) : Append(p, q)[j] = p[j]
BY AppendProperties, LenProperties

LEMMA PartedNone == ASSUME NEW rs \in Seq(Nat) PROVE Parted(<< >>, rs, 0)
<1>1. P!FlattenSeq(<< >>) = << >>
  BY DEF P!FlattenSeq
<1>2. /\ << >> \in Seq(Nat) /\ << >> \in Seq(Seq(Nat)) /\ Len(<< >>) = 0 /\ DOMAIN << >> = {}
      /\ 1..(0 - 1) = {} /\ 1..0 = {}
  OBVIOUS
<1> QED BY <1>1, <1>2 DEF Parted, Lines, Ended, Complete, Between, Covered

(* The next record continues the last line. *)
LEMMA PartedLonger ==
    ASSUME NEW rs \in Seq(Nat), Ascending(rs), NEW k \in 1..Len(rs), NEW cut, Parted(cut, rs, k - 1),
           cut # << >>, rs[k] - P!Last(P!Last(cut)) <= P!GapThreshold
    PROVE  Parted([cut EXCEPT ![Len(cut)] = Append(@, rs[k])], rs, k)
<1> DEFINE l == Len(cut)
           t == rs[k]
           p == cut[l]
           q == Append(p, t)
           alt == [cut EXCEPT ![l] = q]
<1>1. /\ Len(rs) \in Nat /\ DOMAIN rs = 1..Len(rs) /\ t \in Nat /\ k \in Nat /\ 1 <= k
      /\ \A i \in 1..Len(rs) : rs[i] \in Nat
  BY LenProperties, ElementOfSeq
<1>2. cut \in Seq(Seq(Nat)) /\ l \in Nat \ {0} /\ l \in 1..l /\ DOMAIN cut = 1..l /\ p \in Seq(Nat)
  BY EmptySeq, ElementOfSeq, LenProperties DEF Parted, Lines
<1>3. p # << >> /\ Head(p) <= P!Last(p) /\ Head(p) \in Nat /\ P!Last(p) \in Nat
      /\ Len(p) \in Nat \ {0} /\ P!Last(p) = p[Len(p)]
  <2>1. p # << >> /\ Head(p) <= P!Last(p)
    BY <1>2 DEF Parted, Lines
  <2> HIDE DEF p
  <2>2. Len(p) \in Nat \ {0} /\ Head(p) \in Nat
    BY <1>2, <2>1
  <2>3. Len(p) \in 1..Len(p)
    BY <2>2
  <2>4. p[Len(p)] \in Nat
    BY <1>2, <2>3, ElementOfSeq
  <2> QED BY <2>1, <2>2, <2>4 DEF P!Last
<1>4. P!Last(cut) = p
  BY DEF P!Last
<1>5. k # 1 /\ P!Last(p) = rs[k - 1] /\ P!Last(p) <= t /\ t - P!Last(p) <= P!GapThreshold
  <2>1. k - 1 # 0 /\ P!Last(p) = rs[k - 1]
    BY <1>4 DEF Parted, Ended
  <2>2. k - 1 \in DOMAIN rs /\ k \in DOMAIN rs /\ k - 1 <= k
    BY <1>1, <2>1
  <2>3. P!Last(p) <= t
    BY <2>1, <2>2 DEF Ascending
  <2> QED BY <1>4, <2>1, <2>3
<1>6. [cut EXCEPT ![Len(cut)] = Append(@, rs[k])] = alt
  OBVIOUS
<1>7. /\ q \in Seq(Nat) /\ q # << >> /\ Len(q) = Len(p) + 1 /\ Head(q) = Head(p) /\ P!Last(q) = t
      /\ \A j \in 1..Len(p) : q[j] = p[j]
  <2> HIDE DEF p, t
  <2> QED BY <1>1, <1>2, <1>3, AppendOne
<1>8. /\ alt \in Seq(Seq(Nat)) /\ Len(alt) = l /\ DOMAIN alt = 1..l /\ alt[l] = q
      /\ \A i \in 1..l : i # l => alt[i] = cut[i]
  <2> HIDE DEF q
  <2> QED BY <1>2, <1>7, ExceptSeq
<1>9. P!FlattenSeq(alt) = Append(P!FlattenSeq(cut), t)
  <2> HIDE DEF P!FlattenSeq
  <2> QED BY <1>1, <1>2, <1>6, FlattenLonger
<1> HIDE DEF l, t, p, q, alt
<1>10. p = cut[l] /\ t = rs[k]
  BY DEF p, t
<1>11. Lines(alt)
  <2>1. \A i \in 1..l : i # l => /\ cut[i] # << >> /\ Head(cut[i]) <= P!Last(cut[i])
                                /\ \A j \in 2..Len(cut[i]) : cut[i][j] - cut[i][j - 1] <= P!GapThreshold
    BY <1>2 DEF Parted, Lines
  <2>2. q # << >> /\ Head(q) <= P!Last(q)
    BY <1>1, <1>3, <1>5, <1>7
  <2>3. ASSUME NEW j \in 2..Len(q) PROVE q[j] - q[j - 1] <= P!GapThreshold
    <3>0. Len(p) \in Nat /\ Len(q) = Len(p) + 1
      BY <1>3, <1>7
    <3>4. j - 1 \in 1..Len(p)
      BY <3>0
    <3>1. q[j - 1] = p[j - 1]
      BY <1>7, <3>4
    <3>2. CASE j = Len(q)
      <4>1. q[j] = t /\ j - 1 = Len(p)
        BY <1>3, <1>7, <3>2 DEF P!Last
      <4> QED BY <1>3, <1>5, <3>1, <4>1
    <3>3. CASE j # Len(q)
      <4>1. j \in 2..Len(p) /\ j \in 1..Len(p)
        BY <3>0, <3>3
      <4>3. q[j] = p[j]
        BY <1>7, <4>1
      <4>2. p[j] - p[j - 1] <= P!GapThreshold
        BY <1>2, <1>10, <4>1 DEF Parted, Lines
      <4> QED BY <3>1, <4>2, <4>3
    <3> QED BY <3>2, <3>3
  <2> QED BY <1>8, <2>1, <2>2, <2>3 DEF Lines
<1>12. Ended(alt, rs, k)
  <2>1. alt # << >> /\ P!Last(alt) = q
    BY <1>2, <1>8 DEF P!Last
  <2> QED BY <1>1, <1>7, <1>10, <2>1 DEF Ended
<1>13. Complete(alt, rs, k)
  <2> DEFINE f == P!FlattenSeq(cut)
  <2>1. f \in Seq(Nat) /\ Len(f) = k - 1 /\ \A i \in 1..(k - 1) : f[i] = rs[i]
    BY DEF Parted, Complete
  <2> HIDE DEF f
  <2>2. /\ Append(f, t) \in Seq(Nat) /\ Len(Append(f, t)) = k /\ Append(f, t)[k] = t
        /\ \A i \in 1..(k - 1) : Append(f, t)[i] = rs[i]
    BY <1>1, <2>1, AppendProperties
  <2>3. \A i \in 1..k : Append(f, t)[i] = rs[i]
    BY <1>1, <1>10, <2>2
  <2>4. P!FlattenSeq(alt) = Append(f, t)
    BY <1>9 DEF f
  <2> QED BY <2>2, <2>3, <2>4 DEF Complete
<1>14. Between(alt, rs, k)
  <2> SUFFICES ASSUME NEW i \in 1..(l - 1)
               PROVE  \E j \in 1..(k - 1) : /\ P!Last(alt[i]) = rs[j] /\ Head(alt[i + 1]) = rs[j + 1]
                                            /\ rs[j + 1] - rs[j] > P!GapThreshold
    BY <1>8 DEF Between
  <2>1. PICK j \in 1..((k - 1) - 1) : /\ P!Last(cut[i]) = rs[j] /\ Head(cut[i + 1]) = rs[j + 1]
                                       /\ rs[j + 1] - rs[j] > P!GapThreshold
    BY DEF Parted, Between, l
  <2>2. i \in 1..l /\ i # l /\ i + 1 \in 1..l
    BY <1>2
  <2>3. alt[i] = cut[i] /\ Head(alt[i + 1]) = Head(cut[i + 1])
    BY <1>7, <1>8, <1>10, <2>2
  <2>4. j \in 1..(k - 1)
    BY <1>1
  <2> QED BY <2>1, <2>3, <2>4
<1>15. Covered(alt, rs, k)
  <2> SUFFICES ASSUME NEW j \in 1..(k - 1)
               PROVE  \/ \E i \in 1..l : Head(alt[i]) <= rs[j] /\ rs[j + 1] <= P!Last(alt[i])
                      \/ \E i \in 1..(l - 1) : P!Last(alt[i]) = rs[j] /\ Head(alt[i + 1]) = rs[j + 1]
    BY <1>8 DEF Covered
  <2>0. \A i \in 1..l : Head(alt[i]) = Head(cut[i])
    BY <1>7, <1>8, <1>10
  <2>1. CASE j = k - 1
    <3>1. j + 1 = k /\ rs[j] = P!Last(p) /\ rs[j + 1] = t
      BY <1>1, <1>5, <1>10, <2>1
    <3>2. Head(alt[l]) = Head(p) /\ P!Last(alt[l]) = t
      BY <1>7, <1>8
    <3>3. t <= t /\ t \in Nat
      BY <1>1
    <3>4. Head(alt[l]) <= rs[j] /\ rs[j + 1] <= P!Last(alt[l])
      BY <1>3, <3>1, <3>2, <3>3
    <3> QED BY <1>2, <3>4
  <2>2. CASE j # k - 1
    <3>1. j \in 1..((k - 1) - 1)
      BY <1>1, <2>2
    <3>2. CASE \E i \in DOMAIN cut : Head(cut[i]) <= rs[j] /\ rs[j + 1] <= P!Last(cut[i])
      <4>1. PICK i \in 1..l : Head(cut[i]) <= rs[j] /\ rs[j + 1] <= P!Last(cut[i])
        BY <1>2, <3>2
      <4>2. rs[j + 1] \in Nat
        BY <1>1, <3>1
      <4>3. rs[j + 1] <= P!Last(alt[i])
        <5>1. CASE i = l
          <6>1. P!Last(alt[i]) = t /\ rs[j + 1] <= P!Last(p)
            BY <1>7, <1>8, <1>10, <4>1, <5>1
          <6>2. P!Last(p) <= t /\ P!Last(p) \in Nat /\ t \in Nat
            BY <1>1, <1>3, <1>5
          <6>3. rs[j + 1] <= t
            BY <4>2, <6>1, <6>2
          <6> QED BY <6>1, <6>3
        <5>2. CASE i # l
          BY <1>8, <4>1, <5>2
        <5> QED BY <5>1, <5>2
      <4> QED BY <2>0, <4>1, <4>3
    <3>3. CASE \E i \in 1..(Len(cut) - 1) : P!Last(cut[i]) = rs[j] /\ Head(cut[i + 1]) = rs[j + 1]
      <4>1. PICK i \in 1..(l - 1) : P!Last(cut[i]) = rs[j] /\ Head(cut[i + 1]) = rs[j + 1]
        BY <3>3 DEF l
      <4>2. i \in 1..l /\ i # l /\ i + 1 \in 1..l
        BY <1>2
      <4> QED BY <1>8, <2>0, <4>1, <4>2
    <3> QED BY <3>1, <3>2, <3>3 DEF Parted, Covered
  <2> QED BY <2>1, <2>2
<1>16. Parted(alt, rs, k)
  BY <1>11, <1>12, <1>13, <1>14, <1>15 DEF Parted
<1> QED BY <1>6, <1>16

(* The next record begins a line. *)
LEMMA PartedMore ==
    ASSUME NEW rs \in Seq(Nat), Ascending(rs), NEW k \in 1..Len(rs), NEW cut, Parted(cut, rs, k - 1),
           cut = << >> \/ ~(rs[k] - P!Last(P!Last(cut)) <= P!GapThreshold)
    PROVE  Parted(Append(cut, <<rs[k]>>), rs, k)
<1> DEFINE l == Len(cut)
           t == rs[k]
           q == <<t>>
           alt == Append(cut, q)
<1>1. /\ Len(rs) \in Nat /\ DOMAIN rs = 1..Len(rs) /\ t \in Nat /\ k \in Nat /\ 1 <= k
      /\ \A i \in 1..Len(rs) : rs[i] \in Nat
  BY LenProperties, ElementOfSeq
<1>2. cut \in Seq(Seq(Nat)) /\ l \in Nat /\ DOMAIN cut = 1..l /\ (cut = << >> <=> l = 0)
  BY EmptySeq, LenProperties DEF Parted, Lines
<1>3. q \in Seq(Nat) /\ q # << >> /\ Len(q) = 1 /\ Head(q) = t /\ P!Last(q) = t
  BY <1>1 DEF P!Last
<1>4. /\ alt \in Seq(Seq(Nat)) /\ Len(alt) = l + 1 /\ DOMAIN alt = 1..(l + 1)
      /\ alt[l + 1] = q /\ alt # << >>
      /\ \A i \in 1..l : alt[i] = cut[i]
  <2> HIDE DEF q
  <2> QED BY <1>2, <1>3, AppendPart
<1>5. P!FlattenSeq(alt) = Append(P!FlattenSeq(cut), t)
  <2> HIDE DEF P!FlattenSeq
  <2> QED BY <1>1, <1>2, FlattenMore
<1>6. l # 0 => /\ k # 1 /\ P!Last(cut[l]) = rs[k - 1] /\ t - rs[k - 1] > P!GapThreshold
  <2> SUFFICES ASSUME l # 0 PROVE k # 1 /\ P!Last(cut[l]) = rs[k - 1] /\ t - rs[k - 1] > P!GapThreshold
    OBVIOUS
  <2>1. k - 1 # 0 /\ P!Last(P!Last(cut)) = rs[k - 1] /\ P!Last(cut) = cut[l]
    BY <1>2 DEF Parted, Ended, P!Last
  <2>2. rs[k - 1] \in Nat
    BY <1>1, <2>1
  <2>3. ~(t - rs[k - 1] <= P!GapThreshold)
    BY <1>2, <2>1
  <2> QED BY <1>1, <2>1, <2>2, <2>3 DEF P!GapThreshold
<1>7. l = 0 => k = 1
  BY <1>1, <1>2 DEF Parted, Ended
<1> HIDE DEF l, t, q, alt
<1>10. t = rs[k]
  BY DEF t
<1>11. Lines(alt)
  <2>1. \A i \in 1..l : /\ cut[i] # << >> /\ Head(cut[i]) <= P!Last(cut[i])
                        /\ \A j \in 2..Len(cut[i]) : cut[i][j] - cut[i][j - 1] <= P!GapThreshold
    BY <1>2 DEF Parted, Lines
  <2>2. q # << >> /\ Head(q) <= P!Last(q) /\ 2..Len(q) = {}
    BY <1>1, <1>3
  <2>3. \A i \in 1..(l + 1) : i \in 1..l \/ i = l + 1
    BY <1>2
  <2> QED BY <1>4, <2>1, <2>2, <2>3 DEF Lines
<1>12. Ended(alt, rs, k)
  <2>1. P!Last(alt) = q
    BY <1>4 DEF P!Last
  <2> QED BY <1>1, <1>3, <1>4, <1>10, <2>1 DEF Ended
<1>13. Complete(alt, rs, k)
  <2> DEFINE f == P!FlattenSeq(cut)
  <2>1. f \in Seq(Nat) /\ Len(f) = k - 1 /\ \A i \in 1..(k - 1) : f[i] = rs[i]
    BY DEF Parted, Complete
  <2> HIDE DEF f
  <2>2. /\ Append(f, t) \in Seq(Nat) /\ Len(Append(f, t)) = k /\ Append(f, t)[k] = t
        /\ \A i \in 1..(k - 1) : Append(f, t)[i] = rs[i]
    BY <1>1, <2>1, AppendProperties
  <2>3. \A i \in 1..k : Append(f, t)[i] = rs[i]
    BY <1>1, <1>10, <2>2
  <2>4. P!FlattenSeq(alt) = Append(f, t)
    BY <1>5 DEF f
  <2> QED BY <2>2, <2>3, <2>4 DEF Complete
<1>14. Between(alt, rs, k)
  <2> SUFFICES ASSUME NEW i \in 1..l
               PROVE  \E j \in 1..(k - 1) : /\ P!Last(alt[i]) = rs[j] /\ Head(alt[i + 1]) = rs[j + 1]
                                            /\ rs[j + 1] - rs[j] > P!GapThreshold
    <3>1. (l + 1) - 1 = l
      BY <1>2
    <3> QED BY <1>4, <3>1 DEF Between
  <2>1. CASE i = l
    <3>1. k - 1 \in 1..(k - 1) /\ (k - 1) + 1 = k /\ l # 0
      BY <1>1, <1>2, <1>6, <2>1
    <3>2. P!Last(alt[i]) = rs[k - 1] /\ Head(alt[i + 1]) = rs[k] /\ rs[k] - rs[k - 1] > P!GapThreshold
      BY <1>3, <1>4, <1>6, <1>10, <2>1, <3>1
    <3> QED BY <3>1, <3>2
  <2>2. CASE i # l
    <3>0. i \in 1..(l - 1) /\ i + 1 \in 1..l
      BY <1>2, <2>2
    <3>1. PICK j \in 1..((k - 1) - 1) : /\ P!Last(cut[i]) = rs[j] /\ Head(cut[i + 1]) = rs[j + 1]
                                         /\ rs[j + 1] - rs[j] > P!GapThreshold
      BY <3>0 DEF Parted, Between, l
    <3>2. alt[i] = cut[i] /\ alt[i + 1] = cut[i + 1]
      BY <1>4, <3>0
    <3>3. j \in 1..(k - 1)
      BY <1>1
    <3> QED BY <3>1, <3>2, <3>3
  <2> QED BY <2>1, <2>2
<1>15. Covered(alt, rs, k)
  <2> SUFFICES ASSUME NEW j \in 1..(k - 1)
               PROVE  \/ \E i \in 1..(l + 1) : Head(alt[i]) <= rs[j] /\ rs[j + 1] <= P!Last(alt[i])
                      \/ \E i \in 1..l : P!Last(alt[i]) = rs[j] /\ Head(alt[i + 1]) = rs[j + 1]
    <3>1. (l + 1) - 1 = l
      BY <1>2
    <3> QED BY <1>4, <3>1 DEF Covered
  <2>1. CASE j = k - 1
    <3>1. l # 0 /\ l \in 1..l /\ j + 1 = k
      BY <1>1, <1>2, <1>7, <2>1
    <3>2. P!Last(alt[l]) = rs[j] /\ Head(alt[l + 1]) = rs[j + 1]
      BY <1>3, <1>4, <1>6, <1>10, <2>1, <3>1
    <3> QED BY <3>1, <3>2
  <2>2. CASE j # k - 1
    <3>1. j \in 1..((k - 1) - 1)
      BY <1>1, <2>2
    <3>2. CASE \E i \in DOMAIN cut : Head(cut[i]) <= rs[j] /\ rs[j + 1] <= P!Last(cut[i])
      <4>1. PICK i \in 1..l : Head(cut[i]) <= rs[j] /\ rs[j + 1] <= P!Last(cut[i])
        BY <1>2, <3>2
      <4>2. i \in 1..(l + 1) /\ alt[i] = cut[i]
        BY <1>2, <1>4
      <4> QED BY <4>1, <4>2
    <3>3. CASE \E i \in 1..(Len(cut) - 1) : P!Last(cut[i]) = rs[j] /\ Head(cut[i + 1]) = rs[j + 1]
      <4>1. PICK i \in 1..(l - 1) : P!Last(cut[i]) = rs[j] /\ Head(cut[i + 1]) = rs[j + 1]
        BY <3>3 DEF l
      <4>2. i \in 1..l /\ i + 1 \in 1..l
        BY <1>2
      <4> QED BY <1>4, <4>1, <4>2
    <3> QED BY <3>1, <3>2, <3>3 DEF Parted, Covered
  <2> QED BY <2>1, <2>2
<1>16. Parted(alt, rs, k)
  BY <1>11, <1>12, <1>13, <1>14, <1>15 DEF Parted
<1> QED BY <1>16 DEF alt, q, t

LEMMA PartedAll ==
    ASSUME NEW rs \in Seq(Nat), Ascending(rs) PROVE Parted(P!Segments(rs), rs, Len(rs))
<1> DEFINE n == Len(rs)
<1>1. PICK c : /\ c[0] = << >> /\ \A k \in 1..n : c[k] = Cut(c[k - 1], rs[k])
               /\ P!Segments(rs) = c[n]
  BY SegmentsSteps
<1>2. n \in Nat
  BY LenProperties
<1> DEFINE T == {k \in 0..n : ~Parted(c[k], rs, k)}
<1>3. T \subseteq Nat
  BY <1>2
<1>4. ASSUME T # {} PROVE FALSE
  <2>1. PICK m \in T : \A y \in T : ~(y < m)
    <3> HIDE DEF T
    <3> QED BY <1>3, <1>4, SmallestOf
  <2>2. m # 0
    BY <1>1, <2>1, PartedNone
  <2>3. m \in 1..n /\ m - 1 \in 0..n /\ m - 1 < m
    BY <1>2, <2>1, <2>2
  <2>4. Parted(c[m - 1], rs, m - 1)
    BY <2>1, <2>3
  <2>5. c[m] = Cut(c[m - 1], rs[m])
    BY <1>1, <2>3
  <2>6. Parted(Cut(c[m - 1], rs[m]), rs, m)
    <3> DEFINE cut == c[m - 1]
    <3> HIDE DEF cut
    <3>1. Parted(cut, rs, m - 1)
      BY <2>4 DEF cut
    <3>2. Parted(Cut(cut, rs[m]), rs, m)
      BY <2>3, <3>1, PartedLonger, PartedMore DEF Cut
    <3> QED BY <3>2 DEF cut
  <2> QED BY <2>1, <2>5, <2>6
<1> QED BY <1>1, <1>2, <1>4

(* Of two times the one cannot be both before and not before the other.    *)
LEMMA NotBoth ==
    ASSUME NEW a \in Nat, NEW b \in Nat, a < b, b <= a
    PROVE  FALSE
OBVIOUS

(* A time that does not come after a time before a third comes before it.  *)
LEMMA Through ==
    ASSUME NEW a \in Nat, NEW b \in Nat, NEW c \in Nat, a <= b, b <= c
    PROVE  a <= c
OBVIOUS

(* Two times no further apart than the cadence of the log.                 *)
LEMMA Near ==
    ASSUME NEW a \in Nat, NEW b \in Nat,
           a <= b \/ a - b <= P!GapThreshold, b <= a \/ b - a <= P!GapThreshold
    PROVE  a - b \in -P!GapThreshold..P!GapThreshold
BY DEF P!GapThreshold

(* Any time of the day is on a line, flagged, or near the ends.            *)
LEMMA Explained ==
    ASSUME NEW rs \in Seq(Nat), rs # << >>, Ascending(rs), NEW end \in Nat
    PROVE  /\ P!FlattenSeq(P!Segments(rs)) = rs
           /\ Lines(P!Segments(rs))
           /\ \A f \in P!NoData(rs, end) : /\ f[2] - f[1] > P!GapThreshold
                                            /\ \A i \in DOMAIN rs : ~(f[1] < rs[i] /\ rs[i] < f[2])
           /\ \A t \in 0..end :
                  \/ \E i \in DOMAIN P!Segments(rs) :
                        Head(P!Segments(rs)[i]) <= t /\ t <= P!Last(P!Segments(rs)[i])
                  \/ \E f \in P!NoData(rs, end) : f[1] <= t /\ t <= f[2]
                  \/ \E i \in {1, Len(rs)} : rs[i] - t \in -P!GapThreshold..P!GapThreshold
<1> DEFINE cut == P!Segments(rs)
           n == Len(rs)
           between == {<<P!Last(cut[i]), Head(cut[i + 1])>> : i \in 1..(Len(cut) - 1)}
           before == {<<0, Head(rs)>> : i \in {i \in {1} : Head(rs) > P!GapThreshold}}
           after == {<<P!Last(rs), end>> : i \in {i \in {1} : end - P!Last(rs) > P!GapThreshold}}
<1>1. P!NoData(rs, end) = between \cup before \cup after
  BY DEF P!NoData
<1>2. Parted(cut, rs, n)
  BY PartedAll
<1>3. /\ n \in Nat \ {0} /\ DOMAIN rs = 1..n /\ 1 \in 1..n /\ n \in 1..n
      /\ \A i \in 1..n : rs[i] \in Nat
      /\ Head(rs) = rs[1] /\ P!Last(rs) = rs[n]
  BY EmptySeq, LenProperties, ElementOfSeq DEF P!Last
<1>4. \A i, j \in 1..n : i <= j => rs[i] <= rs[j]
  BY <1>3 DEF Ascending
<1> HIDE DEF cut, n
<1>5. P!FlattenSeq(cut) = rs
  <2>1. /\ P!FlattenSeq(cut) \in Seq(Nat) /\ Len(P!FlattenSeq(cut)) = n
        /\ \A i \in 1..n : P!FlattenSeq(cut)[i] = rs[i]
    BY <1>2 DEF Parted, Complete
  <2> QED BY <2>1, SeqEqual DEF n
<1>6. ASSUME NEW f \in between
      PROVE  f[2] - f[1] > P!GapThreshold /\ \A i \in 1..n : ~(f[1] < rs[i] /\ rs[i] < f[2])
  <2>1. PICK i \in 1..(Len(cut) - 1) : f = <<P!Last(cut[i]), Head(cut[i + 1])>>
    OBVIOUS
  <2>2. PICK j \in 1..(n - 1) : P!Last(cut[i]) = rs[j] /\ Head(cut[i + 1]) = rs[j + 1]
                               /\ rs[j + 1] - rs[j] > P!GapThreshold
    BY <1>2 DEF Parted, Between
  <2>3. f[1] = rs[j] /\ f[2] = rs[j + 1]
    BY <2>1, <2>2
  <2>4. j \in 1..n /\ j + 1 \in 1..n
    BY <1>3
  <2>5. ASSUME NEW m \in 1..n, rs[j] < rs[m], rs[m] < rs[j + 1] PROVE FALSE
    <3>0. rs[m] \in Nat /\ rs[j] \in Nat /\ rs[j + 1] \in Nat
      BY <1>3, <2>4
    <3>1. CASE m <= j
      <4>1. rs[m] <= rs[j]
        BY <1>4, <2>4, <3>1
      <4> QED BY <2>5, <3>0, <4>1
    <3>2. CASE ~(m <= j)
      <4>1. j + 1 <= m
        BY <3>2
      <4>2. rs[j + 1] <= rs[m]
        BY <1>4, <2>4, <4>1
      <4> QED BY <2>5, <3>0, <4>2, NotBoth
    <3> QED BY <3>1, <3>2
  <2> QED BY <2>2, <2>3, <2>5
<1>7. ASSUME NEW f \in before
      PROVE  f[2] - f[1] > P!GapThreshold /\ \A i \in 1..n : ~(f[1] < rs[i] /\ rs[i] < f[2])
  <2>1. f[1] = 0 /\ f[2] = rs[1] /\ rs[1] > P!GapThreshold
    BY <1>3
  <2>2. \A i \in 1..n : rs[1] <= rs[i] /\ rs[i] \in Nat /\ rs[1] \in Nat
    BY <1>3, <1>4
  <2> QED BY <1>3, <2>1, <2>2
<1>8. ASSUME NEW f \in after
      PROVE  f[2] - f[1] > P!GapThreshold /\ \A i \in 1..n : ~(f[1] < rs[i] /\ rs[i] < f[2])
  <2>1. f[1] = rs[n] /\ f[2] = end /\ end - rs[n] > P!GapThreshold
    BY <1>3
  <2>2. \A i \in 1..n : rs[i] <= rs[n] /\ rs[i] \in Nat /\ rs[n] \in Nat
    BY <1>3, <1>4
  <2>3. ASSUME NEW i \in 1..n PROVE ~(f[1] < rs[i] /\ rs[i] < f[2])
    BY <2>1, <2>2, NotBoth
  <2>4. f[2] - f[1] > P!GapThreshold
    BY <2>1
  <2> QED BY <2>3, <2>4
<1>9. ASSUME NEW t \in 0..end
      PROVE  \/ \E i \in DOMAIN cut : Head(cut[i]) <= t /\ t <= P!Last(cut[i])
             \/ \E f \in between \cup before \cup after : f[1] <= t /\ t <= f[2]
             \/ \E i \in {1, n} : rs[i] - t \in -P!GapThreshold..P!GapThreshold
  <2>0. t \in Nat /\ t <= end /\ rs[1] \in Nat /\ rs[n] \in Nat
    BY <1>3
  <2>1. CASE t < rs[1]
    <3>1. CASE rs[1] > P!GapThreshold
      <4>1. <<0, rs[1]>> \in before
        BY <1>3, <3>1
      <4>2. 0 <= t /\ t <= rs[1]
        BY <2>0, <2>1
      <4> DEFINE f == <<0, rs[1]>>
      <4>3. f[1] <= t /\ t <= f[2]
        BY <4>2
      <4>4. f \in between \cup before \cup after
        BY <4>1
      <4> HIDE DEF f, between, before, after
      <4> QED BY <4>3, <4>4
    <3>2. CASE ~(rs[1] > P!GapThreshold)
      <4>1. t <= rs[1] /\ rs[1] - t <= P!GapThreshold
        BY <2>0, <2>1, <3>2 DEF P!GapThreshold
      <4>2. rs[1] - t \in -P!GapThreshold..P!GapThreshold
        BY <2>0, <4>1, Near
      <4> QED BY <4>2
    <3> QED BY <3>1, <3>2
  <2>2. CASE rs[n] <= t
    <3>1. CASE end - rs[n] > P!GapThreshold
      <4>1. <<rs[n], end>> \in after
        BY <1>3, <3>1
      <4> DEFINE f == <<rs[n], end>>
      <4>2. f[1] <= t /\ t <= f[2]
        BY <2>0, <2>2
      <4>3. f \in between \cup before \cup after
        BY <4>1
      <4> HIDE DEF f, between, before, after
      <4> QED BY <4>2, <4>3
    <3>2. CASE ~(end - rs[n] > P!GapThreshold)
      <4>1. t - rs[n] <= P!GapThreshold
        BY <2>0, <2>2, <3>2 DEF P!GapThreshold
      <4>2. rs[n] - t \in -P!GapThreshold..P!GapThreshold
        BY <2>0, <2>2, <4>1, Near
      <4> QED BY <4>2
    <3> QED BY <3>1, <3>2
  <2>3. CASE ~(t < rs[1]) /\ ~(rs[n] <= t)
    <3> DEFINE T == {j \in 1..n : t < rs[j]}
    <3>1. T \subseteq Nat /\ n \in T
      BY <1>3, <2>0, <2>3
    <3>2. PICK m \in T : \A y \in T : ~(y < m)
      <4> HIDE DEF T
      <4> QED BY <3>1, SmallestOf
    <3>3. m \in 1..n /\ t < rs[m] /\ m # 1
      BY <2>3, <3>2
    <3> DEFINE j == m - 1
    <3>4. j \in 1..n /\ j < m /\ j \in 1..(n - 1) /\ j + 1 = m
      BY <1>3, <3>3
    <3>5. ~(t < rs[j])
      BY <3>2, <3>4
    <3>6. rs[j] \in Nat /\ rs[m] \in Nat
      BY <1>3, <3>3, <3>4
    <3> HIDE DEF j
    <3>7. rs[j] <= t /\ t <= rs[j + 1] /\ rs[j + 1] \in Nat
      <4>1. rs[j + 1] = rs[m]
        BY <3>4
      <4>2. rs[j] <= t
        BY <2>0, <3>5, <3>6
      <4>3. t <= rs[m]
        BY <2>0, <3>3, <3>6
      <4> QED BY <3>6, <4>1, <4>2, <4>3
    <3>8. CASE \E i \in DOMAIN cut : Head(cut[i]) <= rs[j] /\ rs[j + 1] <= P!Last(cut[i])
      <4>1. PICK i \in DOMAIN cut : Head(cut[i]) <= rs[j] /\ rs[j + 1] <= P!Last(cut[i])
        BY <3>8
      <4>2. Head(cut[i]) \in Nat /\ P!Last(cut[i]) \in Nat
        <5>1. cut[i] \in Seq(Nat) /\ cut[i] # << >>
          BY <1>2, LenProperties, ElementOfSeq DEF Parted, Lines
        <5> DEFINE p == cut[i]
        <5> HIDE DEF p
        <5>2. p \in Seq(Nat) /\ p # << >>
          BY <5>1 DEF p
        <5>3. Len(p) \in Nat \ {0} /\ Head(p) \in Nat
          BY <5>2
        <5>4. Len(p) \in 1..Len(p)
          BY <5>3
        <5>5. p[Len(p)] \in Nat
          BY <5>2, <5>4, ElementOfSeq
        <5> QED BY <5>3, <5>5 DEF p, P!Last
      <4>3. Head(cut[i]) <= t /\ t <= P!Last(cut[i])
        BY <2>0, <3>6, <3>7, <4>1, <4>2, Through
      <4> QED BY <4>3
    <3>9. CASE \E i \in 1..(Len(cut) - 1) : P!Last(cut[i]) = rs[j] /\ Head(cut[i + 1]) = rs[j + 1]
      <4>1. PICK i \in 1..(Len(cut) - 1) : P!Last(cut[i]) = rs[j] /\ Head(cut[i + 1]) = rs[j + 1]
        BY <3>9
      <4>2. <<rs[j], rs[j + 1]>> \in between
        BY <4>1
      <4> DEFINE f == <<rs[j], rs[j + 1]>>
      <4>3. f[1] <= t /\ t <= f[2]
        BY <3>7
      <4>4. f \in between \cup before \cup after
        BY <4>2
      <4> HIDE DEF f, between, before, after
      <4> QED BY <4>3, <4>4
    <3> QED BY <1>2, <3>4, <3>8, <3>9 DEF Parted, Covered
  <2> QED BY <2>1, <2>2, <2>3
<1>10. Lines(cut)
  BY <1>2 DEF Parted
<1> HIDE DEF between, before, after
<1>11. \A f \in P!NoData(rs, end) : /\ f[2] - f[1] > P!GapThreshold
                                     /\ \A i \in DOMAIN rs : ~(f[1] < rs[i] /\ rs[i] < f[2])
  BY <1>1, <1>3, <1>6, <1>7, <1>8
<1> QED BY <1>1, <1>5, <1>9, <1>10, <1>11 DEF cut, n

LEMMA ChartsExplained == date \in Dates => GapsAreFlagged
<1> SUFFICES ASSUME date \in Dates, NEW n \in P!Connected, Recorded(n, date) # << >>
             PROVE  LET rs == Recorded(n, date)
                        cut == P!Segments(rs)
                        end == DayEnd(date)
                        flags == P!NoData(rs, end)
                        OnLine(t) == \E i \in DOMAIN cut : Head(cut[i]) <= t /\ t <= P!Last(cut[i])
                        Flagged(t) == \E f \in flags : f[1] <= t /\ t <= f[2] IN
                    /\ P!FlattenSeq(cut) = rs
                    /\ \A i \in DOMAIN cut : \A j \in 2..Len(cut[i]) : cut[i][j] - cut[i][j - 1] <= P!GapThreshold
                    /\ \A f \in flags : /\ f[2] - f[1] > P!GapThreshold
                                        /\ \A i \in DOMAIN rs : ~(f[1] < rs[i] /\ rs[i] < f[2])
                    /\ \A t \in 0..end : \/ OnLine(t) \/ Flagged(t)
                                         \/ \E i \in {1, Len(rs)} : rs[i] - t \in -P!GapThreshold..P!GapThreshold
  BY DEF GapsAreFlagged, P!GapsAreFlagged
<1> DEFINE rs == Recorded(n, date)
           end == DayEnd(date)
<1>1. rs \in Seq(Nat) /\ rs # << >> /\ Ascending(rs) /\ end \in Nat
  BY RecordedAssumption DEF Ascending
<1> HIDE DEF rs, end
<1> QED BY <1>1, Explained DEF Lines, rs, end

(* Power.tsx: however sparse the records of a day are, the lines of its    *)
(* chart and the flags between them account for all of the day.            *)
THEOREM GapsAlwaysFlagged == Spec => []GapsAreFlagged
<1>1. ChartInv /\ [Next]_vars => ChartInv'
  BY PowerSteps, ChartStep
<1>2. ChartInv => GapsAreFlagged
  BY ChartsExplained DEF ChartInv, PowerTyped
<1> QED BY ChartStart, <1>1, <1>2, PTL DEF Spec

=============================================================================
