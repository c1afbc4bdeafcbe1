---------------------------- MODULE LiveConnection ----------------------------
(***************************************************************************)
(* What the Topology page keeps up to date while it is mounted: the        *)
(* websocket (useWebSocket.ts), which connects again after 1 s, 2 s, ...,  *)
(* 30 s, and the price in force (tariff.ts), read every five minutes.      *)
(***************************************************************************)
EXTENDS Integers, FiniteSets, FiniteSetsExt, Sequences

CONSTANTS
    BaseRetry, MaxRetry,    \* BASE_RETRY_MS, MAX_RETRY_MS, in seconds
    Visits,                 \* bound: the visits of the page, 1..n
    SlotsPerDay,            \* 15-minute prices of a day (96)
    MaxClock, MaxDrops, MaxLoads    \* bounds: slots that pass, connections lost, prices read

VARIABLES
    here,       \* the visit the page is mounted for, 0 if it is not
    lvisit,     \* how often it was
    sockets,    \* sockets that exist: [visit, n, open], n counts the attempts of a visit
    timers,     \* visits whose retry timer runs, with the number of the timer
    attempt,    \* attempts per visit
    retry,      \* retryMs per visit
    failed,     \* history: retries of a visit in a row that failed
    drops,
    clock,      \* quarters of an hour passed; the page is first opened before a midnight
    slot, day,  \* of the price that is shown; the day's prices as a set of at most one
    loads,      \* days asked for and not answered, oldest first
    lastLoad, priceFailed,      \* history: when prices were last asked for, whether that failed
    loadCount

live == <<sockets, timers, attempt, retry, failed, drops>>
price == <<clock, slot, day, loads, lastLoad, priceFailed, loadCount>>
vars == <<here, lvisit, live, price>>

DayOf(t) == t \div SlotsPerDay
SlotOf(t) == t % SlotsPerDay

TypeOK ==
    /\ here \in {0} \cup Visits /\ lvisit \in {0} \cup Visits
    /\ \A s \in sockets : s.visit \in Visits /\ s.n \in 1..attempt[s.visit] /\ s.open \in BOOLEAN
    /\ \A t \in timers : t.visit \in Visits /\ t.n \in 1..attempt[t.visit]
    /\ \A v \in Visits : retry[v] \in BaseRetry..MaxRetry
    /\ slot \in 0..(SlotsPerDay - 1) /\ Cardinality(day) <= 1

Init ==
    /\ here = 0 /\ lvisit = 0
    /\ sockets = {} /\ timers = {} /\ attempt = [v \in Visits |-> 0]
    /\ retry = [v \in Visits |-> BaseRetry] /\ failed = [v \in Visits |-> 0] /\ drops = 0
    /\ clock = SlotsPerDay - 1 /\ slot = 0 /\ day = {} /\ loads = << >>
    /\ lastLoad = 0 /\ priceFailed = FALSE /\ loadCount = 0

-----------------------------------------------------------------------------
(* The websocket.                                                          *)

Connect(v) ==
    /\ attempt' = [attempt EXCEPT ![v] = @ + 1]
    /\ sockets' = sockets \cup {[visit |-> v, n |-> attempt[v] + 1, open |-> FALSE]}

(* Mutant: the delay is not reset. *)
OpensAsBefore(s) ==
    /\ s \in sockets /\ ~s.open
    /\ sockets' = (sockets \ {s}) \cup {[s EXCEPT !.open = TRUE]}
    /\ failed' = [failed EXCEPT ![s.visit] = 0]
    /\ UNCHANGED <<here, lvisit, timers, attempt, retry, drops, price>>

(* onopen *)
Opens(s) ==
    /\ s \in sockets /\ ~s.open
    /\ sockets' = (sockets \ {s}) \cup {[s EXCEPT !.open = TRUE]}
    /\ retry' = [retry EXCEPT ![s.visit] = BaseRetry]
    /\ failed' = [failed EXCEPT ![s.visit] = 0]
    /\ UNCHANGED <<here, lvisit, timers, attempt, drops, price>>

(* Mutant: only an open connection is tried again. *)
CloseOnlyOpen(s) ==
    /\ sockets' = sockets \ {s}
    /\ timers' = timers \cup {[visit |-> s.visit, n |-> s.n] : x \in {x \in {1} : s.open}}
    /\ failed' = failed

(* onclose: whoever closed the socket, the timer is armed.                 *)
Close(s) ==
    /\ sockets' = sockets \ {s}
    /\ timers' = timers \cup {[visit |-> s.visit, n |-> s.n]}
    /\ failed' = IF s.open \/ s.n = 1 THEN failed ELSE [failed EXCEPT ![s.visit] = @ + 1]

Drop(s) ==
    /\ s \in sockets /\ drops < MaxDrops /\ drops' = drops + 1
    /\ Close(s)
    /\ UNCHANGED <<here, lvisit, attempt, retry, price>>

(* Mutant: the failed attempt and its timer both connect. *)
RetryTwice(t) ==
    /\ t \in timers /\ timers' = timers
    /\ retry' = [retry EXCEPT ![t.visit] = Min({2 * @, MaxRetry})]
    /\ Connect(t.visit)
    /\ UNCHANGED <<here, lvisit, failed, drops, price>>

(* The retry timer *)
Retry(t) ==
    /\ t \in timers /\ timers' = timers \ {t}
    /\ retry' = [retry EXCEPT ![t.visit] = Min({2 * @, MaxRetry})]
    /\ Connect(t.visit)
    /\ UNCHANGED <<here, lvisit, failed, drops, price>>

(* The cleanup clears the timer and closes the socket; what the socket's   *)
(* onclose arms after that, nobody clears.                                 *)
Latest(v) == {s \in sockets : s.visit = v /\ s.n = attempt[v]}
Leave ==
    /\ IF Latest(here) = {}
       THEN /\ timers' = {t \in timers : t.visit # here \/ t.n # attempt[here]}
            /\ UNCHANGED <<sockets, failed>>
       ELSE \E s \in Latest(here) : Close(s)
    /\ UNCHANGED <<attempt, retry, drops>>

-----------------------------------------------------------------------------
(* The price.                                                              *)

(* Mutant: the slot is that of the first load. *)
LoadDayOnly(now) ==
    /\ slot' = slot
    /\ loads' = Append(loads, [visit |-> lvisit', day |-> DayOf(now)])
    /\ lastLoad' = now /\ priceFailed' = FALSE

Load(now) ==
    /\ slot' = SlotOf(now)
    /\ loads' = Append(loads, [visit |-> lvisit', day |-> DayOf(now)])
    /\ lastLoad' = now /\ priceFailed' = FALSE

PriceTimer ==
    /\ here # 0 /\ loadCount < MaxLoads /\ loadCount' = loadCount + 1
    /\ UNCHANGED <<here, lvisit>> /\ Load(clock)
    /\ UNCHANGED <<live, clock, day>>
PriceAnswer(ok) ==
    /\ loads # << >> /\ loads' = Tail(loads)
    /\ day' = IF ok /\ Head(loads).visit = here THEN {Head(loads).day} ELSE day
    /\ priceFailed' = (here # 0 /\ (priceFailed \/ ~ok))
    /\ UNCHANGED <<here, lvisit, live, clock, slot, lastLoad, loadCount>>
Tick ==
    /\ here # 0 /\ clock < MaxClock /\ clock' = clock + 1
    /\ UNCHANGED <<here, lvisit, live, slot, day, loads, lastLoad, priceFailed, loadCount>>

-----------------------------------------------------------------------------
Mount ==
    /\ lvisit + 1 \in Visits /\ here' = lvisit + 1 /\ lvisit' = lvisit + 1
    /\ Connect(lvisit + 1) /\ Load(clock) /\ day' = {}
    /\ UNCHANGED <<timers, retry, failed, drops, clock, loadCount>>
Unmount ==
    /\ here' = 0 /\ Leave
    /\ slot' = 0 /\ day' = {} /\ lastLoad' = 0 /\ priceFailed' = FALSE
    /\ UNCHANGED <<lvisit, clock, loads, loadCount>>

Step ==
    \/ \E s \in sockets : Opens(s) \/ Drop(s)
    \/ \E t \in timers : Retry(t)
    \/ PriceTimer \/ Tick \/ \E ok \in BOOLEAN : PriceAnswer(ok)

-----------------------------------------------------------------------------
(* Properties.                                                             *)

(* A visit has one socket or one timer, never two that both connect.       *)
OneConnection == \A a, b \in sockets \cup timers : a.visit = b.visit => a = b

(* The delay before the next attempt doubles with every retry that failed,   *)
(* up to 30 s, and starts at 1 s again after an open connection.           *)
TwoTo[n \in Nat] == IF n = 0 THEN 1 ELSE 2 * TwoTo[n - 1]
BacksOff ==
    \A t \in timers : retry[t.visit] = Min({BaseRetry * TwoTo[failed[t.visit]], MaxRetry})

(* While the page is mounted it gets connected again.                      *)
Reconnects == (here # 0) ~> (here = 0 \/ \E s \in sockets : s.visit = here /\ s.open)

(* The price shown, once answered, is that of the slot and of the day of   *)
(* the last time it was read.                                              *)
PriceIsOfLastLoad ==
    here # 0 /\ loads = << >> /\ ~priceFailed => slot = SlotOf(lastLoad) /\ day = {DayOf(lastLoad)}

(* No connection of a page that was left stays open or comes back.         *)
NothingLeftBehind == \A s \in sockets : s.visit = here

=============================================================================
