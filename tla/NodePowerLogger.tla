--------------------------- MODULE NodePowerLogger ---------------------------
(***************************************************************************)
(* firmware/main/node_power_logger.cpp: the samples of the metered streams *)
(* and their minute files, and what is computed from a finished day once   *)
(* and cached: its cost, and its solar/grid split with the battery ledger  *)
(* that the next day starts from.  The esp_timer task samples, flushes and *)
(* does the midnight job; the HTTP task answers requests that compute and  *)
(* cache missing days too.  Energies are left out: what a computation has  *)
(* seen stands for its result.  Hourly rollups are not modelled.           *)
(***************************************************************************)
EXTENDS Integers, FiniteSets

CONSTANTS
    LastDay,        \* bound: the last day, from 0
    Streams, Grid,  \* the streams a topology can have; Grid has files of its own
    Priced,         \* the days that have a tariff
    MaxDepth,       \* how far ledger_before chains back (7)
    MaxSpan,        \* how many days recompute_from rebuilds at most (60)
    MaxSamples,     \* bound: minutes in which samples are taken
    MaxRequests,    \* bound: HTTP requests
    MaxEdits,       \* bound: edits of the topology
    MaxFaults       \* bound: losses of power, and minute files that cannot be opened

Days == 0..LastDay
NoDay == -1

ASSUME LoggerAssumption ==
    /\ LastDay \in Nat
    /\ Grid \in Streams
    /\ Priced \subseteq Days
    /\ {MaxDepth, MaxSpan, MaxSamples, MaxRequests, MaxEdits, MaxFaults} \subseteq Nat
    /\ MaxSpan > 0

VARIABLES
    today,          \* the local date
    due,            \* s_daily_timer has fired and the midnight job has not begun
    topology,       \* node_manager: the streams wired to a board
    streams,        \* s_streams
    accum,          \* per stream: the day of its unix_minute, NoDay when count = 0
    flushing,       \* where on_flush_timer is
    pending,        \* what it has drained and not written: <<stream, day>>
    minutes,        \* per day and stream: records in the minute file
    cost, split,    \* cost-<date> and split-<date>
    job,            \* per task: the computation over days it is in
    taken,          \* history: per day and stream, the sampled minutes that neither power
                    \* nor the card has excused losing
    exceptions,     \* history: which of "cut", "raced", "torn" have happened
    samples, requests, edits, faults      \* used up of the bounds

vars == <<today, due, topology, streams, accum, flushing, pending, minutes, cost, split, job,
          taken, exceptions, samples, requests, edits, faults>>
bounds == <<samples, requests, edits, faults>>
sampling == <<streams, accum, flushing, pending, minutes, taken, samples, faults>>
caches == <<cost, split, job, exceptions>>

Tasks == {"timer", "http"}
Other(t) == CHOOSE u \in Tasks : u # t

(* What a computation over a day has seen of its minute files. *)
Contents(d, using) ==
    {<<s, minutes[d][s]>> : s \in {s \in using \cup {Grid} : minutes[d][s] > 0}}
HasGridFile(d) == d \in Days /\ minutes[d][Grid] > 0

(* A battery ledger is known by the days it was carried through. *)
Seen == SUBSET (Streams \X Nat)
Ledgers == SUBSET (Days \X Seen)
Splits == [from : Ledgers, of : Seen]
Unknown == {}
NoSplit == [from |-> Unknown, of |-> {}]
End(d, s) == s.from \cup {<<d, s.of>>}

Steps == {"idle", "drop", "cost", "storeCost", "back", "split", "storeSplit"}
Jobs == [step : Steps, at : Days \cup {NoDay}, first : Days \cup {NoDay}, last : Days \cup {NoDay},
         live : Days \cup {NoDay}, costs : {"before", "after", "never"}, since : Days \cup {NoDay},
         depth : Nat, ledger : Ledgers, using : SUBSET Streams, made : Splits]
Idle == [step |-> "idle", at |-> NoDay, first |-> NoDay, last |-> NoDay, live |-> NoDay,
         costs |-> "never", since |-> NoDay, depth |-> 0, ledger |-> Unknown, using |-> {},
         made |-> NoSplit]
Busy(t) == job[t].step # "idle"
TimerFree == ~Busy("timer") /\ flushing = "idle"

TypeOK ==
    /\ today \in Days
    /\ due \in BOOLEAN
    /\ topology \in SUBSET Streams /\ streams \in SUBSET Streams
    /\ accum \in [Streams -> Days \cup {NoDay}]
    /\ flushing \in {"idle", "write"}
    /\ pending \in SUBSET (Streams \X Days)
    /\ minutes \in [Days -> [Streams -> Nat]]
    /\ taken \in [Days -> [Streams -> Int]]
    /\ cost \in [Days -> Seen]
    /\ split \in [Days -> Splits]
    /\ job \in [Tasks -> Jobs]
    /\ exceptions \in SUBSET {"cut", "raced", "torn"}
    /\ {samples, requests, edits, faults} \subseteq Nat

-----------------------------------------------------------------------------
(* Sampling.  All timers run on one task.                                  *)

(* on_sample_timer: the first sample of a stream since it was drained.     *)
Sample(s) ==
    /\ TimerFree
    /\ s \in streams /\ accum[s] = NoDay
    /\ samples < MaxSamples /\ samples' = samples + 1
    /\ accum' = [accum EXCEPT ![s] = today]
    /\ taken' = [taken EXCEPT ![today][s] = @ + 1]
    /\ UNCHANGED <<today, due, topology, streams, flushing, pending, minutes, caches,
                    requests, edits, faults>>

(* Mutant: the streams are refreshed before they are drained. *)
RefreshThenDrain ==
    /\ TimerFree
    /\ flushing' = "write"
    /\ streams' = topology
    /\ pending' = {<<s, accum[s]>> : s \in {s \in topology : accum[s] # NoDay}}
    /\ accum' = [s \in Streams |-> NoDay]
    /\ UNCHANGED <<today, due, topology, minutes, taken, caches, bounds>>

(* on_flush_timer: drain, write every record, refresh the streams.  One    *)
(* that has nothing to do is left out.                                     *)
Drain ==
    /\ TimerFree
    /\ topology # streams \/ \E s \in streams : accum[s] # NoDay
    /\ flushing' = "write"
    /\ pending' = {<<s, accum[s]>> : s \in {s \in streams : accum[s] # NoDay}}
    /\ accum' = [s \in Streams |-> IF s \in streams THEN NoDay ELSE accum[s]]
    /\ UNCHANGED <<today, due, topology, streams, minutes, taken, caches, bounds>>

WriteRecord(s, d) ==
    /\ flushing = "write"
    /\ <<s, d>> \in pending /\ pending' = pending \ {<<s, d>>}
    /\ \/ minutes' = [minutes EXCEPT ![d][s] = @ + 1] /\ UNCHANGED <<taken, faults>>
       \/ /\ faults < MaxFaults /\ faults' = faults + 1
          /\ taken' = [taken EXCEPT ![d][s] = @ - 1]
          /\ UNCHANGED minutes
    /\ UNCHANGED <<today, due, topology, streams, accum, flushing, caches,
                    samples, requests, edits>>

RefreshStreams ==
    /\ flushing = "write" /\ pending = {}
    /\ flushing' = "idle"
    /\ streams' = topology
    /\ accum' = [s \in Streams |-> NoDay]
    /\ UNCHANGED <<today, due, topology, pending, minutes, taken, caches, bounds>>

-----------------------------------------------------------------------------
(* A computation over days, on either task.  It walks back from its first  *)
(* day to a day that is cached (ledger_before), then forward to its last.  *)

Start(t, step, first, last, live, costs) ==
    /\ ~Busy(t)
    /\ job' = [job EXCEPT ![t] =
                 [Idle EXCEPT !.step = step, !.at = IF step = "back" THEN first - 1 ELSE first,
                              !.first = first, !.last = last, !.live = live, !.costs = costs,
                              !.since = today, !.depth = MaxDepth, !.using = streams]]
    /\ exceptions' = IF Busy(Other(t)) THEN exceptions \cup {"raced"} ELSE exceptions

(* The first step for a day: the days before the first one are only split. *)
Arrival(t, d) ==
    IF job[t].costs = "never" \/ d < job[t].first \/ (d = job[t].first /\ job[t].costs = "before")
    THEN "split" ELSE "cost"

(* The day is done, and the ledger passes to the next. *)
Advance(t, ledger) ==
    LET j == job[t] IN
    job' = [job EXCEPT ![t] = IF j.at = j.last THEN Idle
                              ELSE [j EXCEPT !.at = @ + 1, !.step = Arrival(t, j.at + 1),
                                             !.ledger = ledger, !.made = NoSplit]]

(* The streams that day_cost and day_split are given: those at the start   *)
(* of the request, except in the midnight job and in ledger_before.        *)
Using(t) == IF t = "http" /\ job[t].at >= job[t].first THEN job[t].using ELSE streams

CostDone(t) ==
    LET j == job[t] IN
    job' = [job EXCEPT ![t] = IF j.costs = "before" /\ j.at = j.first
                              THEN [j EXCEPT !.step = "back", !.at = @ - 1, !.made = NoSplit]
                              ELSE [j EXCEPT !.step = "split", !.made = NoSplit]]

(* Mutant: today is cached like any other day. *)
ComputeCostCachingToday(t) ==
    /\ job[t].step = "cost"
    /\ LET d == job[t].at IN
       \/ /\ cost[d] # {} \/ d \notin Priced \/ ~HasGridFile(d)
          /\ CostDone(t)
       \/ /\ cost[d] = {} /\ d \in Priced /\ HasGridFile(d)
          /\ job' = [job EXCEPT ![t].step = "storeCost", ![t].made.of = Contents(d, Using(t))]
    /\ UNCHANGED <<today, due, topology, sampling, cost, split, exceptions, requests, edits>>

(* day_cost: today is computed live, a finished day unless it is cached.   *)
ComputeCost(t) ==
    /\ job[t].step = "cost"
    /\ LET d == job[t].at IN
       \/ /\ d = job[t].live \/ cost[d] # {} \/ d \notin Priced \/ ~HasGridFile(d)
          /\ CostDone(t)
       \/ /\ d # job[t].live /\ cost[d] = {} /\ d \in Priced /\ HasGridFile(d)
          /\ job' = [job EXCEPT ![t].step = "storeCost", ![t].made.of = Contents(d, Using(t))]
    /\ UNCHANGED <<today, due, topology, sampling, cost, split, exceptions, requests, edits>>

StoreCost(t) ==
    /\ job[t].step = "storeCost"
    /\ cost' = [cost EXCEPT ![job[t].at] = job[t].made.of]
    /\ CostDone(t)
    /\ UNCHANGED <<today, due, topology, sampling, split, exceptions, requests, edits>>

Forward(t, ledger) ==
    job' = [job EXCEPT ![t].at = @ + 1, ![t].ledger = ledger, ![t].step = Arrival(t, job[t].at + 1)]

LedgerBefore(t) ==
    /\ job[t].step = "back"
    /\ LET d == job[t].at
           cached == d \in Days /\ split[d].of # {} IN
       \/ /\ cached
          /\ Forward(t, End(d, split[d]))
          /\ UNCHANGED exceptions
       \/ /\ ~cached /\ (job[t].depth = 0 \/ ~HasGridFile(d))
          /\ Forward(t, Unknown)
          /\ exceptions' = IF HasGridFile(d) THEN exceptions \cup {"cut"} ELSE exceptions
       \/ /\ ~cached /\ job[t].depth > 0 /\ HasGridFile(d)
          /\ job' = [job EXCEPT ![t].at = @ - 1, ![t].depth = @ - 1]
          /\ UNCHANGED exceptions
    /\ UNCHANGED <<today, due, topology, sampling, cost, split, requests, edits>>

(* day_split; without grid data the battery's history is lost. *)
ComputeSplit(t) ==
    /\ job[t].step = "split"
    /\ LET d == job[t].at
           cached == d # job[t].live /\ split[d].of # {}
           now == [from |-> job[t].ledger, of |-> Contents(d, Using(t))] IN
       \/ cached /\ Advance(t, End(d, split[d]))
       \/ ~cached /\ ~HasGridFile(d) /\ Advance(t, Unknown)
       \/ ~cached /\ HasGridFile(d) /\ d = job[t].live /\ Advance(t, End(d, now))
       \/ ~cached /\ HasGridFile(d) /\ d # job[t].live
          /\ job' = [job EXCEPT ![t].step = "storeSplit", ![t].made = now]
    /\ UNCHANGED <<today, due, topology, sampling, cost, split, exceptions, requests, edits>>

StoreSplit(t) ==
    /\ job[t].step = "storeSplit"
    /\ split' = [split EXCEPT ![job[t].at] = job[t].made]
    /\ Advance(t, End(job[t].at, job[t].made))
    /\ UNCHANGED <<today, due, topology, sampling, cost, exceptions, requests, edits>>

(* Mutant: only the first day's caches are dropped. *)
DropFirst(t) ==
    /\ job[t].step = "drop"
    /\ cost' = [cost EXCEPT ![job[t].at] = {}]
    /\ split' = [split EXCEPT ![job[t].at] = NoSplit]
    /\ job' = [job EXCEPT ![t].step = "back", ![t].at = job[t].first - 1, ![t].using = streams]
    /\ UNCHANGED <<today, due, topology, sampling, exceptions, requests, edits>>

(* recompute_from: the caches of every finished day from the first on are  *)
(* unlinked before one is rebuilt.  A span that is too long is refused     *)
(* when that many days have been dropped.                                  *)
Drop(t) ==
    /\ job[t].step = "drop"
    /\ cost' = [cost EXCEPT ![job[t].at] = {}]
    /\ split' = [split EXCEPT ![job[t].at] = NoSplit]
    /\ LET j == job[t]
           refused == j.at # j.last /\ j.at - j.first + 1 >= MaxSpan IN
       /\ job' = [job EXCEPT ![t] = IF j.at = j.last
                                    THEN [j EXCEPT !.step = "back", !.at = j.first - 1, !.using = streams]
                                    ELSE IF refused THEN Idle ELSE [j EXCEPT !.at = @ + 1]]
       /\ exceptions' = IF refused THEN exceptions \cup {"torn"} ELSE exceptions
    /\ UNCHANGED <<today, due, topology, sampling, requests, edits>>

(* on_midnight_timer: yesterday's cost, then its split. *)
MidnightJob ==
    /\ due /\ due' = FALSE
    /\ flushing = "idle"
    /\ Start("timer", "cost", today - 1, today - 1, NoDay, "before")
    /\ UNCHANGED <<today, topology, sampling, cost, split, requests, edits>>

Request == requests < MaxRequests /\ requests' = requests + 1
           /\ UNCHANGED <<today, due, topology, sampling, cost, split, edits>>

(* Energy of the days up to today; the battery's mix, or its trace over a  *)
(* day, from a computation that is not cached; figures rebuilt from a day. *)
DailyEnergy(first) == Request /\ Start("http", "cost", first, today, today, "before")
BatteryMix(d) == Request /\ Start("http", "back", d, d, d, "never")
RecomputeFrom(d) == Request /\ d < today /\ Start("http", "drop", d, today - 1, NoDay, "after")

(* The topology is edited over HTTP. *)
EditTopology(s) ==
    /\ edits < MaxEdits /\ edits' = edits + 1
    /\ ~Busy("http")
    /\ topology' = IF s \in topology THEN topology \ {s} ELSE topology \cup {s}
    /\ UNCHANGED <<today, due, sampling, caches, requests>>

-----------------------------------------------------------------------------
(* Midnight.  A minute, a request and the midnight job take less than a day. *)
NextDay ==
    /\ today < LastDay /\ today' = today + 1
    /\ ~due /\ due' = TRUE
    /\ ~Busy("timer")
    /\ Busy("http") => job["http"].since = today
    /\ \A s \in Streams : accum[s] \in {NoDay, today}
    /\ \A p \in pending : p[2] = today
    /\ UNCHANGED <<topology, sampling, caches, requests, edits>>

(* Power is lost until `day'; a timer that was due is not made up for. *)
Restart(day) ==
    /\ faults < MaxFaults /\ faults' = faults + 1
    /\ day >= today /\ today' = day
    /\ due' = FALSE
    /\ streams' = topology
    /\ accum' = [s \in Streams |-> NoDay]
    /\ flushing' = "idle" /\ pending' = {}
    /\ taken' = minutes
    /\ job' = [t \in Tasks |-> Idle]
    /\ exceptions' = IF job["http"].step = "drop" THEN exceptions \cup {"torn"} ELSE exceptions
    /\ UNCHANGED <<topology, minutes, cost, split, samples, requests, edits>>

Init ==
    /\ today = 0 /\ due = FALSE
    /\ topology = Streams /\ streams = Streams
    /\ accum = [s \in Streams |-> NoDay]
    /\ flushing = "idle" /\ pending = {}
    /\ minutes = [d \in Days |-> [s \in Streams |-> 0]]
    /\ taken = [d \in Days |-> [s \in Streams |-> 0]]
    /\ cost = [d \in Days |-> {}]
    /\ split = [d \in Days |-> NoSplit]
    /\ job = [t \in Tasks |-> Idle]
    /\ exceptions = {}
    /\ samples = 0 /\ requests = 0 /\ edits = 0 /\ faults = 0

Sampling ==
    \/ \E s \in Streams : Sample(s)
    \/ Drain
    \/ \E s \in Streams, d \in Days : WriteRecord(s, d)
    \/ RefreshStreams

Computing(t) ==
    \/ ComputeCost(t) \/ StoreCost(t) \/ LedgerBefore(t) \/ ComputeSplit(t) \/ StoreSplit(t)
    \/ Drop(t)

Asked ==
    \/ \E d \in Days : d <= today /\ (DailyEnergy(d) \/ BatteryMix(d) \/ RecomputeFrom(d))
    \/ \E s \in Streams : EditTopology(s)

Next ==
    \/ Sampling
    \/ MidnightJob
    \/ \E t \in Tasks : Computing(t)
    \/ Asked
    \/ NextDay
    \/ \E day \in Days : Restart(day)

Spec == Init /\ [][Next]_vars

-----------------------------------------------------------------------------
SampledAs(d, s) == IF accum[s] = d \/ <<s, d>> \in pending THEN 1 ELSE 0

(* Every minute that was sampled reaches its stream's file of the day it   *)
(* began, whatever is done to the topology meanwhile, unless power is lost *)
(* or a file cannot be opened: "flush runs first so nothing is lost".      *)
NothingSampledIsLost ==
    \A d \in Days, s \in Streams : taken[d][s] = minutes[d][s] + SampledAs(d, s)

(* The figures of a finished day that are frozen lack at most the last     *)
(* minute of each stream, whoever computed them and when.                  *)
MissesAtMostAMinute ==
    \A d \in Days : \A c \in cost[d] \cup split[d].of : minutes[d][c[1]] <= c[2] + 1

(* Cached days chain: each starts from the ledger that the day before it   *)
(* ended with, in whatever order, by whom and from which topology they     *)
(* were computed, and rebuilt.  Excepted: a chain longer than ledger_before *)
(* follows, two computations at once, and days that were dropped and not   *)
(* rebuilt, for a loss of power or too long a span.                        *)
DaysChain ==
    exceptions = {} /\ (\A t \in Tasks : ~Busy(t)) =>
        \A d \in Days : d > 0 /\ split[d].of # {} /\ split[d-1].of # {}
            => split[d].from = End(d - 1, split[d-1])

(* What day_cost relies on: "A finished day's minute files ... never       *)
(* change, so its cost is computed once and cached."                       *)
FinishedDayIsWhole ==
    \A d \in Days : \A c \in cost[d] : minutes[d][c[1]] = c[2]

(* Task-42.1: "The reported mix is identical whether or not the Power tab  *)
(* has been opened"; task-43: "the rebuilt figures chain correctly".       *)
DaysAlwaysChain ==
    (\A t \in Tasks : ~Busy(t)) =>
        \A d \in Days : d > 0 /\ split[d].of # {} /\ split[d-1].of # {}
            => split[d].from = End(d - 1, split[d-1])
=============================================================================
