------------------------ MODULE NodePowerLogger_proofs ------------------------
(***************************************************************************)
(* Proofs about NodePowerLogger, for any streams, days, depth and bounds.  *)
(***************************************************************************)
EXTENDS NodePowerLogger, TLAPS

(* Sampling: only the streams of s_streams accumulate, only while nothing  *)
(* is being flushed, and what is not in a file yet is of today or of the   *)
(* minute before midnight.                                                 *)
Recent == {today - 1, today}
SampleInv ==
    /\ \A s \in Streams : accum[s] # NoDay => s \in streams /\ accum[s] \in Recent
    /\ \A p \in pending : p[2] \in Recent
    /\ flushing = "idle" => pending = {}
    /\ flushing = "write" => \A s \in Streams : accum[s] = NoDay
    /\ due => today > 0
    /\ NothingSampledIsLost

(* A computation caches days that are over, and no others.                 *)
JobOK(j) ==
    /\ j.first \in Days /\ j.last \in Days /\ j.first <= j.last
    /\ j.at <= j.last
    /\ j.step # "back" => j.at \in Days
    /\ j.step = "back" => j.at < j.first
    /\ \/ j.live = j.last /\ j.last <= today
       \/ j.live = NoDay /\ j.last < today
    /\ j.step \in {"storeCost", "storeSplit"} => j.at # j.live
    /\ j.step = "drop" => j.live = NoDay
    /\ j.step = "storeSplit" => j.made.of # {}
JobInv ==
    /\ \A t \in Tasks : Busy(t) => JobOK(job[t])
    /\ job["timer"].step # "drop"

(* What has been seen of a day that is over lacks at most what is on its   *)
(* way to the file, and that is one minute.                                *)
Complete(d, seen) == \A c \in seen : minutes[d][c[1]] + SampledAs(d, c[1]) <= c[2] + 1
FrozenInv ==
    /\ \A d \in Days : (cost[d] # {} => d < today) /\ (split[d].of # {} => d < today)
    /\ \A d \in Days : Complete(d, cost[d]) /\ Complete(d, split[d].of)
    /\ \A t \in Tasks : job[t].step \in {"storeCost", "storeSplit"} => Complete(job[t].at, job[t].made.of)

(* The cached days chain at every step, but where caches are being dropped. *)
Cached(d) == split[d].of # {}
Follows(d, ledger) ==
    \/ Cached(d) /\ ledger = End(d, split[d])
    \/ ~Cached(d) /\ ~HasGridFile(d)
Dropping(d) == job["http"].step = "drop" /\ job["http"].at = d + 1 /\ ~Cached(d)
Seeded(j) == \/ j.step \in {"split", "storeSplit"}
             \/ j.step \in {"cost", "storeCost"} /\ ~(j.costs = "before" /\ j.at = j.first)
Linked == \A d \in Days : d + 1 \in Days /\ Cached(d + 1) => Follows(d, split[d + 1].from) \/ Dropping(d)
CarryOK(j) ==
    /\ Seeded(j) /\ j.at # j.live => j.at = 0 \/ Follows(j.at - 1, j.ledger)
    /\ j.step = "storeSplit" => ~Cached(j.at) /\ HasGridFile(j.at) /\ j.made.from = j.ledger
    /\ j.step = "drop" => \A d \in Days : Cached(d) => d <= j.last
ChainInv ==
    exceptions = {} =>
        /\ ~(Busy("timer") /\ Busy("http"))
        /\ Linked
        /\ \A t \in Tasks : Busy(t) => CarryOK(job[t])


-----------------------------------------------------------------------------
LEMMA DayNumbers ==
    ASSUME TypeOK
    PROVE  /\ today \in Int /\ LastDay \in Int /\ NoDay = -1 /\ today \in Days
           /\ \A d : d \in Days <=> d \in Int /\ 0 <= d /\ d <= LastDay
<1>1. LastDay \in Int BY LoggerAssumption
<1> QED BY <1>1 DEF TypeOK, Days, NoDay

LEMMA SeenTypes ==
    ASSUME TypeOK
    PROVE  /\ \A d \in Days, using \in SUBSET Streams : Contents(d, using) \in Seen
           /\ \A d \in Days, l \in Ledgers, m \in Seen : End(d, [from |-> l, of |-> m]) \in Ledgers
           /\ \A d \in Days, x \in Splits : End(d, x) \in Ledgers
           /\ Unknown \in Ledgers /\ NoSplit \in Splits
           /\ \A l \in Ledgers, m \in Seen : [from |-> l, of |-> m] \in Splits
           /\ Idle \in Jobs
           /\ \A t \in Tasks : job[t] \in Jobs /\ Using(t) \in SUBSET Streams
<1>1. ASSUME NEW d \in Days, NEW using \in SUBSET Streams PROVE Contents(d, using) \in Seen
  BY <1>1, LoggerAssumption DEF Contents, Seen, TypeOK
<1>2. \A d \in Days, x \in Splits : End(d, x) \in Ledgers
  BY DEF End, Ledgers, Splits
<1>3. Unknown \in Ledgers /\ NoSplit \in Splits
  BY DEF Unknown, Ledgers, NoSplit, Splits, Seen
<1>4. \A l \in Ledgers, m \in Seen : [from |-> l, of |-> m] \in Splits
  BY DEF Splits
<1>5. Idle \in Jobs BY <1>3 DEF Idle, Jobs, Steps
<1>6. \A t \in Tasks : job[t] \in Jobs BY DEF TypeOK
<1>7. \A t \in Tasks : Using(t) \in SUBSET Streams BY <1>6 DEF Using, TypeOK, Jobs
<1> QED BY <1>1, <1>2, <1>3, <1>4, <1>5, <1>6, <1>7

(* What the building blocks of the computations do to the table of jobs.   *)
LEMMA StartType ==
    ASSUME TypeOK, NEW t \in Tasks, NEW step \in Steps, NEW first \in Days, NEW last \in Days,
           NEW live \in Days \cup {NoDay}, NEW costs \in {"before", "after", "never"},
           Start(t, step, first, last, live, costs)
    PROVE  job' \in [Tasks -> Jobs] /\ exceptions' \in SUBSET {"cut", "raced", "torn"}
<1>1. MaxDepth \in Nat BY LoggerAssumption
<1>2. first - 1 \in Days \cup {NoDay} BY LoggerAssumption DEF Days, NoDay
<1> DEFINE j == [Idle EXCEPT !.step = step, !.at = IF step = "back" THEN first - 1 ELSE first,
                              !.first = first, !.last = last, !.live = live, !.costs = costs,
                              !.since = today, !.depth = MaxDepth, !.using = streams]
<1>3. j \in Jobs
  <2>1. Idle \in Jobs BY SeenTypes
  <2>2. today \in Days /\ streams \in SUBSET Streams BY DEF TypeOK
  <2> QED BY <1>1, <1>2, <2>1, <2>2, ZenonT(40) DEF Jobs
<1>4. job' = [job EXCEPT ![t] = j] BY DEF Start
<1> QED BY <1>3, <1>4 DEF TypeOK, Start

LEMMA AdvanceType ==
    ASSUME TypeOK, NEW t \in Tasks, JobOK(job[t]), job[t].step # "back", NEW ledger \in Ledgers,
           Advance(t, ledger)
    PROVE  job' \in [Tasks -> Jobs]
<1> DEFINE j == job[t]
           k == [j EXCEPT !.at = @ + 1, !.step = Arrival(t, j.at + 1), !.ledger = ledger, !.made = NoSplit]
<1>1. j \in Jobs BY SeenTypes
<1>2. j.at # j.last => j.at + 1 \in Days BY <1>1, LoggerAssumption DEF JobOK, Days, Jobs
<1>3. Arrival(t, j.at + 1) \in Steps BY DEF Arrival, Steps
<1>4. j.at # j.last => k \in Jobs BY <1>1, <1>2, <1>3, SeenTypes DEF Jobs
<1>5. job' = [job EXCEPT ![t] = IF j.at = j.last THEN Idle ELSE k] BY DEF Advance
<1> QED BY <1>4, <1>5, SeenTypes DEF TypeOK

LEMMA CostDoneType ==
    ASSUME TypeOK, NEW t \in Tasks, JobOK(job[t]), job[t].step # "back", CostDone(t)
    PROVE  job' \in [Tasks -> Jobs]
<1> DEFINE j == job[t]
           b == [j EXCEPT !.step = "back", !.at = @ - 1, !.made = NoSplit]
           k == [j EXCEPT !.step = "split", !.made = NoSplit]
<1>1. j \in Jobs /\ NoSplit \in Splits BY SeenTypes
<1>2. j.at - 1 \in Days \cup {NoDay} BY <1>1, LoggerAssumption DEF JobOK, Days, NoDay, Jobs
<1>3. b \in Jobs BY <1>1, <1>2 DEF Jobs, Steps
<1>4. k \in Jobs BY <1>1 DEF Jobs, Steps
<1>5. job' = [job EXCEPT ![t] = IF j.costs = "before" /\ j.at = j.first THEN b ELSE k]
  BY DEF CostDone
<1> QED BY <1>3, <1>4, <1>5 DEF TypeOK

LEMMA ForwardType ==
    ASSUME TypeOK, NEW t \in Tasks, JobOK(job[t]), job[t].step = "back", NEW ledger \in Ledgers,
           Forward(t, ledger)
    PROVE  job' \in [Tasks -> Jobs]
<1> DEFINE j == job[t]
           k == [j EXCEPT !.at = @ + 1, !.ledger = ledger, !.step = Arrival(t, j.at + 1)]
<1>1. j \in Jobs BY SeenTypes
<1>2. j.at + 1 \in Days BY <1>1, LoggerAssumption DEF JobOK, Days, Jobs, NoDay
<1>3. Arrival(t, j.at + 1) \in Steps BY DEF Arrival, Steps
<1>4. k \in Jobs BY <1>1, <1>2, <1>3 DEF Jobs
<1>5. job' = [job EXCEPT ![t] = k] BY DEF Forward, TypeOK
<1> QED BY <1>4, <1>5 DEF TypeOK

LEMMA DropEffect ==
    ASSUME TypeOK, JobInv, NEW t \in Tasks, Drop(t)
    PROVE  \E n \in Jobs :
             /\ job' = [job EXCEPT ![t] = n]
             /\ \/ n = Idle
                \/ /\ n.first = job[t].first /\ n.last = job[t].last /\ n.live = job[t].live
                   /\ \/ job[t].at = job[t].last /\ n.step = "back" /\ n.at = job[t].first - 1
                      \/ /\ job[t].at # job[t].last /\ n.step = "drop" /\ n.at = job[t].at + 1
                         /\ job[t].at - job[t].first + 1 < MaxSpan
             /\ exceptions' = IF job[t].at # job[t].last /\ n = Idle THEN exceptions \cup {"torn"} ELSE exceptions
<1> DEFINE j == job[t]
           b == [j EXCEPT !.step = "back", !.at = j.first - 1, !.using = streams]
           k == [j EXCEPT !.at = @ + 1]
           refused == j.at # j.last /\ j.at - j.first + 1 >= MaxSpan
           n == IF j.at = j.last THEN b ELSE IF refused THEN Idle ELSE k
<1>1. j \in Jobs /\ JobOK(j) /\ j.step = "drop" BY SeenTypes DEF Drop, JobInv, Busy
<1>2. j.at \in Days /\ j.first \in Days /\ j.last \in Days /\ j.at <= j.last BY <1>1 DEF JobOK
<1>3. j.first - 1 \in Days \cup {NoDay} /\ (j.at # j.last => j.at + 1 \in Days)
  BY <1>2, LoggerAssumption DEF Days, NoDay
<1>4. b \in Jobs /\ (j.at # j.last => k \in Jobs) /\ Idle \in Jobs /\ Idle.step = "idle"
  <2>1. streams \in SUBSET Streams BY DEF TypeOK
  <2>2. b \in Jobs BY <1>1, <1>3, <2>1 DEF Jobs, Steps
  <2>3. j.at # j.last => k \in Jobs BY <1>1, <1>3 DEF Jobs
  <2>4. Idle \in Jobs /\ Idle.step = "idle" BY SeenTypes DEF Idle
  <2> QED BY <2>2, <2>3, <2>4
<1>5. job' = [job EXCEPT ![t] = n] /\ exceptions' = IF refused THEN exceptions \cup {"torn"} ELSE exceptions
  BY DEF Drop
<1>6. /\ b.first = j.first /\ b.last = j.last /\ b.live = j.live /\ b.step = "back" /\ b.at = j.first - 1
      /\ k.first = j.first /\ k.last = j.last /\ k.live = j.live /\ k.step = "drop" /\ k.at = j.at + 1
  BY <1>1 DEF Jobs
<1>7. MaxSpan \in Int /\ j.at \in Int /\ j.first \in Int BY <1>2, LoggerAssumption DEF Days
<1> HIDE DEF b, k
<1>8. CASE j.at = j.last BY <1>4, <1>5, <1>6, <1>8
<1>9. CASE refused BY <1>4, <1>5, <1>9
<1>10. CASE j.at # j.last /\ ~refused
  <2>1. k # Idle BY <1>4, <1>6
  <2>2. j.at - j.first + 1 < MaxSpan BY <1>7, <1>10
  <2> QED BY <1>4, <1>5, <1>6, <1>10, <2>1, <2>2
<1> QED BY <1>8, <1>9, <1>10

LEMMA TypeStep == TypeOK /\ SampleInv /\ JobInv /\ [Next]_vars => TypeOK'
<1> SUFFICES ASSUME TypeOK, SampleInv, JobInv, [Next]_vars PROVE TypeOK'
  OBVIOUS
<1> USE DEF sampling, bounds, caches
<1>1. ASSUME NEW s \in Streams, Sample(s) PROVE TypeOK'
  BY <1>1 DEF Sample, TypeOK
<1>2. CASE Drain
  <2>1. \A s \in Streams : accum[s] # NoDay => accum[s] \in Days BY DEF TypeOK
  <2>2. pending' \in SUBSET (Streams \X Days) BY <1>2, <2>1 DEF Drain, TypeOK
  <2>3. accum' \in [Streams -> Days \cup {NoDay}] BY <1>2 DEF Drain, TypeOK
  <2> QED BY <1>2, <2>2, <2>3 DEF Drain, TypeOK
<1>3. ASSUME NEW s \in Streams, NEW d \in Days, WriteRecord(s, d) PROVE TypeOK'
  <2>1. minutes' \in [Days -> [Streams -> Nat]]
    <3>1. \/ UNCHANGED minutes
          \/ minutes' = [minutes EXCEPT ![d] = [minutes[d] EXCEPT ![s] = @ + 1]]
      BY <1>3 DEF WriteRecord
    <3>2. [minutes[d] EXCEPT ![s] = @ + 1] \in [Streams -> Nat] BY DEF TypeOK
    <3> QED BY <3>1, <3>2 DEF TypeOK
  <2>2. taken' \in [Days -> [Streams -> Int]]
    <3>1. \/ UNCHANGED taken
          \/ taken' = [taken EXCEPT ![d] = [taken[d] EXCEPT ![s] = @ - 1]]
      BY <1>3 DEF WriteRecord
    <3>2. [taken[d] EXCEPT ![s] = @ - 1] \in [Streams -> Int] BY DEF TypeOK
    <3> QED BY <3>1, <3>2 DEF TypeOK
  <2>3. faults' \in Nat BY <1>3 DEF WriteRecord, TypeOK
  <2>4. pending' \in SUBSET (Streams \X Days) BY <1>3 DEF WriteRecord, TypeOK
  <2> QED BY <1>3, <2>1, <2>2, <2>3, <2>4 DEF WriteRecord, TypeOK
<1>4. CASE RefreshStreams BY <1>4 DEF RefreshStreams, TypeOK
<1>5. CASE MidnightJob
  <2>0. today > 0 BY <1>5 DEF MidnightJob, SampleInv
  <2>1. today - 1 \in Days BY <2>0, LoggerAssumption DEF TypeOK, Days
  <2>2. Start("timer", "cost", today - 1, today - 1, NoDay, "before") BY <1>5 DEF MidnightJob
  <2>3. job' \in [Tasks -> Jobs] /\ exceptions' \in SUBSET {"cut", "raced", "torn"}
    BY <2>1, <2>2, StartType DEF Tasks, Steps
  <2> QED BY <1>5, <2>3 DEF MidnightJob, TypeOK
<1>6. ASSUME NEW t \in Tasks, Computing(t) PROVE TypeOK'
  <2>0. job[t] \in Jobs /\ JobOK(job[t])
    BY <1>6, SeenTypes DEF Computing, ComputeCost, StoreCost, LedgerBefore, ComputeSplit, StoreSplit, Drop, JobInv, Busy
  <2>1. CASE ComputeCost(t)
    <3>1. job' \in [Tasks -> Jobs]
      <4>1. CASE CostDone(t) BY <2>0, <2>1, <4>1, CostDoneType DEF ComputeCost
      <4>2. CASE job' = [job EXCEPT ![t].step = "storeCost", ![t].made.of = Contents(job[t].at, Using(t))]
        <5>1. job[t].at \in Days BY <2>0, <2>1 DEF ComputeCost, JobOK
        <5>2. Contents(job[t].at, Using(t)) \in Seen BY <5>1, SeenTypes
        <5> DEFINE k == [job[t] EXCEPT !.step = "storeCost", !.made.of = Contents(job[t].at, Using(t))]
        <5>3. k \in Jobs BY <2>0, <5>2 DEF Jobs, Splits, Steps
        <5>4. job' = [job EXCEPT ![t] = k] BY <2>0, <4>2 DEF Jobs
        <5> QED BY <5>3, <5>4 DEF TypeOK
      <4> QED BY <2>1, <4>1, <4>2 DEF ComputeCost
    <3> QED BY <2>1, <3>1 DEF ComputeCost, TypeOK
  <2>2. CASE StoreCost(t)
    <3>1. job' \in [Tasks -> Jobs] BY <2>0, <2>2, CostDoneType DEF StoreCost
    <3>2. job[t].made.of \in Seen BY <2>0 DEF Jobs, Splits
    <3> QED BY <2>2, <3>1, <3>2 DEF StoreCost, TypeOK
  <2>3. CASE LedgerBefore(t)
    <3> DEFINE d == job[t].at
    <3>1. d \in Days => End(d, split[d]) \in Ledgers BY SeenTypes DEF TypeOK
    <3>2. job' \in [Tasks -> Jobs]
      <4>1. CASE d \in Days /\ Forward(t, End(d, split[d])) BY <2>0, <2>3, <3>1, <4>1, ForwardType DEF LedgerBefore
      <4>2. CASE Forward(t, Unknown) BY <2>0, <2>3, <4>2, SeenTypes, ForwardType DEF LedgerBefore
      <4>3. CASE /\ job[t].depth > 0 /\ HasGridFile(d)
                 /\ job' = [job EXCEPT ![t].at = @ - 1, ![t].depth = @ - 1]
        <5>1. d - 1 \in Days \cup {NoDay} BY <4>3, LoggerAssumption DEF HasGridFile, Days, NoDay
        <5>2. job[t].depth - 1 \in Nat BY <2>0, <4>3 DEF Jobs
        <5> QED BY <2>0, <4>3, <5>1, <5>2 DEF TypeOK, Jobs
      <4> QED BY <2>3, <4>1, <4>2, <4>3 DEF LedgerBefore
    <3>3. exceptions' \in SUBSET {"cut", "raced", "torn"} BY <2>3 DEF LedgerBefore, TypeOK
    <3> QED BY <2>3, <3>2, <3>3 DEF LedgerBefore, TypeOK
  <2>4. CASE ComputeSplit(t)
    <3> DEFINE d == job[t].at
               now == [from |-> job[t].ledger, of |-> Contents(d, Using(t))]
    <3>0. d \in Days BY <2>0, <2>4 DEF ComputeSplit, JobOK
    <3>1. job[t].ledger \in Ledgers /\ Contents(d, Using(t)) \in Seen BY <2>0, <3>0, SeenTypes DEF Jobs
    <3>2. now \in Splits BY <3>1 DEF Splits
    <3>3. End(d, split[d]) \in Ledgers /\ End(d, now) \in Ledgers /\ Unknown \in Ledgers
      BY <3>0, <3>2, SeenTypes DEF TypeOK
    <3>4. job' \in [Tasks -> Jobs]
      <4>1. ASSUME NEW l \in Ledgers, Advance(t, l) PROVE job' \in [Tasks -> Jobs]
        BY <2>0, <2>4, <4>1, AdvanceType DEF ComputeSplit
      <4>2. CASE job' = [job EXCEPT ![t].step = "storeSplit", ![t].made = now]
        BY <2>0, <3>2, <4>2 DEF TypeOK, Jobs, Steps
      <4> QED BY <2>4, <3>3, <4>1, <4>2 DEF ComputeSplit
    <3> QED BY <2>4, <3>4 DEF ComputeSplit, TypeOK
  <2>5. CASE StoreSplit(t)
    <3>1. job[t].made \in Splits /\ job[t].at \in Days BY <2>0, <2>5 DEF Jobs, StoreSplit, JobOK
    <3>2. End(job[t].at, job[t].made) \in Ledgers BY <3>1, SeenTypes
    <3>3. job' \in [Tasks -> Jobs] BY <2>0, <2>5, <3>2, AdvanceType DEF StoreSplit
    <3> QED BY <2>5, <3>1, <3>3 DEF StoreSplit, TypeOK
  <2>6. CASE Drop(t)
    <3>1. job' \in [Tasks -> Jobs] BY <2>6, DropEffect DEF TypeOK
    <3>2. exceptions' \in SUBSET {"cut", "raced", "torn"}
      <4>1. exceptions \in SUBSET {"cut", "raced", "torn"} BY DEF TypeOK
      <4>2. exceptions' = exceptions \/ exceptions' = exceptions \cup {"torn"} BY <2>6, DropEffect
      <4> QED BY <4>1, <4>2
    <3>3. NoSplit \in Splits /\ {} \in Seen BY SeenTypes DEF Seen
    <3> QED BY <2>6, <3>1, <3>2, <3>3 DEF Drop, TypeOK
  <2> QED BY <1>6, <2>1, <2>2, <2>3, <2>4, <2>5, <2>6 DEF Computing
<1>7. ASSUME NEW d \in Days, d <= today, DailyEnergy(d) \/ BatteryMix(d) \/ RecomputeFrom(d) PROVE TypeOK'
  <2>1. today \in Days /\ (d < today => today - 1 \in Days) BY DayNumbers
  <2>2. job' \in [Tasks -> Jobs] /\ exceptions' \in SUBSET {"cut", "raced", "torn"}
    BY <1>7, <2>1, StartType DEF DailyEnergy, BatteryMix, RecomputeFrom, Tasks, Steps
  <2> QED BY <1>7, <2>2 DEF DailyEnergy, BatteryMix, RecomputeFrom, Request, TypeOK
<1>8. ASSUME NEW s \in Streams, EditTopology(s) PROVE TypeOK'
  BY <1>8 DEF EditTopology, TypeOK
<1>9. CASE NextDay
  <2>1. today + 1 \in Days BY <1>9, LoggerAssumption DEF NextDay, TypeOK, Days
  <2> QED BY <1>9, <2>1 DEF NextDay, TypeOK
<1>10. ASSUME NEW day \in Days, Restart(day) PROVE TypeOK'
  <2>1. job' \in [Tasks -> Jobs] BY <1>10, SeenTypes DEF Restart
  <2>2. exceptions' \in SUBSET {"cut", "raced", "torn"} BY <1>10 DEF Restart, TypeOK
  <2>3. taken' \in [Days -> [Streams -> Int]]
    <3>1. \A d \in Days : minutes[d] \in [Streams -> Int] BY DEF TypeOK
    <3> QED BY <1>10, <3>1 DEF Restart, TypeOK
  <2>4. accum' \in [Streams -> Days \cup {NoDay}] /\ streams' \in SUBSET Streams /\ faults' \in Nat
    BY <1>10 DEF Restart, TypeOK
  <2>5. pending' \in SUBSET (Streams \X Days) /\ flushing' \in {"idle", "write"} /\ today' \in Days /\ due' \in BOOLEAN
    BY <1>10 DEF Restart
  <2>6. UNCHANGED <<topology, minutes, cost, split, samples, requests, edits>> BY <1>10 DEF Restart
  <2> QED BY <2>1, <2>2, <2>3, <2>4, <2>5, <2>6 DEF TypeOK
<1>11. CASE UNCHANGED vars BY <1>11 DEF vars, TypeOK
<1> QED BY <1>1, <1>2, <1>3, <1>4, <1>5, <1>6, <1>7, <1>8, <1>9, <1>10, <1>11 DEF Next, Sampling, Asked

LEMMA ComputingFrame ==
    ASSUME TypeOK, JobInv, NEW t \in Tasks, Computing(t)
    PROVE  /\ UNCHANGED <<today, due, topology, sampling, requests, edits>>
           /\ \A u \in Tasks \ {t} : job'[u] = job[u]
           /\ job[t].step # "idle"
<1>1. UNCHANGED <<today, due, topology, sampling, requests, edits>>
  BY DEF Computing, ComputeCost, StoreCost, LedgerBefore, ComputeSplit, StoreSplit, Drop
<1>2. job[t].step # "idle"
  BY DEF Computing, ComputeCost, StoreCost, LedgerBefore, ComputeSplit, StoreSplit, Drop
<1>3. ASSUME NEW u \in Tasks, u # t PROVE job'[u] = job[u]
  <2>0. job \in [Tasks -> Jobs] BY DEF TypeOK
  <2>1. CASE CostDone(t) BY <1>3, <2>0, <2>1 DEF CostDone
  <2>2. ASSUME NEW l, Advance(t, l) \/ Forward(t, l) PROVE job'[u] = job[u]
    BY <1>3, <2>0, <2>2 DEF Advance, Forward
  <2>3. CASE Drop(t) BY <1>3, <2>0, <2>3, DropEffect
  <2>4. CASE ComputeCost(t) BY <1>3, <2>0, <2>1, <2>4 DEF ComputeCost
  <2>5. CASE StoreCost(t) BY <1>3, <2>0, <2>1, <2>5 DEF StoreCost
  <2>6. CASE LedgerBefore(t) BY <1>3, <2>0, <2>2, <2>6 DEF LedgerBefore
  <2>7. CASE ComputeSplit(t) BY <1>3, <2>0, <2>2, <2>7 DEF ComputeSplit
  <2>8. CASE StoreSplit(t) BY <1>3, <2>0, <2>2, <2>8 DEF StoreSplit
  <2> QED BY <2>3, <2>4, <2>5, <2>6, <2>7, <2>8 DEF Computing
<1> QED BY <1>1, <1>2, <1>3

-----------------------------------------------------------------------------
(* Sampling.                                                               *)
LEMMA LostFrame ==
    ASSUME NothingSampledIsLost, UNCHANGED <<taken, minutes, accum, pending>>
    PROVE  NothingSampledIsLost'
BY DEF NothingSampledIsLost, SampledAs

LEMMA SampleStep == TypeOK /\ SampleInv /\ JobInv /\ [Next]_vars => SampleInv'
<1> SUFFICES ASSUME TypeOK, SampleInv, JobInv, [Next]_vars PROVE SampleInv'
  OBVIOUS
<1> USE DEF sampling, bounds, caches
<1>0. today \in Int /\ NoDay \in Int /\ (\A d \in Days : d \in Int /\ d # NoDay)
  BY LoggerAssumption DEF TypeOK, Days, NoDay
<1>1. ASSUME NEW s \in Streams, Sample(s) PROVE SampleInv'
  <2>1. pending = {} BY <1>1 DEF Sample, TimerFree, SampleInv
  <2>2. ASSUME NEW d \in Days, NEW r \in Streams PROVE taken'[d][r] = minutes'[d][r] + SampledAs(d, r)'
    <3>1. taken[d][r] = minutes[d][r] + SampledAs(d, r) BY DEF SampleInv, NothingSampledIsLost
    <3>2. accum' = [accum EXCEPT ![s] = today] /\ accum[s] = NoDay /\ UNCHANGED <<minutes, pending>>
      BY <1>1 DEF Sample
    <3>3. taken' = [taken EXCEPT ![today] = [taken[today] EXCEPT ![s] = @ + 1]] BY <1>1 DEF Sample
    <3>4. CASE d = today /\ r = s
      <4>1. taken'[d][r] = taken[d][r] + 1 BY <3>3, <3>4 DEF TypeOK
      <4>2. SampledAs(d, r) = 0 BY <1>0, <2>1, <3>2, <3>4 DEF SampledAs
      <4>3. SampledAs(d, r)' = 1 BY <3>2, <3>4 DEF SampledAs, TypeOK
      <4>4. minutes[d][r] \in Int BY DEF TypeOK
      <4> QED BY <3>1, <3>2, <4>1, <4>2, <4>3, <4>4
    <3>5. CASE ~(d = today /\ r = s)
      <4>1. taken'[d][r] = taken[d][r] BY <3>3, <3>5 DEF TypeOK
      <4>2. SampledAs(d, r)' = SampledAs(d, r) BY <1>0, <3>2, <3>5 DEF SampledAs, TypeOK
      <4> QED BY <3>1, <3>2, <4>1, <4>2
    <3> QED BY <3>4, <3>5
  <2>3. \A r \in Streams : accum'[r] # NoDay => r \in streams' /\ accum'[r] \in Recent'
    BY <1>1, <1>0 DEF Sample, SampleInv, Recent, TypeOK
  <2> QED BY <1>1, <2>1, <2>2, <2>3 DEF Sample, TimerFree, SampleInv, NothingSampledIsLost
<1>2. CASE Drain
  <2>1. pending = {} BY <1>2 DEF Drain, TimerFree, SampleInv
  <2>2. \A s \in Streams : accum'[s] = NoDay BY <1>2 DEF Drain, SampleInv, TypeOK
  <2>3. pending' = {<<s, accum[s]>> : s \in {s \in Streams : accum[s] # NoDay}}
    BY <1>2 DEF Drain, SampleInv, TypeOK
  <2>4. \A p \in pending' : p[2] \in Recent' BY <1>2, <2>3 DEF Drain, SampleInv, Recent
  <2>5. \A d \in Days, s \in Streams : SampledAs(d, s)' = SampledAs(d, s)
    BY <1>0, <2>1, <2>2, <2>3 DEF SampledAs
  <2> QED BY <1>2, <2>2, <2>4, <2>5 DEF Drain, SampleInv, NothingSampledIsLost
<1>3. ASSUME NEW s \in Streams, NEW d \in Days, WriteRecord(s, d) PROVE SampleInv'
  <2>1. \A r \in Streams : accum[r] = NoDay BY <1>3 DEF WriteRecord, SampleInv
  <2>2. ASSUME NEW e \in Days, NEW r \in Streams PROVE taken'[e][r] = minutes'[e][r] + SampledAs(e, r)'
    <3>1. taken[e][r] = minutes[e][r] + SampledAs(e, r) BY DEF SampleInv, NothingSampledIsLost
    <3>2. \/ minutes' = [minutes EXCEPT ![d] = [minutes[d] EXCEPT ![s] = @ + 1]] /\ UNCHANGED taken
          \/ taken' = [taken EXCEPT ![d] = [taken[d] EXCEPT ![s] = @ - 1]] /\ UNCHANGED minutes
      BY <1>3 DEF WriteRecord
    <3>3. minutes[e][r] \in Int /\ taken[e][r] \in Int BY DEF TypeOK
    <3>4. CASE e = d /\ r = s
      <4>1. SampledAs(e, r) = 1 /\ SampledAs(e, r)' = 0
        BY <1>0, <1>3, <2>1, <3>4 DEF SampledAs, WriteRecord
      <4>2. \/ minutes'[e][r] = minutes[e][r] + 1 /\ taken'[e][r] = taken[e][r]
            \/ taken'[e][r] = taken[e][r] - 1 /\ minutes'[e][r] = minutes[e][r]
        BY <3>2, <3>4 DEF TypeOK
      <4> QED BY <3>1, <3>3, <4>1, <4>2
    <3>5. CASE ~(e = d /\ r = s)
      <4>1. SampledAs(e, r)' = SampledAs(e, r) BY <1>3, <3>5 DEF SampledAs, WriteRecord
      <4>2. minutes'[e][r] = minutes[e][r] /\ taken'[e][r] = taken[e][r] BY <3>2, <3>5 DEF TypeOK
      <4> QED BY <3>1, <4>1, <4>2
    <3> QED BY <3>4, <3>5
  <2> QED BY <1>3, <2>1, <2>2 DEF WriteRecord, SampleInv, NothingSampledIsLost, Recent
<1>4. CASE RefreshStreams
  <2>1. \A s \in Streams : accum[s] = NoDay /\ accum'[s] = NoDay BY <1>4 DEF RefreshStreams, SampleInv
  <2>2. NothingSampledIsLost' BY <1>4, <2>1 DEF RefreshStreams, SampleInv, NothingSampledIsLost, SampledAs
  <2> QED BY <1>4, <2>1, <2>2 DEF RefreshStreams, SampleInv
<1>5. CASE MidnightJob BY <1>5, LostFrame DEF MidnightJob, SampleInv, Recent
<1>6. ASSUME NEW t \in Tasks, Computing(t) PROVE SampleInv'
  BY <1>6, ComputingFrame, LostFrame DEF SampleInv, Recent
<1>7. ASSUME NEW d \in Days, DailyEnergy(d) \/ BatteryMix(d) \/ RecomputeFrom(d) PROVE SampleInv'
  BY <1>7, LostFrame DEF DailyEnergy, BatteryMix, RecomputeFrom, Request, SampleInv, Recent
<1>8. ASSUME NEW s \in Streams, EditTopology(s) PROVE SampleInv'
  BY <1>8, LostFrame DEF EditTopology, SampleInv, Recent
<1>9. CASE NextDay
  <2>1. NothingSampledIsLost' BY <1>9, LostFrame DEF NextDay, SampleInv
  <2>2. today' - 1 = today /\ today' > 0 BY <1>0, <1>9, LoggerAssumption DEF NextDay, TypeOK, Days
  <2> QED BY <1>9, <2>1, <2>2 DEF NextDay, SampleInv, Recent
<1>10. ASSUME NEW day \in Days, Restart(day) PROVE SampleInv'
  <2>1. \A s \in Streams : accum'[s] = NoDay BY <1>10 DEF Restart
  <2>2. ASSUME NEW d \in Days, NEW s \in Streams PROVE taken'[d][s] = minutes'[d][s] + SampledAs(d, s)'
    <3>1. SampledAs(d, s)' = 0 BY <1>0, <1>10, <2>1 DEF SampledAs, Restart
    <3>2. taken'[d][s] = minutes'[d][s] /\ minutes'[d][s] \in Int BY <1>10 DEF Restart, TypeOK
    <3> QED BY <3>1, <3>2
  <2> QED BY <1>10, <2>1, <2>2 DEF Restart, SampleInv, NothingSampledIsLost
<1>11. CASE UNCHANGED vars BY <1>11, LostFrame DEF vars, SampleInv, Recent
<1> QED BY <1>1, <1>2, <1>3, <1>4, <1>5, <1>6, <1>7, <1>8, <1>9, <1>10, <1>11 DEF Next, Sampling, Asked

-----------------------------------------------------------------------------
(* Computations.                                                           *)
LEMMA JobFrame ==
    ASSUME TypeOK, JobInv, UNCHANGED job, today' \in Int, today <= today'
    PROVE  JobInv'
<1>1. ASSUME NEW t \in Tasks, job[t].step # "idle" PROVE JobOK(job[t])'
  BY <1>1, DayNumbers, SeenTypes DEF JobInv, JobOK, Busy, Jobs
<1> QED BY <1>1 DEF JobInv, Busy

LEMMA OneJob ==
    ASSUME TypeOK, JobInv, NEW t \in Tasks, NEW j \in Jobs, job' = [job EXCEPT ![t] = j],
           UNCHANGED today, j.step # "idle" => JobOK(j), j.step = "drop" => t # "timer"
    PROVE  JobInv'
<1>1. job'[t] = j /\ \A u \in Tasks \ {t} : job'[u] = job[u] BY DEF TypeOK
<1>2. \A u \in Tasks : job'[u].step # "idle" => JobOK(job[u])'
  BY <1>1 DEF JobInv, JobOK, Busy
<1>3. job'["timer"].step # "drop" BY <1>1 DEF JobInv, Tasks
<1> QED BY <1>2, <1>3 DEF JobInv, Busy

Spans(last, live) ==
    \/ live = last /\ last <= today
    \/ live = NoDay /\ last < today

LEMMA StartJob ==
    ASSUME TypeOK, JobInv, NEW t \in Tasks, NEW step \in Steps, NEW first \in Days, NEW last \in Days,
           NEW live \in Days \cup {NoDay}, NEW costs \in {"before", "after", "never"},
           Start(t, step, first, last, live, costs), UNCHANGED today, first <= last,
           step \in {"cost", "back", "drop"}, step = "drop" => t # "timer" /\ live = NoDay,
           Spans(last, live)
    PROVE  JobInv'
<1> DEFINE j == [Idle EXCEPT !.step = step, !.at = IF step = "back" THEN first - 1 ELSE first,
                              !.first = first, !.last = last, !.live = live, !.costs = costs,
                              !.since = today, !.depth = MaxDepth, !.using = streams]
<1>1. job' = [job EXCEPT ![t] = j] BY DEF Start
<1>2. job'[t] = j /\ job' \in [Tasks -> Jobs] BY <1>1, StartType DEF TypeOK
<1>3. j \in Jobs BY <1>2
<1>4. j.step = step /\ j.first = first /\ j.last = last /\ j.live = live
      /\ j.at = IF step = "back" THEN first - 1 ELSE first
  BY DEF Idle
<1>5. JobOK(j) BY <1>4, DayNumbers DEF JobOK, Spans
<1> HIDE DEF j
<1> QED BY <1>1, <1>3, <1>4, <1>5, OneJob

LEMMA AdvanceJob ==
    ASSUME TypeOK, JobInv, NEW t \in Tasks, job[t].step \in {"split", "storeSplit"}, NEW l \in Ledgers,
           Advance(t, l), UNCHANGED today
    PROVE  JobInv'
<1> DEFINE j == job[t]
           k == [j EXCEPT !.at = @ + 1, !.step = Arrival(t, j.at + 1), !.ledger = l, !.made = NoSplit]
<1>1. JobOK(j) /\ j \in Jobs BY SeenTypes DEF JobInv, Busy
<1>2. job' = [job EXCEPT ![t] = IF j.at = j.last THEN Idle ELSE k] BY DEF Advance
<1>3. job' \in [Tasks -> Jobs] BY <1>1, AdvanceType
<1>4. CASE j.at = j.last BY <1>2, <1>4, SeenTypes, OneJob DEF Idle
<1>5. CASE j.at # j.last
  <2>1. k \in Jobs BY <1>2, <1>3, <1>5 DEF TypeOK
  <2>2. k.at = j.at + 1 /\ k.step \in {"split", "cost"} /\ k.first = j.first /\ k.last = j.last /\ k.live = j.live
    BY <1>1 DEF Jobs, Arrival
  <2>3. JobOK(k) BY <1>1, <1>5, <2>2, DayNumbers DEF JobOK
  <2> QED BY <1>2, <1>5, <2>1, <2>2, <2>3, OneJob
<1> QED BY <1>4, <1>5

LEMMA CostDoneJob ==
    ASSUME TypeOK, JobInv, NEW t \in Tasks, job[t].step \in {"cost", "storeCost"}, CostDone(t), UNCHANGED today
    PROVE  JobInv'
<1> DEFINE j == job[t]
           b == [j EXCEPT !.step = "back", !.at = @ - 1, !.made = NoSplit]
           k == [j EXCEPT !.step = "split", !.made = NoSplit]
<1>1. JobOK(j) /\ j \in Jobs BY SeenTypes DEF JobInv, Busy
<1>2. job' = [job EXCEPT ![t] = IF j.costs = "before" /\ j.at = j.first THEN b ELSE k] BY DEF CostDone
<1>3. job' \in [Tasks -> Jobs] BY <1>1, CostDoneType
<1>4. CASE j.costs = "before" /\ j.at = j.first
  <2>1. b \in Jobs BY <1>2, <1>3, <1>4 DEF TypeOK
  <2>2. b.at = j.at - 1 /\ b.step = "back" /\ b.first = j.first /\ b.last = j.last /\ b.live = j.live
    BY <1>1 DEF Jobs
  <2>3. JobOK(b) BY <1>1, <1>4, <2>2, DayNumbers DEF JobOK
  <2> QED BY <1>2, <1>4, <2>1, <2>2, <2>3, OneJob
<1>5. CASE ~(j.costs = "before" /\ j.at = j.first)
  <2>1. k \in Jobs BY <1>2, <1>3, <1>5 DEF TypeOK
  <2>2. k.at = j.at /\ k.step = "split" /\ k.first = j.first /\ k.last = j.last /\ k.live = j.live
    BY <1>1 DEF Jobs
  <2>3. JobOK(k) BY <1>1, <2>2, DayNumbers DEF JobOK
  <2> QED BY <1>2, <1>5, <2>1, <2>2, <2>3, OneJob
<1> QED BY <1>4, <1>5

LEMMA ForwardJob ==
    ASSUME TypeOK, JobInv, NEW t \in Tasks, job[t].step = "back", NEW l \in Ledgers, Forward(t, l), UNCHANGED today
    PROVE  JobInv'
<1> DEFINE j == job[t]
           k == [j EXCEPT !.at = @ + 1, !.ledger = l, !.step = Arrival(t, j.at + 1)]
<1>1. JobOK(j) /\ j \in Jobs BY SeenTypes DEF JobInv, Busy
<1>2. job' = [job EXCEPT ![t] = k] BY DEF Forward
<1>3. job' \in [Tasks -> Jobs] BY <1>1, ForwardType
<1>4. k \in Jobs BY <1>2, <1>3 DEF TypeOK
<1>5. k.at = j.at + 1 /\ k.step \in {"split", "cost"} /\ k.first = j.first /\ k.last = j.last /\ k.live = j.live
  BY <1>1 DEF Jobs, Arrival
<1>6. JobOK(k) BY <1>1, <1>5, DayNumbers DEF JobOK, Jobs
<1> QED BY <1>2, <1>4, <1>5, <1>6, OneJob

(* A day with grid data is seen with it.                                   *)
LEMMA GridIsSeen ==
    ASSUME TypeOK, NEW d, HasGridFile(d), NEW using \in SUBSET Streams
    PROVE  d \in Days /\ Contents(d, using) # {}
BY LoggerAssumption DEF HasGridFile, Contents

LEMMA JobStep == TypeOK /\ SampleInv /\ JobInv /\ [Next]_vars => JobInv'
<1> SUFFICES ASSUME TypeOK, SampleInv, JobInv, [Next]_vars PROVE JobInv'
  OBVIOUS
<1> USE DEF sampling, bounds, caches
<1>0. today <= today /\ today \in Int BY DayNumbers
<1>1. ASSUME Sampling \/ UNCHANGED vars \/ \E s \in Streams : EditTopology(s) PROVE JobInv'
  <2>1. UNCHANGED <<job, today>>
    BY <1>1 DEF Sampling, Sample, Drain, WriteRecord, RefreshStreams, vars, EditTopology
  <2> QED BY <1>0, <2>1, JobFrame
<1>2. CASE MidnightJob
  <2>1. today > 0 BY <1>2 DEF MidnightJob, SampleInv
  <2>2. today - 1 \in Days /\ today - 1 < today BY <2>1, DayNumbers
  <2>3. Start("timer", "cost", today - 1, today - 1, NoDay, "before") /\ UNCHANGED today BY <1>2 DEF MidnightJob
  <2>6. Spans(today - 1, NoDay) BY <2>2 DEF Spans
  <2>4. "timer" \in Tasks /\ "cost" \in Steps /\ "cost" # "drop" BY DEF Tasks, Steps
  <2>5. today - 1 <= today - 1 BY <1>0
  <2> QED BY ONLY <2>2, <2>3, <2>4, <2>5, <2>6, TypeOK, JobInv, StartJob
<1>3. ASSUME NEW t \in Tasks, Computing(t) PROVE JobInv'
  <2>0. JobOK(job[t]) /\ job[t] \in Jobs /\ UNCHANGED today
    BY <1>3, ComputingFrame, SeenTypes DEF JobInv, Busy
  <2>1. CASE ComputeCost(t)
    <3>1. CASE CostDone(t) BY <2>0, <2>1, <3>1, CostDoneJob DEF ComputeCost
    <3>2. CASE /\ job[t].at # job[t].live
               /\ job' = [job EXCEPT ![t].step = "storeCost", ![t].made.of = Contents(job[t].at, Using(t))]
      <4> DEFINE k == [job[t] EXCEPT !.step = "storeCost",
                                     !.made = [job[t].made EXCEPT !.of = Contents(job[t].at, Using(t))]]
      <4>1. job' = [job EXCEPT ![t] = k] BY <2>0, <3>2 DEF TypeOK, Jobs
      <4>2. k \in Jobs BY <4>1, <1>3, TypeStep DEF TypeOK, Next
      <4>3. k.step = "storeCost" /\ k.at = job[t].at /\ k.first = job[t].first /\ k.last = job[t].last
            /\ k.live = job[t].live
        BY <2>0 DEF Jobs
      <4>4. JobOK(k) BY <2>0, <2>1, <3>2, <4>3 DEF JobOK, ComputeCost
      <4> QED BY <2>0, <4>1, <4>2, <4>3, <4>4, OneJob
    <3> QED BY <2>1, <3>1, <3>2 DEF ComputeCost
  <2>2. CASE StoreCost(t) BY <2>0, <2>2, CostDoneJob DEF StoreCost
  <2>3. CASE LedgerBefore(t)
    <3> DEFINE d == job[t].at
    <3>1. d \in Days => End(d, split[d]) \in Ledgers BY SeenTypes DEF TypeOK
    <3>2. CASE d \in Days /\ Forward(t, End(d, split[d])) BY <2>0, <2>3, <3>1, <3>2, ForwardJob DEF LedgerBefore
    <3>3. CASE Forward(t, Unknown) BY <2>0, <2>3, <3>3, SeenTypes, ForwardJob DEF LedgerBefore
    <3>4. CASE HasGridFile(d) /\ job' = [job EXCEPT ![t].at = @ - 1, ![t].depth = @ - 1]
      <4> DEFINE k == [job[t] EXCEPT !.at = @ - 1, !.depth = @ - 1]
      <4>1. job' = [job EXCEPT ![t] = k] BY <2>0, <3>4 DEF TypeOK, Jobs
      <4>2. k \in Jobs BY <4>1, <1>3, TypeStep DEF TypeOK, Next
      <4>3. k.step = job[t].step /\ k.at = d - 1 /\ k.first = job[t].first /\ k.last = job[t].last
            /\ k.live = job[t].live
        BY <2>0 DEF Jobs
      <4>4. JobOK(k) BY <2>0, <2>3, <3>4, <4>3, DayNumbers DEF JobOK, LedgerBefore, HasGridFile
      <4> QED BY <2>0, <2>3, <4>1, <4>2, <4>3, <4>4, OneJob DEF LedgerBefore
    <3> QED BY <2>3, <3>2, <3>3, <3>4 DEF LedgerBefore
  <2>4. CASE ComputeSplit(t)
    <3> DEFINE d == job[t].at
               now == [from |-> job[t].ledger, of |-> Contents(d, Using(t))]
    <3>1. d \in Days BY <2>0, <2>4 DEF ComputeSplit, JobOK
    <3>2. now \in Splits BY <2>0, <3>1, SeenTypes DEF Jobs, Splits
    <3>3. End(d, split[d]) \in Ledgers /\ End(d, now) \in Ledgers /\ Unknown \in Ledgers
      BY <3>1, <3>2, SeenTypes DEF TypeOK
    <3>4. ASSUME NEW l \in Ledgers, Advance(t, l) PROVE JobInv'
      BY <2>0, <2>4, <3>4, AdvanceJob DEF ComputeSplit
    <3>5. CASE /\ HasGridFile(d) /\ d # job[t].live
               /\ job' = [job EXCEPT ![t].step = "storeSplit", ![t].made = now]
      <4> DEFINE k == [job[t] EXCEPT !.step = "storeSplit", !.made = now]
      <4>1. job' = [job EXCEPT ![t] = k] BY <2>0, <3>5 DEF TypeOK, Jobs
      <4>2. k \in Jobs BY <4>1, <1>3, TypeStep DEF TypeOK, Next
      <4>3. k.step = "storeSplit" /\ k.at = d /\ k.first = job[t].first /\ k.last = job[t].last
            /\ k.live = job[t].live /\ k.made.of = Contents(d, Using(t))
        BY <2>0 DEF Jobs
      <4>4. k.made.of # {} BY <3>5, <4>3, GridIsSeen, SeenTypes
      <4>5. JobOK(k) BY <2>0, <2>4, <3>5, <4>3, <4>4 DEF JobOK, ComputeSplit
      <4> QED BY <2>0, <4>1, <4>2, <4>3, <4>5, OneJob
    <3> QED BY <2>4, <3>3, <3>4, <3>5 DEF ComputeSplit
  <2>5. CASE StoreSplit(t)
    <3>1. job[t].made \in Splits /\ job[t].at \in Days BY <2>0, <2>5 DEF Jobs, StoreSplit, JobOK
    <3>2. End(job[t].at, job[t].made) \in Ledgers BY <3>1, SeenTypes
    <3> QED BY <2>0, <2>5, <3>2, AdvanceJob DEF StoreSplit
  <2>6. CASE Drop(t)
    <3>1. PICK n \in Jobs :
            /\ job' = [job EXCEPT ![t] = n]
            /\ \/ n = Idle
               \/ /\ n.first = job[t].first /\ n.last = job[t].last /\ n.live = job[t].live
                  /\ \/ job[t].at = job[t].last /\ n.step = "back" /\ n.at = job[t].first - 1
                     \/ job[t].at # job[t].last /\ n.step = "drop" /\ n.at = job[t].at + 1
      BY <2>6, DropEffect
    <3>2. n.step # "idle" => JobOK(n) BY <2>0, <2>6, <3>1, DayNumbers DEF JobOK, Drop, Idle
    <3>3. t # "timer" BY <2>6 DEF Drop, JobInv
    <3> QED BY <2>0, <3>1, <3>2, <3>3, OneJob
  <2> QED BY <1>3, <2>1, <2>2, <2>3, <2>4, <2>5, <2>6 DEF Computing
<1>4. ASSUME NEW d \in Days, d <= today, DailyEnergy(d) \/ BatteryMix(d) \/ RecomputeFrom(d) PROVE JobInv'
  <2>1. today \in Days /\ (d < today => today - 1 \in Days) /\ d <= d BY DayNumbers
  <2>2. UNCHANGED today BY <1>4 DEF DailyEnergy, BatteryMix, RecomputeFrom, Request
  <2>3. CASE DailyEnergy(d)
    <3>1. Start("http", "cost", d, today, today, "before") BY <2>3 DEF DailyEnergy
    <3>2. "http" \in Tasks /\ "cost" \in Steps /\ "cost" # "drop" /\ d \in Days /\ d <= today
      BY <1>4 DEF Tasks, Steps
    <3>3. Spans(today, today) BY <1>0 DEF Spans
    <3> QED BY ONLY <2>1, <2>2, <3>1, <3>2, <3>3, TypeOK, JobInv, StartJob
  <2>4. CASE BatteryMix(d)
    <3>1. Start("http", "back", d, d, d, "never") BY <2>4 DEF BatteryMix
    <3>2. "http" \in Tasks /\ "back" \in Steps /\ "back" # "drop" /\ d \in Days /\ d <= today
      BY <1>4 DEF Tasks, Steps
    <3>3. Spans(d, d) BY <3>2 DEF Spans
    <3> QED BY ONLY <2>1, <2>2, <3>1, <3>2, <3>3, TypeOK, JobInv, StartJob
  <2>5. CASE RecomputeFrom(d)
    <3>1. d <= today - 1 /\ today - 1 < today BY <2>5, DayNumbers DEF RecomputeFrom
    <3>2. Spans(today - 1, NoDay) BY <3>1 DEF Spans
    <3> QED BY <2>1, <2>2, <2>5, <3>1, <3>2, StartJob DEF RecomputeFrom, Tasks, Steps
  <2> QED BY <1>4, <2>3, <2>4, <2>5
<1>5. CASE NextDay
  <2>1. today' = today + 1 /\ UNCHANGED job BY <1>5 DEF NextDay
  <2> QED BY <2>1, DayNumbers, JobFrame
<1>6. ASSUME NEW day \in Days, Restart(day) PROVE JobInv'
  BY <1>6 DEF Restart, JobInv, Busy, Idle, Tasks
<1> QED BY <1>1, <1>2, <1>3, <1>4, <1>5, <1>6 DEF Next, Asked
-----------------------------------------------------------------------------
(* Frozen figures.                                                         *)
Amount(d, s) == minutes[d][s] + SampledAs(d, s)

LEMMA AmountTypes ==
    ASSUME TypeOK
    PROVE  /\ \A d \in Days, s \in Streams : minutes[d][s] \in Nat /\ SampledAs(d, s) \in {0, 1}
           /\ \A d \in Days, using \in SUBSET Streams : Complete(d, Contents(d, using))
<1>1. \A d \in Days, s \in Streams : minutes[d][s] \in Nat /\ SampledAs(d, s) \in {0, 1}
  BY DEF TypeOK, SampledAs
<1>2. ASSUME NEW d \in Days, NEW using \in SUBSET Streams, NEW c \in Contents(d, using)
      PROVE  minutes[d][c[1]] + SampledAs(d, c[1]) <= c[2] + 1
  <2>1. PICK s \in using \cup {Grid} : c = <<s, minutes[d][s]>> BY DEF Contents
  <2>2. s \in Streams BY LoggerAssumption
  <2>3. c[1] = s /\ c[2] = minutes[d][s] BY <2>1
  <2> QED BY <1>1, <2>2, <2>3
<1> QED BY <1>1, <1>2 DEF Complete

(* A task stores figures of a day that is over.                            *)
LEMMA Over ==
    ASSUME TypeOK, JobInv, NEW t \in Tasks, job[t].step \in {"storeCost", "storeSplit"}
    PROVE  job[t].at \in Days /\ job[t].at < today
<1>1. JobOK(job[t]) BY DEF JobInv, Busy
<1> QED BY <1>1, DayNumbers DEF JobOK

LEMMA FrozenFrame ==
    ASSUME TypeOK, TypeOK', JobInv, FrozenInv, today <= today',
           \A d \in Days, s \in Streams : d < today => Amount(d, s)' <= Amount(d, s),
           \A d \in Days : cost'[d] = cost[d] \/ (d < today /\ Complete(d, cost'[d])),
           \A d \in Days : split'[d].of = split[d].of \/ (d < today /\ Complete(d, split'[d].of)),
           \A t \in Tasks : job'[t].step \in {"storeCost", "storeSplit"} =>
               \/ job'[t] = job[t]
               \/ job'[t].at \in Days /\ job'[t].at < today /\ Complete(job'[t].at, job'[t].made.of)
    PROVE  FrozenInv'
<1>1. today \in Int /\ today' \in Int BY DayNumbers DEF TypeOK, Days
<1>2. \A d \in Days, s \in Streams : minutes[d][s] + SampledAs(d, s) \in Int BY AmountTypes
<1>3. \A d \in Days, s \in Streams : minutes'[d][s] + SampledAs(d, s)' \in Int
  BY DEF TypeOK, SampledAs
<1>4. ASSUME NEW d \in Days, d < today, NEW s \in Streams, NEW n \in Nat,
             minutes[d][s] + SampledAs(d, s) <= n + 1
      PROVE  minutes'[d][s] + SampledAs(d, s)' <= n + 1
  BY <1>2, <1>3, <1>4 DEF Amount
<1>5. ASSUME NEW d \in Days PROVE (cost'[d] # {} => d < today') /\ Complete(d, cost[d])'
  <2>1. cost'[d] # {} => d < today BY DEF FrozenInv
  <2>2. Complete(d, cost'[d]) BY DEF FrozenInv
  <2>3. \A c \in cost'[d] : c[1] \in Streams /\ c[2] \in Nat BY DEF TypeOK, Seen
  <2>4. ASSUME NEW c \in cost'[d] PROVE minutes'[d][c[1]] + SampledAs(d, c[1])' <= c[2] + 1
    BY <1>4, <2>1, <2>2, <2>3 DEF Complete
  <2>5. Complete(d, cost[d])' BY <2>4 DEF Complete
  <2>6. d \in Int BY DayNumbers
  <2> QED BY <1>1, <2>1, <2>5, <2>6
<1>6. ASSUME NEW d \in Days PROVE (split'[d].of # {} => d < today') /\ Complete(d, split[d].of)'
  <2>1. split'[d].of # {} => d < today BY DEF FrozenInv
  <2>2. Complete(d, split'[d].of) BY DEF FrozenInv
  <2>3. split'[d].of \in Seen BY DEF TypeOK, Splits
  <2>4. \A c \in split'[d].of : c[1] \in Streams /\ c[2] \in Nat BY <2>3 DEF Seen
  <2>5. ASSUME NEW c \in split'[d].of PROVE minutes'[d][c[1]] + SampledAs(d, c[1])' <= c[2] + 1
    BY <1>4, <2>1, <2>2, <2>4 DEF Complete
  <2>6. Complete(d, split[d].of)' BY <2>5 DEF Complete
  <2>7. d \in Int BY DayNumbers
  <2> QED BY <1>1, <2>1, <2>6, <2>7
<1>7. ASSUME NEW t \in Tasks, job'[t].step \in {"storeCost", "storeSplit"}
      PROVE  Complete(job[t].at, job[t].made.of)'
  <2>1. job'[t].at \in Days /\ job'[t].at < today /\ Complete(job'[t].at, job'[t].made.of)
    <3>1. CASE job'[t] = job[t] BY <1>7, <3>1, Over DEF FrozenInv
    <3>2. CASE job'[t] # job[t] BY <1>7, <3>2
    <3> QED BY <3>1, <3>2
  <2>2. PICK d \in Days : d = job'[t].at /\ d < today /\ Complete(d, job'[t].made.of) BY <2>1
  <2>3. job'[t] \in Jobs BY DEF TypeOK
  <2>4. job'[t].made.of \in Seen BY <2>3 DEF Jobs, Splits
  <2>5. \A c \in job'[t].made.of : c[1] \in Streams /\ c[2] \in Nat BY <2>4 DEF Seen
  <2>6. ASSUME NEW c \in job'[t].made.of PROVE minutes'[d][c[1]] + SampledAs(d, c[1])' <= c[2] + 1
    BY <1>4, <2>2, <2>5 DEF Complete
  <2>7. Complete(d, job[t].made.of)' BY <2>6 DEF Complete
  <2> QED BY <2>2, <2>7
<1> QED BY <1>5, <1>6, <1>7 DEF FrozenInv

(* None of these leaves a task about to store.                             *)
LEMMA NotStoring ==
    ASSUME TypeOK, JobInv, NEW t \in Tasks,
           \/ CostDone(t)
           \/ \E l \in Ledgers : Advance(t, l) \/ Forward(t, l)
           \/ Drop(t)
    PROVE  job'[t].step \notin {"storeCost", "storeSplit"}
<1>1. job[t] \in Jobs BY SeenTypes
<1>2. CASE CostDone(t) BY <1>1, <1>2 DEF CostDone, TypeOK, Jobs
<1>3. ASSUME NEW l \in Ledgers, Advance(t, l) PROVE job'[t].step \notin {"storeCost", "storeSplit"}
  <2> DEFINE j == job[t]
             k == [j EXCEPT !.at = @ + 1, !.step = Arrival(t, j.at + 1), !.ledger = l, !.made = NoSplit]
  <2>1. job' = [job EXCEPT ![t] = IF j.at = j.last THEN Idle ELSE k] BY <1>3 DEF Advance
  <2>2. job'[t] = IF j.at = j.last THEN Idle ELSE k BY <2>1 DEF TypeOK
  <2>3. k.step = Arrival(t, j.at + 1) BY <1>1 DEF Jobs
  <2> QED BY <2>2, <2>3 DEF Arrival, Idle
<1>4. ASSUME NEW l \in Ledgers, Forward(t, l) PROVE job'[t].step \notin {"storeCost", "storeSplit"}
  BY <1>1, <1>4 DEF Forward, Arrival, TypeOK, Jobs
<1>5. CASE Drop(t) BY <1>5, DropEffect DEF TypeOK, Idle
<1> QED BY <1>2, <1>3, <1>4, <1>5

LEMMA FrozenStep == TypeOK /\ SampleInv /\ JobInv /\ FrozenInv /\ [Next]_vars => FrozenInv'
<1> SUFFICES ASSUME TypeOK, SampleInv, JobInv, FrozenInv, [Next]_vars PROVE FrozenInv'
  OBVIOUS
<1>1. TypeOK' /\ SampleInv' BY TypeStep, SampleStep
<1>2. ASSUME \A d \in Days, s \in Streams : d < today => taken'[d][s] <= taken[d][s]
      PROVE  \A d \in Days, s \in Streams : d < today => Amount(d, s)' <= Amount(d, s)
  <2>1. \A d \in Days, s \in Streams : taken[d][s] = Amount(d, s)
    BY DEF SampleInv, NothingSampledIsLost, Amount
  <2>2. \A d \in Days, s \in Streams : taken'[d][s] = Amount(d, s)'
    BY <1>1 DEF SampleInv, NothingSampledIsLost, Amount
  <2> QED BY <1>2, <2>1, <2>2
<1>3. \A d \in Days, s \in Streams : taken[d][s] <= taken[d][s] BY DEF TypeOK
<1>4. today <= today /\ today \in Int BY DayNumbers
<1>5. ASSUME NEW s \in Streams, Sample(s) PROVE FrozenInv'
  <2>1. taken' = [taken EXCEPT ![today] = [taken[today] EXCEPT ![s] = @ + 1]] BY <1>5 DEF Sample
  <2>2. \A d \in Days, r \in Streams : d < today => taken'[d][r] <= taken[d][r]
    BY <1>3, <1>4, <2>1 DEF TypeOK
  <2>3. UNCHANGED <<today, cost, split, job>> BY <1>5 DEF Sample, caches
  <2> QED BY <1>1, <1>2, <1>4, <2>2, <2>3, FrozenFrame
<1>6. ASSUME Drain \/ RefreshStreams \/ UNCHANGED vars \/ NextDay \/ \E s \in Streams : EditTopology(s)
      PROVE  FrozenInv'
  <2>1. UNCHANGED <<taken, cost, split, job>>
    BY <1>6 DEF Drain, RefreshStreams, vars, NextDay, EditTopology, caches, sampling
  <2>2. today <= today' BY <1>4, <1>6 DEF Drain, RefreshStreams, vars, NextDay, EditTopology
  <2> QED BY <1>1, <1>2, <1>3, <2>1, <2>2, FrozenFrame
<1>7. ASSUME NEW s \in Streams, NEW d \in Days, WriteRecord(s, d) PROVE FrozenInv'
  <2>1. \/ UNCHANGED taken
        \/ taken' = [taken EXCEPT ![d] = [taken[d] EXCEPT ![s] = @ - 1]]
    BY <1>7 DEF WriteRecord
  <2>2. \A e \in Days, r \in Streams : taken'[e][r] <= taken[e][r]
    <3>1. taken \in [Days -> [Streams -> Int]] BY DEF TypeOK
    <3>2. taken[d] \in [Streams -> Int] /\ taken[d][s] - 1 <= taken[d][s] BY <3>1
    <3> QED BY <1>3, <2>1, <3>1, <3>2
  <2>3. UNCHANGED <<today, cost, split, job>> BY <1>7 DEF WriteRecord, caches
  <2> QED BY <1>1, <1>2, <1>4, <2>2, <2>3, FrozenFrame
<1>8. ASSUME NEW t \in Tasks, NEW step \in {"cost", "back", "drop"}, NEW first, NEW last, NEW live, NEW costs,
             Start(t, step, first, last, live, costs), UNCHANGED <<today, taken, cost, split>>
      PROVE  FrozenInv'
  <2> DEFINE j == [Idle EXCEPT !.step = step, !.at = IF step = "back" THEN first - 1 ELSE first,
                                !.first = first, !.last = last, !.live = live, !.costs = costs,
                                !.since = today, !.depth = MaxDepth, !.using = streams]
  <2>1. job' = [job EXCEPT ![t] = j] /\ j.step = step BY <1>8 DEF Start, Idle
  <2> HIDE DEF j
  <2>2. \A u \in Tasks : job'[u].step \in {"storeCost", "storeSplit"} => job'[u] = job[u]
    BY <2>1 DEF TypeOK
  <2> QED BY <1>1, <1>2, <1>3, <1>4, <1>8, <2>2, FrozenFrame
<1>9. CASE MidnightJob
  <2>1. Start("timer", "cost", today - 1, today - 1, NoDay, "before") /\ UNCHANGED <<today, taken, cost, split>>
    BY <1>9 DEF MidnightJob, sampling
  <2> QED BY <1>8, <2>1 DEF Tasks
<1>10. ASSUME NEW d \in Days, DailyEnergy(d) \/ BatteryMix(d) \/ RecomputeFrom(d) PROVE FrozenInv'
  <2>1. UNCHANGED <<today, taken, cost, split>>
    BY <1>10 DEF DailyEnergy, BatteryMix, RecomputeFrom, Request, sampling
  <2>2. \/ Start("http", "cost", d, today, today, "before")
        \/ Start("http", "back", d, d, d, "never")
        \/ Start("http", "drop", d, today - 1, NoDay, "after")
    BY <1>10 DEF DailyEnergy, BatteryMix, RecomputeFrom
  <2> QED BY <1>8, <2>1, <2>2 DEF Tasks
<1>11. ASSUME NEW day \in Days, Restart(day) PROVE FrozenInv'
  <2>1. \A d \in Days, s \in Streams : taken'[d][s] <= taken[d][s]
    <3>1. ASSUME NEW d \in Days, NEW s \in Streams PROVE minutes[d][s] <= taken[d][s]
      <4>1. taken[d][s] = minutes[d][s] + SampledAs(d, s) BY DEF SampleInv, NothingSampledIsLost
      <4>2. minutes[d][s] \in Nat /\ SampledAs(d, s) \in {0, 1} BY AmountTypes
      <4> QED BY <4>1, <4>2
    <3> QED BY <1>11, <3>1 DEF Restart
  <2>2. UNCHANGED <<cost, split>> /\ today <= today' BY <1>4, <1>11, DayNumbers DEF Restart
  <2>3. \A u \in Tasks : job'[u].step = "idle" BY <1>11 DEF Restart, Idle
  <2> QED BY <1>1, <1>2, <2>1, <2>2, <2>3, FrozenFrame
<1>12. ASSUME NEW t \in Tasks, Computing(t) PROVE FrozenInv'
  <2>0. /\ UNCHANGED <<today, taken>>
        /\ \A u \in Tasks \ {t} : job'[u] = job[u]
        /\ job[t] \in Jobs /\ JobOK(job[t]) /\ Using(t) \in SUBSET Streams
    BY <1>12, ComputingFrame, SeenTypes DEF JobInv, Busy, sampling
  <2>1. ASSUME \A d \in Days : cost'[d] = cost[d] \/ (d < today /\ Complete(d, cost'[d])),
               \A d \in Days : split'[d].of = split[d].of \/ (d < today /\ Complete(d, split'[d].of)),
               \/ job'[t].step \notin {"storeCost", "storeSplit"}
               \/ job'[t].at \in Days /\ job'[t].at < today /\ Complete(job'[t].at, job'[t].made.of)
        PROVE  FrozenInv'
    BY <1>1, <1>2, <1>3, <1>4, <2>0, <2>1, FrozenFrame
  <2>2. job[t].at # job[t].live => job[t].at < today BY <2>0, DayNumbers DEF JobOK, Jobs
  <2>3. CASE ComputeCost(t)
    <3>1. UNCHANGED <<cost, split>> BY <2>3 DEF ComputeCost
    <3>2. CASE CostDone(t) BY <2>1, <3>1, <3>2, NotStoring
    <3>3. CASE /\ job[t].at # job[t].live
               /\ job' = [job EXCEPT ![t].step = "storeCost", ![t].made.of = Contents(job[t].at, Using(t))]
      <4> DEFINE k == [job[t] EXCEPT !.step = "storeCost",
                                     !.made = [job[t].made EXCEPT !.of = Contents(job[t].at, Using(t))]]
      <4>1. job' = [job EXCEPT ![t] = k] BY <2>0, <3>3 DEF TypeOK, Jobs
      <4>2. k.at = job[t].at /\ k.made.of = Contents(job[t].at, Using(t)) BY <2>0 DEF Jobs, Splits
      <4>3. job[t].at \in Days BY <2>0, <2>3 DEF JobOK, ComputeCost
      <4>4. Complete(job[t].at, Contents(job[t].at, Using(t))) BY <2>0, <4>3, AmountTypes
      <4>5. job'[t] = k BY <4>1 DEF TypeOK
      <4> HIDE DEF k
      <4> QED BY <2>1, <2>2, <3>1, <3>3, <4>2, <4>3, <4>4, <4>5
    <3> QED BY <2>3, <3>2, <3>3 DEF ComputeCost
  <2>4. CASE StoreCost(t)
    <3>1. job[t].at \in Days /\ job[t].at < today BY <2>4, Over DEF StoreCost
    <3>2. Complete(job[t].at, job[t].made.of) BY <2>4 DEF StoreCost, FrozenInv
    <3>3. UNCHANGED split /\ cost' = [cost EXCEPT ![job[t].at] = job[t].made.of] BY <2>4 DEF StoreCost
    <3>4. job'[t].step \notin {"storeCost", "storeSplit"} BY <2>4, NotStoring DEF StoreCost
    <3>5. \A d \in Days : cost'[d] = cost[d] \/ (d < today /\ Complete(d, cost'[d]))
      BY <3>1, <3>2, <3>3 DEF TypeOK
    <3> QED BY <2>1, <3>3, <3>4, <3>5
  <2>5. CASE LedgerBefore(t)
    <3>1. UNCHANGED <<cost, split>> BY <2>5 DEF LedgerBefore
    <3>2. job[t].at \in Days => End(job[t].at, split[job[t].at]) \in Ledgers BY SeenTypes DEF TypeOK
    <3>3. CASE \E l \in Ledgers : Forward(t, l) BY <2>1, <3>1, <3>3, NotStoring
    <3>4. CASE job' = [job EXCEPT ![t].at = @ - 1, ![t].depth = @ - 1]
      <4>1. job'[t].step = "back" BY <2>0, <2>5, <3>4 DEF LedgerBefore, TypeOK, Jobs
      <4> QED BY <2>1, <3>1, <4>1
    <3> QED BY <2>5, <3>2, <3>3, <3>4, SeenTypes DEF LedgerBefore
  <2>6. CASE ComputeSplit(t)
    <3> DEFINE d == job[t].at
               now == [from |-> job[t].ledger, of |-> Contents(d, Using(t))]
    <3>1. UNCHANGED <<cost, split>> BY <2>6 DEF ComputeSplit
    <3>2. d \in Days BY <2>0, <2>6 DEF ComputeSplit, JobOK
    <3>3. now \in Splits BY <2>0, <3>2, SeenTypes DEF Jobs, Splits
    <3>4. End(d, split[d]) \in Ledgers /\ End(d, now) \in Ledgers /\ Unknown \in Ledgers
      BY <3>2, <3>3, SeenTypes DEF TypeOK
    <3>5. CASE \E l \in Ledgers : Advance(t, l) BY <2>1, <3>1, <3>5, NotStoring
    <3>6. CASE d # job[t].live /\ job' = [job EXCEPT ![t].step = "storeSplit", ![t].made = now]
      <4> DEFINE k == [job[t] EXCEPT !.step = "storeSplit", !.made = now]
      <4>1. job' = [job EXCEPT ![t] = k] BY <2>0, <3>6 DEF TypeOK, Jobs
      <4>2. k.at = d /\ k.made.of = Contents(d, Using(t)) BY <2>0 DEF Jobs
      <4>3. Complete(d, Contents(d, Using(t))) BY <2>0, <3>2, AmountTypes
      <4>4. job'[t] = k BY <4>1 DEF TypeOK
      <4> HIDE DEF k
      <4> QED BY <2>1, <2>2, <3>1, <3>2, <3>6, <4>2, <4>3, <4>4
    <3> QED BY <2>6, <3>4, <3>5, <3>6 DEF ComputeSplit
  <2>7. CASE StoreSplit(t)
    <3>1. job[t].at \in Days /\ job[t].at < today BY <2>7, Over DEF StoreSplit
    <3>2. Complete(job[t].at, job[t].made.of) BY <2>7 DEF StoreSplit, FrozenInv
    <3>3. UNCHANGED cost /\ split' = [split EXCEPT ![job[t].at] = job[t].made] BY <2>7 DEF StoreSplit
    <3>4. End(job[t].at, job[t].made) \in Ledgers BY <2>0, <3>1, SeenTypes DEF Jobs
    <3>5. job'[t].step \notin {"storeCost", "storeSplit"} BY <2>7, <3>4, NotStoring DEF StoreSplit
    <3>6. \A d \in Days : split'[d].of = split[d].of \/ (d < today /\ Complete(d, split'[d].of))
      BY <3>1, <3>2, <3>3 DEF TypeOK
    <3> QED BY <2>1, <3>3, <3>5, <3>6
  <2>8. CASE Drop(t)
    <3>1. job[t].at \in Days /\ job[t].at < today BY <2>0, <2>2, <2>8, DayNumbers DEF JobOK, Drop
    <3>2. \A d \in Days : cost'[d] = cost[d] \/ (d < today /\ cost'[d] = {})
      BY <2>8, <3>1 DEF Drop, TypeOK
    <3>3. \A d \in Days : split'[d].of = split[d].of \/ (d < today /\ split'[d].of = {})
      BY <2>8, <3>1 DEF Drop, TypeOK, NoSplit
    <3>4. \A d \in Days : Complete(d, {}) BY DEF Complete
    <3>5. job'[t].step \notin {"storeCost", "storeSplit"} BY <2>8, NotStoring
    <3>6. \A d \in Days : cost'[d] = cost[d] \/ (d < today /\ Complete(d, cost'[d])) BY <3>2, <3>4
    <3>7. \A d \in Days : split'[d].of = split[d].of \/ (d < today /\ Complete(d, split'[d].of)) BY <3>3, <3>4
    <3> QED BY <2>1, <3>5, <3>6, <3>7
  <2> QED BY <1>12, <2>3, <2>4, <2>5, <2>6, <2>7, <2>8 DEF Computing
<1> QED BY <1>5, <1>6, <1>7, <1>9, <1>10, <1>11, <1>12 DEF Next, Sampling, Asked

-----------------------------------------------------------------------------
(* The chain of days.  Without exceptions at most one task computes.       *)
LEMMA ChainFrame ==
    ASSUME ChainInv, UNCHANGED <<split, job, minutes, exceptions>>
    PROVE  ChainInv'
BY DEF ChainInv, Linked, CarryOK, Seeded, Follows, Dropping, Cached, HasGridFile, Busy

(* While a task does something else, no day is being dropped.              *)
LEMMA NotDropping ==
    ASSUME ChainInv, exceptions = {}, NEW t \in Tasks,
           \/ Busy(t) /\ job[t].step # "drop"
           \/ ~Busy("http")
    PROVE  \A d \in Days : ~Dropping(d)
BY DEF ChainInv, Dropping, Busy, Tasks

LEMMA ChainJob ==
    ASSUME ChainInv, exceptions = {}, NEW t \in Tasks, Busy(t),
           \A u \in Tasks \ {t} : job'[u] = job[u],
           Linked', Busy(t)' => CarryOK(job[t])'
    PROVE  ChainInv'
<1>1. \A u \in Tasks \ {t} : ~Busy(u) /\ ~Busy(u)' BY DEF ChainInv, Busy, Tasks
<1>2. ~(Busy("timer") /\ Busy("http"))' BY <1>1 DEF Tasks, Busy
<1>3. \A u \in Tasks : Busy(u)' => CarryOK(job[u])' BY <1>1
<1> QED BY <1>2, <1>3 DEF ChainInv

(* Nothing is lost from the chain where no split changes and no caches are *)
(* being dropped.                                                          *)
LEMMA LinkedKept ==
    ASSUME Linked, UNCHANGED <<split, minutes>>, \A d \in Days : ~Dropping(d)
    PROVE  Linked'
BY DEF Linked, Follows, Cached, HasGridFile, Dropping

LEMMA ChainStart ==
    ASSUME TypeOK, TypeOK', FrozenInv, ChainInv, NEW t \in Tasks,
           NEW step, NEW first, NEW last, NEW live, NEW costs,
           Start(t, step, first, last, live, costs), UNCHANGED <<split, minutes>>,
           \/ step = "cost" /\ costs = "before"
           \/ step = "back"
           \/ step = "drop" /\ last = today - 1
    PROVE  ChainInv'
<1> SUFFICES ASSUME exceptions' = {} PROVE ChainInv'
  BY DEF ChainInv
<1> DEFINE j == [Idle EXCEPT !.step = step, !.at = IF step = "back" THEN first - 1 ELSE first,
                              !.first = first, !.last = last, !.live = live, !.costs = costs,
                              !.since = today, !.depth = MaxDepth, !.using = streams]
<1>1. exceptions = {} /\ ~Busy(t) /\ ~Busy(Other(t)) BY DEF Start
<1>2. Other(t) \in Tasks \ {t} /\ \A u \in Tasks : u = t \/ u = Other(t) BY DEF Other, Tasks
<1>3. \A u \in Tasks : ~Busy(u) BY <1>1, <1>2
<1>4. \A d \in Days : ~Dropping(d) BY <1>3 DEF Dropping, Busy, Tasks
<1>5. Linked' BY <1>1, <1>4, LinkedKept DEF ChainInv
<1>6. job' = [job EXCEPT ![t] = j] BY DEF Start
<1>7. j.step = step /\ j.at = (IF step = "back" THEN first - 1 ELSE first) /\ j.first = first /\ j.last = last
      /\ j.costs = costs
  BY DEF Idle
<1> HIDE DEF j
<1>8. job'[t] = j /\ \A u \in Tasks \ {t} : job'[u] = job[u] BY <1>6 DEF TypeOK
<1>9. \A d \in Days : Cached(d)' => d <= today - 1
  BY DayNumbers DEF FrozenInv, Cached
<1>10. CarryOK(job[t])'
  <2>1. ~Seeded(job'[t]) BY <1>7, <1>8 DEF Seeded
  <2>2. job'[t].step = "drop" => \A d \in Days : Cached(d)' => d <= job'[t].last
    BY <1>7, <1>8, <1>9
  <2> QED BY <1>7, <1>8, <2>1, <2>2 DEF CarryOK, Seeded
<1>11. ~(Busy("timer") /\ Busy("http"))' BY <1>3, <1>8 DEF Busy, Tasks
<1>12. \A u \in Tasks : Busy(u)' => CarryOK(job[u])' BY <1>3, <1>8, <1>10 DEF Busy
<1> QED BY <1>5, <1>11, <1>12 DEF ChainInv

(* Follows in the next state, of a day and a ledger of the present one.    *)
WillFollow(d, ledger) ==
    \/ split'[d].of # {} /\ ledger = End(d, split'[d])
    \/ split'[d].of = {} /\ ~(d \in Days /\ minutes'[d][Grid] > 0)

LEMMA WillCarry ==
    ASSUME NEW t \in Tasks, NEW k, job'[t] = k,
           Seeded(k) /\ k.at # k.live => k.at = 0 \/ WillFollow(k.at - 1, k.ledger),
           k.step \notin {"storeSplit", "drop"}
    PROVE  CarryOK(job[t])'
BY DEF CarryOK, Seeded, Follows, WillFollow, Cached, HasGridFile, End

(* What a task carries when it has done with a day's cost, and when it     *)
(* passes a ledger on.                                                     *)
LEMMA CostDoneCarry ==
    ASSUME TypeOK, NEW t \in Tasks, job[t].step \in {"cost", "storeCost"}, CarryOK(job[t]),
           CostDone(t), UNCHANGED <<split, minutes>>
    PROVE  CarryOK(job[t])' /\ job'[t].step \in {"back", "split"}
<1> DEFINE j == job[t]
           b == [j EXCEPT !.step = "back", !.at = @ - 1, !.made = NoSplit]
           k == [j EXCEPT !.step = "split", !.made = NoSplit]
<1>1. j \in Jobs BY SeenTypes
<1>2. job' = [job EXCEPT ![t] = IF j.costs = "before" /\ j.at = j.first THEN b ELSE k] BY DEF CostDone
<1>3. b.step = "back" /\ k.step = "split" /\ k.at = j.at /\ k.live = j.live /\ k.ledger = j.ledger
  BY <1>1 DEF Jobs
<1>4. job'[t] = IF j.costs = "before" /\ j.at = j.first THEN b ELSE k BY <1>2 DEF TypeOK
<1> HIDE DEF b, k
<1>5. CASE j.costs = "before" /\ j.at = j.first BY <1>3, <1>4, <1>5 DEF CarryOK, Seeded
<1>6. CASE ~(j.costs = "before" /\ j.at = j.first)
  <2>1. job'[t] = k BY <1>4, <1>6
  <2>2. Seeded(j) BY <1>6 DEF Seeded
  <2>3. j.at # j.live => j.at = 0 \/ Follows(j.at - 1, j.ledger) BY <2>2 DEF CarryOK
  <2>4. k.at # k.live => k.at = 0 \/ WillFollow(k.at - 1, k.ledger)
    BY <1>3, <2>3 DEF Follows, WillFollow, Cached, HasGridFile
  <2> QED BY <1>3, <2>1, <2>4, WillCarry
<1> QED BY <1>5, <1>6

LEMMA AdvanceCarry ==
    ASSUME TypeOK, NEW t \in Tasks, JobOK(job[t]), job[t].step # "back", NEW l, Advance(t, l),
           job[t].at # job[t].last => WillFollow(job[t].at, l)
    PROVE  /\ Busy(t)' => CarryOK(job[t])'
           /\ job'[t].step # "drop"
<1> DEFINE j == job[t]
           k == [j EXCEPT !.at = @ + 1, !.step = Arrival(t, j.at + 1), !.ledger = l, !.made = NoSplit]
<1>1. j \in Jobs /\ j.at \in Days BY SeenTypes DEF JobOK
<1>2. job' = [job EXCEPT ![t] = IF j.at = j.last THEN Idle ELSE k] BY DEF Advance
<1>3. job'[t] = IF j.at = j.last THEN Idle ELSE k BY <1>2 DEF TypeOK
<1>4. k.at = j.at + 1 /\ k.step \in {"split", "cost"} /\ k.ledger = l BY <1>1 DEF Jobs, Arrival
<1>5. k.at - 1 = j.at BY <1>1, <1>4, DayNumbers
<1> HIDE DEF k
<1>6. CASE j.at = j.last BY <1>3, <1>6 DEF Busy, Idle
<1>7. CASE j.at # j.last
  <2>1. job'[t] = k /\ WillFollow(j.at, l) BY <1>3, <1>7
  <2>2. WillFollow(k.at - 1, k.ledger) BY <1>4, <1>5, <2>1
  <2> QED BY <1>4, <2>1, <2>2, WillCarry
<1> QED BY <1>6, <1>7

(* A step of a computation.                                                *)
LEMMA ChainCompute ==
    ASSUME TypeOK, TypeOK', JobInv, FrozenInv, ChainInv, NEW t \in Tasks, Computing(t), exceptions' = {}
    PROVE  ChainInv'
<1> DEFINE j == job[t]
<1>1. /\ UNCHANGED minutes
      /\ \A u \in Tasks \ {t} : job'[u] = job[u]
      /\ Busy(t) /\ JobOK(j) /\ j \in Jobs
  BY ComputingFrame, SeenTypes DEF JobInv, Busy, sampling
<1>2. exceptions = {}
  <2>1. CASE Drop(t) BY <2>1, DropEffect
  <2>2. CASE ~Drop(t)
    BY <2>2 DEF Computing, ComputeCost, StoreCost, LedgerBefore, ComputeSplit, StoreSplit
  <2> QED BY <2>1, <2>2
<1>3. Linked /\ CarryOK(j) BY <1>1, <1>2 DEF ChainInv
<1>4. j.step # "drop" => \A d \in Days : ~Dropping(d) BY <1>1, <1>2, NotDropping
<1>5. j.live = j.last \/ j.live = NoDay BY <1>1 DEF JobOK
<1>6. CASE ComputeCost(t)
  <2>1. UNCHANGED split /\ j.step = "cost" BY <1>6 DEF ComputeCost
  <2>2. Linked' BY <1>1, <1>3, <1>4, <2>1, LinkedKept
  <2>3. CASE CostDone(t)
    <3>1. CarryOK(job[t])' BY <1>1, <1>3, <2>1, <2>3, CostDoneCarry
    <3> QED BY <1>1, <1>2, <2>2, <3>1, ChainJob
  <2>4. CASE job' = [job EXCEPT ![t].step = "storeCost", ![t].made.of = Contents(job[t].at, Using(t))]
    <3> DEFINE k == [j EXCEPT !.step = "storeCost", !.made = [j.made EXCEPT !.of = Contents(j.at, Using(t))]]
    <3>1. job' = [job EXCEPT ![t] = k] BY <1>1, <2>4 DEF TypeOK, Jobs
    <3>2. job'[t] = k BY <3>1 DEF TypeOK
    <3>3. k.step = "storeCost" /\ k.at = j.at /\ k.first = j.first /\ k.costs = j.costs /\ k.live = j.live
          /\ k.ledger = j.ledger
      BY <1>1 DEF Jobs
    <3> HIDE DEF k
    <3>4. Seeded(k) => Seeded(j) BY <2>1, <3>3 DEF Seeded
    <3>5. Seeded(k) /\ k.at # k.live => k.at = 0 \/ WillFollow(k.at - 1, k.ledger)
      BY <1>1, <1>3, <2>1, <3>3, <3>4 DEF CarryOK, Follows, WillFollow, Cached, HasGridFile
    <3>6. CarryOK(job[t])' BY <3>2, <3>3, <3>5, WillCarry
    <3> QED BY <1>1, <1>2, <2>2, <3>6, ChainJob
  <2> QED BY <1>6, <2>3, <2>4 DEF ComputeCost
<1>7. CASE StoreCost(t)
  <2>1. UNCHANGED split /\ j.step = "storeCost" /\ CostDone(t) BY <1>7 DEF StoreCost
  <2>2. Linked' BY <1>1, <1>3, <1>4, <2>1, LinkedKept
  <2>3. CarryOK(job[t])' BY <1>1, <1>3, <2>1, CostDoneCarry
  <2> QED BY <1>1, <1>2, <2>2, <2>3, ChainJob
<1>8. CASE LedgerBefore(t)
  <2> DEFINE d == j.at
  <2>1. UNCHANGED split /\ j.step = "back" BY <1>8 DEF LedgerBefore
  <2>2. Linked' BY <1>1, <1>3, <1>4, <2>1, LinkedKept
  <2>3. ASSUME NEW l, Forward(t, l), d \in Days => WillFollow(d, l) PROVE ChainInv'
    <3> DEFINE k == [j EXCEPT !.at = @ + 1, !.ledger = l, !.step = Arrival(t, j.at + 1)]
    <3>1. job' = [job EXCEPT ![t] = k] BY <1>1, <2>3 DEF Forward, Jobs
    <3>2. job'[t] = k BY <3>1 DEF TypeOK
    <3>3. k.at = d + 1 /\ k.step \in {"split", "cost"} /\ k.ledger = l BY <1>1 DEF Jobs, Arrival
    <3>4. d \in Days \cup {NoDay} BY <1>1 DEF Jobs
    <3>5. k.at = 0 \/ (k.at - 1 = d /\ d \in Days) BY <3>3, <3>4, DayNumbers
    <3> HIDE DEF k
    <3>6. CarryOK(job[t])' BY <2>3, <3>2, <3>3, <3>5, WillCarry
    <3> QED BY <1>1, <1>2, <2>2, <3>6, ChainJob
  <2>4. CASE d \in Days /\ Cached(d) /\ Forward(t, End(d, split[d]))
    <3>1. WillFollow(d, End(d, split[d])) BY <2>1, <2>4 DEF WillFollow, Cached
    <3> QED BY <2>3, <2>4, <3>1
  <2>5. CASE ~(d \in Days /\ Cached(d)) /\ ~HasGridFile(d) /\ Forward(t, Unknown)
    <3>1. d \in Days => WillFollow(d, Unknown) BY <1>1, <2>1, <2>5 DEF WillFollow, Cached, HasGridFile
    <3> QED BY <2>3, <2>5, <3>1
  <2>6. CASE job' = [job EXCEPT ![t].at = @ - 1, ![t].depth = @ - 1]
    <3> DEFINE k == [j EXCEPT !.at = @ - 1, !.depth = @ - 1]
    <3>1. job' = [job EXCEPT ![t] = k] BY <1>1, <2>6 DEF TypeOK, Jobs
    <3>2. job'[t] = k /\ k.step = "back" BY <1>1, <2>1, <3>1 DEF TypeOK, Jobs
    <3>3. CarryOK(job[t])' BY <3>2, WillCarry DEF Seeded
    <3> QED BY <1>1, <1>2, <2>2, <3>3, ChainJob
  <2> QED BY <1>8, <2>4, <2>5, <2>6 DEF LedgerBefore, Cached
<1>9. CASE ComputeSplit(t)
  <2> DEFINE d == j.at
             now == [from |-> j.ledger, of |-> Contents(d, Using(t))]
  <2>1. UNCHANGED split /\ j.step = "split" /\ d \in Days BY <1>1, <1>9 DEF ComputeSplit, JobOK
  <2>2. Linked' BY <1>1, <1>3, <1>4, <2>1, LinkedKept
  <2>3. ASSUME NEW l, Advance(t, l), d # j.last => WillFollow(d, l) PROVE ChainInv'
    <3>1. Busy(t)' => CarryOK(job[t])' BY <1>1, <2>1, <2>3, AdvanceCarry
    <3> QED BY <1>1, <1>2, <2>2, <3>1, ChainJob
  <2>4. d = j.live => d = j.last BY <1>5, <2>1, DayNumbers
  <2>5. CASE Cached(d) /\ Advance(t, End(d, split[d]))
    <3>1. WillFollow(d, End(d, split[d])) BY <2>1, <2>5 DEF WillFollow, Cached
    <3> QED BY <2>3, <2>5, <3>1
  <2>6. CASE ~(d # j.live /\ Cached(d)) /\ ~HasGridFile(d) /\ Advance(t, Unknown)
    <3>1. d # j.last => WillFollow(d, Unknown) BY <1>1, <2>1, <2>4, <2>6 DEF WillFollow, Cached, HasGridFile
    <3> QED BY <2>3, <2>6, <3>1
  <2>7. CASE d = j.live /\ Advance(t, End(d, now)) BY <2>3, <2>4, <2>7
  <2>8. CASE /\ ~(d # j.live /\ Cached(d)) /\ HasGridFile(d) /\ d # j.live
             /\ job' = [job EXCEPT ![t].step = "storeSplit", ![t].made = now]
    <3> DEFINE k == [j EXCEPT !.step = "storeSplit", !.made = now]
    <3>1. job' = [job EXCEPT ![t] = k] BY <1>1, <2>8 DEF Jobs
    <3>2. job'[t] = k BY <3>1 DEF TypeOK
    <3>3. k.step = "storeSplit" /\ k.at = d /\ k.live = j.live /\ k.ledger = j.ledger /\ k.made.from = j.ledger
      BY <1>1 DEF Jobs
    <3> HIDE DEF k
    <3>4. d = 0 \/ Follows(d - 1, j.ledger) BY <1>3, <2>1, <2>8 DEF CarryOK, Seeded
    <3>5. CarryOK(job[t])'
      BY <1>1, <2>1, <2>8, <3>2, <3>3, <3>4 DEF CarryOK, Seeded, Follows, Cached, HasGridFile, End
    <3> QED BY <1>1, <1>2, <2>2, <3>5, ChainJob
  <2> QED BY <1>9, <2>5, <2>6, <2>7, <2>8 DEF ComputeSplit, Cached
<1>10. CASE StoreSplit(t)
  <2> DEFINE d == j.at
  <2>1. j.step = "storeSplit" /\ split' = [split EXCEPT ![d] = j.made] /\ Advance(t, End(d, j.made))
    BY <1>10 DEF StoreSplit
  <2>2. d \in Days /\ d # j.live /\ j.made.of # {} BY <1>1, <2>1 DEF JobOK
  <2>3. ~Cached(d) /\ HasGridFile(d) /\ j.made.from = j.ledger /\ (d = 0 \/ Follows(d - 1, j.ledger))
    BY <1>3, <2>1, <2>2 DEF CarryOK, Seeded
  <2>4. split'[d] = j.made /\ \A e \in Days \ {d} : split'[e] = split[e] BY <2>1, <2>2 DEF TypeOK
  <2>5. ASSUME NEW e \in Days, e + 1 \in Days, split'[e + 1].of # {} PROVE WillFollow(e, split'[e + 1].from)
    <3>1. e \in Int /\ d \in Int /\ e >= 0 BY <2>2, DayNumbers
    <3>2. CASE e + 1 = d
      <4>1. e # d /\ d # 0 /\ d - 1 = e BY <3>1, <3>2
      <4>2. Follows(e, j.ledger) BY <2>3, <4>1
      <4> QED BY <1>1, <2>3, <2>4, <3>2, <4>1, <4>2 DEF Follows, WillFollow, Cached, HasGridFile
    <3>3. CASE e = d
      <4>1. e + 1 # d BY <3>1, <3>3
      <4>2. Cached(e + 1) BY <2>4, <2>5, <4>1 DEF Cached
      <4>3. Follows(d, split[d + 1].from) BY <1>3, <1>4, <2>1, <2>5, <3>3, <4>2 DEF Linked
      <4> QED BY <2>3, <4>3 DEF Follows
    <3>4. CASE e # d /\ e + 1 # d
      <4>1. Cached(e + 1) /\ split'[e + 1] = split[e + 1] /\ split'[e] = split[e]
        BY <2>4, <2>5, <3>4 DEF Cached
      <4>2. Follows(e, split[e + 1].from) BY <1>3, <1>4, <2>1, <2>5, <4>1 DEF Linked
      <4> QED BY <1>1, <4>1, <4>2 DEF Follows, WillFollow, Cached, HasGridFile
    <3> QED BY <3>2, <3>3, <3>4
  <2>6. Linked' BY <2>5 DEF Linked, WillFollow, Follows, Cached, HasGridFile, End
  <2>7. WillFollow(d, End(d, j.made)) BY <2>2, <2>4 DEF WillFollow
  <2>8. Busy(t)' => CarryOK(job[t])' BY <1>1, <2>1, <2>7, AdvanceCarry
  <2> QED BY <1>1, <1>2, <2>6, <2>8, ChainJob
<1>11. CASE Drop(t)
  <2> DEFINE d == j.at
  <2>1. j.step = "drop" /\ split' = [split EXCEPT ![d] = NoSplit] /\ t = "http" /\ d \in Days
    BY <1>1, <1>11 DEF Drop, JobInv, Tasks, JobOK
  <2>2. PICK n \in Jobs :
          /\ job' = [job EXCEPT ![t] = n]
          /\ \/ n = Idle
             \/ /\ n.last = j.last
                /\ \/ d = j.last /\ n.step = "back"
                   \/ d # j.last /\ n.step = "drop" /\ n.at = d + 1
          /\ exceptions' = IF d # j.last /\ n = Idle THEN exceptions \cup {"torn"} ELSE exceptions
    BY <1>11, DropEffect
  <2>3. job'[t] = n BY <2>2 DEF TypeOK
  <2>4. d # j.last => n.step = "drop" /\ n.at = d + 1 BY <2>2
  <2>5. split'[d].of = {} /\ \A e \in Days \ {d} : split'[e] = split[e] BY <2>1 DEF TypeOK, NoSplit
  <2>6. \A e \in Days : Cached(e) => e <= j.last BY <1>3, <2>1 DEF CarryOK
  <2>7. ASSUME NEW e \in Days, e + 1 \in Days, split'[e + 1].of # {}
        PROVE  \/ WillFollow(e, split'[e + 1].from)
               \/ e = d /\ d # j.last
    <3>1. e \in Int /\ d \in Int /\ j.last \in Int /\ e >= 0 BY <1>1, <2>1, DayNumbers DEF JobOK
    <3>2. e + 1 # d /\ Cached(e + 1) /\ split'[e + 1] = split[e + 1] BY <2>5, <2>7 DEF Cached
    <3>3. CASE e = d
      <4>1. e + 1 <= j.last BY <2>6, <2>7, <3>2
      <4> QED BY <3>1, <3>3, <4>1
    <3>4. CASE e # d
      <4>1. ~Dropping(e) BY <2>1, <3>2 DEF Dropping
      <4>2. Follows(e, split[e + 1].from) /\ split'[e] = split[e] BY <1>3, <2>5, <2>7, <3>2, <3>4, <4>1 DEF Linked
      <4> QED BY <1>1, <3>2, <4>2 DEF Follows, WillFollow, Cached, HasGridFile
    <3> QED BY <3>3, <3>4
  <2>8. Linked'
    <3>1. ASSUME NEW e \in Days, e = d, d # j.last PROVE Dropping(e)'
      BY <2>1, <2>3, <2>4, <2>5, <3>1 DEF Dropping, Cached
    <3> QED BY <2>7, <3>1 DEF Linked, WillFollow, Follows, Cached, HasGridFile, End
  <2>9. \A e \in Days : Cached(e)' => e <= j.last BY <2>5, <2>6 DEF Cached
  <2>10. Busy(t)' => CarryOK(job[t])'
    BY <2>2, <2>3, <2>9 DEF CarryOK, Seeded, Busy, Idle
  <2> QED BY <1>1, <1>2, <2>8, <2>10, ChainJob
<1> QED BY <1>6, <1>7, <1>8, <1>9, <1>10, <1>11 DEF Computing

LEMMA ChainStep == TypeOK /\ SampleInv /\ JobInv /\ FrozenInv /\ ChainInv /\ [Next]_vars => ChainInv'
<1> SUFFICES ASSUME TypeOK, SampleInv, JobInv, FrozenInv, ChainInv, [Next]_vars PROVE ChainInv'
  OBVIOUS
<1>1. TypeOK' BY TypeStep
<1>2. ASSUME UNCHANGED vars \/ Drain \/ RefreshStreams \/ NextDay
             \/ (\E s \in Streams : Sample(s) \/ EditTopology(s))
      PROVE  ChainInv'
  <2>1. UNCHANGED <<split, job, minutes, exceptions>>
    BY <1>2 DEF vars, Drain, RefreshStreams, NextDay, Sample, EditTopology, sampling, caches
  <2> QED BY <2>1, ChainFrame
<1>3. ASSUME NEW s \in Streams, NEW d \in Days, WriteRecord(s, d) PROVE ChainInv'
  <2> SUFFICES ASSUME exceptions' = {} PROVE ChainInv'
    BY DEF ChainInv
  <2>1. UNCHANGED <<today, split, job, exceptions>> BY <1>3 DEF WriteRecord, caches
  <2>2. d \in Recent BY <1>3 DEF WriteRecord, SampleInv
  <2>3. \/ UNCHANGED minutes
        \/ minutes' = [minutes EXCEPT ![d] = [minutes[d] EXCEPT ![s] = @ + 1]]
    BY <1>3 DEF WriteRecord
  <2>4. \A e \in Days : e < today - 1 => HasGridFile(e)' = HasGridFile(e)
    <3>1. \A e \in Days : e < today - 1 => e # d BY <2>2, DayNumbers DEF Recent
    <3> QED BY <2>3, <3>1 DEF HasGridFile, TypeOK
  <2>5. \A e \in Days : HasGridFile(e) => HasGridFile(e)'
    <3>1. \A e \in Days, r \in Streams : minutes[e][r] \in Nat /\ minutes'[e][r] \in {minutes[e][r], minutes[e][r] + 1}
      BY <2>3 DEF TypeOK
    <3> QED BY <3>1, LoggerAssumption DEF HasGridFile
  <2>6. ASSUME NEW e \in Days, e < today - 1, NEW l, Follows(e, l) PROVE WillFollow(e, l)
    BY <2>1, <2>4, <2>6 DEF Follows, WillFollow, Cached, HasGridFile
  <2>7. Linked'
    <3>1. ASSUME NEW e \in Days, e + 1 \in Days, split[e + 1].of # {}
          PROVE  WillFollow(e, split[e + 1].from) \/ Dropping(e)
      <4>1. e + 1 < today BY <3>1 DEF FrozenInv
      <4>2. e < today - 1 BY <4>1, DayNumbers
      <4>3. Follows(e, split[e + 1].from) \/ Dropping(e) BY <2>1, <3>1 DEF ChainInv, Linked, Cached
      <4> QED BY <2>6, <4>2, <4>3
    <3>2. \A e \in Days : Dropping(e) => Dropping(e)' BY <2>1 DEF Dropping, Cached
    <3> QED BY <2>1, <3>1, <3>2 DEF Linked, WillFollow, Follows, Cached, HasGridFile
  <2>8. ASSUME NEW t \in Tasks, Busy(t) PROVE CarryOK(job[t])'
    <3>1. CarryOK(job[t]) /\ JobOK(job[t]) /\ job[t] \in Jobs
      BY <2>1, <2>8, SeenTypes DEF ChainInv, JobInv
    <3>2. ASSUME Seeded(job[t]), job[t].at # job[t].live, job[t].at # 0
          PROVE  WillFollow(job[t].at - 1, job[t].ledger)
      <4>1. job[t].at \in Days BY <3>1, <3>2 DEF JobOK, Seeded
      <4>2. job[t].at < today BY <3>1, <3>2, <4>1, DayNumbers DEF JobOK
      <4>3. job[t].at - 1 \in Days /\ job[t].at - 1 < today - 1 BY <3>2, <4>1, <4>2, DayNumbers
      <4>4. Follows(job[t].at - 1, job[t].ledger) BY <3>1, <3>2 DEF CarryOK
      <4> QED BY <2>6, <4>3, <4>4
    <3>3. job[t].step = "storeSplit" => job[t].at \in Days BY <3>1 DEF JobOK
    <3> QED BY <2>1, <2>5, <3>1, <3>2, <3>3 DEF CarryOK, Seeded, WillFollow, Follows, Cached, HasGridFile
  <2>9. ~(Busy("timer") /\ Busy("http")) BY <2>1 DEF ChainInv
  <2> QED BY <2>1, <2>7, <2>8, <2>9 DEF ChainInv, Busy
<1>4. CASE MidnightJob
  <2>1. Start("timer", "cost", today - 1, today - 1, NoDay, "before") /\ UNCHANGED <<split, minutes>>
    BY <1>4 DEF MidnightJob, sampling
  <2> QED BY <1>1, <2>1, ChainStart DEF Tasks
<1>5. ASSUME NEW t \in Tasks, Computing(t) PROVE ChainInv'
  <2>1. CASE exceptions' = {} BY <1>1, <1>5, <2>1, ChainCompute
  <2>2. CASE exceptions' # {} BY <2>2 DEF ChainInv
  <2> QED BY <2>1, <2>2
<1>6. ASSUME NEW d \in Days, DailyEnergy(d) \/ BatteryMix(d) \/ RecomputeFrom(d) PROVE ChainInv'
  <2>1. UNCHANGED <<split, minutes>> BY <1>6 DEF DailyEnergy, BatteryMix, RecomputeFrom, Request, sampling
  <2>2. \/ Start("http", "cost", d, today, today, "before")
        \/ Start("http", "back", d, d, d, "never")
        \/ Start("http", "drop", d, today - 1, NoDay, "after")
    BY <1>6 DEF DailyEnergy, BatteryMix, RecomputeFrom
  <2> QED BY <1>1, <2>1, <2>2, ChainStart DEF Tasks
<1>7. ASSUME NEW day \in Days, Restart(day) PROVE ChainInv'
  <2> SUFFICES ASSUME exceptions' = {} PROVE ChainInv'
    BY DEF ChainInv
  <2>1. exceptions = {} /\ job["http"].step # "drop" BY <1>7 DEF Restart
  <2>2. UNCHANGED <<split, minutes>> /\ \A t \in Tasks : job'[t].step = "idle" BY <1>7 DEF Restart, Idle
  <2>3. \A d \in Days : ~Dropping(d) BY <2>1 DEF Dropping
  <2>4. Linked' BY <2>1, <2>2, <2>3, LinkedKept DEF ChainInv
  <2> QED BY <2>2, <2>4 DEF ChainInv, Busy, Tasks
<1> QED BY <1>2, <1>3, <1>4, <1>5, <1>6, <1>7 DEF Next, Sampling, Asked

-----------------------------------------------------------------------------
LEMMA LoggerInit == Init => TypeOK /\ SampleInv /\ JobInv /\ FrozenInv
<1> SUFFICES ASSUME Init PROVE TypeOK /\ SampleInv /\ JobInv /\ FrozenInv
  OBVIOUS
<1>1. 0 \in Days BY LoggerAssumption DEF Days
<1>2. NoSplit \in Splits /\ NoSplit.of = {} BY DEF NoSplit, Splits, Ledgers, Seen, Unknown
<1>3. Idle \in Jobs /\ Idle.step = "idle" BY <1>2 DEF Idle, Jobs, Steps, Unknown, Ledgers
<1>4. {} \in Seen BY DEF Seen
<1>5. TypeOK
  <2>1. minutes \in [Days -> [Streams -> Nat]] /\ taken \in [Days -> [Streams -> Int]] BY DEF Init
  <2>2. cost \in [Days -> Seen] /\ split \in [Days -> Splits] /\ job \in [Tasks -> Jobs]
    BY <1>2, <1>3, <1>4 DEF Init
  <2>3. accum \in [Streams -> Days \cup {NoDay}] /\ pending \in SUBSET (Streams \X Days) BY DEF Init
  <2>4. {samples, requests, edits, faults} \subseteq Nat BY DEF Init
  <2>5. today \in Days /\ due \in BOOLEAN /\ topology \in SUBSET Streams /\ streams \in SUBSET Streams
        /\ flushing \in {"idle", "write"} /\ exceptions \in SUBSET {"cut", "raced", "torn"}
    BY <1>1 DEF Init
  <2> QED BY <2>1, <2>2, <2>3, <2>4, <2>5 DEF TypeOK
<1>6. JobInv BY <1>3 DEF Init, JobInv, Busy, Tasks
<1>7. FrozenInv BY <1>2, <1>3 DEF Init, FrozenInv, Complete
<1>8. SampleInv
  <2>1. \A d \in Days : d # NoDay BY DayNumbers, <1>5
  <2>2. \A d \in Days, s \in Streams : SampledAs(d, s) = 0 BY <2>1 DEF Init, SampledAs
  <2>3. NothingSampledIsLost BY <2>2 DEF Init, NothingSampledIsLost
  <2> QED BY <2>3 DEF Init, SampleInv
<1> QED BY <1>5, <1>6, <1>7, <1>8

(* Every variable keeps its type. *)
THEOREM LoggerTypeCorrect == Spec => []TypeOK
  BY LoggerInit, TypeStep, SampleStep, JobStep, PTL DEF Spec

(* Every sampled minute reaches its file, whatever the topology does.      *)
THEOREM SampledMinutesReachFiles == Spec => []NothingSampledIsLost
<1>1. SampleInv => NothingSampledIsLost BY DEF SampleInv
<1> QED BY LoggerInit, TypeStep, SampleStep, JobStep, <1>1, PTL DEF Spec

(* Frozen figures lack at most the last minute of each stream, whoever     *)
(* computed them.                                                          *)
THEOREM FrozenLackAtMostAMinute == Spec => []MissesAtMostAMinute
<1>1. TypeOK /\ FrozenInv => MissesAtMostAMinute
  <2> SUFFICES ASSUME TypeOK, FrozenInv, NEW d \in Days, NEW c \in cost[d] \cup split[d].of
               PROVE  minutes[d][c[1]] <= c[2] + 1
    BY DEF MissesAtMostAMinute
  <2>1. minutes[d][c[1]] + SampledAs(d, c[1]) <= c[2] + 1 BY DEF FrozenInv, Complete
  <2>2. cost[d] \in Seen /\ split[d].of \in Seen BY DEF TypeOK, Splits
  <2>3. c[1] \in Streams /\ c[2] \in Nat BY <2>2 DEF Seen
  <2>4. minutes[d][c[1]] \in Nat /\ SampledAs(d, c[1]) \in {0, 1} BY <2>3, AmountTypes
  <2> QED BY <2>1, <2>3, <2>4
<1> QED BY LoggerInit, TypeStep, SampleStep, JobStep, FrozenStep, <1>1, PTL DEF Spec

(* Cached days chain, in whatever order they were computed, until a chain  *)
(* is cut, two computations run at once or dropped days are not rebuilt.   *)
THEOREM DaysAlwaysFollow == Spec => []DaysChain
<1>1. Init => ChainInv
  BY DEF Init, ChainInv, Linked, Cached, NoSplit, Busy, Idle, Tasks
<1>2. ChainInv => DaysChain
  <2> SUFFICES ASSUME ChainInv, exceptions = {}, \A t \in Tasks : ~Busy(t),
                      NEW d \in Days, d > 0, split[d].of # {}, split[d-1].of # {}
               PROVE  split[d].from = End(d - 1, split[d-1])
    BY DEF DaysChain
  <2>1. d - 1 \in Days /\ (d - 1) + 1 = d BY LoggerAssumption DEF Days
  <2>2. Cached((d - 1) + 1) /\ Cached(d - 1) BY <2>1 DEF Cached
  <2>3. ~Dropping(d - 1) BY DEF Dropping, Busy, Tasks
  <2>4. Follows(d - 1, split[(d - 1) + 1].from) BY <2>1, <2>2, <2>3 DEF ChainInv, Linked
  <2> QED BY <2>1, <2>2, <2>4 DEF Follows
<1> QED BY LoggerInit, TypeStep, SampleStep, JobStep, FrozenStep, ChainStep, <1>1, <1>2, PTL DEF Spec
=============================================================================
