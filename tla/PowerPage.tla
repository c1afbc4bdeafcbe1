------------------------------ MODULE PowerPage ------------------------------
(***************************************************************************)
(* The Power page (Power.tsx): one chart per node at the consumer unit,    *)
(* for the day that is selected, and the usage of the last days.  Its      *)
(* requests take turns (fetchQueue.ts).  Time of day is in half minutes.   *)
(***************************************************************************)
EXTENDS Integers, FiniteSets, FiniteSetsExt, SequencesExt

CONSTANTS
    Wiring,             \* the edges of the graph, as a sequence
    Dates, Today,       \* the days that can be selected
    Recorded(_, _),     \* what was recorded of a node on a day: times in ascending order
    DayEnd(_),          \* the end of a day, or now
    Energy,             \* days of usage: kWh per stream that has data
    GridStreams, SolarStreams, LoadStreams,
    MaxSelects, MaxPowerFaults      \* bounds: days selected, requests that fail

GapThreshold == 3
NoDay == "none"
NoNode == "none"

VARIABLES
    view,       \* "away", "loading", "shown", "failed"
    visit,      \* how often the page was mounted
    date,       \* the day that is selected
    charts,     \* per node: [loading, error, of], `of` the day its records are of
    usage,      \* "loading", "shown", "failed"
    queue,      \* requests not answered yet, oldest first
    sent,       \* whether the oldest is on its way
    selects, powerFaults    \* used up of the bounds

page == <<view, date, charts, usage>>
vars == <<page, visit, queue, sent, selects, powerFaults>>

-----------------------------------------------------------------------------
(* connectedNodes: the handle at the consumer unit is the role; a node     *)
(* wired twice counts once, the tariff not at all.                         *)
AtCu == SelectSeq(Wiring, LAMBDA e : "cu" \in {e.from, e.to} /\ e.handle # "tariff")
Other(e) == IF e.from = "cu" THEN e.to ELSE e.from
Role(e) == CASE e.handle = "grid" -> 0 [] e.handle = "solar_input" -> 1 [] e.handle = "circuit" -> 2
             [] OTHER -> 3
FirstOf(n) == AtCu[Min({i \in DOMAIN AtCu : Other(AtCu[i]) = n})]
Connected == {Other(AtCu[i]) : i \in DOMAIN AtCu}
InOrder == SetToSortSeq(Connected, LAMBDA a, b : Role(FirstOf(a)) < Role(FirstOf(b)))

(* The records cut where two are further apart than the logging cadence.   *)
Segments(rs) ==
    FoldLeft(LAMBDA cut, t : IF cut # << >> /\ t - Last(Last(cut)) <= GapThreshold
                             THEN [cut EXCEPT ![Len(cut)] = Append(@, t)] ELSE Append(cut, <<t>>),
             << >>, rs)

(* Mutant: only the gaps between records are flagged. *)
NoDataBetween(rs, end) ==
    LET cut == Segments(rs) IN {<<Last(cut[i]), Head(cut[i + 1])>> : i \in 1..(Len(cut) - 1)}

(* The spans without data: between segments, before the first record and   *)
(* after the last.                                                         *)
NoData(rs, end) ==
    LET cut == Segments(rs) IN
    {<<Last(cut[i]), Head(cut[i + 1])>> : i \in 1..(Len(cut) - 1)}
        \cup {<<0, Head(rs)>> : i \in {i \in {1} : Head(rs) > GapThreshold}}
        \cup {<<Last(rs), end>> : i \in {i \in {1} : end - Last(rs) > GapThreshold}}

(* buildHistory, for one day: what the loads do not account for of the net *)
(* import and the solar output is unmonitored.                             *)
Kwh(day, s) == IF s \in DOMAIN day THEN day[s] ELSE 0
HasGrid(day) == GridStreams \cap DOMAIN day # {}

(* Mutant: a generating inverter is taken for a load. *)
UsedOf(day) == MapThenSumSet(LAMBDA s : Kwh(day, s), GridStreams \cup SolarStreams)

Used(day) ==
    MapThenSumSet(LAMBDA s : Kwh(day, s), GridStreams) - MapThenSumSet(LAMBDA s : Kwh(day, s), SolarStreams)

Parts(day) ==
    LET loads == [s \in LoadStreams |-> Max({0, Kwh(day, s)})]
        sum == MapThenSumSet(LAMBDA s : loads[s], LoadStreams) IN
    [total |-> Max({sum, Used(day)}), loads |-> loads, unmonitored |-> Max({sum, Used(day)}) - sum]

-----------------------------------------------------------------------------
(* fetchQueue.ts.                                                          *)

Request(what, node, day) ==
    [what |-> what, node |-> node, day |-> day, visit |-> visit, aborted |-> FALSE]
Charts(day) == [i \in DOMAIN InOrder |-> Request("chart", InOrder[i], day)]
IsChart(r) == r.what = "chart" /\ r.visit = visit

(* The page's charts give up: a request on its way is broken off, which    *)
(* lets the next one go; one that waits is skipped when its turn comes.    *)
BreaksOff == sent /\ IsChart(queue[1]) /\ ~queue[1].aborted
Aborted ==
    LET marked == [i \in DOMAIN queue |-> [queue[i] EXCEPT !.aborted = @ \/ IsChart(queue[i])]] IN
    IF BreaksOff THEN Tail(marked) ELSE marked

Waiting == queue # << >> /\ ~sent

Send ==
    /\ Waiting /\ ~queue[1].aborted
    /\ sent' = TRUE
    /\ UNCHANGED <<page, visit, queue, selects, powerFaults>>

(* Mutant: a skipped request never settles. *)
SkipNever == FALSE /\ UNCHANGED vars

Skip ==
    /\ Waiting /\ queue[1].aborted
    /\ queue' = Tail(queue)
    /\ UNCHANGED <<page, visit, sent, selects, powerFaults>>

-----------------------------------------------------------------------------
NoChart == [loading |-> TRUE, error |-> FALSE, of |-> NoDay]

TypeOK ==
    /\ view \in {"away", "loading", "shown", "failed"} /\ date \in Dates
    /\ charts \in [Connected -> [loading : BOOLEAN, error : BOOLEAN, of : Dates \cup {NoDay}]]
    /\ usage \in {"loading", "shown", "failed"} /\ sent \in BOOLEAN
    /\ sent => queue # << >> /\ ~queue[1].aborted
    /\ {visit, selects, powerFaults} \subseteq Nat

Init ==
    /\ view = "away" /\ visit = 0 /\ date = Today
    /\ charts = [n \in Connected |-> NoChart] /\ usage = "loading"
    /\ queue = << >> /\ sent = FALSE
    /\ selects = 0 /\ powerFaults = 0

Mount ==
    /\ view' = "loading" /\ visit' = visit + 1 /\ date' = Today
    /\ charts' = [n \in Connected |-> NoChart] /\ usage' = "loading"
    /\ queue' = Append(queue, [Request("nodes", NoNode, NoDay) EXCEPT !.visit = visit + 1])
    /\ UNCHANGED <<sent, selects, powerFaults>>

Unmount ==
    /\ view' = "away" /\ date' = Today
    /\ charts' = [n \in Connected |-> NoChart] /\ usage' = "loading"
    /\ queue' = Aborted /\ sent' = (sent /\ ~BreaksOff)
    /\ UNCHANGED <<visit, selects, powerFaults>>

(* Mutant: the requests for the day before go on. *)
SelectOnly(d) ==
    /\ view # "away" /\ d # date /\ selects < MaxSelects /\ selects' = selects + 1
    /\ date' = d
    /\ charts' = [n \in Connected |-> [charts[n] EXCEPT !.loading = TRUE, !.error = FALSE]]
    /\ queue' = IF view = "shown" THEN queue \o Charts(d) ELSE queue
    /\ UNCHANGED <<view, visit, usage, sent, powerFaults>>

(* Another day: each chart drops its request and makes another.            *)
Select(d) ==
    /\ view # "away" /\ d # date /\ selects < MaxSelects /\ selects' = selects + 1
    /\ date' = d
    /\ IF view = "shown"
       THEN /\ charts' = [n \in Connected |-> [charts[n] EXCEPT !.loading = TRUE, !.error = FALSE]]
            /\ queue' = Aborted \o Charts(d) /\ sent' = (sent /\ ~BreaksOff)
       ELSE UNCHANGED <<charts, queue, sent>>
    /\ UNCHANGED <<view, visit, usage, powerFaults>>

(* The nodes are known: the usage and the charts are asked for.            *)
NodesAnswer(r, ok) ==
    IF r.visit # visit \/ view = "away" THEN UNCHANGED page /\ queue' = Tail(queue)
    ELSE /\ view' = IF ok THEN "shown" ELSE "failed"
         /\ queue' = IF ok THEN Tail(queue) \o <<Request("usage", NoNode, NoDay)>> \o Charts(date) ELSE Tail(queue)
         /\ UNCHANGED <<date, charts, usage>>
UsageAnswer(r, ok) ==
    /\ usage' = IF view = "shown" /\ r.visit = visit THEN (IF ok THEN "shown" ELSE "failed") ELSE usage
    /\ queue' = Tail(queue) /\ UNCHANGED <<view, date, charts>>
ChartAnswer(r, ok) ==
    /\ charts' = IF view = "away" \/ r.visit # visit THEN charts
                 ELSE [charts EXCEPT ![r.node] = [loading |-> FALSE, error |-> ~ok,
                                                  of |-> IF ok THEN r.day ELSE @.of]]
    /\ queue' = Tail(queue) /\ UNCHANGED <<view, date, usage>>

Answer(ok) ==
    LET r == queue[1] IN
    /\ sent /\ sent' = FALSE
    /\ ok \/ powerFaults < MaxPowerFaults
    /\ powerFaults' = IF ok THEN powerFaults ELSE powerFaults + 1
    /\ \/ r.what = "nodes" /\ NodesAnswer(r, ok)
       \/ r.what = "usage" /\ UsageAnswer(r, ok)
       \/ r.what = "chart" /\ ChartAnswer(r, ok)
    /\ UNCHANGED <<visit, selects>>

Step == Send \/ Skip \/ (\E ok \in BOOLEAN : Answer(ok)) \/ \E d \in Dates : Select(d)

-----------------------------------------------------------------------------
(* Properties.                                                             *)

(* A chart that is drawn shows the records of the day that is selected,    *)
(* whenever the answers to earlier selections come.                        *)
Drawn(n) == view = "shown" /\ ~charts[n].loading /\ ~charts[n].error
ChartsShowTheDay == \A n \in Connected : Drawn(n) => charts[n].of = date

(* A drawn chart leaves no part of the day unexplained: the records are    *)
(* all on its lines, no line bridges a gap, and where there is no line     *)
(* there is a flag or at most the cadence of the log.  What is flagged is  *)
(* longer than that and holds no record.                                   *)
GapsAreFlagged ==
    \A n \in Connected : Drawn(n) /\ Recorded(n, date) # << >> =>
        LET rs == Recorded(n, date)
            cut == Segments(rs)
            end == DayEnd(date)
            flags == NoData(rs, end)
            OnLine(t) == \E i \in DOMAIN cut : Head(cut[i]) <= t /\ t <= Last(cut[i])
            Flagged(t) == \E f \in flags : f[1] <= t /\ t <= f[2] IN
        /\ FlattenSeq(cut) = rs
        /\ \A i \in DOMAIN cut : \A j \in 2..Len(cut[i]) : cut[i][j] - cut[i][j - 1] <= GapThreshold
        /\ \A f \in flags : /\ f[2] - f[1] > GapThreshold
                            /\ \A i \in DOMAIN rs : ~(f[1] < rs[i] /\ rs[i] < f[2])
        /\ \A t \in 0..end : \/ OnLine(t) \/ Flagged(t)
                             \/ \E i \in {1, Len(rs)} : rs[i] - t \in -GapThreshold..GapThreshold

(* What a day used is what came from the grid and from the sun, and its    *)
(* parts add up to it.                                                     *)
UsageAddsUp ==
    usage = "shown" => \A day \in {d \in Energy : HasGrid(d)} :
        LET parts == Parts(day)
            loads == MapThenSumSet(LAMBDA s : parts.loads[s], LoadStreams)
            Sum(ss) == MapThenSumSet(LAMBDA s : Kwh(day, s), ss) IN
        /\ parts.unmonitored >= 0 /\ loads + parts.unmonitored = parts.total
        /\ Sum(GridStreams) - Sum(SolarStreams) >= loads => parts.total = Sum(GridStreams) - Sum(SolarStreams)

(* Every chart gets its answer, or the day or the page is left.            *)
ChartsSettle == \A n \in Connected :
    (view = "shown" /\ charts[n].loading) ~> (view # "shown" \/ ~charts[n].loading)

=============================================================================
