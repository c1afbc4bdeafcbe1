------------------------------ MODULE PowerFlows ------------------------------
(***************************************************************************)
(* What the Topology page shows of the power: readings come with the       *)
(* graph and then in websocket frames (onInit, handleWsMessage), each is   *)
(* stamped on the edges its node meters, and the flows nobody meters are   *)
(* derived (withSubCuFeeds, withUnallocated).  Power is counted in half    *)
(* watts.                                                                  *)
(***************************************************************************)
EXTENDS Integers, FiniteSets, FiniteSetsExt, SequencesExt

CONSTANTS
    Types,          \* the type of each node on the canvas
    Graphs,         \* the edges the firmware may have saved, as sequences
    Drawable,       \* bound: the edges the user draws
    Readings,       \* the readings a meter reports
    Standby,        \* the learned standby of the appliances, 0 if untrained
    Hold,           \* ticks of UNALLOCATED_NEGATIVE_HOLD_MS (30 s)
    MaxReports, MaxEdits, MaxDrops      \* bounds: reports, edits of the canvas, lost connections

Nodes == DOMAIN Types
Boards == {n \in Nodes : Types[n] = "board"}
Meters == {n \in Nodes : Types[n] = "device"}
Derived == [from |-> "cu", out |-> "unallocated", to |-> "unallocated", into |-> "power-in"]

(* An edge of the canvas before anything flows. *)
Wires == Drawable \cup {Derived} \cup UNION {ToSet(g) : g \in Graphs}

ASSUME FlowAssumption ==
    /\ {"cu", "unallocated"} \subseteq Nodes \ Boards /\ IsFiniteSet(Nodes)
    /\ Graphs \subseteq Seq(Wires)
    /\ \A w \in Wires : w.from \in Nodes /\ w.to \in Nodes
    /\ Readings \subseteq Int
    /\ DOMAIN Standby \subseteq Meters
    /\ {Hold, MaxReports, MaxEdits, MaxDrops} \subseteq Nat

VARIABLES
    graph,      \* the edges the firmware keeps
    cache,      \* the readings the firmware has, per meter a set of at most one
    frames,     \* frames on their way to the page
    socket,     \* whether the websocket is open
    view,       \* "loading", "answered", "shown"
    snapshot,   \* the readings the answer carries
    power,      \* the readings on the nodes
    edges,      \* the edges on the canvas with their flows
    warn, held, \* the warning of the Unallocated node, how long its timer has run
    missed,     \* history: meters whose last report did not reach the nodes
    stale,      \* history: meters that have not reported since an edit, "derived" until a frame
    reports, cuts, drops

vars == <<graph, cache, frames, socket, view, snapshot, power, edges, warn, held, missed, stale,
          reports, cuts, drops>>

-----------------------------------------------------------------------------
(* Flows.  A flow is negative from source to target.                       *)

(* loadStatus, for a reading as a set of at most one *)
LoadStatus(p, standby) ==
    IF standby <= 0 THEN (IF p <= 10 THEN "off" ELSE "running")
    ELSE IF p < 2 THEN "off"
    ELSE IF p <= standby + 5 THEN "standby" ELSE "running"
Idle(n, p) == n \in DOMAIN Standby /\ LoadStatus(p, Standby[n]) # "running"

IsTariff(e) == e.into = "tariff" \/ e.out = "tariff"
MeteredAt(e) == IF e.out = "power-out" THEN e.from ELSE e.to

(* Mutant: a grid meter is read like any other. *)
FlowUnsigned(e, p) == IF MeteredAt(e) = e.to THEN -p ELSE p

(* edgeKw: positive is into the meter, but a grid meter's into the premises. *)
Flow(e, p) ==
    IF e.into = "grid" \/ (e.out # "grid" /\ MeteredAt(e) = e.to) THEN -p ELSE p

Bare(e) == [end |-> e, kw |-> 0, metered |-> {}, idle |-> FALSE, raw |-> 0]

Metered(b, p) ==
    LET kw == Flow(b.end, p) IN
    [b EXCEPT !.kw = kw, !.metered = {kw}, !.idle = Idle(MeteredAt(b.end), p)]

(* totalFor: what the circuits of a board carry, each board worked out     *)
(* once; a board met again on the way counts as nothing.                   *)
Total == [known : BOOLEAN, kw : Int, idle : BOOLEAN]
Unknown == [b \in Boards |-> [known |-> FALSE, kw |-> 0, idle |-> TRUE]]
Call == [board : Boards, visiting : SUBSET Boards, totals : [Boards -> Total]]
AskFor(b, visiting, totals) == [board |-> b, visiting |-> visiting, totals |-> totals]
AddCircuit(of, c, sum, e) ==
    LET part == IF e.end.to \in Boards
                THEN of[AskFor(e.end.to, c.visiting \cup {c.board}, sum.totals)]
                ELSE [flow |-> e, totals |-> sum.totals] IN
    IF e.end.from # c.board THEN sum
    ELSE [kw |-> sum.kw + part.flow.kw, totals |-> part.totals,
          idle |-> sum.idle /\ (part.flow.idle \/ part.flow.kw = 0)]
Circuits(of, c, es) ==
    FoldLeft(LAMBDA sum, e : AddCircuit(of, c, sum, e),
             [kw |-> 0, totals |-> c.totals, idle |-> TRUE], es)
TotalOf(of, c, es) ==
    LET b == c.board
        sum == Circuits(of, c, es)
        flow == [known |-> TRUE, kw |-> sum.kw, idle |-> sum.idle] IN
    IF c.totals[b].known THEN [flow |-> c.totals[b], totals |-> c.totals]
    ELSE IF b \in c.visiting THEN [flow |-> Unknown[b], totals |-> c.totals]
    ELSE [flow |-> flow, totals |-> [sum.totals EXCEPT ![b] = flow]]
TotalFor(es) == LET Of[c \in Call] == TotalOf(Of, c, es) IN Of

(* Mutant: a board adds up what its circuits showed before. *)
TotalsShown(es) ==
    [b \in Boards |->
        [kw |-> MapThenSumSet(LAMBDA i : es[i].kw, {i \in DOMAIN es : es[i].end.from = b}),
         idle |-> FALSE]]

Totals(es) ==
    FoldLeft(LAMBDA t, e : IF e.end.to \in Boards
                           THEN TotalFor(es)[AskFor(e.end.to, {}, t)].totals
                           ELSE t,
             Unknown, es)

(* A handle that feeds boards and one other edge: that edge carries the    *)
(* rest of the meter's reading.                                            *)
Source(e) == <<e.end.from, e.end.out>>
Target(e) == <<e.end.to, e.end.into>>
FedFrom(es, handle) == {i \in DOMAIN es : es[i].end.to \in Boards /\ Source(es[i]) = handle}
ToBoards(es, totals, handle) ==
    -MapThenSumSet(LAMBDA i : totals[es[i].end.to].kw, FedFrom(es, handle))
OthersAt(es, handle) ==
    {i \in DOMAIN es : es[i].end.to \notin Boards /\ handle \in {Source(es[i]), Target(es[i])}}
Splits(es, i, handle) ==
    FedFrom(es, handle) # {} /\ OthersAt(es, handle) = {i} /\ es[i].metered # {}

(* Mutant: the feeds are taken off the flow shown, not off the reading. *)
RemainderOfShown(es, totals, i) ==
    IF Splits(es, i, Target(es[i])) THEN es[i].kw - ToBoards(es, totals, Target(es[i]))
    ELSE IF Splits(es, i, Source(es[i])) THEN es[i].kw + ToBoards(es, totals, Source(es[i]))
    ELSE es[i].kw

Remainder(es, totals, i) ==
    LET metered == CHOOSE kw \in es[i].metered : TRUE IN
    IF Splits(es, i, Target(es[i])) THEN metered - ToBoards(es, totals, Target(es[i]))
    ELSE IF Splits(es, i, Source(es[i])) THEN metered + ToBoards(es, totals, Source(es[i]))
    ELSE es[i].kw

WithSubCuFeeds(es) ==
    LET totals == Totals(es) IN
    [i \in DOMAIN es |->
        IF es[i].end.to \in Boards
        THEN [es[i] EXCEPT !.kw = totals[es[i].end.to].kw, !.idle = totals[es[i].end.to].idle]
        ELSE [es[i] EXCEPT !.kw = Remainder(es, totals, i)]]

(* What enters the consumer unit and leaves it on no other edge.           *)
NetAtCu(es) ==
    LET Net(e) == IF e.end = Derived \/ IsTariff(e.end) THEN 0
                  ELSE IF e.end.to = "cu" THEN -e.kw ELSE IF e.end.from = "cu" THEN e.kw ELSE 0 IN
    MapThenSumSet(LAMBDA i : Net(es[i]), DOMAIN es)
WithUnallocated(es) ==
    LET raw == NetAtCu(es) IN
    [i \in DOMAIN es |-> IF es[i].end # Derived THEN es[i]
                         ELSE [es[i] EXCEPT !.kw = -Max({0, raw}), !.raw = raw]]

WithDerivedFlows(es) == WithUnallocated(WithSubCuFeeds(es))

(* onInit: the saved edges with the cached readings, and the derived one.  *)
Loaded(saved, readings) ==
    WithDerivedFlows(
        Append([i \in DOMAIN saved |->
                    LET at == MeteredAt(saved[i]) IN
                    IF IsTariff(saved[i]) THEN Bare(saved[i])
                    ELSE IF at \in Meters /\ readings[at] # {}
                    THEN Metered(Bare(saved[i]), CHOOSE p \in readings[at] : TRUE)
                    ELSE [Bare(saved[i]) EXCEPT !.metered = {0}]],
               Bare(Derived)))

(* handleWsMessage, for the edges *)
Stamped(es, batch) ==
    [i \in DOMAIN es |-> IF es[i].end.to \notin Boards /\ MeteredAt(es[i].end) \in DOMAIN batch
                         THEN Metered(es[i], batch[MeteredAt(es[i].end)]) ELSE es[i]]

-----------------------------------------------------------------------------
Ends(es) == [i \in DOMAIN es |-> es[i].end]
UnallocatedRaw == LET is == {i \in DOMAIN edges : edges[i].end = Derived} IN
                  IF is = {} THEN 0 ELSE edges[CHOOSE i \in is : TRUE].raw
(* UNALLOCATED_NEGATIVE_W, -50 W *)
Negative == UnallocatedRaw < -100
NegativeNext == UnallocatedRaw' < -100

TypeOK ==
    /\ cache \in [Meters -> SUBSET Readings] /\ power \in [Meters -> SUBSET Readings]
    /\ \A i \in DOMAIN edges : /\ edges[i].end.from \in Nodes /\ edges[i].end.to \in Nodes
                               /\ {edges[i].kw, edges[i].raw} \subseteq Int /\ edges[i].idle \in BOOLEAN
                               /\ Cardinality(edges[i].metered) <= 1
    /\ view \in {"loading", "answered", "shown"} /\ socket \in BOOLEAN
    /\ warn \in BOOLEAN /\ held \in 0..Hold
    /\ missed \subseteq Meters /\ stale \subseteq Meters \cup {"derived"}

NoReadings == [n \in Meters |-> {}]
Init ==
    /\ graph \in Graphs
    /\ cache = NoReadings /\ power = NoReadings /\ snapshot = NoReadings
    /\ frames = << >> /\ socket = TRUE /\ view = "loading"
    /\ edges = << >> /\ warn = FALSE /\ held = 0
    /\ missed = {} /\ stale = {}
    /\ reports = 0 /\ cuts = 0 /\ drops = 0

(* Mutant: the timer is not cleared when the remainder turns. *)
RestartTimerNever == held' = held

(* The effect of the Unallocated node: its timer starts anew whenever the  *)
(* remainder turns negative or stops being so.                             *)
RestartTimer == held' = IF Negative = NegativeNext THEN held ELSE 0

(* Meters report; the firmware caches and broadcasts what a flush gathers. *)
Broadcast(batch) ==
    /\ reports < MaxReports /\ reports' = reports + 1
    /\ batch # << >>
    /\ cache' = [n \in Meters |-> IF n \in DOMAIN batch THEN {batch[n]} ELSE cache[n]]
    /\ IF socket THEN frames' = Append(frames, batch) /\ missed' = missed
       ELSE frames' = frames /\ missed' = missed \cup DOMAIN batch
    /\ UNCHANGED <<graph, socket, view, snapshot, power, edges, warn, held, stale, cuts, drops>>

(* The connection drops with the frames under way; nothing is fetched when *)
(* it comes back.                                                          *)
Disconnect ==
    /\ socket /\ drops < MaxDrops /\ drops' = drops + 1
    /\ socket' = FALSE /\ frames' = << >>
    /\ missed' = missed \cup UNION {DOMAIN frames[i] : i \in DOMAIN frames}
    /\ UNCHANGED <<graph, cache, view, snapshot, power, edges, warn, held, stale, reports, cuts>>
Reconnect ==
    /\ ~socket /\ socket' = TRUE
    /\ UNCHANGED <<graph, cache, frames, view, snapshot, power, edges, warn, held, missed, stale,
                    reports, cuts, drops>>

AnswerLoad ==
    /\ view = "loading" /\ view' = "answered" /\ snapshot' = cache
    /\ missed' = {}
    /\ UNCHANGED <<graph, cache, frames, socket, power, edges, warn, held, stale, reports, cuts, drops>>

(* Mutant: the readings in the answer are left out. *)
ShowLoadBare ==
    /\ view = "answered" /\ view' = "shown"
    /\ edges' = Loaded(graph, NoReadings)
    /\ RestartTimer
    /\ UNCHANGED <<graph, cache, frames, socket, snapshot, power, warn, missed, stale, reports, cuts, drops>>

(* onInit replaces the canvas, whatever frames have come before. *)
ShowLoad ==
    /\ view = "answered" /\ view' = "shown"
    /\ power' = snapshot /\ edges' = Loaded(graph, snapshot)
    /\ RestartTimer
    /\ UNCHANGED <<graph, cache, frames, socket, snapshot, warn, missed, stale, reports, cuts, drops>>

(* handleWsMessage: until the canvas is loaded a frame finds no node.      *)
Frame ==
    LET batch == Head(frames) IN
    /\ frames # << >> /\ frames' = Tail(frames)
    /\ IF view = "shown"
       THEN /\ power' = [n \in Meters |-> IF n \in DOMAIN batch THEN {batch[n]} ELSE power[n]]
            /\ edges' = WithDerivedFlows(Stamped(edges, batch))
            /\ missed' = missed \ DOMAIN batch
            /\ stale' = stale \ (DOMAIN batch \cup {"derived"})
       ELSE /\ missed' = missed \cup DOMAIN batch
            /\ UNCHANGED <<power, edges, stale>>
    /\ RestartTimer
    /\ UNCHANGED <<graph, cache, socket, view, snapshot, warn, reports, cuts, drops>>

(* Edits of the canvas leave the flows of the other edges as they were.    *)
Edit(es, saved) ==
    /\ view = "shown" /\ cuts < MaxEdits /\ cuts' = cuts + 1
    /\ edges' = es /\ graph' = saved
    /\ stale' = Meters \cup {"derived"}
    /\ RestartTimer
    /\ UNCHANGED <<cache, frames, socket, view, snapshot, power, warn, missed, reports, drops>>
Connect(e) == e \notin ToSet(Ends(edges)) /\ Edit(Append(edges, Bare(e)), Append(graph, e))
RemoveEdge(i) ==
    /\ edges[i].end # Derived
    /\ \E k \in DOMAIN graph :
        graph[k] = edges[i].end /\ Edit(RemoveAt(edges, i), RemoveAt(graph, k))

(* The timer of the Unallocated node: to raise the warning after 30 s, to  *)
(* clear it at once.                                                       *)
Tick ==
    /\ warn # Negative
    /\ IF Negative /\ held < Hold THEN held' = held + 1 /\ warn' = warn
       ELSE held' = held /\ warn' = Negative
    /\ UNCHANGED <<graph, cache, frames, socket, view, snapshot, power, edges, missed, stale,
                    reports, cuts, drops>>

Batches == UNION {[ns -> Readings] : ns \in (SUBSET Meters) \ {{}}}
Next ==
    \/ \E batch \in Batches : Broadcast(batch)
    \/ Disconnect \/ Reconnect \/ AnswerLoad \/ ShowLoad \/ Frame \/ Tick
    \/ \E e \in Drawable : Connect(e)
    \/ \E i \in DOMAIN edges : RemoveEdge(i)

Spec == Init /\ [][Next]_vars

-----------------------------------------------------------------------------
(* Properties.                                                             *)

(* Some board of any number of boards feeds none of them. *)
LoopFree ==
    \A bs \in (SUBSET Boards) \ {{}} : \E b \in bs :
        \A i \in DOMAIN edges : edges[i].end.from = b => edges[i].end.to \notin bs
(* No circuit of a board that feeds something else feeds a board as well.  *)
OwnCircuits ==
    \A i \in DOMAIN edges : edges[i].end.from \in Boards /\ edges[i].end.to \notin Boards =>
        FedFrom(edges, Source(edges[i])) = {} /\ FedFrom(edges, Target(edges[i])) = {}
Sum(is) == MapThenSumSet(LAMBDA i : edges[i].kw, is)

(* What flows into a board flows out of it on its circuits, as of the last *)
(* frame, for a wiring without loops whose boards share no circuit with an *)
(* appliance.                                                              *)
Balanced ==
    view = "shown" /\ "derived" \notin stale /\ LoopFree /\ OwnCircuits =>
        \A i \in DOMAIN edges : edges[i].end.to \in Boards =>
            edges[i].kw = Sum({j \in DOMAIN edges : edges[j].end.from = edges[i].end.to})

(* However the premises are wired, through boards, past the consumer unit  *)
(* and with the grid edge saved either way, what is unallocated is the     *)
(* grid meter's reading less the readings of the loads, each counted once. *)
FeedsOf(n) == {i \in DOMAIN edges : edges[i].end.to = n}
GridMeters == {MeteredAt(edges[i].end) : i \in {i \in DOMAIN edges :
                    "grid" \in {edges[i].end.into, edges[i].end.out}}}
Loads == {n \in Meters \ GridMeters : FeedsOf(n) # {}}
ProperlyWired ==
    /\ LoopFree /\ Cardinality(GridMeters) = 1
    /\ \A n \in Boards \cup Loads : Cardinality(FeedsOf(n)) <= 1
    /\ \A i \in DOMAIN edges : LET n == edges[i].end.from IN
        n \in {"cu"} \cup GridMeters \/ FeedsOf(n) # {}
Shown(n) == IF power[n] = {} THEN 0 ELSE CHOOSE p \in power[n] : TRUE
UnallocatedIsTheRest ==
    view = "shown" /\ stale = {} /\ ProperlyWired =>
        UnallocatedRaw = MapThenSumSet(Shown, GridMeters) - MapThenSumSet(Shown, Loads)

(* The edge that feeds an appliance carries what the appliance draws.      *)
(* Topology.tsx:464-467 has only the other edge of a metered handle, such  *)
(* as the grid meter's, carry what the boards on the handle leave of it.   *)
FeedShowsAppliance ==
    view = "shown" /\ stale = {} =>
        \A i \in DOMAIN edges : LET n == edges[i].end.to IN
            n \in Meters \ GridMeters /\ power[n] # {} /\ MeteredAt(edges[i].end) = n
                => edges[i].kw = -Shown(n)

(* Frames applied one by one leave the edges as loading the page with the  *)
(* nodes' readings would.                                                  *)
SameAsReload ==
    view = "shown" /\ stale = {} =>
        \A i \in DOMAIN edges :
            LET fresh == Loaded(graph, power)
                same == {j \in DOMAIN fresh : fresh[j].end = edges[i].end} IN
            \A j \in same : /\ edges[i].kw = fresh[j].kw /\ edges[i].raw = fresh[j].raw
                            /\ edges[i].idle = fresh[j].idle

(* A node shows the firmware's reading unless the last report of its meter *)
(* was lost with the connection or came before the canvas was loaded.      *)
ShowsLatest ==
    view = "shown" => \A n \in Meters \ missed :
        power[n] # cache[n] => \E i \in DOMAIN frames : n \in DOMAIN frames[i]

(* Meters report at different moments: the warning is raised only once the *)
(* remainder has stayed negative.                                          *)
WarnsOnlyIfHeld ==
    [][/\ ~warn /\ warn' => held = Hold /\ Negative
       /\ ~Negative /\ NegativeNext => held' = 0]_vars

=============================================================================
