---------------------------- MODULE TopologyEditor ----------------------------
(***************************************************************************)
(* The Topology page (Topology.tsx, EditNodeModal.tsx, AddLoadModal.tsx)   *)
(* editing the graph the firmware keeps (node_manager.cpp).  An edit       *)
(* changes the canvas at once and is sent in requests nobody waits for;    *)
(* only the edit dialog waits for its answer.                              *)
(***************************************************************************)
EXTENDS Naturals, FiniteSets, FiniteSetsExt, SequencesExt

CONSTANTS
    Saved,              \* the graph the firmware starts with: [nodes, edges]
    FirstNumber,        \* where nodeIdCounter starts (10)
    MaxNumber,          \* bound: the last node_<n>
    Endpoints,          \* the electrical-sensor endpoints of the devices
    MaxInUse,           \* MAX_IN_USE of the endpoint list (16)
    StartCircuits,      \* circuits of a new board (4)
    MaxCircuits,        \* circuits of a board at most (8)
    Reorder,            \* whether requests on parallel connections overtake each other
    Habits,             \* what the user does: "early" (edits or leaves before the load ends),
                        \* "keys" (Backspace with a node menu or dialog open), "cancels" (a save under way)
    MaxGestures, MaxLost, MaxVisits    \* bounds: gestures, lost requests, visits of the page

(* A node is a number: n stands for node_<n>, and the fixed identities are *)
(* the numbers up to FirstNumber.                                          *)
NoNode == 0
Cu == 1
Unallocated == 2
Ids == 1..MaxNumber

ASSUME EditorAssumption ==
    /\ {FirstNumber, MaxNumber, MaxInUse, MaxGestures, MaxLost, MaxVisits} \subseteq Nat
    /\ FirstNumber \in Unallocated..MaxNumber
    /\ Saved = [nodes |-> Saved.nodes, edges |-> Saved.edges]
    /\ DOMAIN Saved.nodes \subseteq Ids /\ Cu \in DOMAIN Saved.nodes /\ IsFiniteSet(Saved.edges)
    /\ StartCircuits \in 1..MaxCircuits
    /\ Reorder \in BOOLEAN /\ Habits \subseteq {"early", "keys", "cancels"}

VARIABLES
    fw,         \* the firmware's graph
    canvas,     \* the page's graph
    view,       \* "away", "loading", "shown", "failed"
    visit,      \* how often the page was mounted
    counter,    \* nodeIdCounter
    selected,   \* the selected node, as a set
    open,       \* the menu or dialog over the canvas
    flight,     \* requests on their way to the firmware, oldest first
    answers,    \* answers on their way to the page
    astray,     \* whether a request was lost since the firmware last sent the graph
    gestures, lost    \* used up of the bounds

vars == <<fw, canvas, view, visit, counter, selected, open, flight, answers, astray,
          gestures, lost>>

(* Settings; `what` is what the edit dialog changes: the endpoint that     *)
(* meters a load, the name of a board.                                     *)
None == "none"
Settings == [type : STRING, circuits : 0..MaxCircuits, locked : BOOLEAN,
             what : Endpoints \cup {None, "board", "renamed"}]
Blank == [type |-> None, circuits |-> 0, locked |-> FALSE, what |-> None]
Load(e) == [Blank EXCEPT !.type = "load", !.what = e]
Board(c, name) == [Blank EXCEPT !.type = "board", !.circuits = c, !.what = name]
Fixed(type) == [Blank EXCEPT !.type = type, !.locked = TRUE]
Node(place, set) == [place |-> place, set |-> set]
Editable == {"load", "board"}

Empty == [nodes |-> << >>, edges |-> {}]
With(g, n, node) ==
    [g EXCEPT !.nodes = [m \in DOMAIN g.nodes \cup {n} |-> IF m = n THEN node ELSE g.nodes[m]]]
Touching(g, ids) == {e \in g.edges : e.from \in ids \/ e.to \in ids}
Without(g, ids) == [nodes |-> Restrict(g.nodes, DOMAIN g.nodes \ ids),
                    edges |-> g.edges \ Touching(g, ids)]

(* The strings and the battery that hang off an inverter.                  *)
HangingOff(g, ids) ==
    {e.from : e \in {e \in g.edges : e.to \in ids /\ e.into = "dc_in"}}
        \cup {e.to : e \in {e \in g.edges : e.from \in ids /\ e.out = "battery"}}

(* The graph the firmware starts with is one that the Home page and earlier *)
(* visits leave: what keeps a fixed identity is no load or board, strings  *)
(* and batteries hang off inverters, boards feed loads and boards, and no  *)
(* endpoint meters a board.                                                *)
FixedId(n) == n <= FirstNumber
OfType(type) == {n \in DOMAIN Saved.nodes : Saved.nodes[n].set.type = type}
Suits(n, set) ==
    /\ set = [type |-> set.type, circuits |-> set.circuits, locked |-> set.locked, what |-> set.what]
    /\ set.type \in Editable => ~FixedId(n)
    /\ set.type = "board" => set = Board(set.circuits, set.what)
    /\ set.type = "cu" => n = Cu
    /\ set.type \in {"inverter", "pv", "battery"} => n \in OfType(set.type)
    /\ set.locked => FixedId(n) /\ n \notin OfType("pv") \cup OfType("battery")
Fits(e) ==
    /\ e.into = "dc_in" => e.from \in OfType("pv") /\ e.to \in OfType("inverter")
    /\ e.out = "battery" => e.from \in OfType("inverter") /\ e.to \in OfType("battery")
    /\ ~FixedId(e.from) => e.to = Cu \/ ~FixedId(e.to)
Wired(g) ==
    /\ g.nodes = [n \in DOMAIN g.nodes |-> Node(g.nodes[n].place, g.nodes[n].set)]
    /\ \A n \in DOMAIN g.nodes : Suits(n, g.nodes[n].set)
    /\ \A e \in g.edges : Fits(e)

ASSUME SavedAssumption ==
    /\ Wired(Saved)
    /\ \A n \in OfType("inverter") \cup OfType("pv") \cup OfType("battery") :
        FixedId(n) /\ n # Unallocated
    /\ {None, "board", "renamed"} \cap Endpoints = {}
    /\ \A n \in OfType("board") : Saved.nodes[n].set.what \notin Endpoints

Closed == [kind |-> "closed", id |-> NoNode, set |-> Blank, sensors |-> {}, busy |-> "no", key |-> 0]

TypeOK ==
    /\ \A g \in {fw, canvas} :
        /\ DOMAIN g.nodes \subseteq Ids
        /\ \A n \in DOMAIN g.nodes :
            g.nodes[n] \in [place : {"origin", "spot", "dragged"}, set : Settings]
        /\ \A e \in g.edges : DOMAIN e = {"from", "out", "to", "into"} /\ {e.from, e.to} \subseteq Ids
    /\ view \in {"away", "loading", "shown", "failed"}
    /\ {visit, counter, gestures, lost} \subseteq Nat
    /\ selected \subseteq Ids
    /\ DOMAIN open = DOMAIN Closed
    /\ open.kind \in {"closed", "menu", "pane", "add", "edit"}
    /\ open.set \in Settings /\ open.sensors \subseteq Endpoints
    /\ open.busy \in {"no", "loading", "saving"}
    /\ astray \in BOOLEAN

Init ==
    /\ fw = Saved /\ canvas = Empty
    /\ view = "away" /\ visit = 0 /\ counter = FirstNumber
    /\ selected = {} /\ open = Closed
    /\ flight = << >> /\ answers = {} /\ astray = FALSE
    /\ gestures = 0 /\ lost = 0

-----------------------------------------------------------------------------
(* The firmware: one request at a time.                                    *)

(* node_manager_upsert: a request without settings keeps those there are.  *)
Upsert(g, r) == With(g, r.id, Node(r.place, r.set))
Move(g, r) == With(g, r.id, Node(r.place, IF r.id \in DOMAIN g.nodes THEN g.nodes[r.id].set ELSE Blank))

(* node_manager_update_settings creates a node it does not know. *)
UpdateSettings(g, r) ==
    With(g, r.id, Node(IF r.id \in DOMAIN g.nodes THEN g.nodes[r.id].place ELSE "origin", r.set))

(* node_manager_delete *)
Delete(g, r) ==
    IF r.id \in DOMAIN g.nodes /\ g.nodes[r.id].set.locked THEN g
    ELSE Without(g, {r.id} \cup HangingOff(g, {r.id}))

(* What a request makes of the graph. *)
Served(g, r) ==
    CASE r.op = "put" -> Upsert(g, r)
      [] r.op = "move" -> Move(g, r)
      [] r.op \in {"settings", "save"} -> UpdateSettings(g, r)
      [] r.op = "delete" -> Delete(g, r)
      [] r.op = "wire" -> [g EXCEPT !.edges = @ \cup {r.edge}]
      [] r.op = "unwire" -> [g EXCEPT !.edges = @ \ {r.edge}]
      [] OTHER -> g

Claims(g) == {n \in DOMAIN g.nodes : g.nodes[n].set.what \in Endpoints}

(* Mutant: only the endpoint of the lowest node is left out. *)
UnclaimedByFirst(g) ==
    Endpoints \ {g.nodes[n].set.what : n \in {n \in Claims(g) : \A m \in Claims(g) : n <= m}}

(* devices_endpoints_get_handler: the endpoints no node has claimed, as    *)
(* far as the first MAX_IN_USE nodes with an endpoint go.                  *)
Unclaimed(g) ==
    Endpoints \ {g.nodes[n].set.what :
        n \in {n \in Claims(g) : Cardinality({m \in Claims(g) : m < n}) < MaxInUse}}

Answer(r) ==
    CASE r.op = "graph" -> {[op |-> "graph", visit |-> r.visit, got |-> fw]}
      [] r.op = "list" -> {[op |-> "list", key |-> r.key, sensors |-> Unclaimed(fw)]}
      [] r.op = "save" -> {[op |-> "saved", visit |-> r.visit, id |-> r.id, what |-> r.set.what]}
      [] OTHER -> {}
Refusal(r) ==
    CASE r.op = "graph" -> {[op |-> "noGraph", visit |-> r.visit]}
      [] r.op = "list" -> {[op |-> "list", key |-> r.key, sensors |-> {}]}
      [] r.op = "save" -> {[op |-> "unsaved", key |-> r.key]}
      [] OTHER -> {}

Arrivals == IF Reorder THEN DOMAIN flight ELSE DOMAIN flight \cap {1}

(* The HTTP task handles a request whole: the graph, the file, the answer. *)
Serve(i) ==
    /\ i \in Arrivals
    /\ fw' = Served(fw, flight[i])
    /\ answers' = answers \cup Answer(flight[i])
    /\ flight' = RemoveAt(flight, i)
    /\ astray' = (astray /\ flight[i].op # "graph")
    /\ UNCHANGED <<canvas, view, visit, counter, selected, open, gestures, lost>>

(* A request that never reaches the firmware or is turned away at its      *)
(* connection limit, or one that is served but whose file cannot be        *)
(* written: an error, which only the load, the list and a save look at.    *)
Lose(i) ==
    /\ i \in Arrivals
    /\ lost < MaxLost /\ lost' = lost + 1
    /\ fw' \in {fw, Served(fw, flight[i])}
    /\ answers' = answers \cup Refusal(flight[i])
    /\ flight' = RemoveAt(flight, i)
    /\ astray' = TRUE
    /\ UNCHANGED <<canvas, view, visit, counter, selected, open, gestures>>

-----------------------------------------------------------------------------
(* Mounting the page and loading the canvas.                               *)

Send(requests) == flight' = flight \o requests
Keeps(what) == UNCHANGED <<fw, answers, astray, lost, what>>

Enter ==
    /\ view = "away"
    /\ visit < MaxVisits /\ visit' = visit + 1
    /\ view' = "loading" /\ counter' = FirstNumber
    /\ Send(<<[op |-> "graph", visit |-> visit + 1]>>)
    /\ Keeps(<<canvas, selected, open, gestures>>)

Leave ==
    /\ view # "away" /\ view' = "away"
    /\ view = "loading" => "early" \in Habits
    /\ canvas' = Empty /\ selected' = {} /\ open' = Closed
    /\ UNCHANGED <<fw, visit, counter, flight, answers, astray, gestures, lost>>

(* Mutant: the counter is left where it was. *)
CountedNothing(g) == counter

(* The counter passes every node_<n> that was loaded. *)
Counted(g) == Max({counter} \cup DOMAIN g.nodes)

(* onInit: the canvas becomes the firmware's graph, the Unallocated node   *)
(* is created the first time.                                              *)
LoadGraph(a) ==
    LET new == Unallocated \notin DOMAIN a.got.nodes
        set == Fixed("unallocated") IN
    /\ a.op = "graph" /\ answers' = answers \ {a}
    /\ flight' = IF new THEN Append(flight, [op |-> "put", id |-> Unallocated, place |-> "spot",
                                             set |-> set, new |-> FALSE])
                 ELSE flight
    /\ IF view = "loading" /\ a.visit = visit
       THEN /\ canvas' = IF new THEN With(a.got, Unallocated, Node("spot", set)) ELSE a.got
            /\ view' = "shown" /\ selected' = {}
            /\ counter' = Counted(a.got)
       ELSE UNCHANGED <<canvas, view, selected, counter>>
    /\ UNCHANGED <<fw, visit, open, astray, gestures, lost>>

LoadFails(a) ==
    /\ a.op = "noGraph" /\ answers' = answers \ {a}
    /\ view' = IF view = "loading" /\ a.visit = visit THEN "failed" ELSE view
    /\ UNCHANGED <<fw, canvas, visit, counter, selected, open, flight, astray, gestures, lost>>

-----------------------------------------------------------------------------
(* Gestures.  A menu or dialog covers the canvas, but not the keyboard.    *)

Gesture == gestures < MaxGestures /\ gestures' = gestures + 1
Uncovered ==
    /\ open = Closed
    /\ view = "shown" \/ (view # "away" /\ "early" \in Habits)
OnCanvas(n, types) == n \in DOMAIN canvas.nodes /\ canvas.nodes[n].set.type \in types

Select(n) ==
    /\ Uncovered /\ n \in DOMAIN canvas.nodes
    /\ selected' = {n} /\ selected # {n}
    /\ Keeps(<<canvas, view, visit, counter, open, flight, gestures>>)

(* onNodeDragStop; taking hold of a node selects it. *)
DragStop(n) ==
    /\ Uncovered /\ Gesture /\ n \in DOMAIN canvas.nodes
    /\ selected' = {n}
    /\ canvas' = [canvas EXCEPT !.nodes[n].place = "dragged"]
    /\ Send(<<[op |-> "move", id |-> n, place |-> "dragged"]>>)
    /\ Keeps(<<view, visit, counter, open>>)

(* Which handle of one type of node the user draws to which of another.    *)
FromBoard == {<<s, "circuit", t, "power-in">> : s \in {"cu", "board"}, t \in {"load", "board"}}
FromLoad == {<<"load", "power-out", "cu", "grid">>}
FromString == {<<"pv", "power-out", "inverter", "dc_in">>}
FromInverter == {<<"inverter", "battery", "battery", "power-in">>,
                 <<"inverter", "power-out", "cu", "solar_input">>}
Wirings(s, t) ==
    {<<w[2], w[4]>> : w \in {w \in FromBoard \cup FromLoad \cup FromString \cup FromInverter :
                                w[1] = s /\ w[3] = t}}

(* onConnect; an edge's id is made of its ends and handles. *)
Connect(a, b) ==
    /\ Uncovered /\ Gesture /\ a # b /\ {a, b} \subseteq DOMAIN canvas.nodes
    /\ \E w \in Wirings(canvas.nodes[a].set.type, canvas.nodes[b].set.type) :
        LET e == [from |-> a, out |-> w[1], to |-> b, into |-> w[2]] IN
        /\ canvas' = [canvas EXCEPT !.edges = @ \cup {e}]
        /\ Send(<<[op |-> "wire", edge |-> e]>>)
    /\ Keeps(<<view, visit, counter, selected, open>>)

(* onEdgesChange, for an edge that is selected and deleted. *)
RemoveEdge(e) ==
    /\ Uncovered /\ Gesture /\ e \in canvas.edges
    /\ canvas' = [canvas EXCEPT !.edges = @ \ {e}]
    /\ Send(<<[op |-> "unwire", edge |-> e]>>)
    /\ Keeps(<<view, visit, counter, selected, open>>)

(* The buttons stop at one circuit and at eight. *)
Circuits == 1..MaxCircuits

(* setCircuits: settings are replaced wholesale, so all are sent. *)
SetCircuits(b, n) ==
    /\ Uncovered /\ Gesture /\ OnCanvas(b, {"board"})
    /\ n \in Circuits /\ n \in {canvas.nodes[b].set.circuits + 1, canvas.nodes[b].set.circuits - 1}
    /\ canvas' = [canvas EXCEPT !.nodes[b].set.circuits = n]
    /\ Send(<<[op |-> "settings", id |-> b, set |-> Board(n, canvas.nodes[b].set.what)]>>)
    /\ Keeps(<<view, visit, counter, selected, open>>)

(* The requests that take nodes and the edges touching them off the graph. *)
(* The two lists are sent by two state updaters; which runs first depends  *)
(* on what React has pending.                                              *)
Unwires(ids) == SetToSeq({[op |-> "unwire", edge |-> e] : e \in Touching(canvas, ids)})
Deletes(ids) == SetToSeq({[op |-> "delete", id |-> n] : n \in ids})
Deletions(ids) == {Unwires(ids) \o Deletes(ids), Deletes(ids) \o Unwires(ids)}

(* Mutant: what hangs off an inverter stays. *)
TakenAlone(ids) == ids

(* What the canvas deletes with a node, as the firmware does. *)
Taken(ids) == ids \cup HangingOff(canvas, ids)

(* handleKeyDown: the window's listener for Delete and Backspace, whatever *)
(* is open and wherever the key was typed.                                 *)
DeleteKey ==
    LET ids == {n \in selected \cap DOMAIN canvas.nodes : ~canvas.nodes[n].set.locked}
        all == Taken(ids) IN
    /\ view # "away" /\ ids # {} /\ Gesture
    /\ open.kind \in {"closed", "pane"} \/ "keys" \in Habits
    /\ \E requests \in Deletions(all) : Send(requests)
    /\ canvas' = Without(canvas, all) /\ selected' = selected \ all
    /\ Keeps(<<view, visit, counter, open>>)

-----------------------------------------------------------------------------
(* Menus and dialogs.                                                      *)

Opened(kind, n) ==
    [Closed EXCEPT !.kind = kind, !.id = n, !.key = gestures + 1,
                   !.set = IF n = NoNode THEN Blank ELSE canvas.nodes[n].set]
OpenPaneMenu ==
    /\ Uncovered /\ Gesture /\ open' = Opened("pane", NoNode)
    /\ Keeps(<<canvas, view, visit, counter, selected, flight>>)
OpenNodeMenu(n) ==
    /\ Uncovered /\ Gesture /\ OnCanvas(n, Editable) /\ ~canvas.nodes[n].set.locked
    /\ open' = Opened("menu", n)
    /\ Keeps(<<canvas, view, visit, counter, selected, flight>>)

(* A new node takes the next number. *)
Create(set) ==
    /\ counter < MaxNumber /\ counter' = counter + 1
    /\ canvas' = With(canvas, counter + 1, Node("spot", set))
    /\ Send(<<[op |-> "put", id |-> counter + 1, place |-> "spot", set |-> set, new |-> TRUE]>>)

AddSubConsumerUnit ==
    /\ open.kind = "pane" /\ open' = Closed
    /\ Create(Board(StartCircuits, "board"))
    /\ Keeps(<<view, visit, selected, gestures>>)

(* AddLoadModal asks for the endpoints when it opens. *)
OpenAddLoad ==
    /\ open.kind = "pane"
    /\ open' = [open EXCEPT !.kind = "add", !.busy = "loading"]
    /\ Send(<<[op |-> "list", key |-> open.key]>>)
    /\ Keeps(<<canvas, view, visit, counter, selected, gestures>>)
AddLoad(e) ==
    /\ open.kind = "add" /\ open.busy = "no" /\ e \in open.sensors
    /\ open' = Closed
    /\ Create(Load(e))
    /\ Keeps(<<view, visit, selected, gestures>>)

DeleteSubConsumerUnit ==
    LET ids == {open.id} \cup ({e.to : e \in {e \in canvas.edges : e.from = open.id}} \ {Cu}) IN
    /\ open.kind = "menu" /\ open.set.type = "board" /\ open' = Closed
    /\ Send(Unwires(ids) \o Deletes(ids))
    /\ canvas' = Without(canvas, ids) /\ selected' = selected \ ids
    /\ Keeps(<<view, visit, counter, gestures>>)
DeleteLoad ==
    /\ open.kind = "menu" /\ open.set.type # "board" /\ open' = Closed
    /\ \E requests \in Deletions({open.id}) : Send(requests)
    /\ canvas' = Without(canvas, {open.id}) /\ selected' = selected \ {open.id}
    /\ Keeps(<<view, visit, counter, gestures>>)

(* EditNodeModal asks for the endpoints if the node is a load, and keeps   *)
(* the one it has.                                                         *)
Editing(opened) ==
    IF opened.set.type = "load"
    THEN /\ open' = [opened EXCEPT !.kind = "edit", !.busy = "loading",
                                   !.sensors = {opened.set.what} \cap Endpoints]
         /\ Send(<<[op |-> "list", key |-> opened.key]>>)
    ELSE open' = [opened EXCEPT !.kind = "edit"] /\ UNCHANGED flight
DoubleClick(n) ==
    /\ Uncovered /\ Gesture /\ OnCanvas(n, Editable)
    /\ selected' = {n} /\ Editing(Opened("edit", n))
    /\ Keeps(<<canvas, view, visit, counter>>)
MenuEdit ==
    /\ open.kind = "menu" /\ Editing(open)
    /\ Keeps(<<canvas, view, visit, counter, selected, gestures>>)

Listed(a) ==
    /\ a.op = "list" /\ answers' = answers \ {a}
    /\ open' = IF open.kind \in {"add", "edit"} /\ open.key = a.key
               THEN [open EXCEPT !.sensors = @ \cup a.sensors, !.busy = "no"] ELSE open
    /\ UNCHANGED <<fw, canvas, view, visit, counter, selected, flight, astray, gestures, lost>>

(* handleSave, and the answer: onSave, or an error and another try.        *)
Save(what) ==
    /\ open.kind = "edit" /\ open.busy = "no"
    /\ what \in IF open.set.type = "load" THEN open.sensors ELSE {"board", "renamed"}
    /\ open' = [open EXCEPT !.busy = "saving"]
    /\ Send(<<[op |-> "save", visit |-> visit, key |-> open.key, id |-> open.id,
                set |-> [open.set EXCEPT !.what = what]]>>)
    /\ Keeps(<<canvas, view, visit, counter, selected, gestures>>)

(* handleNodeEdited closes whichever edit dialog is open. *)
SavedAnswer(a) ==
    /\ a.op = "saved" /\ answers' = answers \ {a}
    /\ open' = IF open.kind = "edit" /\ a.visit = visit THEN Closed ELSE open
    /\ canvas' = IF a.visit = visit /\ a.id \in DOMAIN canvas.nodes
                 THEN [canvas EXCEPT !.nodes[a.id].set.what = a.what] ELSE canvas
    /\ UNCHANGED <<fw, view, visit, counter, selected, flight, astray, gestures, lost>>
UnsavedAnswer(a) ==
    /\ a.op = "unsaved" /\ answers' = answers \ {a}
    /\ open' = IF open.kind = "edit" /\ open.key = a.key THEN [open EXCEPT !.busy = "no"] ELSE open
    /\ UNCHANGED <<fw, canvas, view, visit, counter, selected, flight, astray, gestures, lost>>

(* Cancel, the close button, the backdrop of a menu. *)
Close ==
    /\ open # Closed /\ (open.busy # "saving" \/ "cancels" \in Habits)
    /\ open' = Closed
    /\ Keeps(<<canvas, view, visit, counter, selected, flight, gestures>>)

-----------------------------------------------------------------------------
Gestures ==
    \/ \E n \in Ids : Select(n) \/ DragStop(n) \/ OpenNodeMenu(n) \/ DoubleClick(n)
    \/ \E a, b \in Ids : Connect(a, b) \/ SetCircuits(a, b)
    \/ \E e \in canvas.edges : RemoveEdge(e)
    \/ DeleteKey \/ OpenPaneMenu \/ AddSubConsumerUnit \/ OpenAddLoad
    \/ \E e \in Endpoints : AddLoad(e)
    \/ DeleteSubConsumerUnit \/ DeleteLoad \/ MenuEdit \/ Close
    \/ \E what \in Endpoints \cup {"board", "renamed"} : Save(what)

Reply(a) == LoadGraph(a) \/ LoadFails(a) \/ Listed(a) \/ SavedAnswer(a) \/ UnsavedAnswer(a)

Next ==
    \/ \E i \in DOMAIN flight : Serve(i) \/ Lose(i)
    \/ \E a \in answers : Reply(a)
    \/ Enter \/ Leave \/ Gestures

Spec == Init /\ [][Next]_vars
-----------------------------------------------------------------------------
(* Properties.                                                             *)

(* What the firmware will have once it has served what is on its way.      *)
ServedAll(g, requests) ==
    LET After[n \in 0..Len(requests)] == IF n = 0 THEN g ELSE Served(After[n - 1], requests[n])
    IN  After[Len(requests)]
Settled == ServedAll(fw, flight)
BeingSaved ==
    {r.id : r \in {r \in ToSet(flight) : r.op = "save"}} \cup {a.id : a \in {a \in answers : a.op = "saved"}}

(* The canvas is what the firmware keeps once the requests on their way    *)
(* are served, nodes, places, settings and edges, whatever was deleted     *)
(* with what; only an edit being saved shows later.  Excepted: requests    *)
(* lost since the firmware last sent the graph.                            *)
CanvasIsStored ==
    view = "shown" /\ ~astray =>
        /\ canvas.edges = Settled.edges
        /\ DOMAIN canvas.nodes = DOMAIN Settled.nodes
        /\ \A n \in DOMAIN canvas.nodes \ BeingSaved : canvas.nodes[n] = Settled.nodes[n]

(* A request that creates a node never hits one that is there.             *)
NeverOverwrites ==
    [][\A i \in DOMAIN flight :
        Serve(i) /\ flight[i].op = "put" => (flight[i].new => flight[i].id \notin DOMAIN fw.nodes)]_vars

(* web_server.c: an endpoint is assigned to at most one node.              *)
OneNodePerEndpoint ==
    \A m, n \in Claims(fw) : m # n => fw.nodes[m].set.what # fw.nodes[n].set.what

(* As long as every request arrives and the list is not cut short.         *)
ClaimedOnce == lost = 0 => OneNodePerEndpoint

(* EditNodeModal.tsx: while a node is edited its place and its edges are   *)
(* untouched, on the canvas and so on the firmware.                        *)
EditLeavesWiring ==
    [][open.kind = "edit" /\ open'.kind = "edit" =>
        /\ open.id \in DOMAIN canvas.nodes => open.id \in DOMAIN canvas'.nodes
        /\ Touching(canvas, {open.id}) = Touching(canvas', {open.id})]_vars

=============================================================================
