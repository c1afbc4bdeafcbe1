------------------------------- MODULE HomePage -------------------------------
(***************************************************************************)
(* The Home page (Home.tsx): the devices of the grid, solar and tariff     *)
(* roles, and the loads of the graph laid out over the appliance slots.    *)
(* Assigning or removing a device takes chains of requests; the page reads *)
(* the graph again after a change of the slots and never otherwise.        *)
(***************************************************************************)
EXTENDS Naturals, FiniteSets, FiniteSetsExt, SequencesExt

CONSTANTS
    Slots,              \* APPLIANCE_SLOTS, as many as the consumer unit has circuits
    Kinds,              \* per endpoint the lists that offer it: "sensor", "solar", "tariff"
    Parts, Batteries,   \* the children of an endpoint; those of them that are batteries
    Saved,              \* the graphs the firmware may start with
    Reorder,            \* whether requests and answers overtake each other
    Habits,             \* what the user does: "quick" (uses a slot before it is read again),
                        \* "cancels" (a save under way), "leaves" (with a change under way)
    MaxOpens, MaxFaults, MaxVisits    \* bounds: dialogs opened, requests that fail, visits

Endpoints == DOMAIN Kinds
Roles == {"grid", "solar", "tariff"}
Cu == <<"consumer_unit", 0>>
RoleId(role) == <<role, 0>>
Appliance(s) == <<"appliance", s>>
Circuit(s) == ToString(s)

ASSUME HomeAssumption ==
    /\ {Slots, MaxOpens, MaxFaults, MaxVisits} \subseteq Nat
    /\ Endpoints \subseteq Nat /\ DOMAIN Parts = Endpoints
    /\ \A g \in Saved : Cu \in DOMAIN g.nodes
    /\ Reorder \in BOOLEAN /\ Habits \subseteq {"quick", "cancels", "leaves"}

VARIABLES
    fw,         \* the firmware's graph
    view,       \* whether the page is mounted
    visit,      \* how often it was
    page,       \* what it shows: the endpoint of each role, the slots, the edges
    open,       \* the dialog over it
    flight,     \* requests on their way to the firmware
    answers,    \* answers on their way to the page
    astray,     \* whether a request failed since the firmware last sent the graph
    opens, faults    \* used up of the bounds

vars == <<fw, view, visit, page, open, flight, answers, astray, opens, faults>>

Wire(a, out, b, into) == [from |-> a, out |-> out, to |-> b, into |-> into]
Node(type, ep) == [type |-> type, ep |-> ep]
Ep(n) == IF n.ep = 0 THEN {} ELSE {n.ep}

With(g, id, node) == [g EXCEPT !.nodes = (id :> node) @@ @]
EpOf(g, id) == IF id \in DOMAIN g.nodes THEN Ep(g.nodes[id]) ELSE {}

Blank == [roles |-> [role \in Roles |-> {}], slots |-> [s \in 1..Slots |-> {}], edges |-> {}]
Closed == [kind |-> "closed", role |-> "grid", slot |-> 1, selected |-> {}, listed |-> {},
           saving |-> FALSE, key |-> 0, asked |-> Cu]

TypeOK ==
    /\ \A id \in DOMAIN fw.nodes :
        fw.nodes[id].type \in {"cu", "board", "load", "part"} \cup Roles /\ fw.nodes[id].ep \in {0} \cup Endpoints
    /\ \A e \in fw.edges : {e.from, e.to} \subseteq DOMAIN fw.nodes
    /\ view \in BOOLEAN /\ {visit, opens, faults} \subseteq Nat
    /\ page.roles \in [Roles -> SUBSET Endpoints] /\ Len(page.slots) >= Slots
    /\ open.kind \in {"closed", "role", "slot", "removeRole", "removeSlot"}
    /\ open.role \in Roles /\ open.slot \in 1..Len(page.slots)
    /\ open.selected \subseteq Endpoints /\ Cardinality(open.selected) <= 1
    /\ open.saving \in BOOLEAN /\ astray \in BOOLEAN

-----------------------------------------------------------------------------
(* The firmware.                                                           *)

(* The handler of each role wires its node to the consumer unit's handle.  *)
RoleWire(role) ==
    Wire(RoleId(role), IF role = "tariff" THEN "tariff-out" ELSE "power-out",
         Cu, IF role = "solar" THEN "solar_input" ELSE role)

(* topology_solar_build_children: strings feed the inverter, a battery     *)
(* hangs off it; nobody asks whether the endpoint has been assigned.       *)
PartId(p) == <<IF p \in Batteries THEN "battery" ELSE "pv_string", p>>
PartWire(p) == IF p \in Batteries THEN Wire(RoleId("solar"), "battery", PartId(p), "power-in")
               ELSE Wire(PartId(p), "power-out", RoleId("solar"), "dc_in")
BuildChildren(g, ep) ==
    [nodes |-> [id \in {PartId(p) : p \in Parts[ep]} |-> Node("part", id[2])] @@ g.nodes,
     edges |-> g.edges \cup {PartWire(p) : p \in Parts[ep]}]

(* topology_grid_put_handler and those of the other roles *)
Assign(g, r) ==
    LET assigned == [With(g, r.id, r.node) EXCEPT !.edges = @ \cup r.edges] IN
    IF r.node.type = "solar" THEN BuildChildren(assigned, r.node.ep) ELSE assigned

(* node_manager_delete *)
Delete(g, id) ==
    LET gone == {id} \cup {e.from : e \in {e \in g.edges : e.to = id /\ e.into = "dc_in"}}
                     \cup {e.to : e \in {e \in g.edges : e.from = id /\ e.out = "battery"}} IN
    [nodes |-> Restrict(g.nodes, DOMAIN g.nodes \ gone),
     edges |-> {e \in g.edges : {e.from, e.to} \cap gone = {}}]

Made(g, r) ==
    CASE r.op = "assign" -> Assign(g, r)
      [] r.op = "put" -> With(g, r.id, r.node)
      [] r.op = "wire" -> [g EXCEPT !.edges = @ \cup r.edges]
      [] r.op = "unwire" -> [g EXCEPT !.edges = @ \ r.edges]
      [] r.op = "delete" -> Delete(g, r.id)
      [] OTHER -> g

(* Mutant: only the endpoints of the appliances count as assigned. *)
ListedLoads(g, kind) ==
    {e \in Endpoints : kind \in Kinds[e] /\ ~\E id \in DOMAIN g.nodes : g.nodes[id] = Node("load", e)}

(* devices_endpoints_get_handler, as TopologyEditor has it *)
Listed(g, kind) ==
    {e \in Endpoints : kind \in Kinds[e] /\ ~\E id \in DOMAIN g.nodes : g.nodes[id].ep = e}

Arrivals(q) == IF Reorder THEN DOMAIN q ELSE DOMAIN q \cap {1}

(* An answer is its request with what it found.                            *)
Serve ==
    \E i \in Arrivals(flight) :
        LET r == flight[i] IN
        /\ flight' = RemoveAt(flight, i)
        /\ fw' = Made(fw, r)
        /\ answers' = Append(answers, CASE r.op = "graph" -> [r EXCEPT !.graph = fw]
                                        [] r.op = "list" -> [r EXCEPT !.listed = Listed(fw, r.kind)]
                                        [] OTHER -> r)
        /\ astray' = (astray /\ ~(r.op = "graph" /\ r.visit = visit))
        /\ UNCHANGED <<view, visit, page, open, opens, faults>>

(* A request gets lost, or the graph changes and cannot be written: the    *)
(* answer is an error, which the chains of a removal do not look at.       *)
Fail ==
    \E i \in Arrivals(flight) :
        LET r == flight[i] IN
        /\ faults < MaxFaults /\ faults' = faults + 1
        /\ flight' = RemoveAt(flight, i)
        /\ \/ fw' = fw /\ answers' = Append(answers, [r EXCEPT !.ok = FALSE])
           \/ /\ r.op \notin {"graph", "list"} /\ fw' = Made(fw, r)
              /\ answers' = Append(answers, [r EXCEPT !.ok = r.op \in {"unwire", "delete"}])
        /\ astray' = TRUE
        /\ UNCHANGED <<view, visit, page, open, opens>>

-----------------------------------------------------------------------------
(* The slots.                                                              *)

SupplyHandles == {"grid", "solar_input", "battery"}
Supplies(g) ==
    {RoleId("grid")}
        \cup {e.from : e \in {e \in g.edges : e.to = Cu /\ e.into \in SupplyHandles}}
        \cup {e.to : e \in {e \in g.edges : e.from = Cu /\ e.out \in SupplyHandles}}
Loads(g) == {id \in DOMAIN g.nodes : g.nodes[id].type = "load" /\ id \notin Supplies(g)}

(* Mutant: every load takes the next slot. *)
ApplianceSlotsInOrder(g) ==
    LET loads == SetToSortSeq(Loads(g), LAMBDA a, b : a[2] < b[2]) IN
    [s \in 1..Max({Slots, Len(loads)}) |->
        {[id |-> loads[i], ep |-> g.nodes[loads[i]].ep] : i \in {s} \cap DOMAIN loads}]

(* applianceSlots: appliance_N keeps slot N, the others fill the rest in   *)
(* the order of their numbers and run on past the last.                    *)
ApplianceSlots(g) ==
    LET own == [s \in 1..Slots |-> {Appliance(s)} \cap Loads(g)]
        free == SetToSortSeq({s \in 1..Slots : own[s] = {}}, <)
        others == SetToSortSeq(Loads(g) \ UNION Range(own), LAMBDA a, b : a[2] < b[2])
        size == Max({Slots, Slots + Len(others) - Len(free)})
        Place(i) == IF i <= Len(free) THEN free[i] ELSE Slots + i - Len(free)
        Id(s) == IF s <= Slots /\ own[s] # {} THEN own[s]
                 ELSE {others[i] : i \in {i \in DOMAIN others : Place(i) = s}} IN
    [s \in 1..size |-> {[id |-> id, ep |-> g.nodes[id].ep] : id \in Id(s)}]

(* Mutant: the slot's own circuit, free or not. *)
FreeCircuitOwn(s) == Circuit(s)

(* freeCircuitHandle *)
FreeCircuit(s) ==
    LET used == {e.out : e \in {e \in page.edges : e.from = Cu}}
        free == {c \in 1..Slots : Circuit(c) \notin used} IN
    IF Circuit(s) \notin used \/ free = {} THEN Circuit(s) ELSE Circuit(Min(free))

-----------------------------------------------------------------------------
(* The page.                                                               *)

Request(op) == [op |-> op, visit |-> visit, key |-> 0, kind |-> "sensor", id |-> Cu,
                node |-> Node("load", 0), edges |-> {}, ok |-> TRUE,
                graph |-> [nodes |-> << >>, edges |-> {}], listed |-> {}]
Changes == {"assign", "put", "wire", "unwire", "delete"}
UnderWay(ops) == \E q \in {flight, answers} : \E i \in DOMAIN q : q[i].op \in ops
Quiet == flight = << >> /\ answers = << >>
SlotsKnown == "quick" \in Habits \/ ~UnderWay({"graph", "put", "wire", "unwire", "delete"})

Init ==
    /\ fw \in Saved
    /\ view = FALSE /\ visit = 0 /\ page = Blank /\ open = Closed
    /\ flight = << >> /\ answers = << >> /\ astray = FALSE
    /\ opens = 0 /\ faults = 0

Enter ==
    /\ ~view /\ visit < MaxVisits
    /\ view' = TRUE /\ visit' = visit + 1 /\ page' = Blank
    /\ flight' = Append(flight, [Request("graph") EXCEPT !.visit = visit + 1])
    /\ UNCHANGED <<fw, open, answers, astray, opens, faults>>

Leave ==
    /\ view /\ ("leaves" \in Habits \/ ~UnderWay(Changes))
    /\ view' = FALSE /\ open' = Closed
    /\ UNCHANGED <<fw, visit, page, flight, answers, astray, opens, faults>>

(* A slot is clicked: the dialog opens with its device and asks for the    *)
(* endpoints that can be assigned.                                         *)
Open(dialog, kind) ==
    /\ view /\ open.kind = "closed" /\ opens < MaxOpens /\ opens' = opens + 1
    /\ open' = [dialog EXCEPT !.key = opens + 1]
    /\ flight' = Append(flight, [Request("list") EXCEPT !.kind = kind, !.key = opens + 1])
    /\ UNCHANGED <<fw, view, visit, page, answers, astray, faults>>
OpenRole(role) ==
    Open([Closed EXCEPT !.kind = "role", !.role = role, !.selected = page.roles[role],
                        !.listed = page.roles[role]],
         IF role = "grid" THEN "sensor" ELSE role)
Device(s) == {d.ep : d \in page.slots[s]}
OpenSlot(s) ==
    /\ SlotsKnown
    /\ Open([Closed EXCEPT !.kind = "slot", !.slot = s, !.selected = Device(s), !.listed = Device(s)],
            "sensor")

Select(e) ==
    /\ open.kind \in {"role", "slot"} /\ e \in open.listed \ open.selected
    /\ open' = [open EXCEPT !.selected = {e}]
    /\ UNCHANGED <<fw, view, visit, page, flight, answers, astray, opens, faults>>

SaveRole(role, ep) ==
    [Request("assign") EXCEPT !.id = RoleId(role), !.node = Node(role, ep), !.edges = {RoleWire(role)},
                              !.key = open.key]
(* A load that is not on the canvas is wired to a circuit as well.         *)
SaveSlot(s, ep) ==
    LET there == page.slots[s]
        id == IF there = {} THEN Appliance(s) ELSE (CHOOSE d \in there : TRUE).id IN
    [Request("put") EXCEPT !.id = id, !.node = Node("load", ep), !.key = open.key,
                           !.edges = IF there = {} THEN {Wire(Cu, FreeCircuit(s), id, "power-in")} ELSE {}]
Save ==
    /\ open.kind \in {"role", "slot"} /\ ~open.saving
    /\ \E e \in open.selected :
        flight' = Append(flight, IF open.kind = "role" THEN SaveRole(open.role, e) ELSE SaveSlot(open.slot, e))
    /\ open' = [open EXCEPT !.saving = TRUE]
    /\ UNCHANGED <<fw, view, visit, page, answers, astray, opens, faults>>

Cancel ==
    /\ open.kind # "closed" /\ (~open.saving \/ "cancels" \in Habits)
    /\ open' = Closed
    /\ UNCHANGED <<fw, view, visit, page, flight, answers, astray, opens, faults>>

(* ConfirmRemoveModal *)
Ask(dialog) ==
    /\ view /\ open.kind = "closed" /\ opens < MaxOpens /\ opens' = opens + 1
    /\ open' = dialog
    /\ UNCHANGED <<fw, view, visit, page, flight, answers, astray, faults>>
AskRemoveRole(role) ==
    page.roles[role] # {} /\ Ask([Closed EXCEPT !.kind = "removeRole", !.role = role, !.asked = RoleId(role)])
AskRemoveSlot(s) ==
    /\ SlotsKnown
    /\ \E d \in page.slots[s] : Ask([Closed EXCEPT !.kind = "removeSlot", !.slot = s, !.asked = d.id])

(* handleGridDelete and the like, handleApplianceDelete: the edges first.  *)
Removal(id, edges) == [Request("unwire") EXCEPT !.id = id, !.edges = edges]
Confirm ==
    /\ \/ open.kind = "removeRole" /\ flight' = Append(flight, Removal(RoleId(open.role), {RoleWire(open.role)}))
       \/ /\ open.kind = "removeSlot"
          /\ \E d \in page.slots[open.slot] :
                flight' = Append(flight, Removal(d.id, {e \in page.edges : d.id \in {e.from, e.to}}))
    /\ open' = Closed
    /\ UNCHANGED <<fw, view, visit, page, answers, astray, opens, faults>>

-----------------------------------------------------------------------------
(* Answers.  Only the state of the visit that asked is still there; a      *)
(* chain goes on all the same.                                             *)

Here(a) == view /\ a.visit = visit
Mine(a) == Here(a) /\ open.key = a.key
Follow(a, op) == flight' = Append(flight, [a EXCEPT !.op = op])

(* loadTopology: a role the graph does not have is left as it was.         *)
GraphAnswer(a) ==
    LET slots == ApplianceSlots(a.graph) IN
    /\ page' = IF Here(a) /\ a.ok
               THEN [roles |-> [role \in Roles |->
                                    LET ep == EpOf(a.graph, RoleId(role)) IN
                                    IF ep = {} THEN page.roles[role] ELSE ep],
                     slots |-> slots, edges |-> a.graph.edges]
               ELSE page
    /\ open' = IF /\ Here(a) /\ a.ok /\ open.kind \in {"slot", "removeSlot"}
                  /\ open.slot > Len(slots) \/ (open.kind = "removeSlot" /\ slots[open.slot] = {})
               THEN Closed ELSE open
    /\ UNCHANGED flight

ListAnswer(a) ==
    /\ open' = IF Mine(a) THEN [open EXCEPT !.listed = @ \cup a.listed] ELSE open
    /\ UNCHANGED <<page, flight>>

(* The role's dialog is closed, whichever opening of it.                   *)
AssignAnswer(a) ==
    /\ UNCHANGED flight
    /\ IF Here(a) /\ a.ok
       THEN /\ page' = [page EXCEPT !.roles[a.node.type] = {a.node.ep}]
            /\ open' = IF open.kind = "role" /\ open.role = a.node.type THEN Closed ELSE open
       ELSE /\ page' = page
            /\ open' = IF Mine(a) THEN [open EXCEPT !.saving = FALSE] ELSE open

(* handleApplianceSave *)
SlotSaved(a) ==
    /\ Follow(a, "graph") /\ page' = page
    /\ open' = IF Here(a) /\ open.kind = "slot" THEN Closed ELSE open
PutAnswer(a) ==
    IF ~a.ok THEN /\ open' = IF Mine(a) THEN [open EXCEPT !.saving = FALSE] ELSE open
                  /\ UNCHANGED <<page, flight>>
    ELSE IF a.op = "put" /\ a.edges # {} THEN Follow(a, "wire") /\ UNCHANGED <<page, open>>
    ELSE SlotSaved(a)

UnwireAnswer(a) ==
    /\ IF a.ok THEN Follow(a, "delete") ELSE UNCHANGED flight
    /\ UNCHANGED <<page, open>>

(* Mutant: the slots are not read again after a removal. *)
DeleteAnswerAtOnce(a) ==
    /\ UNCHANGED flight
    /\ page' = IF Here(a) /\ a.ok /\ a.id \in {RoleId(role) : role \in Roles}
               THEN [page EXCEPT !.roles[a.id[1]] = {}] ELSE page
    /\ open' = open

(* The role is cleared, which closes its question; or the slots are read.  *)
DeleteAnswer(a) ==
    IF ~a.ok THEN UNCHANGED <<page, open, flight>>
    ELSE IF a.id \in {RoleId(role) : role \in Roles}
    THEN /\ page' = IF Here(a) THEN [page EXCEPT !.roles[a.id[1]] = {}] ELSE page
         /\ open' = IF Here(a) /\ open.kind = "removeRole" /\ RoleId(open.role) = a.id THEN Closed ELSE open
         /\ UNCHANGED flight
    ELSE Follow(a, "graph") /\ UNCHANGED <<page, open>>

Deliver ==
    \E i \in Arrivals(answers) :
        LET a == answers[i] IN
        /\ answers' = RemoveAt(answers, i)
        /\ \/ a.op = "graph" /\ GraphAnswer(a)
           \/ a.op = "list" /\ ListAnswer(a)
           \/ a.op = "assign" /\ AssignAnswer(a)
           \/ a.op \in {"put", "wire"} /\ PutAnswer(a)
           \/ a.op = "unwire" /\ UnwireAnswer(a)
           \/ a.op = "delete" /\ DeleteAnswer(a)
        /\ UNCHANGED <<fw, view, visit, astray, opens, faults>>

Next ==
    \/ Enter \/ Leave \/ Serve \/ Fail \/ Deliver
    \/ \E role \in Roles : OpenRole(role) \/ AskRemoveRole(role)
    \/ \E s \in DOMAIN page.slots : OpenSlot(s) \/ AskRemoveSlot(s)
    \/ \E e \in Endpoints : Select(e)
    \/ Save \/ Cancel \/ Confirm

Spec == Init /\ [][Next]_vars

-----------------------------------------------------------------------------
(* Properties.                                                             *)

(* With nothing under way and no request failed, the page shows the roles  *)
(* and the slots as the firmware has them.                                 *)
PageIsStored ==
    view /\ Quiet /\ ~astray =>
        /\ \A role \in Roles : page.roles[role] = EpOf(fw, RoleId(role))
        /\ page.slots = ApplianceSlots(fw)

(* No endpoint gets assigned twice, the inverter's children left aside,    *)
(* unless a request had failed.                                            *)
Same(a, b) == fw.nodes[a].ep = fw.nodes[b].ep /\ fw.nodes[a].ep # 0
Assigned == {id \in DOMAIN fw.nodes : fw.nodes[id].type # "part"}
AssignedOnce == \A a, b \in Assigned : Same(a, b) => a = b
StaysAssignedOnce == [][AssignedOnce /\ ~astray => AssignedOnce']_vars

(* web_server.c:267-268: "An endpoint may be assigned to at most one       *)
(* topology node regardless of its role".                                  *)
OneNodePerEndpoint == \A a, b \in DOMAIN fw.nodes : Same(a, b) => a = b

(* A new appliance gets a circuit of its own as long as there is one       *)
(* (Home.tsx:590), unless a request had failed.                            *)
Taken == {e.out : e \in {e \in fw.edges : e.from = Cu}}
OwnCircuit ==
    [][\A e \in fw'.edges \ fw.edges :
        e.from = Cu /\ e.out \in Taken /\ ~astray => \A s \in 1..Slots : Circuit(s) \in Taken]_vars

(* What the user takes for an empty slot holds no load that a save could   *)
(* replace, unless a save went wrong.                                      *)
NothingReplaced ==
    [][\A i \in DOMAIN flight :
        LET r == flight[i] IN
        flight' = RemoveAt(flight, i) /\ r.op = "put" /\ r.edges # {} /\ r.id \in DOMAIN fw.nodes => astray]_vars

(* The device that is removed is the one the question was about, whatever  *)
(* has moved to the slot since.                                            *)
RemovesWhatWasAsked ==
    [][\A i \in DOMAIN flight' \ DOMAIN flight :
        flight'[i].op = "unwire" => flight'[i].id = open.asked]_vars

=============================================================================
