------------------------- MODULE TopologyEditor_proofs -------------------------
(***************************************************************************)
(* Proofs about the graph of the Topology page, for any stored graph and   *)
(* any bounds: a creation never overwrites a node, for a user who waits    *)
(* for the page to load, and the canvas is what the firmware keeps, for a  *)
(* user who also leaves an open dialog alone; for this user, and as long   *)
(* as nothing is lost, no endpoint is assigned twice.                      *)
(***************************************************************************)
EXTENDS TopologyEditor, SequenceTheorems, FiniteSetTheorems, WellFoundedInduction, TLAPS

-----------------------------------------------------------------------------
(* Sequences of requests, graphs, and the largest number of a set.         *)

IsSeq(q) == q \in Seq(Range(q))

LEMMA SeqOver == ASSUME NEW S, NEW q, q \in Seq(S) PROVE IsSeq(q) /\ Range(q) \subseteq S
<1>1. Len(q) \in Nat /\ DOMAIN q = 1..Len(q) /\ \A i \in DOMAIN q : q[i] \in S
  BY LenProperties, ElementOfSeq
<1>2. \A i \in DOMAIN q : q[i] \in Range(q)
  BY DEF Range
<1>3. q \in [1..Len(q) -> Range(q)]
  BY <1>1, <1>2
<1>4. q \in Seq(Range(q))
  BY <1>1, <1>3
<1>5. Range(q) \subseteq S
  BY <1>1 DEF Range
<1> QED BY <1>4, <1>5 DEF IsSeq

LEMMA SeqFacts ==
    ASSUME NEW q, IsSeq(q)
    PROVE  Len(q) \in Nat /\ DOMAIN q = 1..Len(q) /\ \A i \in DOMAIN q : q[i] \in Range(q)
BY LenProperties DEF IsSeq, Range

LEMMA OldestRemoved ==
    ASSUME NEW q, IsSeq(q), 1 \in DOMAIN q
    PROVE  /\ IsSeq(RemoveAt(q, 1)) /\ Range(RemoveAt(q, 1)) \subseteq Range(q)
           /\ DOMAIN RemoveAt(q, 1) = 1..(Len(q) - 1) /\ Len(RemoveAt(q, 1)) = Len(q) - 1
           /\ \A i \in DOMAIN RemoveAt(q, 1) : i + 1 \in DOMAIN q /\ RemoveAt(q, 1)[i] = q[i + 1]
<1> DEFINE r == RemoveAt(q, 1)
<1>1. Len(q) \in Nat \ {0} /\ DOMAIN q = 1..Len(q) /\ q # << >>
  BY SeqFacts
<1>2. r = Tail(q)
  BY <1>1 DEF RemoveAt, IsSeq
<1> HIDE DEF r
<1>3. r \in Seq(Range(q)) /\ Len(r) = Len(q) - 1
  BY <1>1, <1>2, HeadTailProperties DEF IsSeq
<1>4. DOMAIN r = 1..(Len(q) - 1)
  BY <1>3, LenProperties
<1>5. \A i \in DOMAIN r : i + 1 \in DOMAIN q /\ r[i] = q[i + 1]
  BY <1>1, <1>2, <1>4, HeadTailProperties DEF IsSeq
<1>6. IsSeq(r) /\ Range(r) \subseteq Range(q)
  BY <1>3, SeqOver
<1> QED BY <1>3, <1>4, <1>5, <1>6 DEF r

LEMMA SeqWider ==
    ASSUME NEW q, IsSeq(q), NEW p, IsSeq(p)
    PROVE  q \in Seq(Range(q) \cup Range(p)) /\ p \in Seq(Range(q) \cup Range(p))
<1> DEFINE S == Range(q) \cup Range(p)
<1>1. /\ Len(q) \in Nat /\ DOMAIN q = 1..Len(q) /\ \A i \in DOMAIN q : q[i] \in S
      /\ Len(p) \in Nat /\ DOMAIN p = 1..Len(p) /\ \A i \in DOMAIN p : p[i] \in S
  BY SeqFacts
<1>2. q \in [1..Len(q) -> S] /\ p \in [1..Len(p) -> S]
  <2>1. q \in [1..Len(q) -> Range(q)] /\ p \in [1..Len(p) -> Range(p)]
    BY LenProperties DEF IsSeq
  <2> QED BY <1>1, <2>1
<1> QED BY <1>1, <1>2

LEMMA Joined ==
    ASSUME NEW q, IsSeq(q), NEW p, IsSeq(p)
    PROVE  /\ IsSeq(q \o p) /\ Range(q \o p) \subseteq Range(q) \cup Range(p)
           /\ Len(q \o p) = Len(q) + Len(p)
           /\ \A i \in DOMAIN q : i \in DOMAIN (q \o p) /\ (q \o p)[i] = q[i]
           /\ \A i \in DOMAIN (q \o p) \ DOMAIN q : (q \o p)[i] \in Range(p)
<1> DEFINE S == Range(q) \cup Range(p)
<1>1. q \in Seq(S) /\ p \in Seq(S)
  BY SeqWider
<1>2. /\ q \o p \in Seq(S) /\ Len(q \o p) = Len(q) + Len(p)
      /\ DOMAIN (q \o p) = 1..(Len(q) + Len(p)) /\ Len(q) \in Nat /\ Len(p) \in Nat
      /\ DOMAIN q = 1..Len(q) /\ DOMAIN p = 1..Len(p)
  BY <1>1, ConcatProperties, LenProperties
<1>3. \A i \in 1..(Len(q) + Len(p)) : (q \o p)[i] = IF i <= Len(q) THEN q[i] ELSE p[i - Len(q)]
  BY <1>1, <1>2, ConcatProperties
<1>4. \A i \in DOMAIN (q \o p) \ DOMAIN q : i - Len(q) \in DOMAIN p /\ (q \o p)[i] = p[i - Len(q)]
  BY <1>2, <1>3
<1>5. \A i \in DOMAIN p : p[i] \in Range(p)
  BY DEF Range
<1> HIDE DEF S
<1>6. IsSeq(q \o p) /\ Range(q \o p) \subseteq S
  BY <1>2, SeqOver
<1>7. \A i \in DOMAIN q : i \in DOMAIN (q \o p) /\ (q \o p)[i] = q[i]
  BY <1>2, <1>3
<1> QED BY <1>2, <1>4, <1>5, <1>6, <1>7 DEF S

LEMMA JoinedRange ==
    ASSUME NEW q, IsSeq(q), NEW p, IsSeq(p) PROVE Range(q \o p) = Range(q) \cup Range(p)
<1>1. /\ Len(q) \in Nat /\ DOMAIN q = 1..Len(q) /\ Len(p) \in Nat /\ DOMAIN p = 1..Len(p)
  BY SeqFacts
<1>2. q \in Seq(Range(q) \cup Range(p)) /\ p \in Seq(Range(q) \cup Range(p))
  BY SeqWider
<1> DEFINE j == q \o p
<1>3. /\ DOMAIN j = 1..(Len(q) + Len(p))
      /\ \A i \in DOMAIN q : j[i] = q[i]
      /\ \A i \in DOMAIN p : j[Len(q) + i] = p[i]
  BY <1>1, <1>2, ConcatProperties, LenProperties
<1>4. Range(j) \subseteq Range(q) \cup Range(p)
  BY Joined
<1> HIDE DEF j
<1>5. \A i \in DOMAIN q : q[i] \in Range(j)
  BY <1>1, <1>3 DEF Range
<1>6. \A i \in DOMAIN p : p[i] \in Range(j)
  <2> SUFFICES ASSUME NEW i \in DOMAIN p PROVE p[i] \in Range(j)
    OBVIOUS
  <2>1. Len(q) + i \in DOMAIN j
    BY <1>1, <1>3
  <2> QED BY <1>3, <2>1 DEF Range
<1>7. Range(j) = Range(q) \cup Range(p)
  BY <1>4, <1>5, <1>6 DEF Range
<1> QED BY <1>7 DEF j

LEMMA Single == ASSUME NEW r PROVE IsSeq(<<r>>) /\ Range(<<r>>) = {r}
<1>1. <<r>> \in Seq({r}) /\ DOMAIN <<r>> = {1} /\ <<r>>[1] = r
  OBVIOUS
<1>2. IsSeq(<<r>>)
  BY <1>1, SeqOver
<1>3. Range(<<r>>) = {r}
  BY <1>1 DEF Range
<1> QED BY <1>2, <1>3

LEMMA Listing ==
    ASSUME NEW S, IsFiniteSet(S) PROVE IsSeq(SetToSeq(S)) /\ Range(SetToSeq(S)) = S
<1>1. PICK n \in Nat : ExistsBijection(1..n, S)
  BY FS_NatBijection
<1>2. Cardinality(S) = n
  BY <1>1, FS_CountingElements
<1>3. \E f \in [1..n -> S] : IsInjective(f)
  BY <1>1 DEF ExistsBijection, Bijection, Injection, IsInjective
<1> DEFINE q == SetToSeq(S)
<1>4. q \in [1..n -> S] /\ IsInjective(q)
  BY <1>2, <1>3 DEF SetToSeq
<1> HIDE DEF q
<1>5. q \in Surjection(1..n, S)
  <2>1. IsFiniteSet(1..n) /\ Cardinality(1..n) = n
    <3>1. 1 \in Int /\ n \in Int
      OBVIOUS
    <3> QED BY <3>1, FS_Interval
  <2>2. q \in Injection(1..n, S)
    BY <1>4 DEF Injection
  <2> QED BY <1>2, <2>1, <2>2, FS_Injection
<1>6. S \subseteq Range(q)
  BY <1>4, <1>5 DEF Surjection, Range
<1>7. q \in Seq(S)
  BY <1>4
<1>8. IsSeq(q) /\ Range(q) = S
  BY <1>6, <1>7, SeqOver
<1> QED BY <1>8 DEF q

LEMMA ImageFinite ==
    ASSUME NEW S, IsFiniteSet(S), NEW f, f = [x \in S |-> f[x]]
    PROVE  IsFiniteSet({f[x] : x \in S})
<1> DEFINE T == {f[x] : x \in S}
<1>1. f \in Surjection(S, T)
  <2>1. f \in [S -> T]
    OBVIOUS
  <2> QED BY <2>1 DEF Surjection
<1> QED BY <1>1, FS_Surjection

LEMMA SmallestOf ==
    ASSUME NEW T, T \subseteq Nat, T # {} PROVE \E m \in T : \A y \in T : ~(y < m)
<1>1. PICK m \in T : \A y \in T : <<y, m>> \notin OpToRel(<, Nat)
  BY NatLessThanWellFounded, WFMin
<1> QED BY <1>1 DEF OpToRel

LEMMA MaxIsLargest ==
    ASSUME NEW S, NEW n \in Nat, S \subseteq 0..n, S # {}
    PROVE  Max(S) \in S /\ \A y \in S : y <= Max(S)
<1> DEFINE T == {n - x : x \in S}
<1>1. T \subseteq Nat /\ T # {}
  OBVIOUS
<1>2. PICK m \in T : \A y \in T : ~(y < m)
  BY <1>1, SmallestOf
<1>3. PICK x \in S : m = n - x
  OBVIOUS
<1>4. \A y \in S : x >= y
  <2> SUFFICES ASSUME NEW y \in S PROVE x >= y
    OBVIOUS
  <2>1. ~(n - y < m)
    BY <1>2
  <2> QED BY <1>3, <2>1
<1>5. \E z \in S : \A y \in S : z >= y
  BY <1>4
<1> QED BY <1>5 DEF Max

IsGraph(g) ==
    /\ g = [nodes |-> g.nodes, edges |-> g.edges]
    /\ DOMAIN g.nodes \subseteq Ids /\ IsFiniteSet(g.edges)

LEMMA WithGraph ==
    ASSUME NEW g, IsGraph(g), NEW n \in Ids, NEW node
    PROVE  IsGraph(With(g, n, node)) /\ DOMAIN With(g, n, node).nodes = DOMAIN g.nodes \cup {n}
BY DEF IsGraph, With

LEMMA EdgesGraph ==
    ASSUME NEW g, IsGraph(g), NEW es, IsFiniteSet(es)
    PROVE  IsGraph([g EXCEPT !.edges = es]) /\ [g EXCEPT !.edges = es].nodes = g.nodes
BY DEF IsGraph

LEMMA WithoutGraph ==
    ASSUME NEW g, IsGraph(g), NEW ids
    PROVE  IsGraph(Without(g, ids)) /\ DOMAIN Without(g, ids).nodes \subseteq DOMAIN g.nodes
<1>1. IsFiniteSet(g.edges \ Touching(g, ids))
  BY FS_Difference DEF IsGraph
<1> QED BY <1>1 DEF IsGraph, Without, Restrict

(* Requests after which the firmware has the node they name.               *)
Makes(r) == r.op \in {"put", "move", "settings", "save"}
Creates(r) == r.op = "put" /\ r.new

LEMMA ServedGraph ==
    ASSUME NEW g, IsGraph(g), NEW r, Makes(r) => r.id \in Ids
    PROVE  /\ IsGraph(Served(g, r))
           /\ \A n \in DOMAIN Served(g, r).nodes : n \in DOMAIN g.nodes \/ (Makes(r) /\ n = r.id)
<1>1. CASE Makes(r)
  <2>1. \E node : Served(g, r) = With(g, r.id, node)
    BY <1>1 DEF Makes, Served, Upsert, Move, UpdateSettings
  <2> QED BY <1>1, <2>1, WithGraph
<1>2. CASE r.op = "delete"
  BY <1>2, WithoutGraph DEF Served, Delete
<1>3. CASE r.op = "wire"
  <2>1. Served(g, r) = [g EXCEPT !.edges = g.edges \cup {r.edge}]
    BY <1>3 DEF Served
  <2>2. IsFiniteSet(g.edges \cup {r.edge})
    BY FS_AddElement DEF IsGraph
  <2> QED BY <2>1, <2>2, EdgesGraph
<1>4. CASE r.op = "unwire"
  <2>1. Served(g, r) = [g EXCEPT !.edges = g.edges \ {r.edge}]
    BY <1>4 DEF Served
  <2>2. IsFiniteSet(g.edges \ {r.edge})
    BY FS_RemoveElement DEF IsGraph
  <2> QED BY <2>1, <2>2, EdgesGraph
<1>5. CASE r.op \notin {"put", "move", "settings", "save", "delete", "wire", "unwire"}
  BY <1>5 DEF Served
<1> QED BY <1>1, <1>2, <1>3, <1>4, <1>5 DEF Makes

(* What one more request makes of those that are on their way.             *)
Joins(r) ==
    /\ IsSeq(flight') /\ Range(flight') \subseteq Range(flight) \cup {r}
    /\ \A i \in DOMAIN flight : i \in DOMAIN flight' /\ flight'[i] = flight[i]
    /\ \A i \in DOMAIN flight' \ DOMAIN flight : flight'[i] = r
    /\ Len(flight) \in Nat /\ DOMAIN flight = 1..Len(flight)
    /\ DOMAIN flight' = 1..(Len(flight) + 1)

LEMMA JoinsFlight == ASSUME IsSeq(flight), NEW r, Send(<<r>>) PROVE Joins(r)
<1> DEFINE p == <<r>>
<1>1. IsSeq(p) /\ Range(p) = {r} /\ Len(p) = 1 /\ flight' = flight \o p
  BY Single DEF Send
<1> HIDE DEF p
<1>2. /\ IsSeq(flight') /\ Range(flight') \subseteq Range(flight) \cup {r}
      /\ Len(flight') = Len(flight) + 1
      /\ \A i \in DOMAIN flight : i \in DOMAIN flight' /\ flight'[i] = flight[i]
      /\ \A i \in DOMAIN flight' \ DOMAIN flight : flight'[i] = r
  BY <1>1, Joined
<1>3. /\ Len(flight) \in Nat /\ DOMAIN flight = 1..Len(flight)
      /\ DOMAIN flight' = 1..Len(flight')
  BY <1>2, SeqFacts
<1> QED BY <1>2, <1>3 DEF Joins

-----------------------------------------------------------------------------
(* The invariant: a new node takes a number that nothing names, neither    *)
(* the firmware nor a request that is still on its way to it.              *)

Typed ==
    /\ IsGraph(fw) /\ IsGraph(canvas)
    /\ view \in {"away", "loading", "shown", "failed"}
    /\ visit \in Nat /\ counter \in Nat /\ FirstNumber <= counter
    /\ DOMAIN open = DOMAIN Closed
    /\ open.kind \in {"menu", "edit"} => open.id \in Ids
    /\ IsSeq(flight)
    /\ \A r \in Range(flight) : /\ Makes(r) => r.id \in Ids
                                /\ r.op = "graph" => r.visit \in Nat /\ r.visit <= visit
    /\ \A a \in answers : a.op = "graph" => IsGraph(a.got) /\ a.visit \in Nat /\ a.visit <= visit

(* Only a canvas that is shown has nodes and dialogs.                      *)
Hidden == view # "shown" => canvas = Empty /\ open = Closed

(* A request that creates a node is the first to name it.                  *)
NewNodes ==
    \A i \in DOMAIN flight : Creates(flight[i]) =>
        /\ flight[i].id \notin DOMAIN fw.nodes
        /\ \A j \in DOMAIN flight : j < i /\ Makes(flight[j]) => flight[j].id # flight[i].id

(* The counter of a canvas that is shown has passed every number in use.   *)
Passed(n) == n <= counter
AllPassed ==
    view = "shown" =>
        /\ \A n \in DOMAIN fw.nodes \cup DOMAIN canvas.nodes : Passed(n)
        /\ \A r \in Range(flight) : Makes(r) => Passed(r.id)
        /\ open.kind \in {"menu", "edit"} => Passed(open.id)

(* The graph that is being loaded has every number in use but the fixed    *)
(* ones: nothing was sent after it was asked for.                          *)
LoadedLast ==
    view = "loading" =>
        /\ \A i, j \in DOMAIN flight :
            flight[i].op = "graph" /\ flight[i].visit = visit /\ i < j /\ Makes(flight[j])
                => flight[j].id <= FirstNumber
        /\ \A a \in answers : a.op = "graph" /\ a.visit = visit =>
            /\ DOMAIN fw.nodes \subseteq DOMAIN a.got.nodes \cup 1..FirstNumber
            /\ \A r \in Range(flight) : Makes(r) => r.id <= FirstNumber

NumbersInv == Typed /\ Hidden /\ NewNodes /\ AllPassed /\ LoadedLast

(* A user who waits for the page only works on a canvas that is shown.     *)
Patient == "early" \notin Habits

LEMMA WorksOnShown ==
    ASSUME NumbersInv, Patient, Uncovered \/ open # Closed \/ DOMAIN canvas.nodes # {}
    PROVE  view = "shown"
<1>1. DOMAIN Empty.nodes = {}
  BY DEF Empty
<1> QED BY <1>1 DEF NumbersInv, Hidden, Uncovered, Patient

LEMMA InitNumbers == EditorAssumption /\ Init => NumbersInv
<1> SUFFICES ASSUME EditorAssumption, Init PROVE NumbersInv
  OBVIOUS
<1>1. IsGraph(fw) /\ IsGraph(canvas)
  <2>1. IsFiniteSet({}) /\ DOMAIN Empty.nodes = {}
    BY FS_EmptySet DEF Empty
  <2>2. IsGraph(Empty)
    BY <2>1 DEF IsGraph, Empty
  <2> QED BY <2>2 DEF Init, EditorAssumption, IsGraph
<1>2. IsSeq(flight) /\ DOMAIN flight = {} /\ Range(flight) = {}
  BY DEF Init, IsSeq, Range
<1>3. FirstNumber \in Nat /\ open.kind = "closed"
  BY DEF EditorAssumption, Init, Closed
<1> QED BY <1>1, <1>2, <1>3 DEF Init, NumbersInv, Typed, Hidden, NewNodes, AllPassed, LoadedLast

-----------------------------------------------------------------------------
(* Gestures that create no node.                                           *)

(* A request that uses numbers the counter has passed.                     *)
Quiet(r) == r.op # "graph" /\ ~Creates(r) /\ (Makes(r) => r.id \in Ids /\ Passed(r.id))

(* Only quiet requests join what is on its way.                            *)
Grown ==
    /\ IsSeq(flight') /\ DOMAIN flight \subseteq DOMAIN flight'
    /\ \A i \in DOMAIN flight' : IF i \in DOMAIN flight THEN flight'[i] = flight[i]
                                 ELSE Quiet(flight'[i])

LEMMA NothingSent == ASSUME NumbersInv, flight' = flight PROVE Grown
BY DEF Grown, NumbersInv, Typed

LEMMA QuietSent ==
    ASSUME NumbersInv, NEW q, IsSeq(q), \A r \in Range(q) : Quiet(r), flight' = flight \o q
    PROVE  Grown
<1>1. IsSeq(flight)
  BY DEF NumbersInv, Typed
<1> QED BY <1>1, Joined DEF Grown

LEMMA OneSent ==
    ASSUME NumbersInv, NEW r, Quiet(r), flight' = flight \o <<r>> PROVE Grown
<1>1. IsSeq(<<r>>) /\ Range(<<r>>) = {r}
  BY Single
<1> DEFINE q == <<r>>
<1>2. IsSeq(q) /\ (\A x \in Range(q) : Quiet(x)) /\ flight' = flight \o q
  BY <1>1
<1> HIDE DEF q
<1> QED BY <1>2, QuietSent

LEMMA GrownNewNodes == ASSUME NumbersInv, Grown, fw' = fw PROVE NewNodes'
<1> SUFFICES ASSUME NEW i \in DOMAIN flight', Creates(flight'[i])
             PROVE  /\ flight'[i].id \notin DOMAIN fw.nodes
                    /\ \A j \in DOMAIN flight' : j < i /\ Makes(flight'[j])
                          => flight'[j].id # flight'[i].id
  BY DEF NewNodes, Creates, Makes
<1>1. /\ Len(flight) \in Nat /\ DOMAIN flight = 1..Len(flight)
      /\ Len(flight') \in Nat /\ DOMAIN flight' = 1..Len(flight')
  BY SeqFacts DEF NumbersInv, Typed, Grown
<1>2. i \in DOMAIN flight /\ flight'[i] = flight[i]
  BY DEF Grown, Quiet
<1>3. \A j \in DOMAIN flight' : j < i => j \in DOMAIN flight /\ flight'[j] = flight[j]
  BY <1>1, <1>2 DEF Grown
<1> QED BY <1>2, <1>3 DEF NumbersInv, NewNodes

LEMMA QuietStep ==
    ASSUME EditorAssumption, NumbersInv, view = "shown", UNCHANGED <<fw, view, visit, counter>>,
           answers' \subseteq answers, Grown,
           IsGraph(canvas'), \A n \in DOMAIN canvas'.nodes : Passed(n),
           DOMAIN open' = DOMAIN Closed,
           open'.kind \in {"menu", "edit"} => open'.id \in Ids /\ Passed(open'.id)
    PROVE  NumbersInv'
<1>1. \A r \in Range(flight') : r \in Range(flight) \/ Quiet(r)
  BY DEF Grown, Range
<1>2. Typed'
  BY <1>1 DEF NumbersInv, Typed, IsGraph, Quiet, Grown, IsSeq, Makes
<1>3. Hidden'
  BY DEF Hidden
<1>4. NewNodes'
  BY GrownNewNodes
<1>5. AllPassed'
  BY <1>1 DEF NumbersInv, AllPassed, Passed, Quiet, Makes
<1>6. LoadedLast'
  BY DEF LoadedLast
<1> QED BY <1>2, <1>3, <1>4, <1>5, <1>6 DEF NumbersInv

(* Nothing the invariant speaks of changes.                                *)
LEMMA NumbersStay ==
    ASSUME NumbersInv, UNCHANGED <<fw, canvas, view, visit, counter, open, flight>>,
           answers' \subseteq answers
    PROVE  NumbersInv'
BY DEF NumbersInv, Typed, Hidden, NewNodes, AllPassed, Passed, LoadedLast, IsGraph, IsSeq,
       Makes, Creates

(* A gesture that sends one quiet request, or a list of them, and keeps    *)
(* the nodes of the canvas among those there were.                         *)
LEMMA CanvasStep ==
    ASSUME EditorAssumption, NumbersInv, view = "shown",
           UNCHANGED <<fw, view, visit, counter>>, answers' \subseteq answers, Grown,
           IsGraph(canvas'), DOMAIN canvas'.nodes \subseteq DOMAIN canvas.nodes,
           open' = open \/ open' = Closed
    PROVE  NumbersInv'
<1>1. \A n \in DOMAIN canvas'.nodes : Passed(n)
  BY DEF NumbersInv, AllPassed
<1>2. DOMAIN open' = DOMAIN Closed
  BY DEF NumbersInv, Typed
<1>3. open'.kind \in {"menu", "edit"} => open'.id \in Ids /\ Passed(open'.id)
  BY DEF NumbersInv, Typed, AllPassed, Closed
<1> QED BY <1>1, <1>2, <1>3, QuietStep

(* Opening, changing or closing a dialog over the canvas.                  *)
LEMMA DialogStep ==
    ASSUME EditorAssumption, NumbersInv, view = "shown",
           UNCHANGED <<fw, canvas, view, visit, counter>>, answers' \subseteq answers, Grown,
           DOMAIN open' = DOMAIN Closed,
           open'.kind \in {"menu", "edit"} =>
              \/ open'.id \in DOMAIN canvas.nodes
              \/ open.kind \in {"menu", "edit"} /\ open'.id = open.id
    PROVE  NumbersInv'
<1>1. IsGraph(canvas') /\ \A n \in DOMAIN canvas'.nodes : Passed(n)
  BY DEF NumbersInv, Typed, AllPassed, IsGraph
<1>2. open'.kind \in {"menu", "edit"} => open'.id \in Ids /\ Passed(open'.id)
  BY DEF NumbersInv, Typed, AllPassed, IsGraph
<1> QED BY <1>1, <1>2, QuietStep

LEMMA DragStopNumbers ==
    ASSUME EditorAssumption, NumbersInv, Patient, NEW n, DragStop(n) PROVE NumbersInv'
<1> DEFINE r == [op |-> "move", id |-> n, place |-> "dragged"]
<1>1. view = "shown"
  BY WorksOnShown DEF DragStop
<1>2. n \in Ids /\ Passed(n)
  BY <1>1 DEF DragStop, NumbersInv, Typed, IsGraph, AllPassed
<1>3. Quiet(r)
  BY <1>2 DEF Quiet, Creates, Makes
<1>4. flight' = flight \o <<r>>
  BY DEF DragStop, Send
<1> HIDE DEF r
<1>5. Grown
  BY <1>3, <1>4, OneSent
<1>6. IsGraph(canvas') /\ DOMAIN canvas'.nodes = DOMAIN canvas.nodes
  BY DEF DragStop, NumbersInv, Typed, IsGraph
<1> QED BY <1>1, <1>5, <1>6, CanvasStep DEF DragStop, Keeps

LEMMA SetCircuitsNumbers ==
    ASSUME EditorAssumption, NumbersInv, Patient, NEW b, NEW n, SetCircuits(b, n) PROVE NumbersInv'
<1> DEFINE r == [op |-> "settings", id |-> b, set |-> Board(n, canvas.nodes[b].set.what)]
<1>1. view = "shown"
  BY WorksOnShown DEF SetCircuits
<1>2. b \in Ids /\ Passed(b)
  BY <1>1 DEF SetCircuits, OnCanvas, NumbersInv, Typed, IsGraph, AllPassed
<1>3. Quiet(r)
  BY <1>2 DEF Quiet, Creates, Makes
<1>4. flight' = flight \o <<r>>
  BY DEF SetCircuits, Send
<1> HIDE DEF r
<1>5. Grown
  BY <1>3, <1>4, OneSent
<1>6. IsGraph(canvas') /\ DOMAIN canvas'.nodes = DOMAIN canvas.nodes
  BY DEF SetCircuits, NumbersInv, Typed, IsGraph
<1> QED BY <1>1, <1>5, <1>6, CanvasStep DEF SetCircuits, Keeps

LEMMA ConnectNumbers ==
    ASSUME EditorAssumption, NumbersInv, Patient, NEW a, NEW b, Connect(a, b) PROVE NumbersInv'
<1>1. view = "shown"
  BY WorksOnShown DEF Connect
<1>2. PICK e : /\ canvas' = [canvas EXCEPT !.edges = canvas.edges \cup {e}]
               /\ flight' = flight \o <<[op |-> "wire", edge |-> e]>>
  BY DEF Connect, Send
<1>3. Quiet([op |-> "wire", edge |-> e])
  BY DEF Quiet, Creates, Makes
<1>4. Grown
  BY <1>2, <1>3, OneSent
<1>5. IsGraph(canvas') /\ DOMAIN canvas'.nodes = DOMAIN canvas.nodes
  <2>1. IsGraph(canvas) /\ IsFiniteSet(canvas.edges \cup {e})
    BY FS_AddElement DEF NumbersInv, Typed, IsGraph
  <2> QED BY <1>2, <2>1, EdgesGraph
<1> QED BY <1>1, <1>4, <1>5, CanvasStep DEF Connect, Keeps

LEMMA RemoveEdgeNumbers ==
    ASSUME EditorAssumption, NumbersInv, Patient, NEW e, RemoveEdge(e) PROVE NumbersInv'
<1>1. view = "shown"
  BY WorksOnShown DEF RemoveEdge
<1>2. /\ canvas' = [canvas EXCEPT !.edges = canvas.edges \ {e}]
      /\ flight' = flight \o <<[op |-> "unwire", edge |-> e]>>
  BY DEF RemoveEdge, Send
<1>3. Quiet([op |-> "unwire", edge |-> e])
  BY DEF Quiet, Creates, Makes
<1>4. Grown
  BY <1>2, <1>3, OneSent
<1>5. IsGraph(canvas') /\ DOMAIN canvas'.nodes = DOMAIN canvas.nodes
  <2>1. IsGraph(canvas) /\ IsFiniteSet(canvas.edges \ {e})
    BY FS_RemoveElement DEF NumbersInv, Typed, IsGraph
  <2> QED BY <1>2, <2>1, EdgesGraph
<1> QED BY <1>1, <1>4, <1>5, CanvasStep DEF RemoveEdge, Keeps

(* The lists of what is deleted are finite, and create nothing.            *)
UnwiresOf(g, all) == {[op |-> "unwire", edge |-> e] : e \in Touching(g, all)}
DeletesOf(all) == {[op |-> "delete", id |-> n] : n \in all}

LEMMA DeletionsAre ==
    ASSUME IsGraph(canvas), NEW ids, IsFiniteSet(ids), NEW p \in Deletions(ids)
    PROVE  IsSeq(p) /\ Range(p) = UnwiresOf(canvas, ids) \cup DeletesOf(ids)
<1> DEFINE us == UnwiresOf(canvas, ids)
           ds == DeletesOf(ids)
<1>1. IsFiniteSet(Touching(canvas, ids))
  <2>1. Touching(canvas, ids) \subseteq canvas.edges
    BY DEF Touching
  <2> QED BY <2>1, FS_Subset DEF IsGraph
<1>2. IsFiniteSet(us) /\ IsFiniteSet(ds)
  <2> DEFINE f == [e \in Touching(canvas, ids) |-> [op |-> "unwire", edge |-> e]]
             h == [n \in ids |-> [op |-> "delete", id |-> n]]
  <2>1. IsFiniteSet({f[e] : e \in Touching(canvas, ids)}) /\ IsFiniteSet({h[n] : n \in ids})
    <3>1. f = [e \in Touching(canvas, ids) |-> f[e]] /\ h = [n \in ids |-> h[n]]
      OBVIOUS
    <3> HIDE DEF f, h
    <3> QED BY <1>1, <3>1, ImageFinite
  <2>2. us = {f[e] : e \in Touching(canvas, ids)} /\ ds = {h[n] : n \in ids}
    BY DEF UnwiresOf, DeletesOf
  <2> QED BY <2>1, <2>2
<1>3. Unwires(ids) = SetToSeq(us) /\ Deletes(ids) = SetToSeq(ds)
  BY DEF Unwires, Deletes, UnwiresOf, DeletesOf
<1> HIDE DEF us, ds
<1>4. /\ IsSeq(Unwires(ids)) /\ Range(Unwires(ids)) = us
      /\ IsSeq(Deletes(ids)) /\ Range(Deletes(ids)) = ds
  BY <1>2, <1>3, Listing
<1>5. IsSeq(p) /\ Range(p) = us \cup ds
  <2>1. CASE p = Unwires(ids) \o Deletes(ids)
    <3>1. IsSeq(p) /\ Range(p) = us \cup ds
      BY <1>4, <2>1, Joined, JoinedRange
    <3> QED BY <3>1
  <2>2. CASE p = Deletes(ids) \o Unwires(ids)
    <3>1. IsSeq(p) /\ Range(p) = ds \cup us
      BY <1>4, <2>2, Joined, JoinedRange
    <3> QED BY <3>1
  <2> QED BY <2>1, <2>2 DEF Deletions
<1> QED BY <1>5 DEF us, ds

LEMMA DeletionsQuiet ==
    ASSUME IsGraph(canvas), NEW ids, IsFiniteSet(ids)
    PROVE  \A p \in Deletions(ids) : IsSeq(p) /\ \A r \in Range(p) : Quiet(r)
<1>1. \A r \in UnwiresOf(canvas, ids) \cup DeletesOf(ids) : Quiet(r)
  BY DEF UnwiresOf, DeletesOf, Quiet, Creates, Makes
<1> QED BY <1>1, DeletionsAre

(* Deleting nodes takes their edges, and what is sent creates nothing.     *)
LEMMA DeletedNumbers ==
    ASSUME EditorAssumption, NumbersInv, view = "shown", NEW ids, IsFiniteSet(ids),
           NEW p \in Deletions(ids), Send(p), canvas' = Without(canvas, ids),
           UNCHANGED <<fw, view, visit, counter, answers>>, open' = open \/ open' = Closed
    PROVE  NumbersInv'
<1>1. IsGraph(canvas)
  BY DEF NumbersInv, Typed
<1>2. Grown
  BY <1>1, DeletionsQuiet, QuietSent DEF Send
<1>3. IsGraph(canvas') /\ DOMAIN canvas'.nodes \subseteq DOMAIN canvas.nodes
  BY <1>1, WithoutGraph
<1> QED BY <1>2, <1>3, CanvasStep

LEMMA EndsFinite ==
    ASSUME NEW S, IsFiniteSet(S)
    PROVE  IsFiniteSet({e.from : e \in S}) /\ IsFiniteSet({e.to : e \in S})
<1> DEFINE f == [e \in S |-> e.from]
           h == [e \in S |-> e.to]
<1>1. f = [e \in S |-> f[e]] /\ h = [e \in S |-> h[e]]
  OBVIOUS
<1>2. {e.from : e \in S} = {f[e] : e \in S} /\ {e.to : e \in S} = {h[e] : e \in S}
  OBVIOUS
<1> HIDE DEF f, h
<1>3. IsFiniteSet({f[e] : e \in S})
  BY <1>1, ImageFinite
<1>4. IsFiniteSet({h[e] : e \in S})
  BY <1>1, ImageFinite
<1> QED BY <1>2, <1>3, <1>4

(* What is reached over the edges of a canvas is finite.                   *)
LEMMA ReachedFinite ==
    ASSUME IsGraph(canvas), NEW ids
    PROVE  /\ IsFiniteSet(HangingOff(canvas, ids))
           /\ IsFiniteSet({e.to : e \in {e \in canvas.edges : e.from \in ids}})
<1> DEFINE into == {e \in canvas.edges : e.to \in ids /\ e.into = "dc_in"}
           out == {e \in canvas.edges : e.from \in ids /\ e.out = "battery"}
           fed == {e \in canvas.edges : e.from \in ids}
<1>1. IsFiniteSet(into) /\ IsFiniteSet(out) /\ IsFiniteSet(fed)
  <2>1. into \subseteq canvas.edges /\ out \subseteq canvas.edges /\ fed \subseteq canvas.edges
    OBVIOUS
  <2> HIDE DEF into, out, fed
  <2> QED BY <2>1, FS_Subset DEF IsGraph
<1>2. HangingOff(canvas, ids) = {e.from : e \in into} \cup {e.to : e \in out}
  BY DEF HangingOff
<1> HIDE DEF into, out
<1>3. IsFiniteSet({e.from : e \in into}) /\ IsFiniteSet({e.to : e \in out})
  BY <1>1, EndsFinite
<1>4. IsFiniteSet({e.to : e \in fed})
  <2> HIDE DEF fed
  <2> QED BY <1>1, EndsFinite
<1>5. IsFiniteSet(HangingOff(canvas, ids))
  BY <1>2, <1>3, FS_Union
<1> QED BY <1>4, <1>5

LEMMA DeleteKeyNumbers ==
    ASSUME EditorAssumption, NumbersInv, Patient, DeleteKey PROVE NumbersInv'
<1> DEFINE ids == {n \in selected \cap DOMAIN canvas.nodes : ~canvas.nodes[n].set.locked}
<1>1. ids \subseteq Ids /\ ids # {} /\ DOMAIN canvas.nodes # {}
  BY DEF DeleteKey, NumbersInv, Typed, IsGraph
<1>2. /\ \E p \in Deletions(Taken(ids)) : Send(p)
      /\ canvas' = Without(canvas, Taken(ids))
      /\ UNCHANGED <<fw, view, visit, counter, answers, open>>
  BY DEF DeleteKey, Keeps
<1> HIDE DEF ids
<1>3. view = "shown"
  BY <1>1, WorksOnShown
<1>4. IsFiniteSet(Taken(ids))
  <2>1. IsFiniteSet(ids)
    <3>1. IsFiniteSet(1..MaxNumber)
      <4>1. MaxNumber \in Int /\ 1 \in Int
        BY DEF EditorAssumption
      <4> QED BY <4>1, FS_Interval, Zenon
    <3> QED BY <1>1, <3>1, FS_Subset DEF Ids
  <2> QED BY <2>1, ReachedFinite, FS_Union DEF Taken, NumbersInv, Typed
<1> QED BY <1>2, <1>3, <1>4, DeletedNumbers

LEMMA DeleteSubConsumerUnitNumbers ==
    ASSUME EditorAssumption, NumbersInv, Patient, DeleteSubConsumerUnit PROVE NumbersInv'
<1> DEFINE fed == {e.to : e \in {e \in canvas.edges : e.from \in {open.id}}}
           ids == {open.id} \cup (fed \ {Cu})
<1>1. /\ Send(Unwires(ids) \o Deletes(ids)) /\ canvas' = Without(canvas, ids)
      /\ UNCHANGED <<fw, view, visit, counter, answers>> /\ open' = Closed
  BY DEF DeleteSubConsumerUnit, Keeps
<1>2. IsFiniteSet(fed)
  BY ReachedFinite DEF NumbersInv, Typed
<1> HIDE DEF fed
<1>3. IsFiniteSet(ids)
  BY <1>2, FS_Difference, FS_Singleton, FS_Union
<1> HIDE DEF ids
<1>4. Unwires(ids) \o Deletes(ids) \in Deletions(ids)
  BY DEF Deletions
<1>5. view = "shown"
  BY WorksOnShown DEF DeleteSubConsumerUnit, Closed
<1> QED BY <1>1, <1>3, <1>4, <1>5, DeletedNumbers

LEMMA DeleteLoadNumbers ==
    ASSUME EditorAssumption, NumbersInv, Patient, DeleteLoad PROVE NumbersInv'
<1>1. view = "shown"
  BY WorksOnShown DEF DeleteLoad, Closed
<1>2. PICK p \in Deletions({open.id}) : Send(p)
  BY DEF DeleteLoad
<1>3. IsFiniteSet({open.id})
  BY FS_Singleton
<1> QED BY <1>1, <1>2, <1>3, DeletedNumbers DEF DeleteLoad, Keeps

-----------------------------------------------------------------------------
(* Menus and dialogs.                                                      *)

LEMMA OpenPaneMenuNumbers ==
    ASSUME EditorAssumption, NumbersInv, Patient, OpenPaneMenu PROVE NumbersInv'
<1>1. view = "shown"
  BY WorksOnShown DEF OpenPaneMenu
<1>2. Grown
  BY NothingSent DEF OpenPaneMenu, Keeps
<1>3. DOMAIN open' = DOMAIN Closed /\ open'.kind = "pane"
  BY DEF OpenPaneMenu, Opened, Closed
<1> QED BY <1>1, <1>2, <1>3, DialogStep DEF OpenPaneMenu, Keeps

LEMMA OpenNodeMenuNumbers ==
    ASSUME EditorAssumption, NumbersInv, Patient, NEW n, OpenNodeMenu(n) PROVE NumbersInv'
<1>1. view = "shown" /\ n \in DOMAIN canvas.nodes
  BY WorksOnShown DEF OpenNodeMenu, OnCanvas
<1>2. Grown
  BY NothingSent DEF OpenNodeMenu, Keeps
<1>3. DOMAIN open' = DOMAIN Closed /\ open'.id = n
  BY DEF OpenNodeMenu, Opened, Closed
<1> QED BY <1>1, <1>2, <1>3, DialogStep DEF OpenNodeMenu, Keeps

LEMMA OpenAddLoadNumbers ==
    ASSUME EditorAssumption, NumbersInv, Patient, OpenAddLoad PROVE NumbersInv'
<1>1. view = "shown"
  BY WorksOnShown DEF OpenAddLoad, Closed
<1>2. Quiet([op |-> "list", key |-> open.key])
  BY DEF Quiet, Creates, Makes
<1>3. Grown
  BY <1>2, OneSent DEF OpenAddLoad, Send
<1>4. DOMAIN open' = DOMAIN Closed /\ open'.kind = "add"
  BY DEF OpenAddLoad, NumbersInv, Typed, Closed
<1> QED BY <1>1, <1>3, <1>4, DialogStep DEF OpenAddLoad, Keeps

(* The edit dialog opens on a node of the canvas, or on that of the menu.  *)
LEMMA EditingNumbers ==
    ASSUME EditorAssumption, NumbersInv, view = "shown", NEW o, DOMAIN o = DOMAIN Closed,
           o.id \in DOMAIN canvas.nodes \/ (open.kind = "menu" /\ o.id = open.id),
           Editing(o), UNCHANGED <<fw, canvas, view, visit, counter, answers>>
    PROVE  NumbersInv'
<1>1. Quiet([op |-> "list", key |-> o.key])
  BY DEF Quiet, Creates, Makes
<1>2. Grown
  <2>1. CASE o.set.type = "load"
    BY <1>1, <2>1, OneSent DEF Editing, Send
  <2>2. CASE o.set.type # "load"
    BY <2>2, NothingSent DEF Editing
  <2> QED BY <2>1, <2>2
<1>3. DOMAIN open' = DOMAIN Closed /\ open'.id = o.id
  BY DEF Editing, Closed
<1> QED BY <1>2, <1>3, DialogStep

LEMMA DoubleClickNumbers ==
    ASSUME EditorAssumption, NumbersInv, Patient, NEW n, DoubleClick(n) PROVE NumbersInv'
<1>1. view = "shown" /\ n \in DOMAIN canvas.nodes
  BY WorksOnShown DEF DoubleClick, OnCanvas
<1>2. DOMAIN Opened("edit", n) = DOMAIN Closed /\ Opened("edit", n).id = n
  BY DEF Opened, Closed
<1> QED BY <1>1, <1>2, EditingNumbers DEF DoubleClick, Keeps

LEMMA MenuEditNumbers ==
    ASSUME EditorAssumption, NumbersInv, Patient, MenuEdit PROVE NumbersInv'
<1>1. view = "shown"
  BY WorksOnShown DEF MenuEdit, Closed
<1>2. DOMAIN open = DOMAIN Closed
  BY DEF NumbersInv, Typed
<1> QED BY <1>1, <1>2, EditingNumbers DEF MenuEdit, Keeps

LEMMA SaveNumbers ==
    ASSUME EditorAssumption, NumbersInv, Patient, NEW what, Save(what) PROVE NumbersInv'
<1> DEFINE r == [op |-> "save", visit |-> visit, key |-> open.key, id |-> open.id,
                 set |-> [open.set EXCEPT !.what = what]]
<1>1. view = "shown"
  BY WorksOnShown DEF Save, Closed
<1>2. open.id \in Ids /\ Passed(open.id)
  BY <1>1 DEF Save, NumbersInv, Typed, AllPassed
<1>3. Quiet(r)
  BY <1>2 DEF Quiet, Creates, Makes
<1>4. flight' = flight \o <<r>>
  BY DEF Save, Send
<1> HIDE DEF r
<1>5. Grown
  BY <1>3, <1>4, OneSent
<1>6. DOMAIN open' = DOMAIN Closed /\ open'.id = open.id /\ open.kind = "edit"
  BY DEF Save, NumbersInv, Typed, Closed
<1> QED BY <1>1, <1>5, <1>6, DialogStep DEF Save, Keeps

LEMMA CloseNumbers ==
    ASSUME EditorAssumption, NumbersInv, Patient, Close PROVE NumbersInv'
<1>1. view = "shown"
  BY WorksOnShown DEF Close
<1>2. Grown
  BY NothingSent DEF Close, Keeps
<1>3. DOMAIN open' = DOMAIN Closed /\ open'.kind = "closed"
  BY DEF Close, Closed
<1> QED BY <1>1, <1>2, <1>3, DialogStep DEF Close, Keeps

-----------------------------------------------------------------------------
(* A new node takes a number beyond the counter, and the counter passes it.*)

LEMMA CreateNumbers ==
    ASSUME EditorAssumption, NumbersInv, view = "shown", NEW set, Create(set), open' = Closed,
           UNCHANGED <<fw, view, visit, answers>>
    PROVE  NumbersInv'
<1> DEFINE n == counter + 1
           r == [op |-> "put", id |-> n, place |-> "spot", set |-> set, new |-> TRUE]
<1>1. counter \in Nat /\ counter' = n /\ n \in Ids
  BY DEF Create, NumbersInv, Typed, EditorAssumption, Ids
<1>2. /\ r.op = "put" /\ r.id = n /\ Makes(r) /\ r.op # "graph"
      /\ flight' = flight \o <<r>>
      /\ canvas' = With(canvas, n, Node("spot", set))
  BY DEF Create, Send, Makes
<1> HIDE DEF r
<1>3. IsGraph(canvas') /\ DOMAIN canvas'.nodes = DOMAIN canvas.nodes \cup {n}
  BY <1>1, <1>2, WithGraph DEF NumbersInv, Typed
<1>4. IsSeq(flight)
  BY DEF NumbersInv, Typed
<1>5. /\ IsSeq(flight') /\ Range(flight') \subseteq Range(flight) \cup {r}
      /\ \A i \in DOMAIN flight : i \in DOMAIN flight' /\ flight'[i] = flight[i]
      /\ \A i \in DOMAIN flight' \ DOMAIN flight : flight'[i] = r
      /\ Len(flight) \in Nat /\ DOMAIN flight = 1..Len(flight)
      /\ DOMAIN flight' = 1..(Len(flight) + 1)
  <2>1. Send(<<r>>)
    BY <1>2 DEF Send
  <2> QED BY <1>4, <2>1, JoinsFlight DEF Joins
<1>6. \A m \in Nat : Passed(m) => m < n /\ m <= counter'
  BY <1>1 DEF Passed
<1>7. /\ \A m \in DOMAIN fw.nodes \cup DOMAIN canvas.nodes : m \in Nat /\ Passed(m)
      /\ \A x \in Range(flight) : Makes(x) => x.id \in Nat /\ Passed(x.id)
  BY DEF NumbersInv, Typed, IsGraph, AllPassed, Ids
<1> HIDE DEF n
<1>8. n \in Nat /\ n \notin DOMAIN fw.nodes
  BY <1>1, <1>6, <1>7 DEF Ids
<1>9. Typed'
  <2>1. IsGraph(fw)' /\ DOMAIN open' = DOMAIN Closed /\ open'.kind = "closed"
    BY DEF NumbersInv, Typed, IsGraph, Closed
  <2>2. \A x \in Range(flight') : /\ Makes(x) => x.id \in Ids
                                  /\ x.op = "graph" => x.visit \in Nat /\ x.visit <= visit
    BY <1>1, <1>2, <1>5 DEF NumbersInv, Typed
  <2>3. FirstNumber <= counter'
    BY <1>1 DEF n, NumbersInv, Typed, EditorAssumption
  <2>4. IsGraph(canvas)' /\ IsSeq(flight)' /\ counter' \in Nat
    BY <1>1, <1>3, <1>5, <1>8 DEF IsGraph, IsSeq
  <2> QED BY <2>1, <2>2, <2>3, <2>4 DEF NumbersInv, Typed, IsGraph, Makes
<1>10. NewNodes'
  <2> SUFFICES ASSUME NEW i \in DOMAIN flight', Creates(flight'[i])
               PROVE  /\ flight'[i].id \notin DOMAIN fw.nodes
                      /\ \A j \in DOMAIN flight' : j < i /\ Makes(flight'[j])
                            => flight'[j].id # flight'[i].id
    BY DEF NewNodes, Creates, Makes
  <2>1. \A j \in DOMAIN flight' : j < i => j \in DOMAIN flight /\ flight'[j] = flight[j]
    BY <1>5
  <2>2. CASE i \in DOMAIN flight
    BY <1>5, <2>1, <2>2 DEF NumbersInv, NewNodes
  <2>3. CASE i \notin DOMAIN flight
    <3>1. flight'[i] = r
      BY <1>5, <2>3
    <3>2. \A j \in DOMAIN flight : Makes(flight[j]) => flight[j].id # n
      BY <1>6, <1>7, <1>8 DEF Range
    <3> QED BY <1>2, <1>8, <2>1, <3>1, <3>2
  <2> QED BY <2>2, <2>3
<1>11. AllPassed'
  <2>1. \A m \in DOMAIN fw.nodes \cup DOMAIN canvas'.nodes : m <= counter'
    BY <1>1, <1>3, <1>6, <1>7, <1>8
  <2>2. \A x \in Range(flight') : Makes(x) => x.id <= counter'
    BY <1>1, <1>2, <1>5, <1>6, <1>7, <1>8
  <2> QED BY <2>1, <2>2 DEF AllPassed, Passed, Closed, Makes
<1>12. Hidden' /\ LoadedLast'
  BY DEF Hidden, LoadedLast
<1> QED BY <1>9, <1>10, <1>11, <1>12 DEF NumbersInv

LEMMA AddsNumbers ==
    ASSUME EditorAssumption, NumbersInv, Patient,
           AddSubConsumerUnit \/ \E e \in Endpoints : AddLoad(e)
    PROVE  NumbersInv'
<1>1. open # Closed
  BY DEF AddSubConsumerUnit, AddLoad, Closed
<1>2. view = "shown"
  BY <1>1, WorksOnShown
<1>3. CASE AddSubConsumerUnit
  BY <1>2, <1>3, CreateNumbers DEF AddSubConsumerUnit, Keeps
<1>4. ASSUME NEW e \in Endpoints, AddLoad(e) PROVE NumbersInv'
  BY <1>2, <1>4, CreateNumbers DEF AddLoad, Keeps
<1> QED BY <1>3, <1>4

-----------------------------------------------------------------------------
(* Mounting the page, and what comes back to it.                           *)

LEMMA EnterNumbers == ASSUME EditorAssumption, NumbersInv, Enter PROVE NumbersInv'
<1> DEFINE r == [op |-> "graph", visit |-> visit + 1]
<1>1. view = "away" /\ view' = "loading" /\ visit' = visit + 1 /\ counter' = FirstNumber
  BY DEF Enter
<1>2. r.op = "graph" /\ r.visit = visit + 1 /\ flight' = flight \o <<r>>
      /\ UNCHANGED <<fw, canvas, open, answers>>
  BY DEF Enter, Keeps, Send
<1>3. IsSeq(flight)
  BY DEF NumbersInv, Typed
<1> HIDE DEF r
<1>4. ~Makes(r) /\ ~Creates(r)
  BY <1>2 DEF Makes, Creates
<1>5. /\ IsSeq(flight') /\ Range(flight') \subseteq Range(flight) \cup {r}
      /\ \A i \in DOMAIN flight : i \in DOMAIN flight' /\ flight'[i] = flight[i]
      /\ \A i \in DOMAIN flight' \ DOMAIN flight : flight'[i] = r
      /\ Len(flight) \in Nat /\ DOMAIN flight = 1..Len(flight)
      /\ DOMAIN flight' = 1..(Len(flight) + 1)
  <2>1. Send(<<r>>)
    BY <1>2 DEF Send
  <2> QED BY <1>3, <2>1, JoinsFlight DEF Joins
<1>6. visit \in Nat /\ FirstNumber \in Nat
  BY DEF NumbersInv, Typed, EditorAssumption
<1>7. Typed'
  <2>1. \A x \in Range(flight') : /\ Makes(x) => x.id \in Ids
                                  /\ x.op = "graph" => x.visit \in Nat /\ x.visit <= visit'
    <3>1. \A x \in Range(flight) : /\ Makes(x) => x.id \in Ids
                                   /\ x.op = "graph" => x.visit \in Nat /\ x.visit <= visit + 1
      BY <1>6 DEF NumbersInv, Typed
    <3> QED BY <1>1, <1>2, <1>4, <1>5, <1>6, <3>1
  <2>2. \A a \in answers : a.op = "graph" => IsGraph(a.got) /\ a.visit \in Nat /\ a.visit <= visit'
    BY <1>1, <1>6 DEF NumbersInv, Typed
  <2>3. IsGraph(fw') /\ IsGraph(canvas')
    BY <1>2 DEF NumbersInv, Typed
  <2>4. /\ view' \in {"away", "loading", "shown", "failed"}
        /\ visit' \in Nat /\ counter' \in Nat /\ FirstNumber <= counter'
    BY <1>1, <1>6
  <2>5. /\ DOMAIN open' = DOMAIN Closed
        /\ open'.kind \in {"menu", "edit"} => open'.id \in Ids
    BY <1>2 DEF NumbersInv, Typed
  <2>6. IsSeq(flight') /\ answers' = answers
    BY <1>2, <1>5
  <2> QED BY <2>1, <2>2, <2>3, <2>4, <2>5, <2>6 DEF Typed, IsGraph, IsSeq, Makes
<1>8. NewNodes'
  <2>1. \A i \in DOMAIN flight' : Creates(flight'[i]) => i \in DOMAIN flight
    BY <1>4, <1>5
  <2>2. \A j \in DOMAIN flight' : Makes(flight'[j]) => j \in DOMAIN flight
    BY <1>4, <1>5
  <2> QED BY <1>2, <1>5, <2>1, <2>2 DEF NumbersInv, NewNodes, Creates, Makes
<1>9. LoadedLast'
  <2>1. \A i \in DOMAIN flight' : flight'[i].op = "graph" /\ flight'[i].visit = visit'
            => i = Len(flight) + 1
    <3>1. \A i \in DOMAIN flight : flight[i].op = "graph" => flight[i].visit # visit'
      BY <1>1, <1>6 DEF NumbersInv, Typed, Range
    <3> QED BY <1>5, <3>1
  <2>2. \A i, j \in DOMAIN flight' :
            ~(flight'[i].op = "graph" /\ flight'[i].visit = visit' /\ i < j)
    BY <1>5, <2>1
  <2>3. \A a \in answers' : ~(a.op = "graph" /\ a.visit = visit')
    BY <1>1, <1>2, <1>6 DEF NumbersInv, Typed
  <2> QED BY <2>2, <2>3 DEF LoadedLast, Makes
<1>10. Hidden' /\ AllPassed'
  BY <1>1, <1>2 DEF NumbersInv, Hidden, AllPassed
<1> QED BY <1>7, <1>8, <1>9, <1>10 DEF NumbersInv

LEMMA LeaveNumbers == ASSUME EditorAssumption, NumbersInv, Leave PROVE NumbersInv'
<1>1. IsGraph(canvas') /\ open'.kind = "closed"
  <2>1. IsFiniteSet({}) /\ DOMAIN Empty.nodes = {}
    BY FS_EmptySet DEF Empty
  <2> QED BY <2>1 DEF Leave, IsGraph, Empty, Closed
<1> QED BY <1>1 DEF Leave, NumbersInv, Typed, Hidden, NewNodes, AllPassed, LoadedLast, IsGraph,
                    IsSeq, Makes, Creates

LEMMA LoadFailsNumbers ==
    ASSUME EditorAssumption, NumbersInv, NEW a, LoadFails(a) PROVE NumbersInv'
<1>1. CASE view' = view
  BY <1>1, NumbersStay DEF LoadFails
<1>2. CASE view' # view
  BY <1>2 DEF LoadFails, NumbersInv, Typed, Hidden, NewNodes, AllPassed, LoadedLast, IsGraph,
              IsSeq, Makes, Creates
<1> QED BY <1>1, <1>2

LEMMA ListAnswersNumbers ==
    ASSUME EditorAssumption, NumbersInv, Patient, NEW a, Listed(a) \/ UnsavedAnswer(a)
    PROVE  NumbersInv'
<1>1. UNCHANGED <<fw, canvas, view, visit, counter, flight>> /\ answers' \subseteq answers
  BY DEF Listed, UnsavedAnswer
<1>2. CASE open' = open
  BY <1>1, <1>2, NumbersStay
<1>3. CASE open' # open
  <2>1. open.kind \in {"add", "edit"}
    BY <1>3 DEF Listed, UnsavedAnswer
  <2>2. view = "shown"
    BY <2>1, WorksOnShown DEF Closed
  <2>3. DOMAIN open' = DOMAIN Closed /\ open'.kind = open.kind /\ open'.id = open.id
    BY <1>3 DEF Listed, UnsavedAnswer, NumbersInv, Typed, Closed
  <2>4. Grown
    BY <1>1, NothingSent
  <2> QED BY <1>1, <2>1, <2>2, <2>3, <2>4, DialogStep
<1> QED BY <1>2, <1>3

LEMMA SavedAnswerNumbers ==
    ASSUME EditorAssumption, NumbersInv, NEW a, SavedAnswer(a) PROVE NumbersInv'
<1>1. UNCHANGED <<fw, view, visit, counter, flight>> /\ answers' \subseteq answers
  BY DEF SavedAnswer
<1>2. CASE view = "shown"
  <2>1. IsGraph(canvas') /\ DOMAIN canvas'.nodes = DOMAIN canvas.nodes
    BY DEF SavedAnswer, NumbersInv, Typed, IsGraph
  <2>2. open' = open \/ open' = Closed
    BY DEF SavedAnswer
  <2>3. Grown
    BY <1>1, NothingSent
  <2> QED BY <1>1, <1>2, <2>1, <2>2, <2>3, CanvasStep
<1>3. CASE view # "shown"
  <2>1. canvas' = canvas /\ open' = open
    BY <1>3 DEF SavedAnswer, NumbersInv, Hidden, Empty, Closed
  <2> QED BY <1>1, <2>1, NumbersStay
<1> QED BY <1>2, <1>3

(* The Unallocated node is created under a number the counter has always   *)
(* passed.                                                                 *)
PutUnallocated ==
    [op |-> "put", id |-> Unallocated, place |-> "spot", set |-> Fixed("unallocated"), new |-> FALSE]

LEMMA UnallocatedQuiet ==
    ASSUME EditorAssumption, NumbersInv
    PROVE  Quiet(PutUnallocated) /\ PutUnallocated.id \in 1..FirstNumber /\ Unallocated \in Ids
<1>1. /\ FirstNumber \in Nat /\ FirstNumber \in Unallocated..MaxNumber /\ MaxNumber \in Nat
      /\ counter \in Nat /\ FirstNumber <= counter
  BY DEF EditorAssumption, NumbersInv, Typed
<1> QED BY <1>1 DEF PutUnallocated, Quiet, Creates, Makes, Passed, Unallocated, Ids

LEMMA LoadGraphSends ==
    ASSUME EditorAssumption, NumbersInv, NEW a, LoadGraph(a)
    PROVE  /\ Grown
           /\ \A i \in DOMAIN flight' \ DOMAIN flight : flight'[i].id \in 1..FirstNumber
<1>1. IsSeq(flight)
  BY DEF NumbersInv, Typed
<1>2. CASE flight' = flight
  BY <1>2, NothingSent
<1>3. CASE flight' = Append(flight, PutUnallocated)
  <2> DEFINE q == <<PutUnallocated>>
  <2>1. IsSeq(q) /\ Range(q) = {PutUnallocated}
    BY Single
  <2>2. flight' = flight \o q
    <3>1. flight \in Seq(Range(flight))
      BY <1>1 DEF IsSeq
    <3> HIDE DEF PutUnallocated
    <3> QED BY <1>3, <3>1
  <2> HIDE DEF q
  <2>3. Quiet(PutUnallocated) /\ PutUnallocated.id \in 1..FirstNumber
    BY UnallocatedQuiet
  <2>4. \A i \in DOMAIN flight' \ DOMAIN flight : flight'[i] = PutUnallocated
    BY <1>1, <2>1, <2>2, Joined
  <2>5. Grown
    BY <2>1, <2>2, <2>3, QuietSent
  <2> QED BY <2>3, <2>4, <2>5
<1> QED BY <1>2, <1>3 DEF LoadGraph, PutUnallocated

LEMMA LoadGraphNumbers ==
    ASSUME EditorAssumption, NumbersInv, NEW a \in answers, LoadGraph(a) PROVE NumbersInv'
<1>1. /\ Grown
      /\ \A i \in DOMAIN flight' \ DOMAIN flight : flight'[i].id \in 1..FirstNumber
  BY LoadGraphSends
<1>2. /\ UNCHANGED <<fw, visit, open>> /\ answers' \subseteq answers /\ a.op = "graph"
      /\ IsGraph(a.got)
  BY DEF LoadGraph, NumbersInv, Typed
<1>3. NewNodes'
  BY <1>1, <1>2, GrownNewNodes
<1>4. \A r \in Range(flight') : r \in Range(flight) \/ (Quiet(r) /\ r.id \in 1..FirstNumber)
  BY <1>1 DEF Grown, Range
<1>5. \A r \in Range(flight') : /\ Makes(r) => r.id \in Ids
                                /\ r.op = "graph" => r.visit \in Nat /\ r.visit <= visit'
  BY <1>2, <1>4 DEF NumbersInv, Typed, Quiet
<1>6. FirstNumber \in Nat /\ MaxNumber \in Nat /\ counter \in Nat /\ FirstNumber <= counter
  BY DEF EditorAssumption, NumbersInv, Typed
<1>7. CASE view = "loading" /\ a.visit = visit
  <2> DEFINE S == {counter} \cup DOMAIN a.got.nodes
  <2>1. view' = "shown" /\ counter' = Max(S)
    BY <1>7 DEF LoadGraph, Counted
  <2>2. counter' \in S /\ \A n \in S : n <= counter'
    <3>1. S \subseteq 0..(counter + MaxNumber) /\ S # {} /\ counter + MaxNumber \in Nat
      BY <1>2, <1>6 DEF IsGraph, Ids
    <3> HIDE DEF S
    <3> QED BY <2>1, <3>1, MaxIsLargest
  <2>3. counter' \in Nat /\ counter <= counter' /\ FirstNumber <= counter'
    <3>1. S \subseteq Nat
      BY <1>2, <1>6 DEF IsGraph, Ids
    <3> QED BY <1>6, <2>2, <3>1
  <2>4. IsGraph(canvas') /\ DOMAIN canvas'.nodes \subseteq DOMAIN a.got.nodes \cup {Unallocated}
    <3>1. canvas' = a.got \/ canvas' = With(a.got, Unallocated, Node("spot", Fixed("unallocated")))
      BY <1>7 DEF LoadGraph
    <3> QED BY <1>2, <3>1, UnallocatedQuiet, WithGraph
  <2>5. open' = Closed /\ open'.kind = "closed" /\ DOMAIN open' = DOMAIN Closed
    BY <1>2, <1>7 DEF NumbersInv, Hidden, Closed
  <2>6. Typed'
    BY <1>1, <1>2, <1>5, <2>1, <2>3, <2>4, <2>5 DEF NumbersInv, Typed, IsGraph, IsSeq, Grown, Makes
  <2>7. AllPassed'
    <3>1. /\ DOMAIN fw.nodes \subseteq DOMAIN a.got.nodes \cup 1..FirstNumber
          /\ \A r \in Range(flight) : Makes(r) => r.id <= FirstNumber /\ r.id \in Nat
      BY <1>2, <1>7 DEF NumbersInv, Typed, LoadedLast, Ids
    <3>2. \A n \in 1..FirstNumber : n <= counter'
      BY <1>6, <2>3
    <3>3. Unallocated \in 1..FirstNumber
      BY UnallocatedQuiet DEF PutUnallocated
    <3>4. \A n \in DOMAIN fw.nodes \cup DOMAIN canvas'.nodes : n <= counter'
      BY <2>2, <2>4, <3>1, <3>2, <3>3
    <3>5. \A r \in Range(flight') : Makes(r) => r.id <= counter'
      BY <1>4, <1>6, <2>3, <3>1, <3>2
    <3> QED BY <1>2, <2>5, <3>4, <3>5 DEF AllPassed, Passed, Makes
  <2>8. Hidden' /\ LoadedLast'
    BY <2>1 DEF Hidden, LoadedLast
  <2> QED BY <1>3, <2>6, <2>7, <2>8 DEF NumbersInv
<1>8. CASE ~(view = "loading" /\ a.visit = visit)
  <2>1. UNCHANGED <<canvas, view, counter>>
    BY <1>8 DEF LoadGraph
  <2>2. Typed'
    BY <1>1, <1>2, <1>5, <2>1 DEF NumbersInv, Typed, IsGraph, IsSeq, Grown, Makes
  <2>3. AllPassed'
    BY <1>2, <1>4, <2>1 DEF NumbersInv, AllPassed, Passed, Quiet, Makes
  <2>4. LoadedLast'
    <3> SUFFICES ASSUME view = "loading"
                 PROVE  /\ \A i, j \in DOMAIN flight' :
                            flight'[i].op = "graph" /\ flight'[i].visit = visit /\ i < j
                              /\ Makes(flight'[j]) => flight'[j].id <= FirstNumber
                        /\ \A b \in answers : b.op = "graph" /\ b.visit = visit =>
                            /\ DOMAIN fw.nodes \subseteq DOMAIN b.got.nodes \cup 1..FirstNumber
                            /\ \A r \in Range(flight') : Makes(r) => r.id <= FirstNumber
      BY <1>2, <2>1 DEF LoadedLast, Makes
    <3>1. \A i \in DOMAIN flight' : flight'[i].op = "graph" =>
            i \in DOMAIN flight /\ flight'[i] = flight[i]
      BY <1>1 DEF Grown, Quiet
    <3>2. \A j \in DOMAIN flight' :
            (j \in DOMAIN flight /\ flight'[j] = flight[j]) \/ flight'[j].id <= FirstNumber
      BY <1>1, <1>6 DEF Grown
    <3>3. \A r \in Range(flight') : r \in Range(flight) \/ r.id <= FirstNumber
      BY <1>4, <1>6
    <3> QED BY <3>1, <3>2, <3>3 DEF NumbersInv, LoadedLast
  <2>5. Hidden'
    BY <1>2, <2>1 DEF NumbersInv, Hidden
  <2> QED BY <1>3, <2>2, <2>3, <2>4, <2>5 DEF NumbersInv
<1> QED BY <1>7, <1>8

-----------------------------------------------------------------------------
(* The oldest request arrives, or is lost.                                 *)

LEMMA ArriveNumbers ==
    ASSUME EditorAssumption, NumbersInv, 1 \in DOMAIN flight, flight' = RemoveAt(flight, 1),
           fw' \in {fw, Served(fw, flight[1])},
           answers' \subseteq answers \cup Answer(flight[1]) \cup Refusal(flight[1]),
           UNCHANGED <<canvas, view, visit, counter, open>>
    PROVE  NumbersInv'
<1> DEFINE r == flight[1]
<1>1. /\ IsSeq(flight') /\ Range(flight') \subseteq Range(flight)
      /\ DOMAIN flight' = 1..(Len(flight) - 1)
      /\ \A i \in DOMAIN flight' : i + 1 \in DOMAIN flight /\ flight'[i] = flight[i + 1]
  BY OldestRemoved DEF NumbersInv, Typed
<1>2. Len(flight) \in Nat /\ DOMAIN flight = 1..Len(flight) /\ r \in Range(flight)
  BY SeqFacts DEF NumbersInv, Typed
<1>3. /\ Makes(r) => r.id \in Ids
      /\ r.op = "graph" => r.visit \in Nat /\ r.visit <= visit
  BY <1>2 DEF NumbersInv, Typed
<1>4. IsGraph(fw')
  <2>1. IsGraph(fw)
    BY DEF NumbersInv, Typed
  <2> HIDE DEF r
  <2> QED BY <1>3, <2>1, ServedGraph DEF r
<1>5. \A n \in DOMAIN fw'.nodes : n \in DOMAIN fw.nodes \/ (Makes(r) /\ n = r.id)
  BY <1>3, ServedGraph DEF NumbersInv, Typed
<1>6. \A a \in answers' : a.op = "graph" =>
        a \in answers \/ (r.op = "graph" /\ a.visit = r.visit /\ a.got = fw /\ fw' = fw)
  <2>1. \A a \in Refusal(r) : a.op # "graph"
    BY DEF Refusal
  <2>2. \A a \in Answer(r) : a.op = "graph" => r.op = "graph" /\ a.visit = r.visit /\ a.got = fw
    BY DEF Answer
  <2>3. r.op = "graph" => fw' = fw
    BY DEF Served
  <2> QED BY <2>1, <2>2, <2>3
<1> HIDE DEF r
<1>7. Typed'
  <2>1. \A x \in Range(flight') : /\ Makes(x) => x.id \in Ids
                                  /\ x.op = "graph" => x.visit \in Nat /\ x.visit <= visit
    BY <1>1 DEF NumbersInv, Typed
  <2>2. \A a \in answers' : a.op = "graph" => IsGraph(a.got) /\ a.visit \in Nat /\ a.visit <= visit
    BY <1>3, <1>6 DEF NumbersInv, Typed
  <2> QED BY <1>1, <1>4, <2>1, <2>2 DEF NumbersInv, Typed, IsGraph, IsSeq, Makes
<1>8. Hidden'
  BY DEF NumbersInv, Hidden
<1>9. NewNodes'
  <2> SUFFICES ASSUME NEW i \in DOMAIN flight', Creates(flight'[i])
               PROVE  /\ flight'[i].id \notin DOMAIN fw'.nodes
                      /\ \A j \in DOMAIN flight' : j < i /\ Makes(flight'[j])
                            => flight'[j].id # flight'[i].id
    BY DEF NewNodes, Creates, Makes
  <2>1. i \in Nat /\ i + 1 \in DOMAIN flight /\ flight'[i] = flight[i + 1] /\ 1 < i + 1
    BY <1>1, <1>2
  <2>2. Makes(r) => flight'[i].id # r.id
    BY <1>2, <2>1 DEF r, NumbersInv, NewNodes
  <2>3. flight'[i].id \notin DOMAIN fw'.nodes
    BY <1>5, <2>1, <2>2 DEF NumbersInv, NewNodes
  <2>4. ASSUME NEW j \in DOMAIN flight', j < i, Makes(flight'[j])
        PROVE  flight'[j].id # flight'[i].id
    <3>1. j \in Nat /\ j + 1 \in DOMAIN flight /\ flight'[j] = flight[j + 1] /\ j + 1 < i + 1
      BY <1>1, <1>2, <2>1, <2>4
    <3> QED BY <2>1, <2>4, <3>1 DEF NumbersInv, NewNodes
  <2> QED BY <2>3, <2>4
<1>10. AllPassed'
  BY <1>1, <1>2, <1>5 DEF NumbersInv, AllPassed, Passed, Makes
<1>11. LoadedLast'
  <2> SUFFICES ASSUME view = "loading"
               PROVE  /\ \A i, j \in DOMAIN flight' :
                          flight'[i].op = "graph" /\ flight'[i].visit = visit /\ i < j
                            /\ Makes(flight'[j]) => flight'[j].id <= FirstNumber
                      /\ \A a \in answers' : a.op = "graph" /\ a.visit = visit =>
                          /\ DOMAIN fw'.nodes \subseteq DOMAIN a.got.nodes \cup 1..FirstNumber
                          /\ \A x \in Range(flight') : Makes(x) => x.id <= FirstNumber
    BY DEF LoadedLast, Makes
  <2>1. ASSUME NEW i \in DOMAIN flight', NEW j \in DOMAIN flight', flight'[i].op = "graph",
               flight'[i].visit = visit, i < j, Makes(flight'[j])
        PROVE  flight'[j].id <= FirstNumber
    <3>1. /\ i + 1 \in DOMAIN flight /\ flight'[i] = flight[i + 1]
          /\ j + 1 \in DOMAIN flight /\ flight'[j] = flight[j + 1] /\ i + 1 < j + 1
      BY <1>1, <1>2, <2>1
    <3> QED BY <2>1, <3>1 DEF NumbersInv, LoadedLast
  <2>2. ASSUME NEW a \in answers', a.op = "graph", a.visit = visit, a \in answers
        PROVE  /\ DOMAIN fw'.nodes \subseteq DOMAIN a.got.nodes \cup 1..FirstNumber
               /\ \A x \in Range(flight') : Makes(x) => x.id <= FirstNumber
    <3>1. /\ DOMAIN fw.nodes \subseteq DOMAIN a.got.nodes \cup 1..FirstNumber
          /\ \A x \in Range(flight) : Makes(x) => x.id <= FirstNumber
      BY <2>2 DEF NumbersInv, LoadedLast
    <3>2. Makes(r) => r.id \in 1..FirstNumber
      BY <1>2, <1>3, <3>1 DEF Ids, EditorAssumption
    <3> QED BY <1>1, <1>5, <3>1, <3>2
  <2>3. ASSUME NEW a \in answers', a.op = "graph", a.visit = visit, a \notin answers
        PROVE  /\ DOMAIN fw'.nodes \subseteq DOMAIN a.got.nodes \cup 1..FirstNumber
               /\ \A x \in Range(flight') : Makes(x) => x.id <= FirstNumber
    <3>1. r.op = "graph" /\ r.visit = visit /\ a.got = fw /\ fw' = fw
      BY <1>6, <2>3
    <3>2. \A j \in DOMAIN flight : 1 < j /\ Makes(flight[j]) => flight[j].id <= FirstNumber
      BY <3>1 DEF r, NumbersInv, LoadedLast
    <3>3. \A i \in DOMAIN flight' : Makes(flight'[i]) => flight'[i].id <= FirstNumber
      BY <1>1, <1>2, <3>2
    <3> QED BY <3>1, <3>3 DEF Range
  <2> QED BY <2>1, <2>2, <2>3
<1> QED BY <1>7, <1>8, <1>9, <1>10, <1>11 DEF NumbersInv

-----------------------------------------------------------------------------
InOrder == ~Reorder

LEMMA ArrivalsNumbers ==
    ASSUME EditorAssumption, NumbersInv, InOrder, NEW i, Serve(i) \/ Lose(i) PROVE NumbersInv'
<1>1. i = 1 /\ 1 \in DOMAIN flight
  BY DEF Serve, Lose, Arrivals, InOrder
<1>2. CASE Serve(i)
  BY <1>1, <1>2, ArriveNumbers DEF Serve
<1>3. CASE Lose(i)
  BY <1>1, <1>3, ArriveNumbers DEF Lose
<1> QED BY <1>2, <1>3

LEMMA GesturesNumbers ==
    ASSUME EditorAssumption, NumbersInv, Patient, Gestures PROVE NumbersInv'
<1>1. ASSUME NEW n \in Ids, Select(n) PROVE NumbersInv'
  BY <1>1, NumbersStay DEF Select, Keeps
<1>2. ASSUME NEW n \in Ids, DragStop(n) PROVE NumbersInv'
  BY <1>2, DragStopNumbers
<1>3. ASSUME NEW n \in Ids, OpenNodeMenu(n) PROVE NumbersInv'
  BY <1>3, OpenNodeMenuNumbers
<1>4. ASSUME NEW n \in Ids, DoubleClick(n) PROVE NumbersInv'
  BY <1>4, DoubleClickNumbers
<1>5. ASSUME NEW a \in Ids, NEW b \in Ids, Connect(a, b) PROVE NumbersInv'
  BY <1>5, ConnectNumbers
<1>6. ASSUME NEW a \in Ids, NEW b \in Ids, SetCircuits(a, b) PROVE NumbersInv'
  BY <1>6, SetCircuitsNumbers
<1>7. ASSUME NEW e \in canvas.edges, RemoveEdge(e) PROVE NumbersInv'
  BY <1>7, RemoveEdgeNumbers
<1>8. CASE DeleteKey
  BY <1>8, DeleteKeyNumbers
<1>9. CASE OpenPaneMenu
  BY <1>9, OpenPaneMenuNumbers
<1>10. CASE AddSubConsumerUnit \/ \E e \in Endpoints : AddLoad(e)
  BY <1>10, AddsNumbers
<1>11. CASE OpenAddLoad
  BY <1>11, OpenAddLoadNumbers
<1>12. CASE DeleteSubConsumerUnit
  BY <1>12, DeleteSubConsumerUnitNumbers
<1>13. CASE DeleteLoad
  BY <1>13, DeleteLoadNumbers
<1>14. CASE MenuEdit
  BY <1>14, MenuEditNumbers
<1>15. CASE Close
  BY <1>15, CloseNumbers
<1>16. ASSUME NEW what, Save(what) PROVE NumbersInv'
  BY <1>16, SaveNumbers
<1> QED BY <1>1, <1>2, <1>3, <1>4, <1>5, <1>6, <1>7, <1>8, <1>9, <1>10, <1>11, <1>12, <1>13,
           <1>14, <1>15, <1>16 DEF Gestures

LEMMA NumbersStep ==
    EditorAssumption /\ Patient /\ InOrder /\ NumbersInv /\ [Next]_vars => NumbersInv'
<1> SUFFICES ASSUME EditorAssumption, Patient, InOrder, NumbersInv, [Next]_vars PROVE NumbersInv'
  OBVIOUS
<1>1. ASSUME NEW i \in DOMAIN flight, Serve(i) \/ Lose(i) PROVE NumbersInv'
  BY <1>1, ArrivalsNumbers
<1>2. ASSUME NEW a \in answers, Reply(a) PROVE NumbersInv'
  BY <1>2, LoadGraphNumbers, LoadFailsNumbers, ListAnswersNumbers, SavedAnswerNumbers DEF Reply
<1>3. CASE Enter
  BY <1>3, EnterNumbers
<1>4. CASE Leave
  BY <1>4, LeaveNumbers
<1>5. CASE Gestures
  BY <1>5, GesturesNumbers
<1>6. CASE UNCHANGED vars
  BY <1>6, NumbersStay DEF vars
<1> QED BY <1>1, <1>2, <1>3, <1>4, <1>5, <1>6 DEF Next

(* While requests arrive in the order they were sent and the user waits    *)
(* for the page to load, a request that creates a node never hits one that *)
(* is there, whatever is edited, lost, left and loaded again.              *)
THEOREM CreationsNeverOverwrite == ASSUME Patient, InOrder PROVE Spec => NeverOverwrites
<1>1. NumbersInv => \A i \in DOMAIN flight :
        Serve(i) /\ flight[i].op = "put" => (flight[i].new => flight[i].id \notin DOMAIN fw.nodes)
  BY DEF NumbersInv, NewNodes, Creates
<1>2. Init => NumbersInv
  BY InitNumbers, EditorAssumption
<1>3. NumbersInv /\ [Next]_vars => NumbersInv'
  BY NumbersStep, EditorAssumption
<1> QED BY <1>1, <1>2, <1>3, PTL DEF Spec, NeverOverwrites

-----------------------------------------------------------------------------
(* What a sequence of requests makes of a graph, request by request.       *)

IsRun(h, g, q) == h[0] = g /\ \A n \in 1..Len(q) : h[n] = Served(h[n - 1], q[n])

LEMMA RunsAgree ==
    ASSUME NEW g, NEW q, IsSeq(q), NEW h, IsRun(h, g, q), NEW k, IsRun(k, g, q)
    PROVE  \A n \in 0..Len(q) : h[n] = k[n]
<1> DEFINE T == {n \in 0..Len(q) : h[n] # k[n]}
<1>1. Len(q) \in Nat /\ T \subseteq Nat
  BY SeqFacts
<1>2. ASSUME T # {} PROVE FALSE
  <2>1. PICK m \in T : \A y \in T : ~(y < m)
    BY <1>1, <1>2, SmallestOf
  <2>2. m # 0
    BY <2>1 DEF IsRun
  <2>3. m \in 1..Len(q) /\ m - 1 \in 0..Len(q) /\ m - 1 < m
    BY <1>1, <2>2
  <2>4. h[m - 1] = k[m - 1]
    BY <2>1, <2>3
  <2> QED BY <2>3, <2>4 DEF IsRun
<1> QED BY <1>2

(* There is such a run of a graph and a sequence of any length. *)
LEMMA RunExists ==
    ASSUME NEW g, NEW q, NEW l \in Nat
    PROVE  \E h : h = [n \in 0..l |-> IF n = 0 THEN g ELSE Served(h[n - 1], q[n])]
<1> DEFINE Upto(h, n) == h = [i \in 0..n |-> IF i = 0 THEN g ELSE Served(h[i - 1], q[i])]
           T == {n \in Nat : ~\E h : Upto(h, n)}
<1>1. ASSUME T # {} PROVE FALSE
  <2>1. PICK m \in T : \A y \in T : ~(y < m)
    BY <1>1, SmallestOf
  <2>2. m # 0
    <3>1. Upto([i \in 0..0 |-> g], 0)
      OBVIOUS
    <3> QED BY <2>1, <3>1
  <2>3. m - 1 \in Nat /\ m - 1 < m
    BY <2>1, <2>2
  <2>4. PICK h : Upto(h, m - 1)
    BY <2>1, <2>3
  <2> DEFINE k == [i \in 0..m |-> IF i = m THEN Served(h[m - 1], q[m]) ELSE h[i]]
  <2>5. ASSUME NEW i \in 0..m PROVE k[i] = IF i = 0 THEN g ELSE Served(k[i - 1], q[i])
    <3>1. CASE i = m
      <4>1. k[m - 1] = h[m - 1] /\ k[m] = Served(h[m - 1], q[m])
        BY <2>3
      <4> QED BY <2>2, <3>1, <4>1
    <3>2. CASE i # m
      <4>1. i \in 0..(m - 1) /\ k[i] = h[i] /\ (i # 0 => k[i - 1] = h[i - 1])
        BY <3>2, <2>3
      <4>2. h[i] = IF i = 0 THEN g ELSE Served(h[i - 1], q[i])
        BY <2>4, <4>1
      <4> QED BY <4>1, <4>2
    <3> QED BY <3>1, <3>2
  <2>6. Upto(k, m)
    <3>1. k = [i \in 0..m |-> k[i]]
      OBVIOUS
    <3> HIDE DEF k
    <3> QED BY <2>5, <3>1
  <2> QED BY <2>1, <2>6
<1>2. \E h : Upto(h, l)
  BY <1>1
<1> QED BY <1>2

LEMMA RunOf ==
    ASSUME NEW g, NEW q, IsSeq(q) PROVE \E h : IsRun(h, g, q) /\ ServedAll(g, q) = h[Len(q)]
<1> DEFINE After[n \in 0..Len(q)] == IF n = 0 THEN g ELSE Served(After[n - 1], q[n])
<1>1. Len(q) \in Nat
  BY SeqFacts
<1>2. ServedAll(g, q) = After[Len(q)]
  BY DEF ServedAll
<1>3. After = [n \in 0..Len(q) |-> IF n = 0 THEN g ELSE Served(After[n - 1], q[n])]
  BY <1>1, RunExists DEF After
<1> HIDE DEF After
<1>4. After[0] = g
  BY <1>1, <1>3
<1>5. ASSUME NEW n \in 1..Len(q) PROVE After[n] = Served(After[n - 1], q[n])
  <2>1. n \in 0..Len(q) /\ n # 0
    BY <1>1
  <2> QED BY <1>3, <2>1
<1>6. IsRun(After, g, q)
  BY <1>4, <1>5 DEF IsRun
<1> QED BY <1>2, <1>6

LEMMA ServedRun ==
    ASSUME NEW g, NEW q, IsSeq(q), NEW h, IsRun(h, g, q) PROVE ServedAll(g, q) = h[Len(q)]
<1>1. PICK k : IsRun(k, g, q) /\ ServedAll(g, q) = k[Len(q)]
  BY RunOf
<1>2. Len(q) \in 0..Len(q)
  BY SeqFacts
<1> QED BY <1>1, <1>2, RunsAgree

LEMMA ServedNone == ASSUME NEW g PROVE ServedAll(g, << >>) = g
<1> DEFINE q == << >>
<1>1. IsSeq(q) /\ Len(q) = 0
  BY DEF IsSeq
<1> HIDE DEF q
<1>2. PICK h : IsRun(h, g, q) /\ ServedAll(g, q) = h[Len(q)]
  BY <1>1, RunOf
<1>3. ServedAll(g, q) = g
  BY <1>1, <1>2 DEF IsRun
<1> QED BY <1>3 DEF q

LEMMA ServedOne == ASSUME NEW g, NEW r PROVE ServedAll(g, <<r>>) = Served(g, r)
<1> DEFINE q == <<r>>
<1>1. IsSeq(q) /\ Len(q) = 1 /\ q[1] = r
  BY Single
<1> HIDE DEF q
<1>2. PICK h : IsRun(h, g, q) /\ ServedAll(g, q) = h[Len(q)]
  BY <1>1, RunOf
<1>3. 1 \in 1..Len(q) /\ 1 - 1 = 0
  BY <1>1
<1>4. h[0] = g /\ h[1] = Served(h[1 - 1], q[1])
  BY <1>2, <1>3 DEF IsRun
<1>5. ServedAll(g, q) = Served(g, r)
  BY <1>1, <1>2, <1>3, <1>4
<1> QED BY <1>5 DEF q

(* Serving the oldest request changes nothing about where it all ends.     *)
LEMMA ServedOldest ==
    ASSUME NEW g, NEW q, IsSeq(q), 1 \in DOMAIN q
    PROVE  ServedAll(Served(g, q[1]), RemoveAt(q, 1)) = ServedAll(g, q)
<1> DEFINE r == RemoveAt(q, 1)
<1>1. /\ IsSeq(r) /\ DOMAIN r = 1..(Len(q) - 1)
      /\ \A i \in DOMAIN r : i + 1 \in DOMAIN q /\ r[i] = q[i + 1]
  BY OldestRemoved
<1>2. Len(q) \in Nat /\ 1 \in 1..Len(q)
  BY SeqFacts
<1> HIDE DEF r
<1>3. Len(r) \in Nat /\ DOMAIN r = 1..Len(r)
  BY <1>1, SeqFacts
<1>4. Len(r) = Len(q) - 1
  BY <1>1, <1>2, <1>3
<1>5. PICK h : IsRun(h, g, q) /\ ServedAll(g, q) = h[Len(q)]
  BY RunOf
<1> DEFINE k == [n \in 0..Len(r) |-> h[n + 1]]
<1>6. k[0] = Served(g, q[1])
  <2>1. h[0] = g /\ h[1] = Served(h[1 - 1], q[1])
    BY <1>2, <1>5 DEF IsRun
  <2>2. k[0] = h[1] /\ 1 - 1 = 0
    BY <1>3
  <2> QED BY <2>1, <2>2
<1>7. ASSUME NEW n \in 1..Len(r) PROVE k[n] = Served(k[n - 1], r[n])
  <2>1. k[n] = h[n + 1] /\ k[n - 1] = h[n]
    BY <1>3
  <2>2. n + 1 \in 1..Len(q) /\ n + 1 - 1 = n
    BY <1>3, <1>4
  <2>3. h[n + 1] = Served(h[n + 1 - 1], q[n + 1])
    BY <1>5, <2>2 DEF IsRun
  <2> QED BY <1>1, <1>3, <2>1, <2>2, <2>3
<1>8. k[Len(r)] = h[Len(q)]
  <2>1. Len(r) \in 0..Len(r) /\ Len(r) + 1 = Len(q)
    BY <1>2, <1>3, <1>4
  <2> QED BY <2>1
<1> HIDE DEF k
<1>9. IsRun(k, Served(g, q[1]), r)
  BY <1>6, <1>7 DEF IsRun
<1>10. ServedAll(Served(g, q[1]), r) = k[Len(r)]
  BY <1>1, <1>9, ServedRun
<1> QED BY <1>5, <1>8, <1>10 DEF r

(* What joins those on their way is served after them.                     *)
LEMMA ServedJoined ==
    ASSUME NEW g, NEW q, IsSeq(q), NEW p, IsSeq(p)
    PROVE  ServedAll(g, q \o p) = ServedAll(ServedAll(g, q), p)
<1> DEFINE j == q \o p
<1>1. Len(q) \in Nat /\ DOMAIN q = 1..Len(q) /\ Len(p) \in Nat /\ DOMAIN p = 1..Len(p)
  BY SeqFacts
<1>2. IsSeq(j) /\ Len(j) = Len(q) + Len(p) /\ \A i \in DOMAIN q : j[i] = q[i]
  BY Joined
<1>3. \A n \in DOMAIN p : j[Len(q) + n] = p[n]
  <2>1. q \in Seq(Range(q) \cup Range(p)) /\ p \in Seq(Range(q) \cup Range(p))
    BY SeqWider
  <2> QED BY <1>1, <2>1, ConcatProperties
<1> HIDE DEF j
<1>4. PICK h : IsRun(h, g, j) /\ ServedAll(g, j) = h[Len(j)]
  BY <1>2, RunOf
<1>5. IsRun(h, g, q)
  BY <1>1, <1>2, <1>4 DEF IsRun
<1>6. ServedAll(g, q) = h[Len(q)]
  BY <1>5, ServedRun
<1> DEFINE k == [n \in 0..Len(p) |-> h[Len(q) + n]]
<1>7. k[0] = h[Len(q)] /\ k[Len(p)] = h[Len(j)]
  BY <1>1, <1>2
<1>8. ASSUME NEW n \in 1..Len(p) PROVE k[n] = Served(k[n - 1], p[n])
  <2>1. k[n] = h[Len(q) + n] /\ k[n - 1] = h[Len(q) + n - 1]
    BY <1>1
  <2>2. Len(q) + n \in 1..Len(j)
    BY <1>1, <1>2
  <2>3. h[Len(q) + n] = Served(h[Len(q) + n - 1], j[Len(q) + n])
    BY <1>4, <2>2 DEF IsRun
  <2> QED BY <1>1, <1>3, <2>1, <2>3
<1> HIDE DEF k
<1>9. IsRun(k, ServedAll(g, q), p)
  BY <1>6, <1>7, <1>8 DEF IsRun
<1>10. ServedAll(ServedAll(g, q), p) = k[Len(p)]
  BY <1>9, ServedRun
<1> QED BY <1>4, <1>7, <1>10 DEF j

(* A graph on the way from g to Without(g, all).                           *)
Between(h, g, all) ==
    /\ h = [nodes |-> h.nodes, edges |-> h.edges]
    /\ DOMAIN h.nodes \subseteq DOMAIN g.nodes /\ DOMAIN g.nodes \ all \subseteq DOMAIN h.nodes
    /\ h.nodes = [n \in DOMAIN h.nodes |-> g.nodes[n]]
    /\ h.edges \subseteq g.edges /\ g.edges \ Touching(g, all) \subseteq h.edges

LEMMA OneDeletion ==
    ASSUME NEW g, NEW all, HangingOff(g, all) \subseteq all,
           \A n \in all \cap DOMAIN g.nodes : ~g.nodes[n].set.locked,
           NEW h, Between(h, g, all), NEW r \in UnwiresOf(g, all) \cup DeletesOf(all)
    PROVE  /\ Between(Served(h, r), g, all)
           /\ DOMAIN Served(h, r).nodes \subseteq DOMAIN h.nodes
           /\ Served(h, r).edges \subseteq h.edges
           /\ r.op = "unwire" => r.edge \notin Served(h, r).edges
           /\ r.op = "delete" => r.id \notin DOMAIN Served(h, r).nodes
<1>1. CASE r \in UnwiresOf(g, all)
  <2>1. PICK e \in Touching(g, all) : r = [op |-> "unwire", edge |-> e]
    BY <1>1 DEF UnwiresOf
  <2>2. Served(h, r) = [h EXCEPT !.edges = h.edges \ {e}]
    BY <2>1 DEF Served
  <2>3. Served(h, r) = [nodes |-> h.nodes, edges |-> h.edges \ {e}]
    BY <2>2 DEF Between
  <2> QED BY <2>1, <2>3 DEF Between
<1>2. CASE r \in DeletesOf(all)
  <2>1. PICK n \in all : r = [op |-> "delete", id |-> n]
    BY <1>2 DEF DeletesOf
  <2> DEFINE ids == {n} \cup HangingOff(h, {n})
  <2>2. Served(h, r) = Without(h, ids)
    <3>1. n \in DOMAIN h.nodes => ~h.nodes[n].set.locked
      BY DEF Between
    <3> QED BY <2>1, <3>1 DEF Served, Delete
  <2>3. n \in ids /\ ids \subseteq all
    BY DEF Between, HangingOff
  <2> HIDE DEF ids
  <2>4. Touching(h, ids) \subseteq Touching(g, all)
    BY <2>3 DEF Between, Touching
  <2>5. Served(h, r) = [nodes |-> [m \in DOMAIN h.nodes \ ids |-> h.nodes[m]],
                        edges |-> h.edges \ Touching(h, ids)]
    BY <2>2 DEF Without, Restrict
  <2>6. DOMAIN Served(h, r).nodes = DOMAIN h.nodes \ ids
    BY <2>5
  <2>7. Served(h, r).nodes = [m \in DOMAIN Served(h, r).nodes |-> g.nodes[m]]
    BY <2>5, <2>6 DEF Between
  <2> QED BY <2>1, <2>3, <2>4, <2>5, <2>6, <2>7 DEF Between
<1> QED BY <1>1, <1>2

(* Whatever order they are sent in, once all deletions are served the      *)
(* nodes and their edges are gone, and nothing else.                       *)
LEMMA ServedDeletions ==
    ASSUME NEW g, g = [nodes |-> g.nodes, edges |-> g.edges],
           g.nodes = [n \in DOMAIN g.nodes |-> g.nodes[n]],
           NEW all, HangingOff(g, all) \subseteq all,
           \A n \in all \cap DOMAIN g.nodes : ~g.nodes[n].set.locked,
           NEW p, IsSeq(p), Range(p) = UnwiresOf(g, all) \cup DeletesOf(all)
    PROVE  ServedAll(g, p) = Without(g, all)
<1>1. Len(p) \in Nat /\ DOMAIN p = 1..Len(p)
  BY SeqFacts
<1>2. PICK h : IsRun(h, g, p) /\ ServedAll(g, p) = h[Len(p)]
  BY RunOf
<1> DEFINE Gone(r, k) == /\ r.op = "unwire" => r.edge \notin k.edges
                         /\ r.op = "delete" => r.id \notin DOMAIN k.nodes
           Reached(n) == Between(h[n], g, all) /\ \A i \in 1..n : Gone(p[i], h[n])
           T == {n \in 0..Len(p) : ~Reached(n)}
<1>3. Reached(0)
  BY <1>2 DEF IsRun, Between
<1>4. ASSUME NEW n \in 1..Len(p), Reached(n - 1) PROVE Reached(n)
  <2>1. p[n] \in UnwiresOf(g, all) \cup DeletesOf(all)
    BY <1>1 DEF Range
  <2>2. h[n] = Served(h[n - 1], p[n])
    BY <1>2 DEF IsRun
  <2>3. /\ Between(h[n], g, all) /\ Gone(p[n], h[n])
        /\ DOMAIN h[n].nodes \subseteq DOMAIN h[n - 1].nodes /\ h[n].edges \subseteq h[n - 1].edges
    BY <1>4, <2>1, <2>2, OneDeletion
  <2>4. \A i \in 1..n : i = n \/ i \in 1..(n - 1)
    OBVIOUS
  <2>5. \A i \in 1..(n - 1) : Gone(p[i], h[n])
    BY <1>4, <2>3
  <2> QED BY <2>3, <2>4, <2>5
<1> HIDE DEF Reached
<1>5. T = {}
  <2> SUFFICES ASSUME T # {} PROVE FALSE
    OBVIOUS
  <2>1. T \subseteq Nat
    BY <1>1
  <2>2. PICK m \in T : \A y \in T : ~(y < m)
    BY <2>1, SmallestOf
  <2>3. m # 0
    BY <1>3, <2>2
  <2>4. m \in 1..Len(p) /\ m - 1 \in 0..Len(p) /\ m - 1 < m
    BY <1>1, <2>2, <2>3
  <2>5. Reached(m - 1)
    BY <2>2, <2>4
  <2> QED BY <1>4, <2>2, <2>4, <2>5
<1> DEFINE k == h[Len(p)]
<1>6. Reached(Len(p))
  BY <1>1, <1>5
<1>7. Between(k, g, all) /\ \A r \in Range(p) : Gone(r, k)
  BY <1>1, <1>6 DEF Reached, Range
<1> HIDE DEF k
<1>8. \A e \in Touching(g, all) : e \notin k.edges
  <2> SUFFICES ASSUME NEW e \in Touching(g, all) PROVE e \notin k.edges
    OBVIOUS
  <2>1. [op |-> "unwire", edge |-> e] \in Range(p)
    BY DEF UnwiresOf
  <2> QED BY <1>7, <2>1
<1>9. \A n \in all : n \notin DOMAIN k.nodes
  <2> SUFFICES ASSUME NEW n \in all PROVE n \notin DOMAIN k.nodes
    OBVIOUS
  <2>1. [op |-> "delete", id |-> n] \in Range(p)
    BY DEF DeletesOf
  <2> QED BY <1>7, <2>1
<1>10. k.edges = g.edges \ Touching(g, all) /\ DOMAIN k.nodes = DOMAIN g.nodes \ all
  BY <1>7, <1>8, <1>9 DEF Between, Touching
<1>11. k = Without(g, all)
  <2>1. k = [nodes |-> [n \in DOMAIN g.nodes \ all |-> g.nodes[n]],
             edges |-> g.edges \ Touching(g, all)]
    BY <1>7, <1>10 DEF Between
  <2> QED BY <2>1 DEF Without, Restrict
<1> QED BY <1>2, <1>11 DEF k

-----------------------------------------------------------------------------
(* What keeps a graph wired.                                               *)

LEMMA BlankSuits == ASSUME NEW n PROVE Suits(n, Blank)
BY DEF Suits, Blank, None, Editable

LEMMA WiredWith ==
    ASSUME NEW g, IsGraph(g), Wired(g), NEW n, NEW place, NEW set, Suits(n, set)
    PROVE  Wired(With(g, n, Node(place, set)))
<1> DEFINE w == With(g, n, Node(place, set))
<1>1. /\ w.nodes = [m \in DOMAIN g.nodes \cup {n} |-> IF m = n THEN Node(place, set) ELSE g.nodes[m]]
      /\ w.edges = g.edges
  BY DEF IsGraph, With
<1> HIDE DEF w
<1>2. DOMAIN w.nodes = DOMAIN g.nodes \cup {n}
  BY <1>1
<1>3. ASSUME NEW m \in DOMAIN w.nodes
      PROVE  w.nodes[m] = Node(w.nodes[m].place, w.nodes[m].set) /\ Suits(m, w.nodes[m].set)
  <2>1. CASE m = n
    <3>1. w.nodes[m] = Node(place, set)
      BY <1>1, <1>2, <2>1
    <3> QED BY <2>1, <3>1 DEF Node
  <2>2. CASE m # n
    <3>1. w.nodes[m] = g.nodes[m] /\ m \in DOMAIN g.nodes
      BY <1>1, <1>2, <2>2
    <3> QED BY <3>1 DEF Wired
  <2> QED BY <2>1, <2>2
<1>4. w.nodes = [m \in DOMAIN w.nodes |-> Node(w.nodes[m].place, w.nodes[m].set)]
  BY <1>1, <1>2, <1>3
<1>5. Wired(w)
  BY <1>1, <1>3, <1>4 DEF Wired
<1> QED BY <1>5 DEF w

LEMMA WiredWithout == ASSUME NEW g, Wired(g), NEW ids PROVE Wired(Without(g, ids))
<1> DEFINE w == Without(g, ids)
<1>1. w.nodes = [m \in DOMAIN g.nodes \ ids |-> g.nodes[m]] /\ w.edges \subseteq g.edges
  BY DEF Without, Restrict
<1> HIDE DEF w
<1>2. DOMAIN w.nodes = DOMAIN g.nodes \ ids
  BY <1>1
<1>3. \A m \in DOMAIN w.nodes : w.nodes[m] = g.nodes[m] /\ m \in DOMAIN g.nodes
  BY <1>1, <1>2
<1>4. \A m \in DOMAIN w.nodes : w.nodes[m] = Node(w.nodes[m].place, w.nodes[m].set)
  BY <1>3 DEF Wired
<1>5. w.nodes = [m \in DOMAIN w.nodes |-> Node(w.nodes[m].place, w.nodes[m].set)]
  BY <1>1, <1>2, <1>4
<1>6. Wired(w)
  BY <1>1, <1>3, <1>5 DEF Wired
<1> QED BY <1>6 DEF w

LEMMA WiredEdges ==
    ASSUME NEW g, IsGraph(g), Wired(g), NEW es, \A e \in es : Fits(e)
    PROVE  Wired([g EXCEPT !.edges = es])
<1>1. [g EXCEPT !.edges = es].nodes = g.nodes /\ [g EXCEPT !.edges = es].edges = es
  BY DEF IsGraph
<1> QED BY <1>1 DEF Wired

(* Every graph and every request is one the Home page and this page leave. *)
Fitting(r) ==
    /\ r.op \in {"put", "settings", "save"} => Suits(r.id, r.set)
    /\ r.op = "wire" => Fits(r.edge)
AllWired == Wired(fw) /\ Wired(canvas) /\ \A r \in Range(flight) : Fitting(r)

(* Nothing is sent after the graph is asked for, and nothing changes it    *)
(* before the page has it.                                                 *)
LoadedInTurn ==
    /\ \A i \in DOMAIN flight : flight[i].op = "graph" =>
        view = "loading" /\ i = Len(flight) /\ flight[i].visit = visit
    /\ \A a \in answers :
        /\ a.op = "graph" =>
            view = "loading" /\ flight = << >> /\ a = [op |-> "graph", visit |-> visit, got |-> fw]
        /\ a.op = "noGraph" =>
            /\ a.visit \in 0..visit
            /\ a.visit = visit => \A x \in Range(flight) \cup answers : x.op # "graph"

(* What the open dialog has asked for, and what has come back to it.       *)
Asked(r) ==
    \/ r.op = "list" /\ r.key = open.key
    \/ r.op = "save" /\ (r.key = open.key \/ (view # "away" /\ r.visit = visit))
Came(a) ==
    \/ a.op \in {"list", "unsaved"} /\ a.key = open.key
    \/ a.op = "saved" /\ view # "away" /\ a.visit = visit

Asking == open.kind \in {"add", "edit"} /\ open.busy = "loading"
Saving(id) == view = "shown" /\ open.kind = "edit" /\ open.busy = "saving" /\ open.id = id

(* A dialog has one question out at most, and waits for the answer.        *)
Numbered ==
    /\ gestures \in Nat /\ open.key \in 0..gestures /\ (open.kind # "closed" => open.key # 0)
    /\ \A r \in Range(flight) : /\ r.op \in {"list", "save"} => r.key \in 1..gestures
                                /\ r.op = "save" => r.visit \in 0..visit
    /\ \A a \in answers : /\ a.op \in {"list", "unsaved"} => a.key \in 1..gestures
                          /\ a.op = "saved" => a.visit \in 0..visit
Waits ==
    /\ \A r \in Range(flight) : Asked(r) =>
        IF r.op = "list" THEN Asking ELSE Saving(r.id) /\ r.visit = visit /\ r.key = open.key
    /\ \A a \in answers : Came(a) =>
        /\ a.op = "list" => Asking
        /\ a.op = "saved" => Saving(a.id)
        /\ a.op = "unsaved" => Saving(open.id)
Once ==
    /\ \A i, j \in DOMAIN flight : Asked(flight[i]) /\ Asked(flight[j]) => i = j
    /\ \A a, b \in answers : Came(a) /\ Came(b) => a = b
    /\ \A r \in Range(flight), a \in answers : ~(Asked(r) /\ Came(a))
Exchange == Numbered /\ Waits /\ Once

(* A menu or dialog shows a node as it is on the canvas.                   *)
OpenOnCanvas ==
    open.kind \in {"menu", "edit"} =>
        /\ open.id \in DOMAIN canvas.nodes /\ open.set = canvas.nodes[open.id].set
        /\ open.set.type \in Editable

(* The canvas is ahead of the firmware by what is on its way, and behind   *)
(* it by what is being saved.                                              *)
Renamed(g, n, what) == [g EXCEPT !.nodes[n].set.what = what]
Synced ==
    view = "shown" /\ ~astray =>
        /\ \/ \E r \in Range(flight) : Asked(r) /\ r.op = "save"
           \/ \E a \in answers : Came(a) /\ a.op = "saved"
           \/ Settled = canvas
        /\ \A r \in Range(flight) :
             Asked(r) /\ r.op = "save" => Settled = Renamed(canvas, r.id, r.set.what)
        /\ \A a \in answers : Came(a) /\ a.op = "saved" => Settled = Renamed(canvas, a.id, a.what)

SyncInv == AllWired /\ LoadedInTurn /\ Exchange /\ OpenOnCanvas /\ Synced

LEMMA ServedWired ==
    ASSUME NEW g, IsGraph(g), Wired(g), NEW r, Fitting(r) PROVE Wired(Served(g, r))
<1>1. CASE r.op = "put"
  BY <1>1, WiredWith DEF Fitting, Served, Upsert
<1>2. CASE r.op = "move"
  <2>1. ASSUME r.id \in DOMAIN g.nodes PROVE Suits(r.id, g.nodes[r.id].set)
    BY <2>1 DEF Wired
  <2> QED BY <1>2, <2>1, BlankSuits, WiredWith DEF Served, Move
<1>3. CASE r.op \in {"settings", "save"}
  BY <1>3, WiredWith DEF Fitting, Served, UpdateSettings
<1>4. CASE r.op = "delete"
  BY <1>4, WiredWithout DEF Served, Delete
<1>5. CASE r.op = "wire"
  <2>1. Served(g, r) = [g EXCEPT !.edges = g.edges \cup {r.edge}]
    BY <1>5 DEF Served
  <2> DEFINE es == g.edges \cup {r.edge}
  <2>2. \A e \in es : Fits(e)
    BY <1>5 DEF Wired, Fitting
  <2> HIDE DEF es
  <2>3. Wired([g EXCEPT !.edges = es])
    BY <2>2, WiredEdges
  <2> QED BY <2>1, <2>3 DEF es
<1>6. CASE r.op = "unwire"
  <2>1. Served(g, r) = [g EXCEPT !.edges = g.edges \ {r.edge}]
    BY <1>6 DEF Served
  <2> DEFINE es == g.edges \ {r.edge}
  <2>2. \A e \in es : Fits(e)
    BY DEF Wired
  <2> HIDE DEF es
  <2>3. Wired([g EXCEPT !.edges = es])
    BY <2>2, WiredEdges
  <2> QED BY <2>1, <2>3 DEF es
<1>7. CASE r.op \notin {"put", "move", "settings", "save", "delete", "wire", "unwire"}
  BY <1>7 DEF Served
<1> QED BY <1>1, <1>2, <1>3, <1>4, <1>5, <1>6, <1>7

(* What more requests make of the graph that will be.                      *)
LEMMA SettledGrows ==
    ASSUME IsSeq(flight), NEW p, IsSeq(p), Send(p), fw' = fw
    PROVE  Settled' = ServedAll(Settled, p)
<1>1. Settled' = ServedAll(fw, flight \o p)
  BY DEF Settled, Send
<1>2. ServedAll(fw, flight \o p) = ServedAll(ServedAll(fw, flight), p)
  BY ServedJoined
<1> QED BY <1>1, <1>2 DEF Settled

LEMMA SettledStays == ASSUME UNCHANGED <<fw, flight>> PROVE Settled' = Settled
BY DEF Settled

LEMMA InitSync == EditorAssumption /\ Init => SyncInv
<1> SUFFICES ASSUME EditorAssumption, Init PROVE SyncInv
  OBVIOUS
<1>1. flight = << >> /\ DOMAIN flight = {} /\ Range(flight) = {} /\ answers = {}
  BY DEF Init, Range
<1>2. Wired(Empty)
  BY DEF Wired, Empty
<1>3. AllWired
  BY <1>1, <1>2, SavedAssumption DEF Init, AllWired, SavedAssumption
<1>4. LoadedInTurn
  BY <1>1 DEF LoadedInTurn
<1>5. open.kind = "closed" /\ open.key = 0 /\ gestures = 0 /\ view = "away"
  BY DEF Init, Closed
<1>6. Exchange
  BY <1>1, <1>5 DEF Exchange, Numbered, Waits, Once
<1>7. OpenOnCanvas /\ Synced
  BY <1>5 DEF OpenOnCanvas, Synced
<1> QED BY <1>3, <1>4, <1>6, <1>7 DEF SyncInv

-----------------------------------------------------------------------------
(* Dialogs with nothing on its way.                                        *)

Idle == open.kind \in {"closed", "pane", "menu"} \/ open.busy = "no"
NothingOut == (\A r \in Range(flight) : ~Asked(r)) /\ (\A a \in answers : ~Came(a))

LEMMA IdleHasNothingOut == ASSUME SyncInv, Idle PROVE NothingOut
BY DEF SyncInv, Exchange, Waits, Asking, Saving, Idle, NothingOut, Asked, Came

(* Requests the dialogs have nothing to do with.                           *)
Plain(r) == r.op \notin {"graph", "list", "save"} /\ Fitting(r)

(* A dialog that was closed, or that has opened since, has nothing out.    *)
LEMMA NothingOutYet ==
    ASSUME SyncInv, ~(open.kind = "edit" /\ open.busy = "saving"),
           UNCHANGED <<view, visit, answers>>, open'.key \notin 1..gestures
    PROVE  /\ \A r \in Range(flight) : ~Asked(r)'
           /\ \A a \in answers' : ~Came(a)'
<1>1. Waits /\ Numbered
  BY DEF SyncInv, Exchange
<1>2. \A r \in Range(flight) : ~(r.op = "save" /\ view # "away" /\ r.visit = visit)
  BY <1>1 DEF Waits, Asked, Saving
<1>3. \A a \in answers : ~(a.op = "saved" /\ view # "away" /\ a.visit = visit)
  BY <1>1 DEF Waits, Came, Saving
<1> QED BY <1>1, <1>2, <1>3 DEF Numbered, Asked, Came

LEMMA StillNothingOut ==
    ASSUME NothingOut, UNCHANGED <<view, visit, answers>>, open'.key = open.key
    PROVE  /\ \A r \in Range(flight) : ~Asked(r)'
           /\ \A a \in answers' : ~Came(a)'
BY DEF NothingOut, Asked, Came

LEMMA NothingOutExchange ==
    ASSUME NothingOut', Numbered' PROVE Exchange'
<1>1. Waits'
  BY DEF NothingOut, Waits
<1>2. Once'
  BY DEF NothingOut, Once, Range
<1> QED BY <1>1, <1>2 DEF Exchange

Careful == Habits = {}

-----------------------------------------------------------------------------
(* Gestures that change the canvas and send what they did.                 *)

LEMMA SentRange ==
    ASSUME IsSeq(flight), NEW p, IsSeq(p), Send(p)
    PROVE  IsSeq(flight') /\ Range(flight') = Range(flight) \cup Range(p)
BY Joined, JoinedRange DEF Send

LEMMA ShownHasLoaded ==
    ASSUME SyncInv, view = "shown" PROVE \A x \in Range(flight) \cup answers : x.op # "graph"
BY DEF SyncInv, LoadedInTurn, Range

(* The edit is on the canvas at once, and will be on the firmware.         *)
LEMMA CanvasGesture ==
    ASSUME EditorAssumption, NumbersInv, SyncInv, view = "shown", Idle,
           UNCHANGED <<fw, view, visit, answers, astray>>,
           NEW p, IsSeq(p), \A r \in Range(p) : Plain(r), Send(p),
           canvas' = ServedAll(canvas, p), Wired(canvas'), gestures' \in {gestures, gestures + 1},
           \/ open' = open /\ open.kind \notin {"menu", "edit"}
           \/ open' = Closed
    PROVE  SyncInv'
<1>1. IsSeq(flight)
  BY DEF NumbersInv, Typed
<1>2. IsSeq(flight') /\ Range(flight') = Range(flight) \cup Range(p)
  BY <1>1, SentRange
<1>3. NothingOut /\ Numbered
  BY IdleHasNothingOut DEF SyncInv, Exchange
<1>4. \A x \in Range(flight') \cup answers' : x.op # "graph"
  BY <1>2, ShownHasLoaded DEF Plain
<1>5. AllWired'
  <2>1. Wired(fw)' /\ Wired(canvas)'
    BY DEF SyncInv, AllWired
  <2>2. \A r \in Range(flight') : Fitting(r)
    BY <1>2 DEF SyncInv, AllWired, Plain
  <2> QED BY <2>1, <2>2 DEF AllWired
<1>6. LoadedInTurn'
  BY <1>4 DEF SyncInv, LoadedInTurn, Range
<1>7. /\ \A r \in Range(flight) : ~Asked(r)'
      /\ \A a \in answers' : ~Came(a)'
  <2>1. CASE open' = open
    BY <1>3, <2>1, StillNothingOut
  <2>2. CASE open' = Closed
    <3>1. open'.key \notin 1..gestures
      BY <2>2 DEF Closed
    <3>2. ~(open.kind = "edit" /\ open.busy = "saving")
      BY DEF Idle
    <3> QED BY <3>1, <3>2, NothingOutYet
  <2> QED BY <2>1, <2>2
<1>8. NothingOut'
  <2>1. \A r \in Range(p) : ~Asked(r)'
    BY DEF Plain, Asked
  <2> QED BY <1>2, <1>7, <2>1 DEF NothingOut
<1>9. Numbered'
  <2>1. gestures \in Nat /\ gestures' \in Nat /\ gestures <= gestures'
    BY <1>3 DEF Numbered
  <2>2. open'.key \in 0..gestures' /\ (open'.kind # "closed" => open'.key # 0)
    BY <1>3, <2>1 DEF Numbered, Closed
  <2> QED BY <1>2, <1>3, <2>1, <2>2 DEF Numbered, Plain
<1>10. Exchange'
  BY <1>8, <1>9, NothingOutExchange
<1>11. OpenOnCanvas'
  BY DEF OpenOnCanvas, Closed
<1>12. Synced'
  <2> SUFFICES ASSUME ~astray PROVE (Settled = canvas)'
    BY <1>8 DEF Synced, NothingOut
  <2>1. Settled = canvas
    BY <1>3 DEF SyncInv, Synced, NothingOut
  <2> QED BY <1>1, <2>1, SettledGrows
<1> QED BY <1>5, <1>6, <1>10, <1>11, <1>12 DEF SyncInv

(* The same for a single request.                                          *)
LEMMA CanvasEdit ==
    ASSUME EditorAssumption, NumbersInv, SyncInv, view = "shown", Idle,
           UNCHANGED <<fw, view, visit, answers, astray>>,
           NEW r, Plain(r), Send(<<r>>), canvas' = Served(canvas, r),
           gestures' \in {gestures, gestures + 1},
           \/ open' = open /\ open.kind \notin {"menu", "edit"}
           \/ open' = Closed
    PROVE  SyncInv'
<1> DEFINE p == <<r>>
<1>1. IsSeq(p) /\ Range(p) = {r}
  BY Single
<1>2. canvas' = ServedAll(canvas, p)
  BY ServedOne
<1>3. Wired(canvas')
  <2>1. IsGraph(canvas) /\ Wired(canvas) /\ Fitting(r)
    BY DEF NumbersInv, Typed, SyncInv, AllWired, Plain
  <2> QED BY <2>1, ServedWired
<1>4. (\A x \in Range(p) : Plain(x)) /\ Send(p)
  BY <1>1
<1> HIDE DEF p
<1> QED BY <1>1, <1>2, <1>3, <1>4, CanvasGesture

LEMMA Made ==
    /\ \A c, name :
         Board(c, name) = [type |-> "board", circuits |-> c, locked |-> FALSE, what |-> name]
    /\ \A e : Load(e) = [type |-> "load", circuits |-> 0, locked |-> FALSE, what |-> e]
<1>1. ASSUME NEW c, NEW name
      PROVE  Board(c, name) = [type |-> "board", circuits |-> c, locked |-> FALSE, what |-> name]
  <2> DEFINE set == Board(c, name)
  <2>1. set = [x \in DOMAIN set |-> set[x]] /\ DOMAIN set = {"type", "circuits", "locked", "what"}
    BY DEF Board, Blank
  <2>2. set.type = "board" /\ set.circuits = c /\ set.what = name
    BY DEF Board, Blank
  <2>3. set.locked = FALSE
    BY DEF Board, Blank
  <2> HIDE DEF set
  <2>4. set = [type |-> "board", circuits |-> c, locked |-> FALSE, what |-> name]
    BY <2>1, <2>2, <2>3
  <2> QED BY <2>4 DEF set
<1>2. ASSUME NEW e
      PROVE  Load(e) = [type |-> "load", circuits |-> 0, locked |-> FALSE, what |-> e]
  <2> DEFINE set == Load(e)
  <2>1. set = [x \in DOMAIN set |-> set[x]] /\ DOMAIN set = {"type", "circuits", "locked", "what"}
    BY DEF Load, Blank
  <2>2. set.type = "load" /\ set.circuits = 0 /\ set.what = e
    BY DEF Load, Blank
  <2>3. set.locked = FALSE
    BY DEF Load, Blank
  <2> HIDE DEF set
  <2>4. set = [type |-> "load", circuits |-> 0, locked |-> FALSE, what |-> e]
    BY <2>1, <2>2, <2>3
  <2> QED BY <2>4 DEF set
<1> QED BY <1>1, <1>2

LEMMA NewSuits ==
    ASSUME NEW n, ~FixedId(n)
    PROVE  (\A c, name : Suits(n, Board(c, name))) /\ (\A e : Suits(n, Load(e)))
<1>1. ASSUME NEW c, NEW name PROVE Suits(n, Board(c, name))
  <2> DEFINE set == Board(c, name)
  <2>1. set = [type |-> "board", circuits |-> c, locked |-> FALSE, what |-> name]
    BY Made
  <2>2. set = Board(set.circuits, set.what)
    BY <2>1, Made
  <2> HIDE DEF set
  <2>3. Suits(n, set)
    BY <2>1, <2>2 DEF Suits, Editable
  <2> QED BY <2>3 DEF set
<1>2. ASSUME NEW e PROVE Suits(n, Load(e))
  <2> DEFINE set == Load(e)
  <2>1. set = [type |-> "load", circuits |-> 0, locked |-> FALSE, what |-> e]
    BY Made
  <2> HIDE DEF set
  <2>2. Suits(n, set)
    BY <2>1 DEF Suits, Editable
  <2> QED BY <2>2 DEF set
<1> QED BY <1>1, <1>2

LEMMA CoveredNot == ASSUME Uncovered PROVE Idle /\ open.kind = "closed"
BY DEF Uncovered, Idle, Closed

LEMMA OneMore == ASSUME Gesture PROVE gestures' \in {gestures, gestures + 1}
BY DEF Gesture

LEMMA CarefulIsPatient == ASSUME Careful PROVE Patient
BY DEF Careful, Patient

LEMMA CanvasShape ==
    ASSUME NumbersInv, SyncInv
    PROVE  /\ IsGraph(canvas) /\ Wired(canvas)
           /\ canvas = [nodes |-> canvas.nodes, edges |-> canvas.edges]
           /\ canvas.nodes = [n \in DOMAIN canvas.nodes |-> canvas.nodes[n]]
           /\ \A n \in DOMAIN canvas.nodes :
                /\ canvas.nodes[n] = Node(canvas.nodes[n].place, canvas.nodes[n].set)
                /\ Suits(n, canvas.nodes[n].set)
<1>1. IsGraph(canvas) /\ Wired(canvas)
  BY DEF NumbersInv, Typed, SyncInv, AllWired
<1> QED BY <1>1 DEF IsGraph, Wired

LEMMA DragStopSync ==
    ASSUME EditorAssumption, NumbersInv, SyncInv, Careful, NEW n, DragStop(n) PROVE SyncInv'
<1> DEFINE r == [op |-> "move", id |-> n, place |-> "dragged"]
<1>1. view = "shown" /\ Idle /\ open.kind = "closed" /\ gestures' \in {gestures, gestures + 1}
  BY CarefulIsPatient, WorksOnShown, CoveredNot, OneMore DEF DragStop
<1>2. Plain(r) /\ Send(<<r>>)
  BY DEF DragStop, Plain, Fitting
<1>3. canvas' = Served(canvas, r)
  <2>1. n \in DOMAIN canvas.nodes /\ canvas' = [canvas EXCEPT !.nodes[n].place = "dragged"]
    BY DEF DragStop
  <2>2. canvas.nodes[n] = [place |-> canvas.nodes[n].place, set |-> canvas.nodes[n].set]
    BY <2>1, CanvasShape DEF Node
  <2>3. Served(canvas, r) = With(canvas, n, Node("dragged", canvas.nodes[n].set))
    BY <2>1 DEF Served, Move
  <2>4. DOMAIN canvas.nodes \cup {n} = DOMAIN canvas.nodes
    BY <2>1
  <2>5. [canvas.nodes[n] EXCEPT !.place = "dragged"] = Node("dragged", canvas.nodes[n].set)
    BY <2>2 DEF Node
  <2> QED BY <2>1, <2>3, <2>4, <2>5, CanvasShape DEF With
<1> HIDE DEF r
<1> QED BY <1>1, <1>2, <1>3, CanvasEdit DEF DragStop, Keeps

LEMMA SetCircuitsSync ==
    ASSUME EditorAssumption, NumbersInv, SyncInv, Careful, NEW b, NEW n, SetCircuits(b, n)
    PROVE  SyncInv'
<1> DEFINE set == Board(n, canvas.nodes[b].set.what)
           r == [op |-> "settings", id |-> b, set |-> set]
<1>1. view = "shown" /\ Idle /\ open.kind = "closed" /\ gestures' \in {gestures, gestures + 1}
  BY CarefulIsPatient, WorksOnShown, CoveredNot, OneMore DEF SetCircuits
<1>2. /\ b \in DOMAIN canvas.nodes /\ canvas.nodes[b].set.type = "board"
      /\ canvas' = [canvas EXCEPT !.nodes[b].set.circuits = n]
  BY DEF SetCircuits, OnCanvas
<1>3. /\ canvas.nodes[b] = [place |-> canvas.nodes[b].place, set |-> canvas.nodes[b].set]
      /\ canvas.nodes[b].set = Board(canvas.nodes[b].set.circuits, canvas.nodes[b].set.what)
      /\ ~FixedId(b)
  BY <1>2, CanvasShape DEF Node, Suits, Editable
<1>4. Plain(r) /\ Send(<<r>>)
  <2>1. Suits(b, set)
    BY <1>3, NewSuits
  <2> QED BY <2>1 DEF SetCircuits, Plain, Fitting
<1>5. canvas' = Served(canvas, r)
  <2>1. Served(canvas, r) = With(canvas, b, Node(canvas.nodes[b].place, set))
    BY <1>2 DEF Served, UpdateSettings
  <2>2. DOMAIN canvas.nodes \cup {b} = DOMAIN canvas.nodes
    BY <1>2
  <2>3. [canvas.nodes[b].set EXCEPT !.circuits = n] = set
    BY <1>3 DEF Board, Blank
  <2>4. [canvas.nodes[b] EXCEPT !.set.circuits = n] = Node(canvas.nodes[b].place, set)
    <3> HIDE DEF set
    <3> QED BY <1>3, <2>3 DEF Node
  <2>5. canvas' = [canvas EXCEPT !.nodes = [canvas.nodes EXCEPT
                                  ![b] = [canvas.nodes[b] EXCEPT !.set.circuits = n]]]
    BY <1>2
  <2> HIDE DEF set
  <2> QED BY <1>2, <2>1, <2>2, <2>4, <2>5, CanvasShape DEF With
<1> HIDE DEF r
<1> QED BY <1>1, <1>4, <1>5, CanvasEdit DEF SetCircuits, Keeps

LEMMA WiringFits ==
    ASSUME EditorAssumption, NEW a, NEW s, Suits(a, s), NEW b, NEW t, Suits(b, t),
           NEW w \in Wirings(s.type, t.type)
    PROVE  Fits([from |-> a, out |-> w[1], to |-> b, into |-> w[2]])
<1>1. FixedId(Cu)
  BY DEF EditorAssumption, FixedId, Cu, Unallocated
<1>2. PICK x \in FromBoard \cup FromLoad \cup FromString \cup FromInverter :
        x[1] = s.type /\ x[3] = t.type /\ w = <<x[2], x[4]>>
  BY DEF Wirings
<1>3. CASE x \in FromBoard
  <2>1. s.type \in {"cu", "board"} /\ w = <<"circuit", "power-in">> /\ t.type \in {"load", "board"}
    BY <1>2, <1>3 DEF FromBoard
  <2> QED BY <1>1, <2>1 DEF Fits, Suits, Editable
<1>4. CASE x \in FromLoad
  <2>1. t.type = "cu" /\ w = <<"power-out", "grid">>
    BY <1>2, <1>4 DEF FromLoad
  <2> QED BY <2>1 DEF Fits, Suits
<1>5. CASE x \in FromString
  <2>1. s.type = "pv" /\ t.type = "inverter" /\ w = <<"power-out", "dc_in">>
    BY <1>2, <1>5 DEF FromString
  <2> QED BY <2>1, SavedAssumption DEF Fits, Suits, SavedAssumption
<1>6. CASE x \in FromInverter
  <2>1. /\ s.type = "inverter"
        /\ \/ t.type = "battery" /\ w = <<"battery", "power-in">>
           \/ t.type = "cu" /\ w = <<"power-out", "solar_input">>
    BY <1>2, <1>6 DEF FromInverter
  <2> QED BY <2>1, SavedAssumption DEF Fits, Suits, SavedAssumption
<1> QED BY <1>2, <1>3, <1>4, <1>5, <1>6

LEMMA ConnectSync ==
    ASSUME EditorAssumption, NumbersInv, SyncInv, Careful, NEW a, NEW b, Connect(a, b)
    PROVE  SyncInv'
<1>1. view = "shown" /\ Idle /\ open.kind = "closed" /\ gestures' \in {gestures, gestures + 1}
  BY CarefulIsPatient, WorksOnShown, CoveredNot, OneMore DEF Connect
<1>2. a \in DOMAIN canvas.nodes /\ b \in DOMAIN canvas.nodes
  BY DEF Connect
<1>3. PICK w \in Wirings(canvas.nodes[a].set.type, canvas.nodes[b].set.type) :
        LET e == [from |-> a, out |-> w[1], to |-> b, into |-> w[2]] IN
        /\ canvas' = [canvas EXCEPT !.edges = @ \cup {e}]
        /\ Send(<<[op |-> "wire", edge |-> e]>>)
  BY DEF Connect
<1> DEFINE e == [from |-> a, out |-> w[1], to |-> b, into |-> w[2]]
           r == [op |-> "wire", edge |-> e]
<1>4. Fits(e)
  BY <1>2, CanvasShape, WiringFits
<1> HIDE DEF e
<1>5. Plain(r)
  BY <1>4 DEF Plain, Fitting
<1>6. canvas' = Served(canvas, r) /\ Send(<<r>>)
  BY <1>3 DEF Served, e
<1> HIDE DEF r
<1> QED BY <1>1, <1>5, <1>6, CanvasEdit DEF Connect, Keeps

LEMMA RemoveEdgeSync ==
    ASSUME EditorAssumption, NumbersInv, SyncInv, Careful, NEW e, RemoveEdge(e) PROVE SyncInv'
<1> DEFINE r == [op |-> "unwire", edge |-> e]
<1>1. view = "shown" /\ Idle /\ open.kind = "closed" /\ gestures' \in {gestures, gestures + 1}
  BY CarefulIsPatient, WorksOnShown, CoveredNot, OneMore DEF RemoveEdge
<1>2. Plain(r) /\ Send(<<r>>) /\ canvas' = Served(canvas, r)
  BY DEF RemoveEdge, Plain, Fitting, Served
<1> HIDE DEF r
<1> QED BY <1>1, <1>2, CanvasEdit DEF RemoveEdge, Keeps

LEMMA AddsSync ==
    ASSUME EditorAssumption, NumbersInv, SyncInv, Careful,
           AddSubConsumerUnit \/ \E e \in Endpoints : AddLoad(e)
    PROVE  SyncInv'
<1>1. open # Closed /\ Idle
  BY DEF AddSubConsumerUnit, AddLoad, Closed, Idle
<1>2. view = "shown"
  BY <1>1, CarefulIsPatient, WorksOnShown
<1>3. ASSUME NEW set, Create(set), \A n : ~FixedId(n) => Suits(n, set), open' = Closed,
             UNCHANGED <<fw, view, visit, answers, astray, gestures>>
      PROVE  SyncInv'
  <2> DEFINE r == [op |-> "put", id |-> counter + 1, place |-> "spot", set |-> set, new |-> TRUE]
  <2>1. ~FixedId(counter + 1)
    BY DEF FixedId, NumbersInv, Typed, EditorAssumption
  <2>2. Plain(r) /\ Send(<<r>>) /\ canvas' = Served(canvas, r)
    BY <1>3, <2>1 DEF Create, Plain, Fitting, Served, Upsert
  <2> HIDE DEF r
  <2> QED BY <1>1, <1>2, <1>3, <2>2, CanvasEdit
<1>4. CASE AddSubConsumerUnit
  <2>1. \A n : ~FixedId(n) => Suits(n, Board(StartCircuits, "board"))
    BY NewSuits
  <2> QED BY <1>3, <1>4, <2>1 DEF AddSubConsumerUnit, Keeps
<1>5. ASSUME NEW e \in Endpoints, AddLoad(e) PROVE SyncInv'
  <2>1. \A n : ~FixedId(n) => Suits(n, Load(e))
    BY NewSuits
  <2> QED BY <1>3, <1>5, <2>1 DEF AddLoad, Keeps
<1> QED BY <1>4, <1>5

-----------------------------------------------------------------------------
(* Deletions.                                                              *)

(* The firmware takes the same nodes and edges off its graph.              *)
LEMMA DeletedSync ==
    ASSUME EditorAssumption, NumbersInv, SyncInv, view = "shown", Idle,
           UNCHANGED <<fw, view, visit, answers, astray>>,
           NEW ids, IsFiniteSet(ids), NEW p \in Deletions(ids), Send(p),
           HangingOff(canvas, ids) \subseteq ids,
           \A n \in ids \cap DOMAIN canvas.nodes : ~canvas.nodes[n].set.locked,
           canvas' = Without(canvas, ids), gestures' \in {gestures, gestures + 1},
           \/ open' = open /\ open.kind \notin {"menu", "edit"}
           \/ open' = Closed
    PROVE  SyncInv'
<1>1. /\ IsSeq(p) /\ Range(p) = UnwiresOf(canvas, ids) \cup DeletesOf(ids)
      /\ \A r \in Range(p) : Plain(r)
  <2>1. \A r \in UnwiresOf(canvas, ids) \cup DeletesOf(ids) : Plain(r)
    BY DEF UnwiresOf, DeletesOf, Plain, Fitting
  <2>2. IsSeq(p) /\ Range(p) = UnwiresOf(canvas, ids) \cup DeletesOf(ids)
    BY CanvasShape, DeletionsAre
  <2> QED BY <2>1, <2>2
<1>2. canvas' = ServedAll(canvas, p)
  BY <1>1, CanvasShape, ServedDeletions
<1>3. Wired(canvas')
  BY CanvasShape, WiredWithout
<1> QED BY <1>1, <1>2, <1>3, CanvasGesture

(* Loads and boards are unlocked, and nothing hangs off them.              *)
LEMMA FreeNodes ==
    ASSUME NumbersInv, SyncInv, NEW ids, \A n \in ids : ~FixedId(n)
    PROVE  /\ HangingOff(canvas, ids) \subseteq ids
           /\ \A n \in ids \cap DOMAIN canvas.nodes : ~canvas.nodes[n].set.locked
<1>1. \A e \in canvas.edges : Fits(e)
  BY CanvasShape DEF Wired
<1>2. \A n \in OfType("inverter") : FixedId(n)
  BY SavedAssumption DEF SavedAssumption
<1>3. HangingOff(canvas, ids) = {}
  BY <1>1, <1>2 DEF HangingOff, Fits
<1>4. \A n \in DOMAIN canvas.nodes : Suits(n, canvas.nodes[n].set)
  BY CanvasShape
<1> QED BY <1>3, <1>4 DEF Suits

(* Nothing hangs off strings and batteries, and they are unlocked.         *)
LEMMA TakenNodes ==
    ASSUME NumbersInv, SyncInv,
           NEW ids, \A n \in ids \cap DOMAIN canvas.nodes : ~canvas.nodes[n].set.locked
    PROVE  /\ HangingOff(canvas, Taken(ids)) \subseteq Taken(ids)
           /\ \A n \in Taken(ids) \cap DOMAIN canvas.nodes : ~canvas.nodes[n].set.locked
<1> DEFINE hung == HangingOff(canvas, ids)
<1>1. \A e \in canvas.edges : Fits(e)
  BY CanvasShape DEF Wired
<1>2. \A n \in hung : n \in OfType("pv") \cup OfType("battery")
  BY <1>1 DEF HangingOff, Fits
<1>3. \A n \in hung : n \notin OfType("inverter")
  BY <1>2 DEF OfType
<1>4. HangingOff(canvas, hung) = {}
  BY <1>1, <1>3 DEF HangingOff, Fits
<1>5. HangingOff(canvas, ids \cup hung) = hung \cup HangingOff(canvas, hung)
  BY DEF HangingOff
<1>6. HangingOff(canvas, Taken(ids)) \subseteq Taken(ids)
  BY <1>4, <1>5 DEF Taken
<1>7. \A n \in DOMAIN canvas.nodes : Suits(n, canvas.nodes[n].set)
  BY CanvasShape
<1> QED BY <1>2, <1>6, <1>7 DEF Taken, Suits

LEMMA DeleteKeySync ==
    ASSUME EditorAssumption, NumbersInv, SyncInv, Careful, DeleteKey PROVE SyncInv'
<1> DEFINE ids == {n \in selected \cap DOMAIN canvas.nodes : ~canvas.nodes[n].set.locked}
<1>1. ids \subseteq Ids /\ ids # {} /\ DOMAIN canvas.nodes # {}
  BY DEF DeleteKey, NumbersInv, Typed, IsGraph
<1>2. PICK p \in Deletions(Taken(ids)) :
        /\ Send(p) /\ canvas' = Without(canvas, Taken(ids))
        /\ UNCHANGED <<fw, view, visit, answers, open, astray>>
  BY DEF DeleteKey, Keeps
<1>3. \A n \in ids \cap DOMAIN canvas.nodes : ~canvas.nodes[n].set.locked
  OBVIOUS
<1>4. Idle /\ open.kind \notin {"menu", "edit"} /\ gestures' \in {gestures, gestures + 1}
  BY OneMore DEF DeleteKey, Careful, Idle
<1> HIDE DEF ids
<1>5. view = "shown"
  BY <1>1, CarefulIsPatient, WorksOnShown
<1>6. IsFiniteSet(Taken(ids))
  <2>1. IsFiniteSet(1..MaxNumber)
    <3>1. MaxNumber \in Int /\ 1 \in Int
      BY DEF EditorAssumption
    <3> QED BY <3>1, FS_Interval, Zenon
  <2>2. IsFiniteSet(ids)
    BY <1>1, <2>1, FS_Subset DEF Ids
  <2> QED BY <2>2, ReachedFinite, FS_Union DEF Taken, NumbersInv, Typed
<1> QED BY <1>2, <1>3, <1>4, <1>5, <1>6, TakenNodes, DeletedSync

LEMMA OnMenu ==
    ASSUME NumbersInv, SyncInv, Patient, open.kind = "menu"
    PROVE  /\ view = "shown" /\ Idle /\ ~FixedId(open.id)
           /\ open.id \in DOMAIN canvas.nodes /\ open.set = canvas.nodes[open.id].set
           /\ open.set.type \in Editable
<1>1. view = "shown" /\ Idle
  BY WorksOnShown DEF Closed, Idle
<1>2. /\ open.id \in DOMAIN canvas.nodes /\ open.set = canvas.nodes[open.id].set
      /\ open.set.type \in Editable
  BY DEF SyncInv, OpenOnCanvas
<1>3. ~FixedId(open.id)
  BY <1>2, CanvasShape DEF Suits
<1> QED BY <1>1, <1>2, <1>3

LEMMA DeleteSubConsumerUnitSync ==
    ASSUME EditorAssumption, NumbersInv, SyncInv, Careful, DeleteSubConsumerUnit PROVE SyncInv'
<1> DEFINE fed == {e.to : e \in {e \in canvas.edges : e.from \in {open.id}}}
           ids == {open.id} \cup (fed \ {Cu})
<1>1. /\ Send(Unwires(ids) \o Deletes(ids)) /\ canvas' = Without(canvas, ids)
      /\ UNCHANGED <<fw, view, visit, answers, astray, gestures>> /\ open' = Closed
      /\ open.kind = "menu"
  BY DEF DeleteSubConsumerUnit, Keeps
<1>2. view = "shown" /\ Idle /\ ~FixedId(open.id)
  BY <1>1, CarefulIsPatient, OnMenu
<1>3. \A n \in ids : ~FixedId(n)
  <2>1. \A e \in canvas.edges : Fits(e)
    BY CanvasShape DEF Wired
  <2> QED BY <1>2, <2>1 DEF Fits
<1>4. IsFiniteSet(ids)
  <2>1. IsFiniteSet(fed)
    BY ReachedFinite DEF NumbersInv, Typed
  <2> HIDE DEF fed
  <2> QED BY <2>1, FS_Difference, FS_Singleton, FS_Union
<1> HIDE DEF ids
<1>5. Unwires(ids) \o Deletes(ids) \in Deletions(ids)
  BY DEF Deletions
<1>6. /\ HangingOff(canvas, ids) \subseteq ids
      /\ \A n \in ids \cap DOMAIN canvas.nodes : ~canvas.nodes[n].set.locked
  BY <1>3, FreeNodes
<1>7. gestures' \in {gestures, gestures + 1}
  BY <1>1
<1> QED BY <1>1, <1>2, <1>4, <1>5, <1>6, <1>7, DeletedSync

LEMMA DeleteLoadSync ==
    ASSUME EditorAssumption, NumbersInv, SyncInv, Careful, DeleteLoad PROVE SyncInv'
<1>1. view = "shown" /\ Idle /\ \A n \in {open.id} : ~FixedId(n)
  BY CarefulIsPatient, OnMenu DEF DeleteLoad
<1>2. PICK p \in Deletions({open.id}) : Send(p)
  BY DEF DeleteLoad
<1>3. IsFiniteSet({open.id})
  BY FS_Singleton
<1>4. /\ HangingOff(canvas, {open.id}) \subseteq {open.id}
      /\ \A n \in {open.id} \cap DOMAIN canvas.nodes : ~canvas.nodes[n].set.locked
  BY <1>1, FreeNodes
<1>5. /\ canvas' = Without(canvas, {open.id}) /\ open' = Closed
      /\ UNCHANGED <<fw, view, visit, answers, astray>> /\ gestures' \in {gestures, gestures + 1}
  BY DEF DeleteLoad, Keeps
<1> QED BY <1>1, <1>2, <1>3, <1>4, <1>5, DeletedSync

-----------------------------------------------------------------------------
(* Dialogs open and close over the same canvas.                            *)

LEMMA NoneSaving ==
    ASSUME SyncInv, ~(open.kind = "edit" /\ open.busy = "saving"), view = "shown", ~astray
    PROVE  Settled = canvas
BY DEF SyncInv, Exchange, Waits, Saving, Synced

LEMMA DialogOpens ==
    ASSUME NumbersInv, SyncInv, view = "shown",
           UNCHANGED <<fw, canvas, view, visit, answers, astray, flight>>,
           ~(open.kind = "edit" /\ open.busy = "saving"),
           \A r \in Range(flight) : ~Asked(r)', \A a \in answers' : ~Came(a)',
           gestures' \in {gestures, gestures + 1}, open'.key \in 0..gestures',
           open'.kind # "closed" => open'.key # 0, OpenOnCanvas'
    PROVE  SyncInv'
<1>1. NothingOut'
  BY DEF NothingOut
<1>2. Numbered /\ gestures \in Nat /\ gestures' \in Nat /\ gestures <= gestures'
  BY DEF SyncInv, Exchange, Numbered
<1>3. Numbered'
  BY <1>2 DEF Numbered
<1>4. Exchange'
  BY <1>1, <1>3, NothingOutExchange
<1>5. AllWired'
  BY DEF SyncInv, AllWired
<1>6. LoadedInTurn'
  BY DEF SyncInv, LoadedInTurn
<1>7. Synced'
  <2> SUFFICES ASSUME ~astray PROVE (Settled = canvas)'
    BY <1>1 DEF Synced, NothingOut
  <2> QED BY NoneSaving, SettledStays
<1> QED BY <1>4, <1>5, <1>6, <1>7 DEF SyncInv

(* A request of the dialog that is open now, the only one of its.          *)
LEMMA OneAsked ==
    ASSUME IsSeq(flight), NEW r, Send(<<r>>),
           \A x \in Range(flight) : ~Asked(x)', \A a \in answers' : ~Came(a)', Numbered',
           IF r.op = "list" THEN Asking'
           ELSE Saving(r.id)' /\ r.visit = visit' /\ r.key = open'.key
    PROVE  Exchange'
<1>1. Joins(r)
  BY JoinsFlight
<1>2. \A x \in Range(flight') : x = r \/ ~Asked(x)'
  BY <1>1 DEF Joins
<1>3. \A i \in DOMAIN flight' : Asked(flight[i])' => i = Len(flight) + 1
  <2> SUFFICES ASSUME NEW i \in DOMAIN flight', i # Len(flight) + 1 PROVE ~Asked(flight[i])'
    OBVIOUS
  <2>1. i \in DOMAIN flight /\ flight'[i] = flight[i] /\ flight[i] \in Range(flight)
    BY <1>1 DEF Joins, Range
  <2> QED BY <2>1
<1>4. Waits'
  BY <1>2 DEF Waits, Asking, Saving
<1>5. Once'
  BY <1>3 DEF Once
<1> QED BY <1>4, <1>5 DEF Exchange

LEMMA AskedNumbered ==
    ASSUME SyncInv, IsSeq(flight), NEW r, Send(<<r>>), answers' = answers, visit' = visit,
           gestures' \in {gestures, gestures + 1}, open'.key \in 1..gestures',
           r.op \in {"list", "save"}, r.key = open'.key,
           r.op = "save" => r.visit = visit /\ visit \in Nat
    PROVE  Numbered'
<1>1. Numbered /\ gestures \in Nat /\ gestures' \in Nat /\ gestures <= gestures'
  BY DEF SyncInv, Exchange, Numbered
<1>2. Range(flight') \subseteq Range(flight) \cup {r}
  BY JoinsFlight DEF Joins
<1>3. r.key \in 1..gestures' /\ (r.op = "save" => r.visit \in 0..visit)
  OBVIOUS
<1> QED BY <1>1, <1>2, <1>3 DEF Numbered

(* A dialog asks for the endpoints.                                        *)
LEMMA DialogAsks ==
    ASSUME EditorAssumption, NumbersInv, SyncInv, view = "shown",
           UNCHANGED <<fw, canvas, view, visit, answers, astray>>,
           Send(<<[op |-> "list", key |-> open'.key]>>),
           ~(open.kind = "edit" /\ open.busy = "saving"),
           \A r \in Range(flight) : ~Asked(r)', \A a \in answers' : ~Came(a)',
           gestures' \in {gestures, gestures + 1}, open'.key \in 1..gestures',
           open'.kind \in {"add", "edit"}, open'.busy = "loading", OpenOnCanvas'
    PROVE  SyncInv'
<1> DEFINE r == [op |-> "list", key |-> open'.key]
<1>1. IsSeq(flight)
  BY DEF NumbersInv, Typed
<1>2. r.op = "list" /\ r.key = open'.key /\ Send(<<r>>) /\ Fitting(r)
  BY DEF Fitting
<1> HIDE DEF r
<1>3. Numbered'
  BY <1>1, <1>2, AskedNumbered
<1>4. Exchange'
  <2>1. Asking'
    BY DEF Asking
  <2> QED BY <1>1, <1>2, <1>3, <2>1, OneAsked
<1>5. Range(flight') \subseteq Range(flight) \cup {r}
  BY <1>1, <1>2, JoinsFlight DEF Joins
<1>6. \A x \in Range(flight') \cup answers' : x.op # "graph"
  BY <1>2, <1>5, ShownHasLoaded
<1>7. AllWired'
  BY <1>2, <1>5 DEF SyncInv, AllWired
<1>8. LoadedInTurn'
  BY <1>6 DEF SyncInv, LoadedInTurn, Range
<1>9. Synced'
  <2>1. \A x \in Range(flight') : ~(Asked(x)' /\ x.op = "save")
    BY <1>2, <1>5
  <2> SUFFICES ASSUME ~astray PROVE (Settled = canvas)'
    BY <2>1 DEF Synced
  <2>2. Settled = canvas
    BY NoneSaving
  <2>3. Settled' = Served(Settled, r)
    <3> DEFINE p == <<r>>
    <3>1. IsSeq(p) /\ Send(p) /\ ServedAll(Settled, p) = Served(Settled, r)
      BY <1>2, Single, ServedOne
    <3> HIDE DEF p
    <3> QED BY <1>1, <3>1, SettledGrows
  <2>4. Served(Settled, r) = Settled
    BY <1>2 DEF Served
  <2> QED BY <2>2, <2>3, <2>4
<1> QED BY <1>4, <1>7, <1>8, <1>9 DEF SyncInv

LEMMA OpenPaneMenuSync ==
    ASSUME EditorAssumption, NumbersInv, SyncInv, Careful, OpenPaneMenu PROVE SyncInv'
<1>1. view = "shown" /\ Idle /\ open.kind = "closed" /\ gestures' = gestures + 1
  BY CarefulIsPatient, WorksOnShown, CoveredNot DEF OpenPaneMenu, Gesture
<1>2. gestures \in Nat
  BY DEF SyncInv, Exchange, Numbered
<1>3. /\ open'.key = gestures + 1 /\ open'.kind = "pane"
      /\ UNCHANGED <<fw, canvas, view, visit, answers, astray, flight>>
  BY DEF OpenPaneMenu, Opened, Closed, Keeps
<1>4. /\ \A r \in Range(flight) : ~Asked(r)'
      /\ \A a \in answers' : ~Came(a)'
  BY <1>1, <1>2, <1>3, NothingOutYet
<1>5. OpenOnCanvas' /\ open'.key \in 0..gestures' /\ open'.key # 0 /\ gestures' \in {gestures, gestures + 1}
  BY <1>1, <1>2, <1>3 DEF OpenOnCanvas
<1> QED BY <1>1, <1>3, <1>4, <1>5, DialogOpens

(* A menu or dialog that opens on a node.                                  *)
LEMMA OpenedOn ==
    ASSUME SyncInv, NEW kind, kind # "closed", NEW n, n # NoNode, OnCanvas(n, Editable)
    PROVE  LET o == Opened(kind, n) IN
           /\ DOMAIN o = DOMAIN Closed /\ o.kind = kind /\ o.key = gestures + 1 /\ o.busy = "no"
           /\ o.id = n /\ o.set = canvas.nodes[n].set /\ o.set.type \in Editable
BY DEF Opened, Closed, OnCanvas

LEMMA OpenNodeMenuSync ==
    ASSUME EditorAssumption, NumbersInv, SyncInv, Careful, NEW n \in Ids, OpenNodeMenu(n)
    PROVE  SyncInv'
<1>1. view = "shown" /\ Idle /\ open.kind = "closed" /\ gestures' = gestures + 1
  BY CarefulIsPatient, WorksOnShown, CoveredNot DEF OpenNodeMenu, Gesture
<1>2. gestures \in Nat /\ n # NoNode
  BY DEF SyncInv, Exchange, Numbered, Ids, NoNode
<1>3. /\ open'.key = gestures + 1 /\ open'.kind = "menu"
      /\ open'.id = n /\ open'.set = canvas.nodes[n].set /\ open'.set.type \in Editable
      /\ n \in DOMAIN canvas.nodes
      /\ UNCHANGED <<fw, canvas, view, visit, answers, astray, flight>>
  BY <1>2, OpenedOn DEF OpenNodeMenu, OnCanvas, Keeps
<1>4. /\ \A r \in Range(flight) : ~Asked(r)'
      /\ \A a \in answers' : ~Came(a)'
  BY <1>1, <1>2, <1>3, NothingOutYet
<1>5. OpenOnCanvas' /\ open'.key \in 0..gestures' /\ open'.key # 0 /\ gestures' \in {gestures, gestures + 1}
  BY <1>1, <1>2, <1>3 DEF OpenOnCanvas
<1> QED BY <1>1, <1>3, <1>4, <1>5, DialogOpens

(* The edit dialog of a load asks for the endpoints, that of a board not.  *)
LEMMA EditingSync ==
    ASSUME EditorAssumption, NumbersInv, SyncInv, view = "shown",
           UNCHANGED <<fw, canvas, view, visit, answers, astray>>,
           ~(open.kind = "edit" /\ open.busy = "saving"),
           NEW o, DOMAIN o = DOMAIN Closed, Editing(o),
           gestures' \in {gestures, gestures + 1}, o.key \in 1..gestures',
           o.id \in DOMAIN canvas.nodes, o.set = canvas.nodes[o.id].set, o.set.type \in Editable,
           open'.key = o.key =>
              /\ \A r \in Range(flight) : ~Asked(r)'
              /\ \A a \in answers' : ~Came(a)'
    PROVE  SyncInv'
<1>1. open'.kind = "edit" /\ open'.key = o.key /\ open'.id = o.id /\ open'.set = o.set
  BY DEF Editing, Closed
<1>2. OpenOnCanvas'
  BY <1>1 DEF OpenOnCanvas
<1>3. gestures \in Nat /\ gestures' \in Nat
  BY DEF SyncInv, Exchange, Numbered
<1>4. CASE o.set.type = "load"
  <2>1. open'.busy = "loading" /\ Send(<<[op |-> "list", key |-> open'.key]>>)
    BY <1>1, <1>4 DEF Editing, Closed
  <2> QED BY <1>1, <1>2, <2>1, DialogAsks
<1>5. CASE o.set.type # "load"
  <2>1. flight' = flight
    BY <1>5 DEF Editing
  <2>2. open'.key \in 0..gestures' /\ open'.key # 0
    BY <1>1, <1>3
  <2> QED BY <1>1, <1>2, <2>1, <2>2, DialogOpens
<1> QED BY <1>4, <1>5

LEMMA DoubleClickSync ==
    ASSUME EditorAssumption, NumbersInv, SyncInv, Careful, NEW n \in Ids, DoubleClick(n)
    PROVE  SyncInv'
<1> DEFINE o == Opened("edit", n)
<1>1. view = "shown" /\ Idle /\ open.kind = "closed" /\ gestures' = gestures + 1
  BY CarefulIsPatient, WorksOnShown, CoveredNot DEF DoubleClick, Gesture
<1>2. gestures \in Nat /\ n # NoNode
  BY DEF SyncInv, Exchange, Numbered, Ids, NoNode
<1>3. /\ DOMAIN o = DOMAIN Closed /\ o.key = gestures + 1
      /\ o.id = n /\ o.set = canvas.nodes[n].set /\ o.set.type \in Editable
  BY <1>2, OpenedOn DEF DoubleClick
<1>4. Editing(o) /\ UNCHANGED <<fw, canvas, view, visit, answers, astray>> /\ n \in DOMAIN canvas.nodes
  BY DEF DoubleClick, Keeps, OnCanvas
<1> HIDE DEF o
<1>5. ASSUME open'.key = o.key
      PROVE  /\ \A r \in Range(flight) : ~Asked(r)'
             /\ \A a \in answers' : ~Came(a)'
  BY <1>1, <1>2, <1>3, <1>4, <1>5, NothingOutYet
<1>6. o.key \in 1..gestures' /\ gestures' \in {gestures, gestures + 1}
  BY <1>1, <1>2, <1>3
<1> QED BY <1>1, <1>3, <1>4, <1>5, <1>6, EditingSync

LEMMA MenuEditSync ==
    ASSUME EditorAssumption, NumbersInv, SyncInv, Careful, MenuEdit PROVE SyncInv'
<1>1. /\ open.kind = "menu" /\ Editing(open) /\ gestures' = gestures
      /\ UNCHANGED <<fw, canvas, view, visit, answers, astray>>
  BY DEF MenuEdit, Keeps
<1>2. /\ view = "shown" /\ Idle /\ open.id \in DOMAIN canvas.nodes
      /\ open.set = canvas.nodes[open.id].set /\ open.set.type \in Editable
  BY <1>1, CarefulIsPatient, OnMenu
<1>3. DOMAIN open = DOMAIN Closed
  BY DEF NumbersInv, Typed
<1>4. open.key \in 1..gestures'
  BY <1>1 DEF SyncInv, Exchange, Numbered
<1>5. ASSUME open'.key = open.key
      PROVE  /\ \A r \in Range(flight) : ~Asked(r)'
             /\ \A a \in answers' : ~Came(a)'
  BY <1>1, <1>2, <1>5, IdleHasNothingOut, StillNothingOut
<1> QED BY <1>1, <1>2, <1>3, <1>4, <1>5, EditingSync

LEMMA OpenAddLoadSync ==
    ASSUME EditorAssumption, NumbersInv, SyncInv, Careful, OpenAddLoad PROVE SyncInv'
<1>1. open.kind = "pane" /\ Idle
  BY DEF OpenAddLoad, Idle
<1>2. view = "shown"
  BY <1>1, CarefulIsPatient, WorksOnShown DEF Closed
<1>3. DOMAIN open = DOMAIN Closed
  BY DEF NumbersInv, Typed
<1>4. /\ open'.kind = "add" /\ open'.busy = "loading" /\ open'.key = open.key /\ gestures' = gestures
      /\ UNCHANGED <<fw, canvas, view, visit, answers, astray>>
      /\ Send(<<[op |-> "list", key |-> open'.key]>>)
  BY <1>3 DEF OpenAddLoad, Keeps, Closed
<1>5. open'.key \in 1..gestures'
  BY <1>1, <1>4 DEF SyncInv, Exchange, Numbered
<1>6. /\ \A r \in Range(flight) : ~Asked(r)'
      /\ \A a \in answers' : ~Came(a)'
  BY <1>1, <1>4, IdleHasNothingOut, StillNothingOut
<1>7. OpenOnCanvas'
  BY <1>4 DEF OpenOnCanvas
<1> QED BY <1>1, <1>2, <1>4, <1>5, <1>6, <1>7, DialogAsks

LEMMA CloseSync ==
    ASSUME EditorAssumption, NumbersInv, SyncInv, Careful, Close PROVE SyncInv'
<1>1. open # Closed /\ open.busy # "saving"
  BY DEF Close, Careful
<1>2. view = "shown"
  BY <1>1, CarefulIsPatient, WorksOnShown
<1>3. /\ open' = Closed /\ gestures' = gestures
      /\ UNCHANGED <<fw, canvas, view, visit, answers, astray, flight>>
  BY DEF Close, Keeps
<1>4. open'.key = 0 /\ open'.kind = "closed"
  BY <1>3 DEF Closed
<1>5. /\ \A r \in Range(flight) : ~Asked(r)'
      /\ \A a \in answers' : ~Came(a)'
  BY <1>1, <1>3, <1>4, NothingOutYet
<1>6. OpenOnCanvas' /\ open'.key \in 0..gestures'
  BY <1>3, <1>4 DEF OpenOnCanvas, SyncInv, Exchange, Numbered
<1> QED BY <1>1, <1>2, <1>3, <1>4, <1>5, <1>6, DialogOpens

-----------------------------------------------------------------------------
(* Saving: the firmware will be ahead of the canvas by what is saved.      *)

LEMMA WhatSuits ==
    ASSUME NEW n, NEW set, Suits(n, set), NEW what
    PROVE  /\ Suits(n, [set EXCEPT !.what = what]) /\ [set EXCEPT !.what = what].what = what
<1>1. set = [type |-> set.type, circuits |-> set.circuits, locked |-> set.locked, what |-> set.what]
  BY DEF Suits
<1> DEFINE new == [set EXCEPT !.what = what]
<1>2. /\ new = [type |-> set.type, circuits |-> set.circuits, locked |-> set.locked, what |-> what]
      /\ new.type = set.type /\ new.circuits = set.circuits /\ new.locked = set.locked
      /\ new.what = what
  BY <1>1
<1> HIDE DEF new
<1>3. set.type = "board" => new = Board(new.circuits, new.what)
  <2> SUFFICES ASSUME set.type = "board" PROVE new = Board(new.circuits, new.what)
    OBVIOUS
  <2>1. set = Board(set.circuits, set.what)
    BY DEF Suits
  <2>2. set.locked = FALSE
    BY <2>1 DEF Board, Blank
  <2> QED BY <1>2, <2>2, Made
<1>4. Suits(n, new)
  BY <1>2, <1>3 DEF Suits
<1> QED BY <1>2, <1>4 DEF new

LEMMA RenamedCanvas ==
    ASSUME NumbersInv, SyncInv, NEW n \in DOMAIN canvas.nodes, NEW what
    PROVE  LET set == [canvas.nodes[n].set EXCEPT !.what = what] IN
           /\ Renamed(canvas, n, what) = With(canvas, n, Node(canvas.nodes[n].place, set))
           /\ Wired(Renamed(canvas, n, what))
<1> DEFINE old == canvas.nodes[n]
           set == [old.set EXCEPT !.what = what]
<1>1. old = [place |-> old.place, set |-> old.set] /\ Suits(n, old.set)
  BY CanvasShape DEF Node
<1>2. Renamed(canvas, n, what)
        = [canvas EXCEPT !.nodes = [canvas.nodes EXCEPT ![n] = [old EXCEPT !.set = set]]]
  BY DEF Renamed
<1>3. [old EXCEPT !.set = set] = Node(old.place, set)
  <2> HIDE DEF old, set
  <2> QED BY <1>1 DEF Node
<1>4. Suits(n, set)
  <2> HIDE DEF old
  <2> QED BY <1>1, WhatSuits
<1>5. DOMAIN canvas.nodes \cup {n} = DOMAIN canvas.nodes
  OBVIOUS
<1> HIDE DEF set
<1>6. Renamed(canvas, n, what) = With(canvas, n, Node(canvas.nodes[n].place, set))
  BY <1>2, <1>3, <1>5, CanvasShape DEF With
<1>7. Wired(With(canvas, n, Node(canvas.nodes[n].place, set)))
  BY <1>4, CanvasShape, WiredWith
<1> QED BY <1>6, <1>7 DEF set

LEMMA SaveSync ==
    ASSUME EditorAssumption, NumbersInv, SyncInv, Careful, NEW what, Save(what) PROVE SyncInv'
<1> PICK r : r = [op |-> "save", visit |-> visit, key |-> open.key, id |-> open.id,
                  set |-> [open.set EXCEPT !.what = what]]
  OBVIOUS
<1>1. open.kind = "edit" /\ open.busy = "no" /\ Idle
  BY DEF Save, Idle
<1>2. view = "shown" /\ IsSeq(flight) /\ DOMAIN open = DOMAIN Closed /\ visit \in Nat
  BY <1>1, CarefulIsPatient, WorksOnShown DEF Closed, NumbersInv, Typed
<1>3. /\ open' = [open EXCEPT !.busy = "saving"] /\ gestures' = gestures
      /\ UNCHANGED <<fw, canvas, view, visit, answers, astray>> /\ Send(<<r>>)
  BY DEF Save, Keeps
<1>4. /\ open'.kind = "edit" /\ open'.busy = "saving" /\ open'.id = open.id
      /\ open'.key = open.key /\ open'.set = open.set
  BY <1>1, <1>2, <1>3 DEF Closed
<1>5. open.id \in DOMAIN canvas.nodes /\ open.set = canvas.nodes[open.id].set
  BY <1>1 DEF SyncInv, OpenOnCanvas
<1>6. Suits(open.id, open.set)
  BY <1>5, CanvasShape
<1>7. Suits(r.id, r.set) /\ r.set.what = what
  BY <1>6, WhatSuits
<1>8. Served(canvas, r) = Renamed(canvas, r.id, r.set.what)
  <2>1. Served(canvas, r) = With(canvas, open.id, Node(canvas.nodes[open.id].place, r.set))
    BY <1>5 DEF Served, UpdateSettings
  <2>2. r.set = [canvas.nodes[open.id].set EXCEPT !.what = what] /\ r.id = open.id
    BY <1>5
  <2> QED BY <1>5, <1>7, <2>1, <2>2, RenamedCanvas
<1>9. /\ r.op = "save" /\ r.visit = visit /\ r.key = open.key /\ r.id = open.id /\ Fitting(r)
  BY <1>7 DEF Fitting
<1>10. /\ \A x \in Range(flight) : ~Asked(x)'
       /\ \A a \in answers' : ~Came(a)'
  BY <1>1, <1>3, <1>4, IdleHasNothingOut, StillNothingOut
<1>11. Numbered'
  <2>1. open'.key \in 1..gestures'
    BY <1>1, <1>3, <1>4 DEF SyncInv, Exchange, Numbered
  <2> QED BY <1>2, <1>3, <1>4, <1>9, <2>1, AskedNumbered
<1>12. Exchange'
  <2>1. Saving(r.id)'
    BY <1>2, <1>3, <1>4, <1>9 DEF Saving
  <2> QED BY <1>2, <1>3, <1>4, <1>9, <1>10, <1>11, <2>1, OneAsked
<1>13. r \in Range(flight') /\ Range(flight') \subseteq Range(flight) \cup {r}
  <2>1. Joins(r)
    BY <1>2, <1>3, JoinsFlight
  <2>2. Len(flight) + 1 \in DOMAIN flight' \ DOMAIN flight
    BY <2>1 DEF Joins
  <2> QED BY <2>1, <2>2 DEF Joins, Range
<1>14. \A x \in Range(flight') \cup answers' : x.op # "graph"
  BY <1>2, <1>3, <1>9, <1>13, ShownHasLoaded
<1>15. AllWired'
  BY <1>3, <1>9, <1>13 DEF SyncInv, AllWired
<1>16. LoadedInTurn'
  BY <1>3, <1>14 DEF SyncInv, LoadedInTurn, Range
<1>17. OpenOnCanvas'
  BY <1>1, <1>3, <1>4 DEF SyncInv, OpenOnCanvas
<1>18. Synced'
  <2>1. Asked(r)'
    BY <1>4, <1>9 DEF Asked
  <2>2. \A x \in Range(flight') : Asked(x)' => x = r
    BY <1>10, <1>13
  <2>3. Settled' = Served(Settled, r)
    <3> DEFINE p == <<r>>
    <3>1. IsSeq(p) /\ Send(p) /\ ServedAll(Settled, p) = Served(Settled, r)
      BY <1>3, Single, ServedOne
    <3> HIDE DEF p
    <3> QED BY <1>2, <1>3, <3>1, SettledGrows
  <2> SUFFICES ASSUME ~astray PROVE Settled' = Renamed(canvas, r.id, r.set.what)
    BY <1>3, <1>9, <1>10, <1>13, <2>1, <2>2 DEF Synced
  <2>4. Settled = canvas
    BY <1>1, <1>2, NoneSaving
  <2> QED BY <1>8, <2>3, <2>4
<1> QED BY <1>12, <1>15, <1>16, <1>17, <1>18 DEF SyncInv

-----------------------------------------------------------------------------
(* Answers.                                                                *)

(* An answer nobody waits for, or none that the canvas depends on.         *)
LEMMA AnswerDropped ==
    ASSUME SyncInv, answers' \subseteq answers,
           UNCHANGED <<fw, canvas, view, visit, open, flight, astray, gestures>>,
           \A a \in answers \ answers' : ~(Came(a) /\ a.op = "saved")
    PROVE  SyncInv'
<1>1. AllWired' /\ LoadedInTurn' /\ OpenOnCanvas'
  BY DEF SyncInv, AllWired, LoadedInTurn, OpenOnCanvas
<1>2. Numbered'
  BY DEF SyncInv, Exchange, Numbered
<1>3. Waits'
  BY DEF SyncInv, Exchange, Waits, Asked, Came, Asking, Saving
<1>4. Once'
  BY DEF SyncInv, Exchange, Once, Asked, Came
<1>5. Synced'
  <2>1. Settled' = Settled
    BY SettledStays
  <2> QED BY <2>1 DEF SyncInv, Synced, Asked, Came
<1> QED BY <1>1, <1>2, <1>3, <1>4, <1>5 DEF SyncInv, Exchange

(* The dialog hears that it can go on.                                     *)
LEMMA DialogAnswered ==
    ASSUME SyncInv, NEW a \in answers, a.op \in {"list", "unsaved"}, Came(a),
           answers' = answers \ {a},
           UNCHANGED <<fw, canvas, view, visit, flight, astray, gestures>>,
           open'.kind = open.kind, open'.key = open.key, open'.id = open.id, open'.set = open.set
    PROVE  SyncInv'
<1>1. NothingOut'
  BY DEF SyncInv, Exchange, Once, NothingOut, Asked, Came
<1>2. Numbered'
  BY DEF SyncInv, Exchange, Numbered
<1>3. Exchange'
  BY <1>1, <1>2, NothingOutExchange
<1>4. AllWired' /\ LoadedInTurn' /\ OpenOnCanvas'
  BY DEF SyncInv, AllWired, LoadedInTurn, OpenOnCanvas
<1>5. Synced'
  <2>1. \A x \in Range(flight) : ~Asked(x)
    BY DEF SyncInv, Exchange, Once
  <2>2. \A b \in answers : Came(b) => b.op # "saved"
    BY DEF SyncInv, Exchange, Once
  <2> SUFFICES ASSUME view = "shown", ~astray PROVE (Settled = canvas)'
    BY <1>1 DEF Synced, NothingOut
  <2> QED BY <2>1, <2>2, SettledStays DEF SyncInv, Synced
<1> QED BY <1>3, <1>4, <1>5 DEF SyncInv

LEMMA ListedSync ==
    ASSUME NumbersInv, SyncInv, NEW a \in answers, Listed(a) \/ UnsavedAnswer(a) PROVE SyncInv'
<1>1. /\ a.op \in {"list", "unsaved"} /\ answers' = answers \ {a}
      /\ UNCHANGED <<fw, canvas, view, visit, flight, astray, gestures>>
  BY DEF Listed, UnsavedAnswer
<1>2. CASE open' = open
  BY <1>1, <1>2, AnswerDropped
<1>3. CASE open' # open
  <2>1. Came(a)
    BY <1>3 DEF Listed, UnsavedAnswer, Came
  <2>2. open'.kind = open.kind /\ open'.key = open.key /\ open'.id = open.id /\ open'.set = open.set
    BY <1>3 DEF Listed, UnsavedAnswer, NumbersInv, Typed, Closed
  <2> QED BY <1>1, <2>1, <2>2, DialogAnswered
<1> QED BY <1>2, <1>3

LEMMA SavedAnswerSync ==
    ASSUME NumbersInv, SyncInv, NEW a \in answers, SavedAnswer(a) PROVE SyncInv'
<1>1. /\ a.op = "saved" /\ answers' = answers \ {a}
      /\ UNCHANGED <<fw, view, visit, flight, astray, gestures>>
  BY DEF SavedAnswer
<1>2. CASE ~Came(a)
  <2>1. view = "away" \/ a.visit # visit
    BY <1>1, <1>2 DEF Came
  <2>2. view = "away" => DOMAIN canvas.nodes = {} /\ open.kind = "closed"
    BY DEF NumbersInv, Hidden, Empty, Closed
  <2>3. canvas' = canvas /\ open' = open
    BY <2>1, <2>2 DEF SavedAnswer
  <2> QED BY <1>1, <1>2, <2>3, AnswerDropped
<1>3. CASE Came(a)
  <2>1. Saving(a.id) /\ a.visit = visit
    BY <1>1, <1>3 DEF Came, SyncInv, Exchange, Waits
  <2>2. a.id \in DOMAIN canvas.nodes /\ view = "shown"
    BY <2>1 DEF Saving, SyncInv, OpenOnCanvas
  <2>3. canvas' = Renamed(canvas, a.id, a.what) /\ open' = Closed
    BY <2>1, <2>2 DEF SavedAnswer, Saving, Renamed
  <2>4. \A x \in Range(flight) : ~Asked(x)
    BY <1>3 DEF SyncInv, Exchange, Once
  <2>5. \A b \in answers' : ~Came(b)
    BY <1>1, <1>3 DEF SyncInv, Exchange, Once
  <2>6. open'.key = 0 /\ open'.kind = "closed"
    BY <2>3 DEF Closed
  <2>7. NothingOut'
    BY <1>1, <2>4, <2>5, <2>6 DEF SyncInv, Exchange, Numbered, NothingOut, Asked, Came
  <2>8. Numbered'
    BY <1>1, <2>6 DEF SyncInv, Exchange, Numbered
  <2>9. Exchange'
    BY <2>7, <2>8, NothingOutExchange
  <2>10. AllWired'
    BY <1>1, <2>2, <2>3, RenamedCanvas DEF SyncInv, AllWired
  <2>11. LoadedInTurn' /\ OpenOnCanvas'
    BY <1>1, <2>6 DEF SyncInv, LoadedInTurn, OpenOnCanvas
  <2>12. Synced'
    <3> SUFFICES ASSUME ~astray PROVE (Settled = canvas)'
      BY <1>1, <2>7 DEF Synced, NothingOut
    <3>1. Settled = Renamed(canvas, a.id, a.what)
      BY <1>1, <1>3, <2>2 DEF SyncInv, Synced
    <3> QED BY <1>1, <2>3, <3>1, SettledStays
  <2> QED BY <2>9, <2>10, <2>11, <2>12 DEF SyncInv
<1> QED BY <1>2, <1>3

-----------------------------------------------------------------------------
(* Mounting and leaving the page.                                          *)

LEMMA HiddenIsIdle ==
    ASSUME NumbersInv, view # "shown" PROVE Idle /\ open = Closed /\ canvas = Empty
BY DEF NumbersInv, Hidden, Idle, Closed

LEMMA LoadFailsSync ==
    ASSUME NumbersInv, SyncInv, NEW a \in answers, LoadFails(a) PROVE SyncInv'
<1>1. /\ a.op = "noGraph" /\ answers' = answers \ {a}
      /\ UNCHANGED <<fw, canvas, visit, open, flight, astray, gestures>>
  BY DEF LoadFails
<1>2. CASE view' = view
  BY <1>1, <1>2, AnswerDropped
<1>3. CASE view' # view
  <2>1. view = "loading" /\ view' = "failed" /\ a.visit = visit
    BY <1>3 DEF LoadFails
  <2>2. NothingOut
    BY <2>1, HiddenIsIdle, IdleHasNothingOut
  <2>3. NothingOut'
    BY <1>1, <2>1, <2>2 DEF NothingOut, Asked, Came
  <2>4. Numbered'
    BY <1>1 DEF SyncInv, Exchange, Numbered
  <2>5. \A x \in Range(flight) \cup answers : x.op # "graph"
    BY <1>1, <2>1 DEF SyncInv, LoadedInTurn
  <2>6. LoadedInTurn'
    BY <1>1, <2>1, <2>5 DEF SyncInv, LoadedInTurn, Range
  <2>7. AllWired' /\ OpenOnCanvas' /\ Synced'
    BY <1>1, <2>1 DEF SyncInv, AllWired, OpenOnCanvas, Synced
  <2> QED BY <2>3, <2>4, <2>6, <2>7, NothingOutExchange DEF SyncInv
<1> QED BY <1>2, <1>3

LEMMA LeaveSync ==
    ASSUME NumbersInv, SyncInv, Careful, Leave PROVE SyncInv'
<1>1. /\ view # "loading" /\ view' = "away" /\ canvas' = Empty /\ open' = Closed
      /\ UNCHANGED <<fw, visit, flight, answers, astray, gestures>>
  BY DEF Leave, Careful
<1>2. open'.key = 0 /\ open'.kind = "closed"
  BY <1>1 DEF Closed
<1>3. NothingOut'
  BY <1>1, <1>2 DEF SyncInv, Exchange, Numbered, NothingOut, Asked, Came
<1>4. Numbered'
  BY <1>1, <1>2 DEF SyncInv, Exchange, Numbered
<1>5. LoadedInTurn'
  BY <1>1 DEF SyncInv, LoadedInTurn
<1>6. AllWired'
  <2>1. Wired(Empty)
    BY DEF Wired, Empty
  <2> QED BY <1>1, <2>1 DEF SyncInv, AllWired
<1>7. OpenOnCanvas' /\ Synced'
  BY <1>1, <1>2 DEF OpenOnCanvas, Synced
<1> QED BY <1>3, <1>4, <1>5, <1>6, <1>7, NothingOutExchange DEF SyncInv

LEMMA EnterSync == ASSUME NumbersInv, SyncInv, Enter PROVE SyncInv'
<1> PICK r : r = [op |-> "graph", visit |-> visit + 1]
  OBVIOUS
<1>1. /\ view = "away" /\ view' = "loading" /\ visit' = visit + 1 /\ Send(<<r>>)
      /\ UNCHANGED <<fw, canvas, open, answers, astray, gestures>>
  BY DEF Enter, Keeps
<1>2. IsSeq(flight) /\ visit \in Nat
  BY DEF NumbersInv, Typed
<1>3. r.op = "graph" /\ r.visit = visit' /\ Fitting(r)
  BY <1>1 DEF Fitting
<1>4. Joins(r)
  BY <1>1, <1>2, JoinsFlight
<1>5. open.key = 0 /\ open.kind = "closed"
  BY <1>1, HiddenIsIdle DEF Closed
<1>6. Numbered
  BY DEF SyncInv, Exchange
<1>7. \A x \in Range(flight') : x \in Range(flight) \/ x = r
  BY <1>4 DEF Joins
<1>8. Numbered'
  BY <1>1, <1>2, <1>3, <1>6, <1>7 DEF Numbered
<1>9. NothingOut'
  BY <1>1, <1>2, <1>3, <1>5, <1>6, <1>7 DEF Numbered, NothingOut, Asked, Came
<1>10. \A x \in Range(flight) \cup answers : x.op # "graph"
  BY <1>1 DEF SyncInv, LoadedInTurn, Range
<1>11. LoadedInTurn'
  <2>1. \A i \in DOMAIN flight' : flight'[i].op = "graph" => i = Len(flight) + 1 /\ flight'[i] = r
    BY <1>4, <1>10 DEF Joins, Range
  <2>2. Len(flight') = Len(flight) + 1
    <3>1. Len(flight') \in Nat /\ DOMAIN flight' = 1..Len(flight')
      BY <1>4, SeqFacts DEF Joins
    <3> QED BY <1>4, <3>1 DEF Joins
  <2>3. \A a \in answers : a.op = "noGraph" => a.visit \in 0..visit' /\ a.visit # visit'
    BY <1>1, <1>2 DEF SyncInv, LoadedInTurn
  <2> QED BY <1>1, <1>3, <1>10, <2>1, <2>2, <2>3 DEF LoadedInTurn
<1>12. AllWired'
  BY <1>1, <1>3, <1>7 DEF SyncInv, AllWired
<1>13. OpenOnCanvas' /\ Synced'
  BY <1>1, <1>5 DEF OpenOnCanvas, Synced
<1> QED BY <1>8, <1>9, <1>11, <1>12, <1>13, NothingOutExchange DEF SyncInv

LEMMA UnallocatedSuits == ASSUME EditorAssumption PROVE Suits(Unallocated, Fixed("unallocated"))
<1> DEFINE set == Fixed("unallocated")
<1>1. /\ set = [x \in DOMAIN set |-> set[x]] /\ DOMAIN set = {"type", "circuits", "locked", "what"}
      /\ set.type = "unallocated"
  BY DEF Fixed, Blank
<1> HIDE DEF set
<1>2. set = [type |-> set.type, circuits |-> set.circuits, locked |-> set.locked, what |-> set.what]
  BY <1>1
<1>3. FixedId(Unallocated)
  BY DEF EditorAssumption, FixedId, Unallocated
<1>4. Unallocated \notin OfType("pv") \cup OfType("battery")
  BY SavedAssumption DEF SavedAssumption
<1>5. Suits(Unallocated, set)
  BY <1>1, <1>2, <1>3, <1>4 DEF Suits, Editable
<1> QED BY <1>5 DEF set

(* The page shows the graph the firmware has, and creates Unallocated on   *)
(* both.                                                                   *)
LEMMA LoadGraphSync ==
    ASSUME EditorAssumption, NumbersInv, SyncInv, NEW a \in answers, LoadGraph(a) PROVE SyncInv'
<1>1. /\ a.op = "graph" /\ view = "loading" /\ flight = << >>
      /\ a = [op |-> "graph", visit |-> visit, got |-> fw] /\ a.got = fw
  <2>1. a.op = "graph"
    BY DEF LoadGraph
  <2>2. view = "loading" /\ flight = << >> /\ a = [op |-> "graph", visit |-> visit, got |-> fw]
    BY <2>1 DEF SyncInv, LoadedInTurn
  <2> QED BY <2>1, <2>2
<1>2. /\ view' = "shown" /\ answers' = answers \ {a}
      /\ UNCHANGED <<fw, visit, open, astray, gestures>>
  BY <1>1 DEF LoadGraph
<1>3. NothingOut
  BY <1>1, HiddenIsIdle, IdleHasNothingOut
<1>4. open.kind = "closed"
  BY <1>1, HiddenIsIdle DEF Closed
<1>5. \A b \in answers' : b.op # "graph"
  BY <1>1, <1>2 DEF SyncInv, LoadedInTurn
<1>6. IsGraph(fw) /\ Wired(fw) /\ IsSeq(flight)
  BY DEF NumbersInv, Typed, SyncInv, AllWired
<1>7. /\ Settled' = canvas' /\ Wired(canvas')
      /\ IsSeq(flight') /\ \A x \in Range(flight') : Plain(x)
  <2>1. CASE Unallocated \in DOMAIN fw.nodes
    <3>1. flight' = << >> /\ canvas' = fw
      BY <1>1, <2>1 DEF LoadGraph
    <3>2. Settled' = fw
      BY <1>2, <3>1, ServedNone DEF Settled
    <3>3. Range(flight') = {}
      BY <3>1 DEF Range
    <3> QED BY <1>1, <1>6, <3>1, <3>2, <3>3
  <2>2. CASE Unallocated \notin DOMAIN fw.nodes
    <3>1. canvas' = With(fw, Unallocated, Node("spot", Fixed("unallocated")))
      BY <1>1, <2>2 DEF LoadGraph
    <3>2. flight' = <<PutUnallocated>>
      <4>1. flight' = Append(flight, PutUnallocated)
        BY <1>1, <2>2 DEF LoadGraph, PutUnallocated
      <4> HIDE DEF PutUnallocated
      <4> QED BY <1>1, <4>1
    <3>3. Settled' = Served(fw, PutUnallocated)
      BY <1>2, <3>2, ServedOne DEF Settled
    <3>4. Served(fw, PutUnallocated) = canvas'
      BY <3>1 DEF Served, Upsert, PutUnallocated
    <3>5. Wired(canvas')
      BY <1>6, <3>1, UnallocatedSuits, WiredWith
    <3>6. Plain(PutUnallocated)
      BY UnallocatedSuits DEF PutUnallocated, Plain, Fitting
    <3>7. IsSeq(flight') /\ Range(flight') = {PutUnallocated}
      BY <3>2, Single
    <3> QED BY <3>3, <3>4, <3>5, <3>6, <3>7
  <2> QED BY <2>1, <2>2
<1>8. AllWired'
  BY <1>2, <1>6, <1>7 DEF AllWired, Plain
<1>9. LoadedInTurn'
  <2>1. \A i \in DOMAIN flight' : flight'[i].op # "graph"
    BY <1>7 DEF Plain, Range
  <2>2. \A b \in answers' : b.op = "noGraph" => b.visit \in 0..visit
    BY <1>2 DEF SyncInv, LoadedInTurn
  <2>3. \A x \in Range(flight') \cup answers' : x.op # "graph"
    BY <1>5, <1>7 DEF Plain
  <2> QED BY <1>2, <1>5, <2>1, <2>2, <2>3 DEF LoadedInTurn
<1>10. Numbered'
  BY <1>2, <1>7 DEF SyncInv, Exchange, Numbered, Plain
<1>11. NothingOut'
  BY <1>1, <1>2, <1>3, <1>7 DEF NothingOut, Asked, Came, Plain
<1>12. OpenOnCanvas' /\ Synced'
  BY <1>2, <1>4, <1>7, <1>11 DEF OpenOnCanvas, Synced, NothingOut
<1> QED BY <1>8, <1>9, <1>10, <1>11, <1>12, NothingOutExchange DEF SyncInv

-----------------------------------------------------------------------------
(* The oldest request arrives, or is lost.                                 *)

LEMMA ArriveExchange ==
    ASSUME NumbersInv, SyncInv, 1 \in DOMAIN flight, flight' = RemoveAt(flight, 1),
           \/ answers' = answers \cup Answer(flight[1])
           \/ answers' = answers \cup Refusal(flight[1]),
           UNCHANGED <<view, visit, open, gestures>>
    PROVE  Exchange'
<1> PICK r : r = flight[1]
  OBVIOUS
<1>1. /\ IsSeq(flight') /\ Range(flight') \subseteq Range(flight)
      /\ DOMAIN flight' = 1..(Len(flight) - 1)
      /\ \A i \in DOMAIN flight' : i + 1 \in DOMAIN flight /\ flight'[i] = flight[i + 1]
  BY OldestRemoved DEF NumbersInv, Typed
<1>2. Len(flight) \in Nat /\ r \in Range(flight)
  BY SeqFacts DEF NumbersInv, Typed
<1>3. Numbered /\ Waits /\ Once
  BY DEF SyncInv, Exchange
<1>4. PICK b : /\ answers' \subseteq answers \cup {b}
               /\ b \in answers' \ answers =>
                    \/ r.op = "list" /\ b.op = "list" /\ b.key = r.key
                    \/ r.op = "save" /\ b.op = "saved" /\ b.visit = r.visit /\ b.id = r.id
                    \/ r.op = "save" /\ b.op = "unsaved" /\ b.key = r.key
                    \/ b.op \in {"graph", "noGraph"}
  <2>1. CASE answers' = answers \cup Answer(r)
    <3>1. CASE r.op \in {"graph", "list", "save"}
      <4>1. PICK b : Answer(r) = {b}
        BY <3>1 DEF Answer
      <4>2. \/ r.op = "list" /\ b.op = "list" /\ b.key = r.key
            \/ r.op = "save" /\ b.op = "saved" /\ b.visit = r.visit /\ b.id = r.id
            \/ b.op \in {"graph", "noGraph"}
        <5>1. b \in Answer(r)
          BY <4>1
        <5> QED BY <3>1, <5>1 DEF Answer
      <4> QED BY <2>1, <4>1, <4>2
    <3>2. CASE r.op \notin {"graph", "list", "save"}
      BY <2>1, <3>2 DEF Answer
    <3> QED BY <3>1, <3>2
  <2>2. CASE answers' = answers \cup Refusal(r)
    <3>1. CASE r.op \in {"graph", "list", "save"}
      <4>1. PICK b : Refusal(r) = {b}
        BY <3>1 DEF Refusal
      <4>2. \/ r.op = "list" /\ b.op = "list" /\ b.key = r.key
            \/ r.op = "save" /\ b.op = "unsaved" /\ b.key = r.key
            \/ b.op \in {"graph", "noGraph"}
        <5>1. b \in Refusal(r)
          BY <4>1
        <5> QED BY <3>1, <5>1 DEF Refusal
      <4> QED BY <2>2, <4>1, <4>2
    <3>2. CASE r.op \notin {"graph", "list", "save"}
      BY <2>2, <3>2 DEF Refusal
    <3> QED BY <3>1, <3>2
  <2> QED BY <2>1, <2>2
<1>5. b \in answers' \ answers /\ Came(b) => Asked(r)
  BY <1>4 DEF Came, Asked
<1>6. Numbered'
  <2>1. /\ r.op \in {"list", "save"} => r.key \in 1..gestures
        /\ r.op = "save" => r.visit \in 0..visit
    BY <1>2, <1>3 DEF Numbered
  <2> QED BY <1>1, <1>3, <1>4, <2>1 DEF Numbered
<1>7. Waits'
  <2>1. \A x \in Range(flight') : Asked(x) =>
          IF x.op = "list" THEN Asking ELSE Saving(x.id) /\ x.visit = visit /\ x.key = open.key
    BY <1>1, <1>3 DEF Waits
  <2>2. Asked(r) => IF r.op = "list" THEN Asking ELSE Saving(r.id) /\ r.visit = visit /\ r.key = open.key
    BY <1>2, <1>3 DEF Waits
  <2>3. Saving(r.id) => Saving(open.id)
    BY DEF Saving
  <2>4. \A a \in answers' : Came(a) => /\ a.op = "list" => Asking
                                       /\ a.op = "saved" => Saving(a.id)
                                       /\ a.op = "unsaved" => Saving(open.id)
    <3> SUFFICES ASSUME NEW a \in answers', Came(a)
                 PROVE  /\ a.op = "list" => Asking
                        /\ a.op = "saved" => Saving(a.id)
                        /\ a.op = "unsaved" => Saving(open.id)
      OBVIOUS
    <3>1. CASE a \in answers
      BY <1>3, <3>1 DEF Waits
    <3>2. CASE a \notin answers
      <4>1. a = b /\ b \in answers' \ answers
        BY <1>4, <3>2
      <4>2. \/ r.op = "list" /\ a.op = "list"
            \/ r.op = "save" /\ a.op = "saved" /\ a.id = r.id
            \/ r.op = "save" /\ a.op = "unsaved"
            \/ a.op \in {"graph", "noGraph"}
        BY <1>4, <4>1
      <4>3. Asked(r)
        BY <1>5, <4>1
      <4> QED BY <2>2, <2>3, <4>2, <4>3
    <3> QED BY <3>1, <3>2
  <2> QED BY <2>1, <2>4 DEF Waits, Asked, Came, Asking, Saving
<1>8. \A i \in DOMAIN flight' : ~(Asked(flight'[i]) /\ Asked(r))
  <2> SUFFICES ASSUME NEW i \in DOMAIN flight', Asked(flight'[i]), Asked(r) PROVE FALSE
    OBVIOUS
  <2>1. i + 1 = 1
    BY <1>1, <1>3 DEF Once
  <2> QED BY <1>1, <1>2, <2>1
<1>9. Once'
  <2>1. ASSUME NEW i \in DOMAIN flight', NEW j \in DOMAIN flight',
               Asked(flight'[i]), Asked(flight'[j])
        PROVE  i = j
    <3>1. i + 1 = j + 1
      BY <1>1, <1>3, <2>1 DEF Once
    <3> QED BY <1>1, <1>2, <3>1
  <2>2. ASSUME NEW a \in answers', Came(a), a \notin answers
        PROVE  a = b /\ Asked(r)
    BY <1>4, <1>5, <2>2
  <2>3. \A a \in answers : ~(Asked(r) /\ Came(a))
    BY <1>2, <1>3 DEF Once
  <2>4. ASSUME NEW a \in answers', NEW c \in answers', Came(a), Came(c) PROVE a = c
    <3>1. CASE a \in answers /\ c \in answers
      BY <1>3, <2>4, <3>1 DEF Once
    <3>2. CASE a \notin answers \/ c \notin answers
      BY <2>2, <2>3, <2>4, <3>2
    <3> QED BY <3>1, <3>2
  <2>5. ASSUME NEW x \in Range(flight'), NEW a \in answers', Asked(x), Came(a) PROVE FALSE
    <3>1. CASE a \in answers
      BY <1>1, <1>3, <2>5, <3>1 DEF Once
    <3>2. CASE a \notin answers
      BY <1>8, <2>2, <2>5, <3>2 DEF Range
    <3> QED BY <3>1, <3>2
  <2> QED BY <2>1, <2>4, <2>5 DEF Once, Asked, Came
<1> QED BY <1>6, <1>7, <1>9 DEF Exchange

LEMMA ArriveInTurn ==
    ASSUME NumbersInv, SyncInv, 1 \in DOMAIN flight, flight' = RemoveAt(flight, 1),
           \/ answers' = answers \cup Answer(flight[1]) /\ fw' = Served(fw, flight[1])
           \/ answers' = answers \cup Refusal(flight[1]),
           UNCHANGED <<view, visit>>
    PROVE  LoadedInTurn'
<1> PICK r : r = flight[1]
  OBVIOUS
<1>1. /\ IsSeq(flight') /\ Range(flight') \subseteq Range(flight)
      /\ DOMAIN flight' = 1..(Len(flight) - 1)
      /\ \A i \in DOMAIN flight' : i + 1 \in DOMAIN flight /\ flight'[i] = flight[i + 1]
  BY OldestRemoved DEF NumbersInv, Typed
<1>2. Len(flight) \in Nat /\ Len(flight') = Len(flight) - 1 /\ flight # << >> /\ r \in Range(flight)
  <2>1. Len(flight) \in Nat /\ DOMAIN flight = 1..Len(flight) /\ r \in Range(flight)
    BY SeqFacts DEF NumbersInv, Typed
  <2>2. Len(flight') = Len(flight) - 1
    BY OldestRemoved DEF NumbersInv, Typed
  <2>3. flight # << >>
    BY <2>1
  <2> QED BY <2>1, <2>2, <2>3
<1>3. LoadedInTurn
  BY DEF SyncInv
<1>4. \A a \in answers : a.op # "graph"
  BY <1>2, <1>3 DEF LoadedInTurn
<1>5. ASSUME NEW i \in DOMAIN flight', flight'[i].op = "graph"
      PROVE  view = "loading" /\ i = Len(flight') /\ flight'[i].visit = visit
  BY <1>1, <1>2, <1>3, <1>5 DEF LoadedInTurn
<1>6. r.op = "graph" => /\ view = "loading" /\ r.visit = visit /\ flight' = << >>
  <2>1. r.op = "graph" => view = "loading" /\ r.visit = visit /\ Len(flight) = 1
    BY <1>3 DEF LoadedInTurn
  <2>2. Len(flight) = 1 => flight' = << >>
    BY <1>1, <1>2 DEF IsSeq
  <2> QED BY <2>1, <2>2
<1>7. \A a \in answers' : a.op = "graph" =>
        r.op = "graph" /\ a = [op |-> "graph", visit |-> r.visit, got |-> fw] /\ fw' = fw
  <2>1. \A a \in Refusal(r) : a.op # "graph"
    BY DEF Refusal
  <2>2. \A a \in Answer(r) : a.op = "graph" =>
          r.op = "graph" /\ a = [op |-> "graph", visit |-> r.visit, got |-> fw]
    BY DEF Answer
  <2>3. r.op = "graph" => Served(fw, r) = fw
    BY DEF Served
  <2> QED BY <1>4, <2>1, <2>2, <2>3
<1>8. \A a \in answers' : a.op = "noGraph" => a \in answers \/ (r.op = "graph" /\ a.visit = r.visit
                                                                /\ answers' = answers \cup Refusal(r))
  <2>1. \A a \in Answer(r) : a.op # "noGraph"
    BY DEF Answer
  <2>2. \A a \in Refusal(r) : a.op = "noGraph" => r.op = "graph" /\ a.visit = r.visit
    BY DEF Refusal
  <2> QED BY <2>1, <2>2
<1>9. ASSUME NEW a \in answers', a.op = "noGraph"
      PROVE  /\ a.visit \in 0..visit
             /\ a.visit = visit => \A x \in Range(flight') \cup answers' : x.op # "graph"
  <2>1. CASE a \in answers
    <3>1. a.visit \in 0..visit
      BY <1>3, <1>9, <2>1 DEF LoadedInTurn
    <3>2. a.visit = visit => r.op # "graph" /\ \A x \in Range(flight') : x.op # "graph"
      BY <1>1, <1>2, <1>3, <1>9, <2>1 DEF LoadedInTurn
    <3> QED BY <1>7, <3>1, <3>2
  <2>2. CASE a \notin answers
    <3>1. r.op = "graph" /\ a.visit = r.visit /\ answers' = answers \cup Refusal(r)
      BY <1>8, <1>9, <2>2
    <3>2. visit \in Nat /\ a.visit = visit
      BY <1>6, <3>1 DEF NumbersInv, Typed
    <3>3. Range(flight') = {}
      BY <1>6, <3>1 DEF Range
    <3>4. \A x \in Refusal(r) : x.op # "graph"
      BY DEF Refusal
    <3> QED BY <1>4, <3>1, <3>2, <3>3, <3>4
  <2> QED BY <2>1, <2>2
<1> QED BY <1>5, <1>6, <1>7, <1>9 DEF LoadedInTurn

LEMMA ServeSync ==
    ASSUME EditorAssumption, NumbersInv, SyncInv, InOrder, NEW i, Serve(i) PROVE SyncInv'
<1> PICK r : r = flight[1]
  OBVIOUS
<1>1. /\ 1 \in DOMAIN flight /\ fw' = Served(fw, r) /\ answers' = answers \cup Answer(r)
      /\ flight' = RemoveAt(flight, 1) /\ astray' = (astray /\ r.op # "graph")
      /\ UNCHANGED <<canvas, view, visit, open, gestures>>
  BY DEF Serve, Arrivals, InOrder
<1>2. IsSeq(flight) /\ IsGraph(fw) /\ r \in Range(flight)
  BY <1>1 DEF NumbersInv, Typed, Range
<1>3. Range(flight') \subseteq Range(flight)
  BY <1>1, <1>2, OldestRemoved
<1>4. Exchange'
  BY <1>1, ArriveExchange
<1>5. LoadedInTurn'
  BY <1>1, ArriveInTurn
<1>6. AllWired'
  <2>1. Wired(fw) /\ Fitting(r)
    BY <1>2 DEF SyncInv, AllWired
  <2>2. Wired(fw')
    BY <1>1, <1>2, <2>1, ServedWired
  <2> QED BY <1>1, <1>3, <2>2 DEF SyncInv, AllWired
<1>7. OpenOnCanvas'
  BY <1>1 DEF SyncInv, OpenOnCanvas
<1>8. Synced'
  <2> SUFFICES ASSUME view = "shown", astray' = FALSE PROVE Synced'
    BY <1>1 DEF Synced
  <2>1. r.op # "graph"
    BY <1>2, ShownHasLoaded
  <2>2. ~astray
    BY <1>1, <2>1
  <2>3. Settled' = Settled
    <3>1. ServedAll(Served(fw, flight[1]), RemoveAt(flight, 1)) = ServedAll(fw, flight)
      BY <1>1, <1>2, ServedOldest
    <3> QED BY <1>1, <3>1 DEF Settled
  <2>4. \A x \in Range(flight) : x = r \/ x \in Range(flight')
    <3> SUFFICES ASSUME NEW j \in DOMAIN flight PROVE flight[j] = r \/ flight[j] \in Range(flight')
      BY DEF Range
    <3>1. CASE j = 1
      BY <3>1
    <3>2. CASE j # 1
      <4>1. Len(flight) \in Nat /\ DOMAIN flight = 1..Len(flight)
        BY <1>2, SeqFacts
      <4>2. DOMAIN flight' = 1..(Len(flight) - 1)
        BY <1>1, <1>2, OldestRemoved
      <4>3. PICK k \in DOMAIN flight' : j = k + 1
        <5>1. j - 1 \in 1..(Len(flight) - 1) /\ j = (j - 1) + 1
          BY <3>2, <4>1
        <5> QED BY <4>2, <5>1
      <4>4. flight'[k] = flight[k + 1]
        BY <1>1, <1>2, OldestRemoved
      <4> QED BY <4>3, <4>4 DEF Range
    <3> QED BY <3>1, <3>2
  <2>5. ASSUME Asked(r), r.op = "save"
        PROVE  \E a \in answers' : Came(a) /\ a.op = "saved"
    <3> PICK a : a = [op |-> "saved", visit |-> r.visit, id |-> r.id, what |-> r.set.what]
      OBVIOUS
    <3>1. a \in answers'
      BY <1>1, <2>5 DEF Answer
    <3>2. r.visit = visit
      BY <1>2, <2>5 DEF SyncInv, Exchange, Waits
    <3> QED BY <3>1, <3>2 DEF Came
  <2>6. \A a \in answers' : a \notin answers /\ Came(a) /\ a.op = "saved" =>
          /\ Asked(r) /\ r.op = "save" /\ a.id = r.id /\ a.what = r.set.what
    BY <1>1 DEF Answer, Came, Asked
  <2>7. \/ \E x \in Range(flight') : Asked(x) /\ x.op = "save"
        \/ \E a \in answers' : Came(a) /\ a.op = "saved"
        \/ Settled = canvas
    <3>1. CASE \E x \in Range(flight) : Asked(x) /\ x.op = "save"
      BY <2>4, <2>5, <3>1
    <3>2. CASE \E a \in answers : Came(a) /\ a.op = "saved"
      BY <1>1, <3>2
    <3> QED BY <2>2, <3>1, <3>2 DEF SyncInv, Synced
  <2>8. \A x \in Range(flight') :
          Asked(x) /\ x.op = "save" => Settled = Renamed(canvas, x.id, x.set.what)
    BY <1>3, <2>2 DEF SyncInv, Synced
  <2>9. \A a \in answers' : Came(a) /\ a.op = "saved" => Settled = Renamed(canvas, a.id, a.what)
    <3> SUFFICES ASSUME NEW a \in answers', Came(a), a.op = "saved"
                 PROVE  Settled = Renamed(canvas, a.id, a.what)
      OBVIOUS
    <3>1. CASE a \in answers
      BY <2>2, <3>1 DEF SyncInv, Synced
    <3>2. CASE a \notin answers
      <4>1. Asked(r) /\ r.op = "save" /\ a.id = r.id /\ a.what = r.set.what
        BY <2>6, <3>2
      <4>2. Settled = Renamed(canvas, r.id, r.set.what)
        BY <1>2, <2>2, <4>1 DEF SyncInv, Synced
      <4> QED BY <4>1, <4>2
    <3> QED BY <3>1, <3>2
  <2>10. \A x : (Asked(x)' <=> Asked(x)) /\ (Came(x)' <=> Came(x))
    BY <1>1 DEF Asked, Came
  <2>11. \A x : Renamed(canvas, x.id, x.what)' = Renamed(canvas, x.id, x.what)
    BY <1>1 DEF Renamed
  <2>12. \A x : Renamed(canvas, x.id, x.set.what)' = Renamed(canvas, x.id, x.set.what)
    BY <1>1 DEF Renamed
  <2> QED BY <1>1, <2>3, <2>7, <2>8, <2>9, <2>10, <2>11, <2>12 DEF Synced
<1> QED BY <1>4, <1>5, <1>6, <1>7, <1>8 DEF SyncInv

LEMMA LoseSync ==
    ASSUME EditorAssumption, NumbersInv, SyncInv, InOrder, NEW i, Lose(i) PROVE SyncInv'
<1> PICK r : r = flight[1]
  OBVIOUS
<1>1. /\ 1 \in DOMAIN flight /\ fw' \in {fw, Served(fw, r)} /\ answers' = answers \cup Refusal(r)
      /\ flight' = RemoveAt(flight, 1) /\ astray' = TRUE
      /\ UNCHANGED <<canvas, view, visit, open, gestures>>
  BY DEF Lose, Arrivals, InOrder
<1>2. IsSeq(flight) /\ IsGraph(fw) /\ r \in Range(flight)
  BY <1>1 DEF NumbersInv, Typed, Range
<1>3. Range(flight') \subseteq Range(flight)
  BY <1>1, <1>2, OldestRemoved
<1>4. Exchange'
  BY <1>1, ArriveExchange
<1>5. LoadedInTurn'
  BY <1>1, ArriveInTurn
<1>6. AllWired'
  <2>1. Wired(fw) /\ Fitting(r)
    BY <1>2 DEF SyncInv, AllWired
  <2>2. Wired(Served(fw, r))
    BY <1>2, <2>1, ServedWired
  <2>3. Wired(fw')
    BY <1>1, <2>1, <2>2
  <2> QED BY <1>1, <1>3, <2>3 DEF SyncInv, AllWired
<1>7. OpenOnCanvas'
  BY <1>1 DEF SyncInv, OpenOnCanvas
<1>8. Synced'
  BY <1>1 DEF Synced
<1> QED BY <1>4, <1>5, <1>6, <1>7, <1>8 DEF SyncInv

(* Nothing the invariant speaks of changes.                                *)
LEMMA SyncStays ==
    ASSUME SyncInv,
           UNCHANGED <<fw, canvas, view, visit, open, flight, answers, astray, gestures>>
    PROVE  SyncInv'
BY AnswerDropped

LEMMA GesturesSync ==
    ASSUME EditorAssumption, NumbersInv, SyncInv, Careful, Gestures PROVE SyncInv'
<1>1. ASSUME NEW n \in Ids, Select(n) PROVE SyncInv'
  BY <1>1, SyncStays DEF Select, Keeps
<1>2. ASSUME NEW n \in Ids, DragStop(n) PROVE SyncInv'
  BY <1>2, DragStopSync
<1>3. ASSUME NEW n \in Ids, OpenNodeMenu(n) PROVE SyncInv'
  BY <1>3, OpenNodeMenuSync
<1>4. ASSUME NEW n \in Ids, DoubleClick(n) PROVE SyncInv'
  BY <1>4, DoubleClickSync
<1>5. ASSUME NEW a \in Ids, NEW b \in Ids, Connect(a, b) PROVE SyncInv'
  BY <1>5, ConnectSync
<1>6. ASSUME NEW a \in Ids, NEW b \in Ids, SetCircuits(a, b) PROVE SyncInv'
  BY <1>6, SetCircuitsSync
<1>7. ASSUME NEW e \in canvas.edges, RemoveEdge(e) PROVE SyncInv'
  BY <1>7, RemoveEdgeSync
<1>8. CASE DeleteKey
  BY <1>8, DeleteKeySync
<1>9. CASE OpenPaneMenu
  BY <1>9, OpenPaneMenuSync
<1>10. CASE AddSubConsumerUnit \/ \E e \in Endpoints : AddLoad(e)
  BY <1>10, AddsSync
<1>11. CASE OpenAddLoad
  BY <1>11, OpenAddLoadSync
<1>12. CASE DeleteSubConsumerUnit
  BY <1>12, DeleteSubConsumerUnitSync
<1>13. CASE DeleteLoad
  BY <1>13, DeleteLoadSync
<1>14. CASE MenuEdit
  BY <1>14, MenuEditSync
<1>15. CASE Close
  BY <1>15, CloseSync
<1>16. ASSUME NEW what, Save(what) PROVE SyncInv'
  BY <1>16, SaveSync
<1> QED BY <1>1, <1>2, <1>3, <1>4, <1>5, <1>6, <1>7, <1>8, <1>9, <1>10, <1>11, <1>12, <1>13,
           <1>14, <1>15, <1>16 DEF Gestures

LEMMA SyncStep ==
    EditorAssumption /\ Careful /\ InOrder /\ NumbersInv /\ SyncInv /\ [Next]_vars => SyncInv'
<1> SUFFICES ASSUME EditorAssumption, Careful, InOrder, NumbersInv, SyncInv, [Next]_vars
             PROVE  SyncInv'
  OBVIOUS
<1>1. ASSUME NEW i \in DOMAIN flight, Serve(i) \/ Lose(i) PROVE SyncInv'
  BY <1>1, ServeSync, LoseSync
<1>2. ASSUME NEW a \in answers, Reply(a) PROVE SyncInv'
  BY <1>2, LoadGraphSync, LoadFailsSync, ListedSync, SavedAnswerSync DEF Reply
<1>3. CASE Enter
  BY <1>3, EnterSync
<1>4. CASE Leave
  BY <1>4, LeaveSync
<1>5. CASE Gestures
  BY <1>5, GesturesSync
<1>6. CASE UNCHANGED vars
  BY <1>6, SyncStays DEF vars
<1> QED BY <1>1, <1>2, <1>3, <1>4, <1>5, <1>6 DEF Next

LEMMA SyncedIsStored == ASSUME NumbersInv, SyncInv PROVE CanvasIsStored
<1> SUFFICES ASSUME view = "shown", ~astray
             PROVE  /\ canvas.edges = Settled.edges
                    /\ DOMAIN canvas.nodes = DOMAIN Settled.nodes
                    /\ \A n \in DOMAIN canvas.nodes \ BeingSaved : canvas.nodes[n] = Settled.nodes[n]
  BY DEF CanvasIsStored
<1>1. ASSUME NEW m \in BeingSaved, NEW what, Settled = Renamed(canvas, m, what)
      PROVE  /\ canvas.edges = Settled.edges
             /\ DOMAIN canvas.nodes = DOMAIN Settled.nodes
             /\ \A n \in DOMAIN canvas.nodes \ BeingSaved : canvas.nodes[n] = Settled.nodes[n]
  BY <1>1, CanvasShape DEF Renamed
<1>2. CASE Settled = canvas
  BY <1>2
<1>3. ASSUME NEW r \in Range(flight), Asked(r), r.op = "save"
      PROVE  r.id \in BeingSaved /\ Settled = Renamed(canvas, r.id, r.set.what)
  BY <1>3 DEF SyncInv, Synced, BeingSaved, ToSet, Range
<1>4. ASSUME NEW a \in answers, Came(a), a.op = "saved"
      PROVE  a.id \in BeingSaved /\ Settled = Renamed(canvas, a.id, a.what)
  BY <1>4 DEF SyncInv, Synced, BeingSaved
<1> QED BY <1>1, <1>2, <1>3, <1>4 DEF SyncInv, Synced

(* While requests arrive in order and the user neither hurries nor types   *)
(* over a dialog, the canvas is what the firmware will keep, whatever is   *)
(* drawn, edited, deleted, saved, left and loaded again, as long as        *)
(* nothing was lost since the firmware last sent the graph.                *)
THEOREM CanvasAlwaysStored == ASSUME Careful, InOrder PROVE Spec => []CanvasIsStored
<1>1. Init => NumbersInv /\ SyncInv
  BY InitNumbers, InitSync, EditorAssumption
<1>2. NumbersInv /\ SyncInv /\ [Next]_vars => (NumbersInv /\ SyncInv)'
  <2>1. Patient
    BY CarefulIsPatient
  <2> QED BY <2>1, NumbersStep, SyncStep, EditorAssumption
<1>3. NumbersInv /\ SyncInv => CanvasIsStored
  BY SyncedIsStored
<1> QED BY <1>1, <1>2, <1>3, PTL DEF Spec

-----------------------------------------------------------------------------
(* Endpoints: what is claimed in a graph, and what requests claim.         *)

Free(e) == \A n \in DOMAIN fw.nodes : fw.nodes[n].set.what # e
Sets(r) == r.op \in {"put", "settings", "save"}
Claimant(r) == Sets(r) /\ r.set.what \in Endpoints
Named(set) == set.type = "board" => set.what \notin Endpoints

(* A board claims no endpoint, nor does what is being saved of one.        *)
AllNamed ==
    /\ \A n \in DOMAIN fw.nodes : Named(fw.nodes[n].set)
    /\ \A n \in DOMAIN canvas.nodes : Named(canvas.nodes[n].set)
    /\ \A r \in Range(flight) : /\ Sets(r) => Named(r.set)
                                /\ r.op = "save" /\ Asked(r) => r.set.type = open.set.type
    /\ \A a \in answers :
        a.op = "saved" /\ Came(a) /\ open.set.type = "board" => a.what \notin Endpoints

(* A request that claims an endpoint is the oldest, and nobody else has    *)
(* the endpoint.                                                           *)
ClaimedFirst ==
    \A i \in DOMAIN flight : Claimant(flight[i]) =>
        /\ i = 1
        /\ \A n \in DOMAIN fw.nodes \ {flight[i].id} : fw.nodes[n].set.what # flight[i].set.what

(* Nothing is sent after a dialog asks for the endpoints, and those that   *)
(* it gets are free.                                                       *)
ListedLast ==
    /\ \A i \in DOMAIN flight : flight[i].op = "list" /\ flight[i].key = open.key => i = Len(flight)
    /\ \A a \in answers : /\ a.op # "unsaved"
                          /\ a.op = "list" /\ a.key = open.key =>
                                flight = << >> /\ \A e \in a.sensors : Free(e)
Offered ==
    /\ open.kind \notin {"add", "edit"} => open.sensors = {} /\ open.busy = "no"
    /\ open.kind = "edit" /\ open.set.type = "load" /\ open.busy = "no" => flight = << >>
    /\ open.busy # "saving" => \A e \in open.sensors :
        \/ open.kind = "edit" /\ e = open.set.what
        \/ open.busy = "no" /\ flight = << >> /\ Free(e)

Claimed == ~astray /\ OneNodePerEndpoint /\ AllNamed /\ ClaimedFirst /\ ListedLast /\ Offered
ClaimInv == lost \in Nat /\ (lost = 0 => Claimed)

(* The list of endpoints is not cut short.                                 *)
Roomy == IsFiniteSet(Endpoints) /\ Cardinality(Endpoints) <= MaxInUse /\ MaxInUse \in Nat

LEMMA UnclaimedFree ==
    ASSUME EditorAssumption, NumbersInv, OneNodePerEndpoint, Roomy, NEW e \in Unclaimed(fw) PROVE Free(e)
<1> SUFFICES ASSUME NEW n \in DOMAIN fw.nodes, fw.nodes[n].set.what = e PROVE FALSE
  BY DEF Free
<1>1. e \in Endpoints
  BY DEF Unclaimed
<1>2. n \in Claims(fw) /\ Claims(fw) \subseteq DOMAIN fw.nodes
  BY <1>1 DEF Claims
<1> DEFINE T == {m \in Claims(fw) : m < n}
           f == [m \in T |-> fw.nodes[m].set.what]
<1>3. n \in Nat
  BY DEF NumbersInv, Typed, IsGraph, Ids
<1>4. \A m \in T : m # n /\ fw.nodes[m].set.what # e /\ fw.nodes[m].set.what \in Endpoints
  BY <1>2, <1>3 DEF OneNodePerEndpoint, Claims
<1>5. f \in Injection(T, Endpoints \ {e})
  <2>1. f \in [T -> Endpoints \ {e}]
    BY <1>4
  <2>2. \A a, b \in T : f[a] = f[b] => a = b
    BY DEF OneNodePerEndpoint
  <2> HIDE DEF f, T
  <2>3. IsInjective(f)
    BY <2>1, <2>2 DEF IsInjective
  <2> QED BY <2>1, <2>3 DEF Injection
<1> HIDE DEF f
<1>6. IsFiniteSet(Endpoints \ {e}) /\ Cardinality(Endpoints \ {e}) = Cardinality(Endpoints) - 1
  <2>1. IsFiniteSet(Endpoints)
    BY DEF Roomy
  <2>2. Cardinality(Endpoints \ {e}) = (IF e \in Endpoints THEN Cardinality(Endpoints) - 1
                                       ELSE Cardinality(Endpoints))
    BY <2>1, FS_RemoveElement, Zenon
  <2>3. IsFiniteSet(Endpoints \ {e})
    BY <2>1, FS_RemoveElement, Zenon
  <2> QED BY <1>1, <2>2, <2>3
<1>7. IsFiniteSet(T) /\ Cardinality(T) <= Cardinality(Endpoints) - 1
  <2> HIDE DEF T
  <2> QED BY <1>5, <1>6, FS_Injection
<1>8. Cardinality(T) < MaxInUse
  <2>1. Cardinality(T) \in Nat /\ Cardinality(Endpoints) \in Nat
    BY <1>7, FS_CardinalityType DEF Roomy
  <2> HIDE DEF T
  <2> QED BY <1>7, <2>1 DEF Roomy
<1> QED BY <1>2, <1>8 DEF Unclaimed

(* What one request makes of the endpoints of a graph.                     *)
LEMMA ServedNodes ==
    ASSUME NEW g, NEW r, NEW n \in DOMAIN Served(g, r).nodes
    PROVE  \/ n \in DOMAIN g.nodes /\ Served(g, r).nodes[n].set = g.nodes[n].set
           \/ r.op = "move" /\ Served(g, r).nodes[n].set = Blank
           \/ Sets(r) /\ n = r.id /\ Served(g, r).nodes[n].set = r.set
<1>1. ASSUME NEW id, NEW node, n \in DOMAIN With(g, id, node).nodes
      PROVE  \/ n = id /\ With(g, id, node).nodes[n] = node
             \/ n # id /\ n \in DOMAIN g.nodes /\ With(g, id, node).nodes[n] = g.nodes[n]
  BY <1>1 DEF With
<1>2. CASE Sets(r)
  BY <1>1, <1>2 DEF Sets, Served, Upsert, UpdateSettings, Node
<1>3. CASE r.op = "move"
  BY <1>1, <1>3 DEF Served, Move, Node
<1>4. CASE r.op = "delete"
  BY <1>4 DEF Served, Delete, Without, Restrict
<1>5. CASE r.op \notin {"put", "settings", "save", "move", "delete"}
  <2>1. Served(g, r).nodes = g.nodes
    BY <1>5 DEF Served
  <2> QED BY <2>1
<1> QED BY <1>2, <1>3, <1>4, <1>5 DEF Sets

-----------------------------------------------------------------------------
(* Requests and canvases that claim nothing.                               *)

(* Claims nothing, and is no save.                                         *)
Silent(r) == r.op # "save" /\ ~Claimant(r) /\ (Sets(r) => Named(r.set))
CanvasNamed == \A n \in DOMAIN canvas.nodes : Named(canvas.nodes[n].set)

LEMMA ClaimsSent ==
    ASSUME NumbersInv, SyncInv', Claimed, UNCHANGED <<fw, astray>>, answers' \subseteq answers,
           NEW p, IsSeq(p), Send(p), \A r \in Range(p) : Silent(r),
           open'.busy # "saving", CanvasNamed', ListedLast', Offered'
    PROVE  Claimed'
<1>1. /\ Range(flight') \subseteq Range(flight) \cup Range(p)
      /\ \A i \in DOMAIN flight : i \in DOMAIN flight' /\ flight'[i] = flight[i]
      /\ \A i \in DOMAIN flight' \ DOMAIN flight : flight'[i] \in Range(p)
  BY Joined DEF Send, NumbersInv, Typed
<1>2. OneNodePerEndpoint'
  BY DEF Claimed, OneNodePerEndpoint, Claims
<1>3. Waits'
  BY DEF SyncInv, Exchange
<1>4. AllNamed'
  <2>1. \A n \in DOMAIN fw'.nodes : Named(fw'.nodes[n].set)
    BY DEF Claimed, AllNamed
  <2>2. \A n \in DOMAIN canvas'.nodes : Named(canvas'.nodes[n].set)
    BY DEF CanvasNamed, Named
  <2>3. \A r \in Range(flight') : Sets(r) => Named(r.set)
    BY <1>1 DEF Silent, Claimed, AllNamed
  <2>4. \A r \in Range(flight') : ~(r.op = "save" /\ Asked(r)')
    BY <1>3 DEF Waits, Saving
  <2>5. \A a \in answers' : ~(a.op = "saved" /\ Came(a)')
    BY <1>3 DEF Waits, Saving
  <2> QED BY <2>1, <2>2, <2>3, <2>4, <2>5 DEF AllNamed, Named
<1>5. ClaimedFirst'
  <2> SUFFICES ASSUME NEW i \in DOMAIN flight', Claimant(flight'[i])
               PROVE  /\ i = 1
                      /\ \A n \in DOMAIN fw.nodes \ {flight'[i].id} :
                            fw.nodes[n].set.what # flight'[i].set.what
    BY DEF ClaimedFirst, Claimant, Sets
  <2>1. i \in DOMAIN flight /\ flight'[i] = flight[i]
    BY <1>1 DEF Silent
  <2> QED BY <2>1 DEF Claimed, ClaimedFirst
<1> QED BY <1>2, <1>4, <1>5 DEF Claimed

(* A gesture or an answer after which no dialog has asked for anything.    *)
LEMMA ClaimsGesture ==
    ASSUME NumbersInv, SyncInv', Claimed, UNCHANGED <<fw, astray>>, answers' \subseteq answers,
           NEW p, IsSeq(p), Send(p), \A r \in Range(p) : Silent(r), CanvasNamed',
           open'.busy = "no", open'.sensors = {}, ~(open'.kind = "edit" /\ open'.set.type = "load")
    PROVE  Claimed'
<1>1. Waits'
  BY DEF SyncInv, Exchange
<1>2. ListedLast'
  <2>1. \A i \in DOMAIN flight' : ~(flight'[i].op = "list" /\ flight'[i].key = open'.key)
    BY <1>1 DEF Waits, Asked, Asking, Range
  <2>2. \A a \in answers' : ~(a.op = "list" /\ a.key = open'.key)
    BY <1>1 DEF Waits, Came, Asking
  <2> QED BY <2>1, <2>2 DEF Claimed, ListedLast, Free
<1>3. Offered'
  BY DEF Offered
<1> QED BY <1>2, <1>3, ClaimsSent

LEMMA ClaimsUnsent ==
    ASSUME NumbersInv, SyncInv', Claimed, UNCHANGED <<fw, astray, flight>>,
           answers' \subseteq answers, CanvasNamed',
           open'.busy = "no", open'.sensors = {}, ~(open'.kind = "edit" /\ open'.set.type = "load")
    PROVE  Claimed'
<1> PICK q : q = << >>
  OBVIOUS
<1>1. IsSeq(q) /\ Range(q) = {}
  BY DEF IsSeq, Range
<1>2. Send(q)
  BY <1>1 DEF Send, NumbersInv, Typed, IsSeq
<1> QED BY <1>1, <1>2, ClaimsGesture

(* A dialog that asks for the endpoints asks last.                         *)
LEMMA ClaimsAsked ==
    ASSUME NumbersInv, SyncInv', Claimed, UNCHANGED <<fw, astray, answers, canvas>>,
           Send(<<[op |-> "list", key |-> open'.key]>>), open'.busy = "loading",
           \/ open'.kind = "add" /\ open'.sensors = {}
           \/ open'.kind = "edit" /\ open'.sensors \subseteq {open'.set.what}
    PROVE  Claimed'
<1> PICK r : r = [op |-> "list", key |-> open'.key]
  OBVIOUS
<1>1. Send(<<r>>) /\ r.op = "list" /\ Asked(r)'
  BY DEF Asked
<1>2. Joins(r)
  BY <1>1, JoinsFlight DEF NumbersInv, Typed
<1>3. Once'
  BY DEF SyncInv, Exchange
<1>4. /\ Len(flight') = Len(flight) + 1 /\ Len(flight') \in DOMAIN flight'
      /\ flight'[Len(flight')] = r /\ r \in Range(flight')
  <2>1. Len(flight') \in Nat /\ DOMAIN flight' = 1..Len(flight')
    BY <1>2, SeqFacts DEF Joins
  <2>2. Len(flight') = Len(flight) + 1 /\ Len(flight') \in DOMAIN flight'
    BY <1>2, <2>1 DEF Joins
  <2>3. flight'[Len(flight')] = r
    BY <1>2, <2>2 DEF Joins
  <2> QED BY <2>2, <2>3 DEF Range
<1>5. ListedLast'
  <2>1. \A i \in DOMAIN flight' : flight'[i].op = "list" /\ flight'[i].key = open'.key
          => i = Len(flight')
    BY <1>1, <1>3, <1>4 DEF Once, Asked
  <2>2. \A a \in answers' : ~(a.op = "list" /\ a.key = open'.key)
    BY <1>1, <1>3, <1>4 DEF Once, Came
  <2> QED BY <2>1, <2>2 DEF Claimed, ListedLast, Free
<1>6. Offered'
  BY DEF Offered
<1>7. CanvasNamed'
  BY DEF Claimed, AllNamed, CanvasNamed
<1> DEFINE p == <<r>>
<1>8. IsSeq(p) /\ Send(p) /\ \A x \in Range(p) : Silent(x)
  <2>1. IsSeq(p) /\ Range(p) = {r}
    BY Single
  <2>2. Silent(r)
    BY <1>1 DEF Silent, Claimant, Sets
  <2> QED BY <1>1, <2>1, <2>2
<1> HIDE DEF p
<1> QED BY <1>5, <1>6, <1>7, <1>8, ClaimsSent

(* Nothing the invariant speaks of changes.                                *)
LEMMA ClaimsKept ==
    ASSUME Claimed, UNCHANGED <<fw, canvas, view, visit, open, flight, astray>>,
           answers' \subseteq answers
    PROVE  Claimed'
<1>1. OneNodePerEndpoint' /\ ClaimedFirst'
  BY DEF Claimed, OneNodePerEndpoint, Claims, ClaimedFirst, Claimant, Sets
<1>2. AllNamed'
  BY DEF Claimed, AllNamed, Named, Asked, Came
<1>3. ListedLast' /\ Offered'
  BY DEF Claimed, ListedLast, Offered, Free
<1> QED BY <1>1, <1>2, <1>3 DEF Claimed

-----------------------------------------------------------------------------
(* Gestures on the canvas and their requests claim nothing.                *)

LEMMA NamesOfCanvas == ASSUME Claimed PROVE CanvasNamed
BY DEF Claimed, AllNamed, CanvasNamed

LEMMA SentAlone ==
    ASSUME NEW r, Silent(r), Send(<<r>>)
    PROVE  \E p : IsSeq(p) /\ Send(p) /\ \A x \in Range(p) : Silent(x)
<1> DEFINE p == <<r>>
<1>1. IsSeq(p) /\ Send(p) /\ \A x \in Range(p) : Silent(x)
  BY Single
<1> QED BY <1>1

LEMMA DragStopClaims ==
    ASSUME NumbersInv, SyncInv', Claimed, NEW n, DragStop(n) PROVE Claimed'
<1> PICK r : r = [op |-> "move", id |-> n, place |-> "dragged"]
  OBVIOUS
<1>1. Silent(r) /\ Send(<<r>>)
  BY DEF DragStop, Silent, Claimant, Sets
<1>2. CanvasNamed'
  BY NamesOfCanvas DEF DragStop, CanvasNamed, Named
<1>3. /\ UNCHANGED <<fw, astray, answers, open>> /\ open = Closed
  BY DEF DragStop, Keeps, Uncovered
<1> QED BY <1>1, <1>2, <1>3, SentAlone, ClaimsGesture DEF Closed

LEMMA ConnectClaims ==
    ASSUME NumbersInv, SyncInv', Claimed, NEW a, NEW b, Connect(a, b) PROVE Claimed'
<1>1. PICK w \in Wirings(canvas.nodes[a].set.type, canvas.nodes[b].set.type) :
        LET e == [from |-> a, out |-> w[1], to |-> b, into |-> w[2]] IN
        /\ canvas' = [canvas EXCEPT !.edges = @ \cup {e}]
        /\ Send(<<[op |-> "wire", edge |-> e]>>)
  BY DEF Connect
<1> PICK e : e = [from |-> a, out |-> w[1], to |-> b, into |-> w[2]]
  OBVIOUS
<1> PICK r : r = [op |-> "wire", edge |-> e]
  OBVIOUS
<1>2. Silent(r) /\ Send(<<r>>)
  BY <1>1 DEF Silent, Claimant, Sets
<1>3. CanvasNamed'
  BY <1>1, NamesOfCanvas DEF CanvasNamed, Named
<1>4. /\ UNCHANGED <<fw, astray, answers, open>> /\ open = Closed
  BY DEF Connect, Keeps, Uncovered
<1> QED BY <1>2, <1>3, <1>4, SentAlone, ClaimsGesture DEF Closed

LEMMA RemoveEdgeClaims ==
    ASSUME NumbersInv, SyncInv', Claimed, NEW e, RemoveEdge(e) PROVE Claimed'
<1> PICK r : r = [op |-> "unwire", edge |-> e]
  OBVIOUS
<1>1. Silent(r) /\ Send(<<r>>)
  BY DEF RemoveEdge, Silent, Claimant, Sets
<1>2. CanvasNamed'
  BY NamesOfCanvas DEF RemoveEdge, CanvasNamed, Named
<1>3. /\ UNCHANGED <<fw, astray, answers, open>> /\ open = Closed
  BY DEF RemoveEdge, Keeps, Uncovered
<1> QED BY <1>1, <1>2, <1>3, SentAlone, ClaimsGesture DEF Closed

LEMMA SetCircuitsClaims ==
    ASSUME NumbersInv, SyncInv', Claimed, NEW b, NEW n, SetCircuits(b, n) PROVE Claimed'
<1> PICK set : set = Board(n, canvas.nodes[b].set.what)
  OBVIOUS
<1> PICK r : r = [op |-> "settings", id |-> b, set |-> set]
  OBVIOUS
<1>1. /\ b \in DOMAIN canvas.nodes /\ canvas.nodes[b].set.type = "board"
      /\ canvas' = [canvas EXCEPT !.nodes[b].set.circuits = n] /\ Send(<<r>>)
  BY DEF SetCircuits, OnCanvas
<1>2. canvas.nodes[b].set.what \notin Endpoints
  BY <1>1, NamesOfCanvas DEF CanvasNamed, Named
<1>3. set.what \notin Endpoints
  BY <1>2, Made
<1>4. Silent(r)
  BY <1>3 DEF Silent, Claimant, Sets, Named
<1>5. CanvasNamed'
  BY <1>1, NamesOfCanvas DEF CanvasNamed, Named
<1>6. /\ UNCHANGED <<fw, astray, answers, open>> /\ open = Closed
  BY DEF SetCircuits, Keeps, Uncovered
<1> QED BY <1>1, <1>4, <1>5, <1>6, SentAlone, ClaimsGesture DEF Closed

LEMMA MenuOpensClaims ==
    ASSUME NumbersInv, SyncInv', Claimed, OpenPaneMenu \/ \E n \in Ids : OpenNodeMenu(n)
    PROVE  Claimed'
<1>1. CanvasNamed'
  BY NamesOfCanvas DEF OpenPaneMenu, OpenNodeMenu, Keeps, CanvasNamed, Named
<1>2. UNCHANGED <<fw, astray, answers, flight>>
  BY DEF OpenPaneMenu, OpenNodeMenu, Keeps
<1>3. open'.busy = "no" /\ open'.sensors = {} /\ open'.kind # "edit"
  BY DEF OpenPaneMenu, OpenNodeMenu, Opened, Closed
<1> QED BY <1>1, <1>2, <1>3, ClaimsUnsent

LEMMA CloseClaims ==
    ASSUME NumbersInv, SyncInv', Claimed, Close \/ Leave PROVE Claimed'
<1>1. CanvasNamed'
  BY NamesOfCanvas DEF Close, Leave, Keeps, CanvasNamed, Named, Empty
<1>2. UNCHANGED <<fw, astray, answers, flight>> /\ open' = Closed
  BY DEF Close, Leave, Keeps
<1> QED BY <1>1, <1>2, ClaimsUnsent DEF Closed

LEMMA EnterClaims ==
    ASSUME NumbersInv, SyncInv', Claimed, Enter PROVE Claimed'
<1> PICK r : r = [op |-> "graph", visit |-> visit + 1]
  OBVIOUS
<1>1. Silent(r) /\ Send(<<r>>)
  BY DEF Enter, Silent, Claimant, Sets
<1>2. CanvasNamed'
  BY NamesOfCanvas DEF Enter, Keeps, CanvasNamed, Named
<1>3. UNCHANGED <<fw, astray, answers, open>> /\ open = Closed
  BY HiddenIsIdle DEF Enter, Keeps
<1> QED BY <1>1, <1>2, <1>3, SentAlone, ClaimsGesture DEF Closed

-----------------------------------------------------------------------------
(* Deletions.                                                              *)

LEMMA DeletedClaims ==
    ASSUME NumbersInv, SyncInv', Claimed, NEW ids, IsFiniteSet(ids), NEW p \in Deletions(ids),
           Send(p), canvas' = Without(canvas, ids), UNCHANGED <<fw, answers, astray>>,
           open'.busy = "no", open'.sensors = {}, open'.kind # "edit"
    PROVE  Claimed'
<1>1. IsSeq(p) /\ Range(p) = UnwiresOf(canvas, ids) \cup DeletesOf(ids)
  BY DeletionsAre DEF NumbersInv, Typed
<1>2. \A r \in Range(p) : Silent(r)
  BY <1>1 DEF UnwiresOf, DeletesOf, Silent, Claimant, Sets
<1>3. CanvasNamed'
  BY NamesOfCanvas DEF CanvasNamed, Named, Without, Restrict
<1> QED BY <1>1, <1>2, <1>3, ClaimsGesture

LEMMA NodesFinite ==
    ASSUME EditorAssumption, NumbersInv, NEW ids, ids \subseteq Ids
    PROVE  IsFiniteSet(ids) /\ IsFiniteSet(Taken(ids))
<1>1. IsFiniteSet(1..MaxNumber)
  <2>1. MaxNumber \in Int /\ 1 \in Int
    BY DEF EditorAssumption
  <2> QED BY <2>1, FS_Interval, Zenon
<1>2. IsFiniteSet(ids)
  BY <1>1, FS_Subset DEF Ids
<1>3. IsFiniteSet(HangingOff(canvas, ids))
  BY ReachedFinite DEF NumbersInv, Typed
<1> QED BY <1>2, <1>3, FS_Union DEF Taken

LEMMA DeleteKeyClaims ==
    ASSUME EditorAssumption, NumbersInv, SyncInv', Claimed, Careful, DeleteKey PROVE Claimed'
<1> DEFINE ids == {n \in selected \cap DOMAIN canvas.nodes : ~canvas.nodes[n].set.locked}
<1>1. ids \subseteq Ids
  BY DEF NumbersInv, Typed, IsGraph
<1>2. PICK p \in Deletions(Taken(ids)) :
        /\ Send(p) /\ canvas' = Without(canvas, Taken(ids))
        /\ UNCHANGED <<fw, answers, open, astray>>
  BY DEF DeleteKey, Keeps
<1>3. open'.busy = "no" /\ open'.sensors = {} /\ open'.kind # "edit"
  BY <1>2 DEF DeleteKey, Careful, Claimed, Offered
<1> HIDE DEF ids
<1>4. IsFiniteSet(Taken(ids))
  BY <1>1, NodesFinite
<1> QED BY <1>2, <1>3, <1>4, DeletedClaims

LEMMA DeleteSubConsumerUnitClaims ==
    ASSUME NumbersInv, SyncInv', Claimed, DeleteSubConsumerUnit PROVE Claimed'
<1> DEFINE fed == {e.to : e \in {e \in canvas.edges : e.from \in {open.id}}}
           ids == {open.id} \cup (fed \ {Cu})
<1>1. /\ Send(Unwires(ids) \o Deletes(ids)) /\ canvas' = Without(canvas, ids)
      /\ UNCHANGED <<fw, answers, astray>> /\ open' = Closed
  BY DEF DeleteSubConsumerUnit, Keeps
<1>2. IsFiniteSet(fed)
  BY ReachedFinite DEF NumbersInv, Typed
<1> HIDE DEF fed
<1>3. IsFiniteSet(ids)
  BY <1>2, FS_Difference, FS_Singleton, FS_Union
<1> HIDE DEF ids
<1>4. Unwires(ids) \o Deletes(ids) \in Deletions(ids)
  BY DEF Deletions
<1>5. open'.busy = "no" /\ open'.sensors = {} /\ open'.kind # "edit"
  BY <1>1 DEF Closed
<1> QED BY <1>1, <1>3, <1>4, <1>5, DeletedClaims

LEMMA DeleteLoadClaims ==
    ASSUME NumbersInv, SyncInv', Claimed, DeleteLoad PROVE Claimed'
<1>1. PICK p \in Deletions({open.id}) : Send(p)
  BY DEF DeleteLoad
<1>2. IsFiniteSet({open.id})
  BY FS_Singleton
<1>3. /\ canvas' = Without(canvas, {open.id}) /\ UNCHANGED <<fw, answers, astray>>
      /\ open'.busy = "no" /\ open'.sensors = {} /\ open'.kind # "edit"
  BY DEF DeleteLoad, Keeps, Closed
<1> QED BY <1>1, <1>2, <1>3, DeletedClaims

-----------------------------------------------------------------------------
(* Dialogs: what they offer is free, and stays free till it is sent.       *)

LEMMA NoWordIsEndpoint == {None, "board", "renamed"} \cap Endpoints = {}
BY SavedAssumption DEF SavedAssumption

LEMMA AddBoardClaims ==
    ASSUME NumbersInv, SyncInv', Claimed, AddSubConsumerUnit PROVE Claimed'
<1> PICK set : set = Board(StartCircuits, "board")
  OBVIOUS
<1> PICK r : r = [op |-> "put", id |-> counter + 1, place |-> "spot", set |-> set, new |-> TRUE]
  OBVIOUS
<1>1. Send(<<r>>) /\ canvas' = With(canvas, counter + 1, Node("spot", set))
  BY DEF AddSubConsumerUnit, Create
<1>2. set.what \notin Endpoints
  BY NoWordIsEndpoint, Made
<1>3. Silent(r)
  BY <1>2 DEF Silent, Claimant, Sets, Named
<1>4. CanvasNamed'
  BY <1>1, <1>2, NamesOfCanvas DEF CanvasNamed, Named, With, Node
<1>5. UNCHANGED <<fw, astray, answers>> /\ open' = Closed
  BY DEF AddSubConsumerUnit, Keeps
<1> QED BY <1>1, <1>3, <1>4, <1>5, SentAlone, ClaimsGesture DEF Closed

LEMMA AddLoadClaims ==
    ASSUME NumbersInv, SyncInv', Claimed, NEW e \in Endpoints, AddLoad(e) PROVE Claimed'
<1> PICK set : set = Load(e)
  OBVIOUS
<1> PICK r : r = [op |-> "put", id |-> counter + 1, place |-> "spot", set |-> set, new |-> TRUE]
  OBVIOUS
<1>1. Send(<<r>>) /\ canvas' = With(canvas, counter + 1, Node("spot", set))
  BY DEF AddLoad, Create
<1>2. flight = << >> /\ Free(e)
  BY DEF AddLoad, Claimed, Offered
<1>3. flight' = <<r>> /\ DOMAIN flight' = {1} /\ flight'[1] = r
  BY <1>1, <1>2 DEF Send
<1>4. set.type = "load" /\ set.what = e
  BY Made
<1>5. UNCHANGED <<fw, astray, answers>> /\ open' = Closed
  BY DEF AddLoad, Keeps
<1>6. Waits' /\ open'.busy = "no" /\ open'.sensors = {} /\ open'.kind = "closed"
  BY <1>5 DEF SyncInv, Exchange, Closed
<1>7. OneNodePerEndpoint'
  BY <1>5 DEF Claimed, OneNodePerEndpoint, Claims
<1>8. CanvasNamed'
  BY <1>1, <1>4, NamesOfCanvas DEF CanvasNamed, Named, With, Node
<1>9. AllNamed'
  <2>1. \A n \in DOMAIN fw'.nodes : Named(fw'.nodes[n].set)
    BY <1>5 DEF Claimed, AllNamed
  <2>2. \A x \in Range(flight') : x = r
    BY <1>3 DEF Range
  <2>3. \A a \in answers' : ~(a.op = "saved" /\ Came(a)')
    BY <1>6 DEF Waits, Saving
  <2> QED BY <1>4, <1>8, <2>1, <2>2, <2>3 DEF AllNamed, CanvasNamed, Named
<1>10. ClaimedFirst'
  BY <1>2, <1>3, <1>4, <1>5 DEF ClaimedFirst, Free
<1>11. ListedLast'
  <2>1. \A a \in answers' : ~(a.op = "list" /\ a.key = open'.key)
    BY <1>6 DEF Waits, Came, Asking
  <2> QED BY <1>3, <1>5, <2>1 DEF Claimed, ListedLast, Free
<1>12. Offered'
  BY <1>6 DEF Offered
<1> QED BY <1>5, <1>7, <1>9, <1>10, <1>11, <1>12 DEF Claimed

LEMMA OpenAddLoadClaims ==
    ASSUME NumbersInv, SyncInv', Claimed, OpenAddLoad PROVE Claimed'
<1>1. DOMAIN open = DOMAIN Closed /\ open.sensors = {}
  BY DEF NumbersInv, Typed, OpenAddLoad, Claimed, Offered
<1>2. /\ open'.kind = "add" /\ open'.busy = "loading" /\ open'.sensors = {}
      /\ Send(<<[op |-> "list", key |-> open'.key]>>)
      /\ UNCHANGED <<fw, canvas, answers, astray>>
  BY <1>1 DEF OpenAddLoad, Keeps, Closed
<1> QED BY <1>2, ClaimsAsked

LEMMA EditingClaims ==
    ASSUME NumbersInv, SyncInv', Claimed, UNCHANGED <<fw, canvas, answers, astray>>,
           NEW o, DOMAIN o = DOMAIN Closed, o.busy = "no", o.sensors = {}, Editing(o)
    PROVE  Claimed'
<1>1. CASE o.set.type = "load"
  <2>1. /\ open'.kind = "edit" /\ open'.busy = "loading" /\ open'.set = o.set /\ open'.key = o.key
        /\ open'.sensors = {o.set.what} \cap Endpoints
        /\ Send(<<[op |-> "list", key |-> open'.key]>>)
    BY <1>1 DEF Editing, Closed
  <2> QED BY <2>1, ClaimsAsked
<1>2. CASE o.set.type # "load"
  <2>1. open'.busy = "no" /\ open'.sensors = {} /\ open'.set.type # "load" /\ flight' = flight
    BY <1>2 DEF Editing, Closed
  <2>2. CanvasNamed'
    BY NamesOfCanvas DEF CanvasNamed, Named
  <2> QED BY <2>1, <2>2, ClaimsUnsent
<1> QED BY <1>1, <1>2

LEMMA EditsClaims ==
    ASSUME NumbersInv, SyncInv', Claimed, MenuEdit \/ \E n \in Ids : DoubleClick(n) PROVE Claimed'
<1>1. CASE MenuEdit
  <2>1. DOMAIN open = DOMAIN Closed /\ open.busy = "no" /\ open.sensors = {} /\ Editing(open)
    BY <1>1 DEF NumbersInv, Typed, MenuEdit, Claimed, Offered
  <2> QED BY <1>1, <2>1, EditingClaims DEF MenuEdit, Keeps
<1>2. ASSUME NEW n \in Ids, DoubleClick(n) PROVE Claimed'
  <2> PICK o : o = Opened("edit", n)
    OBVIOUS
  <2>1. DOMAIN o = DOMAIN Closed /\ o.busy = "no" /\ o.sensors = {} /\ Editing(o)
    BY <1>2 DEF Opened, Closed, DoubleClick
  <2> QED BY <1>2, <2>1, EditingClaims DEF DoubleClick, Keeps
<1> QED BY <1>1, <1>2

LEMMA SaveClaims ==
    ASSUME NumbersInv, SyncInv, SyncInv', Claimed, Careful, NEW what, Save(what) PROVE Claimed'
<1> PICK r : r = [op |-> "save", visit |-> visit, key |-> open.key, id |-> open.id,
                  set |-> [open.set EXCEPT !.what = what]]
  OBVIOUS
<1>1. /\ open.kind = "edit" /\ open.busy = "no" /\ DOMAIN open = DOMAIN Closed
      /\ open' = [open EXCEPT !.busy = "saving"] /\ Send(<<r>>)
      /\ UNCHANGED <<fw, canvas, view, visit, answers, astray>>
  BY DEF Save, Keeps, NumbersInv, Typed
<1>2. /\ open'.kind = "edit" /\ open'.busy = "saving" /\ open'.id = open.id
      /\ open'.key = open.key /\ open'.set = open.set
  BY <1>1 DEF Closed
<1>3. view = "shown" /\ ~astray
  BY <1>1, CarefulIsPatient, WorksOnShown DEF Closed, Claimed
<1>4. /\ open.id \in DOMAIN canvas.nodes /\ open.set = canvas.nodes[open.id].set
      /\ open.set.type \in Editable
  BY <1>1 DEF SyncInv, OpenOnCanvas
<1>5. r.set.what = what /\ r.set.type = open.set.type
  <2>1. Suits(open.id, open.set)
    BY <1>4, CanvasShape
  <2> QED BY <2>1 DEF Suits
<1>6. what \in Endpoints =>
        /\ flight = << >> /\ open.set.type = "load"
        /\ \A n \in DOMAIN fw.nodes \ {open.id} : fw.nodes[n].set.what # what
  <2> SUFFICES ASSUME what \in Endpoints PROVE
                 /\ flight = << >> /\ open.set.type = "load"
                 /\ \A n \in DOMAIN fw.nodes \ {open.id} : fw.nodes[n].set.what # what
    OBVIOUS
  <2>1. open.set.type = "load" /\ what \in open.sensors
    BY NoWordIsEndpoint DEF Save
  <2>2. flight = << >>
    BY <1>1, <2>1 DEF Claimed, Offered
  <2>3. CASE what = open.set.what
    <3>1. Settled = canvas
      BY <1>1, <1>3, NoneSaving
    <3>2. fw = canvas
      BY <2>2, <3>1, ServedNone DEF Settled
    <3>3. open.id \in DOMAIN fw.nodes /\ fw.nodes[open.id].set.what = what
      BY <1>4, <2>3, <3>2
    <3> QED BY <2>1, <2>2, <3>3 DEF Claimed, OneNodePerEndpoint, Claims
  <2>4. CASE what # open.set.what
    BY <1>1, <2>1, <2>2, <2>4 DEF Claimed, Offered, Free
  <2> QED BY <2>3, <2>4
<1>7. Joins(r)
  BY <1>1, JoinsFlight DEF NumbersInv, Typed
<1>8. OneNodePerEndpoint'
  BY <1>1 DEF Claimed, OneNodePerEndpoint, Claims
<1>9. Waits'
  BY DEF SyncInv, Exchange
<1>10. AllNamed'
  <2>1. \A n \in DOMAIN fw'.nodes : Named(fw'.nodes[n].set)
    BY <1>1 DEF Claimed, AllNamed
  <2>2. \A n \in DOMAIN canvas'.nodes : Named(canvas'.nodes[n].set)
    BY <1>1 DEF Claimed, AllNamed
  <2>3. \A x \in Range(flight) :
          /\ Sets(x) => Named(x.set)
          /\ x.op = "save" /\ Asked(x)' => x.set.type = open'.set.type
    BY <1>1, <1>2 DEF Claimed, AllNamed, Asked
  <2>4. Named(r.set)
    BY <1>5, <1>6 DEF Named, Editable
  <2>5. \A a \in answers' : a.op = "saved" /\ Came(a)' /\ open'.set.type = "board"
                              => a.what \notin Endpoints
    BY <1>1, <1>2 DEF Claimed, AllNamed, Came
  <2>6. \A x \in Range(flight') : x \in Range(flight) \/ x = r
    BY <1>7 DEF Joins
  <2> QED BY <1>2, <1>5, <2>1, <2>2, <2>3, <2>4, <2>5, <2>6 DEF AllNamed, Named
<1>11. ClaimedFirst'
  <2> SUFFICES ASSUME NEW i \in DOMAIN flight', Claimant(flight'[i])
               PROVE  /\ i = 1
                      /\ \A n \in DOMAIN fw.nodes \ {flight'[i].id} :
                            fw.nodes[n].set.what # flight'[i].set.what
    BY <1>1 DEF ClaimedFirst, Claimant, Sets
  <2>1. CASE i \in DOMAIN flight
    BY <1>7, <2>1 DEF Joins, Claimed, ClaimedFirst
  <2>2. CASE i \notin DOMAIN flight
    <3>1. flight'[i] = r /\ DOMAIN flight' = 1..(Len(flight) + 1) /\ DOMAIN flight = 1..Len(flight)
          /\ Len(flight) \in Nat
      BY <1>7, <2>2 DEF Joins
    <3>2. what \in Endpoints
      BY <1>5, <3>1 DEF Claimant
    <3>3. Len(flight) = 0
      BY <1>6, <3>2
    <3>4. i = 1
      BY <2>2, <3>1, <3>3
    <3> QED BY <1>5, <1>6, <3>1, <3>2, <3>4
  <2> QED BY <2>1, <2>2
<1>12. ListedLast'
  <2>1. \A i \in DOMAIN flight' : ~(flight'[i].op = "list" /\ flight'[i].key = open'.key)
    BY <1>2, <1>9 DEF Waits, Asked, Asking, Range
  <2>2. \A a \in answers' : ~(a.op = "list" /\ a.key = open'.key)
    BY <1>2, <1>9 DEF Waits, Came, Asking
  <2> QED BY <1>1, <2>1, <2>2 DEF Claimed, ListedLast, Free
<1>13. Offered'
  BY <1>2 DEF Offered
<1> QED BY <1>1, <1>3, <1>8, <1>10, <1>11, <1>12, <1>13 DEF Claimed

-----------------------------------------------------------------------------
(* Answers, and the firmware.                                              *)

LEMMA LoadGraphClaims ==
    ASSUME NumbersInv, SyncInv, SyncInv', Claimed, NEW a \in answers, LoadGraph(a) PROVE Claimed'
<1>1. /\ view = "loading" /\ flight = << >> /\ a.got = fw /\ a.visit = visit
      /\ open = Closed /\ open' = Closed
      /\ UNCHANGED <<fw, astray>> /\ answers' \subseteq answers
  <2>1. view = "loading" /\ flight = << >> /\ a = [op |-> "graph", visit |-> visit, got |-> fw]
    BY DEF LoadGraph, SyncInv, LoadedInTurn
  <2> QED BY <2>1, HiddenIsIdle DEF LoadGraph
<1>2. \A n \in DOMAIN fw.nodes : Named(fw.nodes[n].set)
  BY DEF Claimed, AllNamed
<1>3. CASE Unallocated \in DOMAIN fw.nodes
  <2>1. flight' = flight /\ canvas' = fw
    BY <1>1, <1>3 DEF LoadGraph
  <2>2. CanvasNamed'
    BY <1>2, <2>1 DEF CanvasNamed, Named
  <2> QED BY <1>1, <2>1, <2>2, ClaimsUnsent DEF Closed
<1>4. CASE Unallocated \notin DOMAIN fw.nodes
  <2> PICK set : set = Fixed("unallocated")
    OBVIOUS
  <2>1. set.type = "unallocated" /\ set.what = None
    BY DEF Fixed, Blank
  <2> PICK r : r = [op |-> "put", id |-> Unallocated, place |-> "spot", set |-> set, new |-> FALSE]
    OBVIOUS
  <2>2. canvas' = With(fw, Unallocated, Node("spot", set)) /\ Send(<<r>>)
    <3>1. canvas' = With(fw, Unallocated, Node("spot", set)) /\ flight' = Append(flight, r)
      BY <1>1, <1>4 DEF LoadGraph
    <3> QED BY <1>1, <3>1 DEF Send
  <2>3. Silent(r)
    BY <2>1, NoWordIsEndpoint DEF Silent, Claimant, Sets, Named
  <2>4. CanvasNamed'
    BY <1>2, <2>1, <2>2 DEF CanvasNamed, Named, With, Node
  <2> QED BY <1>1, <2>2, <2>3, <2>4, SentAlone, ClaimsGesture DEF Closed
<1> QED BY <1>3, <1>4

LEMMA LoadFailsClaims ==
    ASSUME NumbersInv, SyncInv', Claimed, NEW a \in answers, LoadFails(a) PROVE Claimed'
<1>1. CASE view' = view
  BY <1>1, ClaimsKept DEF LoadFails
<1>2. CASE view' # view
  <2>1. open = Closed
    BY <1>2, HiddenIsIdle DEF LoadFails
  <2>2. CanvasNamed'
    BY NamesOfCanvas DEF LoadFails, CanvasNamed, Named
  <2> QED BY <2>1, <2>2, ClaimsUnsent DEF LoadFails, Closed
<1> QED BY <1>1, <1>2

LEMMA ListedClaims ==
    ASSUME NumbersInv, SyncInv, Claimed, NEW a \in answers, Listed(a) PROVE Claimed'
<1>1. /\ a.op = "list" /\ answers' = answers \ {a}
      /\ UNCHANGED <<fw, canvas, view, visit, flight, astray>>
  BY DEF Listed
<1>2. CASE open' = open
  BY <1>1, <1>2, ClaimsKept
<1>3. CASE open' # open
  <2>1. /\ open.kind \in {"add", "edit"} /\ open.key = a.key
        /\ open' = [open EXCEPT !.sensors = @ \cup a.sensors, !.busy = "no"]
    BY <1>3 DEF Listed
  <2>2. /\ open'.kind = open.kind /\ open'.key = open.key /\ open'.set = open.set
        /\ open'.busy = "no" /\ open'.sensors = open.sensors \cup a.sensors
    BY <2>1 DEF NumbersInv, Typed, Closed
  <2>3. flight = << >> /\ \A e \in a.sensors : Free(e)
    BY <1>1, <2>1 DEF Claimed, ListedLast
  <2>4. open.busy # "saving"
    BY <1>1, <2>1 DEF SyncInv, Exchange, Waits, Came, Asking
  <2>5. OneNodePerEndpoint' /\ ClaimedFirst'
    BY <1>1 DEF Claimed, OneNodePerEndpoint, Claims, ClaimedFirst, Claimant, Sets
  <2>6. AllNamed'
    BY <1>1, <2>2 DEF Claimed, AllNamed, Named, Asked, Came
  <2>7. ListedLast'
    BY <1>1, <2>2 DEF Claimed, ListedLast, Free
  <2>8. Offered'
    <3>1. flight' = << >> /\ fw' = fw
      BY <1>1, <2>3
    <3>2. ASSUME NEW e \in open'.sensors
          PROVE  \/ open'.kind = "edit" /\ e = open'.set.what
                 \/ open'.busy = "no" /\ flight' = << >> /\ Free(e)'
      <4>1. CASE e \in open.sensors
        <5>1. \/ open.kind = "edit" /\ e = open.set.what
              \/ Free(e)
          BY <2>4, <4>1 DEF Claimed, Offered
        <5> QED BY <2>2, <3>1, <5>1 DEF Free
      <4>2. CASE e \in a.sensors
        BY <2>2, <2>3, <3>1, <4>2 DEF Free
      <4> QED BY <2>2, <3>2, <4>1, <4>2
    <3> QED BY <1>1, <2>1, <2>2, <3>1, <3>2 DEF Offered
  <2> QED BY <1>1, <2>5, <2>6, <2>7, <2>8 DEF Claimed
<1> QED BY <1>2, <1>3

LEMMA SavedAnswerClaims ==
    ASSUME NumbersInv, SyncInv, SyncInv', Claimed, NEW a \in answers, SavedAnswer(a) PROVE Claimed'
<1>1. /\ a.op = "saved" /\ answers' = answers \ {a}
      /\ UNCHANGED <<fw, view, visit, flight, astray>>
  BY DEF SavedAnswer
<1>2. CASE ~Came(a)
  <2>1. view = "away" \/ a.visit # visit
    BY <1>1, <1>2 DEF Came
  <2>2. view = "away" => DOMAIN canvas.nodes = {} /\ open.kind = "closed"
    BY DEF NumbersInv, Hidden, Empty, Closed
  <2>3. canvas' = canvas /\ open' = open
    BY <2>1, <2>2 DEF SavedAnswer
  <2> QED BY <1>1, <2>3, ClaimsKept
<1>3. CASE Came(a)
  <2>1. Saving(a.id) /\ a.visit = visit
    BY <1>1, <1>3 DEF Came, SyncInv, Exchange, Waits
  <2>2. a.id \in DOMAIN canvas.nodes /\ open.set = canvas.nodes[a.id].set
    BY <2>1 DEF Saving, SyncInv, OpenOnCanvas
  <2>3. canvas' = Renamed(canvas, a.id, a.what) /\ open' = Closed
    BY <2>1, <2>2 DEF SavedAnswer, Saving, Renamed
  <2> PICK set : set = [canvas.nodes[a.id].set EXCEPT !.what = a.what]
    OBVIOUS
  <2>4. canvas' = With(canvas, a.id, Node(canvas.nodes[a.id].place, set))
    BY <2>2, <2>3, RenamedCanvas
  <2>5. set.type = open.set.type /\ set.what = a.what
    <3>1. Suits(a.id, canvas.nodes[a.id].set)
      BY <2>2, CanvasShape
    <3> QED BY <2>2, <3>1 DEF Suits
  <2>6. Named(set)
    BY <1>1, <1>3, <2>5 DEF Named, Claimed, AllNamed
  <2>7. CanvasNamed'
    BY <2>4, <2>6, NamesOfCanvas DEF CanvasNamed, Named, With, Node
  <2> QED BY <1>1, <2>3, <2>7, ClaimsUnsent DEF Closed
<1> QED BY <1>2, <1>3

LEMMA ServeClaims ==
    ASSUME EditorAssumption, Roomy, InOrder, NumbersInv, SyncInv, Claimed, NEW i, Serve(i)
    PROVE  Claimed'
<1> PICK r : r = flight[1]
  OBVIOUS
<1>1. /\ 1 \in DOMAIN flight /\ fw' = Served(fw, r) /\ answers' = answers \cup Answer(r)
      /\ flight' = RemoveAt(flight, 1) /\ astray' = (astray /\ r.op # "graph")
      /\ UNCHANGED <<canvas, view, visit, open>>
  BY DEF Serve, Arrivals, InOrder
<1>2. /\ IsSeq(flight) /\ r \in Range(flight) /\ Len(flight) \in Nat
      /\ DOMAIN flight = 1..Len(flight)
  BY <1>1, SeqFacts DEF NumbersInv, Typed, Range
<1>3. /\ IsSeq(flight') /\ Range(flight') \subseteq Range(flight)
      /\ DOMAIN flight' = 1..(Len(flight) - 1) /\ Len(flight') = Len(flight) - 1
      /\ \A j \in DOMAIN flight' : j + 1 \in DOMAIN flight /\ flight'[j] = flight[j + 1]
  BY <1>1, <1>2, OldestRemoved
<1>4. flight # << >>
  BY <1>1
<1>5. ASSUME NEW n \in DOMAIN fw'.nodes
      PROVE  \/ n \in DOMAIN fw.nodes /\ fw'.nodes[n].set = fw.nodes[n].set
             \/ fw'.nodes[n].set = Blank
             \/ Sets(r) /\ n = r.id /\ fw'.nodes[n].set = r.set
  BY <1>1, <1>5, ServedNodes
<1>6. Blank.what \notin Endpoints /\ Blank.type # "board"
  BY NoWordIsEndpoint DEF Blank, None
<1>7. OneNodePerEndpoint'
  <2> SUFFICES ASSUME NEW m \in DOMAIN fw'.nodes, NEW n \in DOMAIN fw'.nodes, m # n,
                      fw'.nodes[m].set.what \in Endpoints,
                      fw'.nodes[m].set.what = fw'.nodes[n].set.what
               PROVE  FALSE
    BY DEF OneNodePerEndpoint, Claims
  <2>1. \A k \in DOMAIN fw.nodes \ {r.id} : Claimant(r) => fw.nodes[k].set.what # r.set.what
    BY <1>1 DEF Claimed, ClaimedFirst
  <2>2. CASE Sets(r) /\ m = r.id /\ fw'.nodes[m].set = r.set
    BY <1>5, <1>6, <2>1, <2>2 DEF Claimant
  <2>3. CASE Sets(r) /\ n = r.id /\ fw'.nodes[n].set = r.set
    BY <1>5, <1>6, <2>1, <2>3 DEF Claimant
  <2>4. CASE /\ m \in DOMAIN fw.nodes /\ fw'.nodes[m].set = fw.nodes[m].set
             /\ n \in DOMAIN fw.nodes /\ fw'.nodes[n].set = fw.nodes[n].set
    BY <2>4 DEF Claimed, OneNodePerEndpoint, Claims
  <2> QED BY <1>5, <1>6, <2>2, <2>3, <2>4
<1>8. AllNamed'
  <2>1. \A n \in DOMAIN fw'.nodes : Named(fw'.nodes[n].set)
    BY <1>2, <1>5, <1>6 DEF Claimed, AllNamed, Named
  <2>2. \A n \in DOMAIN canvas'.nodes : Named(canvas'.nodes[n].set)
    BY <1>1 DEF Claimed, AllNamed
  <2>3. \A x \in Range(flight') :
          /\ Sets(x) => Named(x.set)
          /\ x.op = "save" /\ Asked(x)' => x.set.type = open'.set.type
    BY <1>1, <1>3 DEF Claimed, AllNamed, Asked
  <2>4. ASSUME NEW a \in answers', a.op = "saved", Came(a)', open'.set.type = "board"
        PROVE  a.what \notin Endpoints
    <3>1. CASE a \in answers
      BY <1>1, <2>4, <3>1 DEF Claimed, AllNamed, Came
    <3>2. CASE a \notin answers
      <4>1. r.op = "save" /\ a.visit = r.visit /\ a.what = r.set.what
        BY <1>1, <2>4, <3>2 DEF Answer
      <4>2. Asked(r)
        BY <1>1, <2>4, <4>1 DEF Came, Asked
      <4> QED BY <1>1, <1>2, <2>4, <4>1, <4>2 DEF Claimed, AllNamed, Named, Sets
    <3> QED BY <3>1, <3>2
  <2> QED BY <2>1, <2>2, <2>3, <2>4 DEF AllNamed, Named
<1>9. ClaimedFirst'
  <2>1. \A j \in DOMAIN flight' : ~Claimant(flight'[j])
    BY <1>2, <1>3 DEF Claimed, ClaimedFirst
  <2> QED BY <2>1 DEF ClaimedFirst, Claimant, Sets
<1>10. ListedLast'
  <2>1. ASSUME NEW j \in DOMAIN flight', flight'[j].op = "list", flight'[j].key = open'.key
        PROVE  j = Len(flight')
    BY <1>1, <1>2, <1>3, <2>1 DEF Claimed, ListedLast
  <2>2. ASSUME NEW a \in answers'
        PROVE  /\ a.op # "unsaved"
               /\ a.op = "list" /\ a.key = open'.key =>
                     flight' = << >> /\ \A e \in a.sensors : Free(e)'
    <3>1. CASE a \in answers
      BY <1>1, <1>4, <3>1 DEF Claimed, ListedLast
    <3>2. CASE a \notin answers
      <4>1. a \in Answer(r)
        BY <1>1, <3>2
      <4>2. a.op # "unsaved"
        BY <4>1 DEF Answer
      <4>3. ASSUME a.op = "list", a.key = open'.key
            PROVE  flight' = << >> /\ \A e \in a.sensors : Free(e)'
        <5>1. r.op = "list" /\ r.key = open.key /\ a.sensors = Unclaimed(fw)
          BY <1>1, <4>1, <4>3 DEF Answer
        <5>2. Len(flight) = 1
          BY <1>1, <5>1 DEF Claimed, ListedLast
        <5>3. flight' = << >>
          BY <1>3, <5>2 DEF IsSeq
        <5>4. fw' = fw
          BY <1>1, <5>1 DEF Served
        <5>5. \A e \in Unclaimed(fw) : Free(e)
          BY UnclaimedFree DEF Claimed
        <5> QED BY <5>1, <5>3, <5>4, <5>5 DEF Free
      <4> QED BY <4>2, <4>3
    <3> QED BY <3>1, <3>2
  <2> QED BY <2>1, <2>2 DEF ListedLast
<1>11. Offered'
  BY <1>1, <1>4 DEF Claimed, Offered
<1> QED BY <1>1, <1>7, <1>8, <1>9, <1>10, <1>11 DEF Claimed

-----------------------------------------------------------------------------
(* The theorem.                                                            *)

LEMMA GesturesClaims ==
    ASSUME EditorAssumption, NumbersInv, SyncInv, SyncInv', Claimed, Careful, Gestures
    PROVE  Claimed'
<1>1. ASSUME NEW n \in Ids, Select(n) \/ DragStop(n) PROVE Claimed'
  BY <1>1, DragStopClaims, ClaimsKept DEF Select, Keeps
<1>2. CASE OpenPaneMenu \/ \E n \in Ids : OpenNodeMenu(n)
  BY <1>2, MenuOpensClaims
<1>3. CASE MenuEdit \/ \E n \in Ids : DoubleClick(n)
  BY <1>3, EditsClaims
<1>4. ASSUME NEW a \in Ids, NEW b \in Ids, Connect(a, b) \/ SetCircuits(a, b) PROVE Claimed'
  BY <1>4, ConnectClaims, SetCircuitsClaims
<1>5. ASSUME NEW e \in canvas.edges, RemoveEdge(e) PROVE Claimed'
  BY <1>5, RemoveEdgeClaims
<1>6. CASE DeleteKey \/ DeleteSubConsumerUnit \/ DeleteLoad
  BY <1>6, DeleteKeyClaims, DeleteSubConsumerUnitClaims, DeleteLoadClaims
<1>7. CASE AddSubConsumerUnit \/ \E e \in Endpoints : AddLoad(e)
  BY <1>7, AddBoardClaims, AddLoadClaims
<1>8. CASE OpenAddLoad \/ Close
  BY <1>8, OpenAddLoadClaims, CloseClaims
<1>9. ASSUME NEW what, Save(what) PROVE Claimed'
  BY <1>9, SaveClaims
<1> QED BY <1>1, <1>2, <1>3, <1>4, <1>5, <1>6, <1>7, <1>8, <1>9 DEF Gestures

LEMMA ClaimsStep ==
    ASSUME EditorAssumption, Roomy, Careful, InOrder, NumbersInv, SyncInv, SyncInv', ClaimInv,
           [Next]_vars
    PROVE  ClaimInv'
<1>1. CASE lost' # lost
  <2>1. lost' = lost + 1 /\ lost \in Nat
    BY <1>1 DEF Next, Serve, Lose, Enter, Leave, Reply, LoadGraph, LoadFails, Listed, SavedAnswer,
                UnsavedAnswer, Gestures, Select, DragStop, OpenNodeMenu, DoubleClick, Connect,
                SetCircuits, RemoveEdge, DeleteKey, OpenPaneMenu, AddSubConsumerUnit, OpenAddLoad,
                AddLoad, DeleteSubConsumerUnit, DeleteLoad, MenuEdit, Close, Save, Keeps, vars,
                ClaimInv
  <2> QED BY <2>1 DEF ClaimInv
<1>2. CASE lost' = lost
  <2> SUFFICES ASSUME Claimed PROVE Claimed'
    BY <1>2 DEF ClaimInv
  <2>1. ASSUME NEW i \in DOMAIN flight, Serve(i) \/ Lose(i) PROVE Claimed'
    <3>1. CASE Serve(i)
      BY <3>1, ServeClaims
    <3>2. CASE Lose(i)
      BY <1>2, <3>2 DEF Lose, ClaimInv
    <3> QED BY <2>1, <3>1, <3>2
  <2>2. ASSUME NEW a \in answers, Reply(a) PROVE Claimed'
    <3>1. ~UnsavedAnswer(a)
      BY DEF UnsavedAnswer, Claimed, ListedLast
    <3> QED BY <2>2, <3>1, LoadGraphClaims, LoadFailsClaims, ListedClaims, SavedAnswerClaims
            DEF Reply
  <2>3. CASE Enter \/ Leave
    BY <2>3, EnterClaims, CloseClaims
  <2>4. CASE Gestures
    BY <2>4, GesturesClaims
  <2>5. CASE UNCHANGED vars
    BY <2>5, ClaimsKept DEF vars
  <2> QED BY <2>1, <2>2, <2>3, <2>4, <2>5 DEF Next
<1> QED BY <1>1, <1>2

(* The graph the firmware starts with claims each endpoint once.           *)
SavedOnce == \A m, n \in Claims(Saved) : m # n => Saved.nodes[m].set.what # Saved.nodes[n].set.what

LEMMA InitClaims == ASSUME EditorAssumption, SavedOnce, Init PROVE ClaimInv
<1>1. /\ fw = Saved /\ canvas = Empty /\ open = Closed /\ flight = << >> /\ answers = {}
      /\ astray = FALSE /\ lost = 0
  BY DEF Init
<1>2. DOMAIN flight = {} /\ Range(flight) = {} /\ DOMAIN canvas.nodes = {}
  BY <1>1 DEF Range, Empty
<1>3. \A n \in DOMAIN Saved.nodes : Named(Saved.nodes[n].set)
  BY SavedAssumption DEF SavedAssumption, OfType, Named
<1>4. AllNamed
  BY <1>1, <1>2, <1>3 DEF AllNamed
<1>5. OneNodePerEndpoint /\ ClaimedFirst /\ ListedLast
  BY <1>1, <1>2 DEF SavedOnce, OneNodePerEndpoint, ClaimedFirst, ListedLast
<1>6. Offered
  BY <1>1 DEF Offered, Closed
<1> QED BY <1>1, <1>4, <1>5, <1>6 DEF Claimed, ClaimInv

(* While requests arrive in order, none is lost and the list of endpoints  *)
(* is not cut short, a user who leaves an open dialog alone assigns no     *)
(* endpoint to two nodes.                                                  *)
THEOREM EndpointsAlwaysClaimedOnce ==
    ASSUME Careful, InOrder, Roomy, SavedOnce PROVE Spec => []ClaimedOnce
<1>1. Init => NumbersInv /\ SyncInv /\ ClaimInv
  BY InitNumbers, InitSync, InitClaims, EditorAssumption
<1>2. NumbersInv /\ SyncInv /\ ClaimInv /\ [Next]_vars => (NumbersInv /\ SyncInv /\ ClaimInv)'
  <2> SUFFICES ASSUME NumbersInv, SyncInv, ClaimInv, [Next]_vars
               PROVE  (NumbersInv /\ SyncInv /\ ClaimInv)'
    OBVIOUS
  <2>1. NumbersInv' /\ SyncInv'
    BY CarefulIsPatient, NumbersStep, SyncStep, EditorAssumption
  <2> QED BY <2>1, ClaimsStep, EditorAssumption
<1>3. NumbersInv /\ SyncInv /\ ClaimInv => ClaimedOnce
  BY DEF ClaimInv, Claimed, ClaimedOnce
<1> QED BY <1>1, <1>2, <1>3, PTL DEF Spec

=============================================================================
