--------------------------- MODULE PowerFlows_proofs ---------------------------
(***************************************************************************)
(* Proofs about the Topology page, for any wiring, any readings and any    *)
(* bounds: what the totals of the boards come to whatever order the edges  *)
(* are in, the readings on the nodes, the warning.                         *)
(***************************************************************************)
EXTENDS PowerFlows, SequenceTheorems, FiniteSetTheorems, WellFoundedInduction, TLAPS

-----------------------------------------------------------------------------
(* Sums over finite sets of numbers.                                       *)

(* Any set of numbers has a smallest one.                                  *)
LEMMA SmallestOf ==
    ASSUME NEW T, T \subseteq Nat, T # {} PROVE \E m \in T : \A y \in T : ~(y < m)
<1>1. PICK m \in T : \A y \in T : <<y, m>> \notin OpToRel(<, Nat)
  BY NatLessThanWellFounded, WFMin
<1> QED BY <1>1 DEF OpToRel

(* The larger of two numbers, and the largest of some.                     *)
LEMMA MaxOf ==
    ASSUME NEW a \in Int, NEW b \in Int
    PROVE  Max({a, b}) = IF a >= b THEN a ELSE b
<1> DEFINE m == IF a >= b THEN a ELSE b
<1>1. m \in {a, b} /\ \A y \in {a, b} : m >= y
  OBVIOUS
<1>2. ASSUME NEW x \in {a, b}, \A y \in {a, b} : x >= y PROVE x = m
  BY <1>2
<1> QED BY <1>1, <1>2 DEF Max

LEMMA MaxOfSome ==
    ASSUME NEW n \in Nat, NEW s \in SUBSET (1..n), s # {}
    PROVE  Max(s) \in s /\ \A y \in s : y <= Max(s)
<1> DEFINE T == {n - x : x \in s}
<1>1. T \subseteq Nat /\ T # {}
  OBVIOUS
<1>2. PICK m \in T : \A y \in T : ~(y < m)
  BY <1>1, SmallestOf
<1>3. PICK x \in s : m = n - x
  OBVIOUS
<1>4. \A y \in s : x >= y
  <2> SUFFICES ASSUME NEW y \in s PROVE x >= y
    OBVIOUS
  <2>1. ~(n - y < m)
    BY <1>2
  <2> QED BY <1>3, <2>1
<1>5. \E z \in s : \A y \in s : z >= y
  BY <1>4
<1> QED BY <1>5 DEF Max

(* The sum of f over the subsets of S, as FiniteSetsExt has it.            *)
Pick(s) == CHOOSE x \in s : TRUE
Sums(g, f, S) ==
    g = [s \in SUBSET S |-> IF s = {} THEN 0 ELSE f[Pick(s)] + g[s \ {Pick(s)}]]

Ints(f, S) == \A x \in S : f[x] \in Int
Same(f, h, S) == \A x \in S : f[x] = h[x]

LEMMA Picked ==
    ASSUME NEW S, IsFiniteSet(S), NEW s \in SUBSET S
    PROVE  /\ Cardinality(s) \in Nat /\ (Cardinality(s) = 0 <=> s = {})
           /\ s # {} => /\ Pick(s) \in S /\ s \ {Pick(s)} \in SUBSET S
                        /\ Cardinality(s \ {Pick(s)}) = Cardinality(s) - 1
<1>1. IsFiniteSet(s)
  BY FS_Subset
<1>2. Cardinality(s) \in Nat /\ (Cardinality(s) = 0 <=> s = {})
  BY <1>1, FS_CardinalityType, FS_EmptySet
<1>3. s # {} => Pick(s) \in s
  BY DEF Pick
<1>4. s # {} => Cardinality(s \ {Pick(s)}) = Cardinality(s) - 1
  BY <1>1, <1>3, FS_RemoveElement
<1> QED BY <1>2, <1>3, <1>4

LEMMA SumsExist == ASSUME NEW S, IsFiniteSet(S), NEW f PROVE \E g : Sums(g, f, S)
<1> DEFINE Small(n) == {s \in SUBSET S : Cardinality(s) <= n}
           Rest(s, g) == IF s = {} THEN 0 ELSE f[Pick(s)] + g[s \ {Pick(s)}]
           Upto(g, n) == g = [s \in Small(n) |-> Rest(s, g)]
           T == {n \in Nat : ~\E g : Upto(g, n)}
<1>0. T \subseteq Nat
  OBVIOUS
<1>1. ASSUME T # {} PROVE FALSE
  <2>1. PICK m \in T : \A y \in T : ~(y < m)
    <3> HIDE DEF T
    <3> QED BY <1>0, <1>1, SmallestOf
  <2>2. m \in Nat /\ \A g : ~Upto(g, m)
    BY <2>1
  <2>3. m # 0
    <3>1. ASSUME NEW s \in Small(0) PROVE s = {}
      <4>1. s \in SUBSET S /\ Cardinality(s) <= 0
        OBVIOUS
      <4>2. Cardinality(s) \in Nat /\ (Cardinality(s) = 0 <=> s = {})
        BY <4>1, Picked
      <4> QED BY <4>1, <4>2
    <3>2. Upto([s \in Small(0) |-> 0], 0)
      BY <3>1
    <3> QED BY <2>2, <3>2
  <2>4. m - 1 \in Nat /\ m - 1 < m
    BY <2>2, <2>3
  <2>5. PICK h : Upto(h, m - 1)
    BY <2>1, <2>4
  <2> DEFINE k == [s \in Small(m) |-> Rest(s, h)]
  <2>6. \A s \in Small(m - 1) : s \in Small(m) /\ k[s] = h[s]
    <3>1. ASSUME NEW s \in Small(m - 1) PROVE s \in Small(m)
      <4>1. s \in SUBSET S /\ Cardinality(s) <= m - 1
        OBVIOUS
      <4>2. Cardinality(s) \in Nat
        BY <4>1, Picked
      <4> QED BY <2>2, <4>1, <4>2
    <3> QED BY <2>5, <3>1
  <2>7. ASSUME NEW s \in Small(m) PROVE Rest(s, h) = Rest(s, k)
    <3>1. ASSUME s # {} PROVE s \ {Pick(s)} \in Small(m - 1)
      BY <2>2, <3>1, Picked
    <3> HIDE DEF k, Small
    <3> QED BY <2>6, <3>1
  <2>8. k = [s \in Small(m) |-> Rest(s, k)]
    BY <2>7
  <2> QED BY <2>2, <2>8
<1>2. PICK g : Upto(g, Cardinality(S))
  BY <1>1, FS_CardinalityType
<1>3. Small(Cardinality(S)) = SUBSET S
  <2>1. \A s \in SUBSET S : Cardinality(s) <= Cardinality(S)
    BY FS_Subset
  <2> QED BY <2>1
<1> QED BY <1>2, <1>3 DEF Sums

LEMMA SumsInt ==
    ASSUME NEW S, IsFiniteSet(S), NEW f, Ints(f, S), NEW g, Sums(g, f, S)
    PROVE  g[S] \in Int
<1> DEFINE T == {n \in Nat : \E s \in SUBSET S : Cardinality(s) = n /\ g[s] \notin Int}
<1>0. T \subseteq Nat
  OBVIOUS
<1>1. ASSUME T # {} PROVE FALSE
  <2>1. PICK m \in T : \A y \in T : ~(y < m)
    <3> HIDE DEF T
    <3> QED BY <1>0, <1>1, SmallestOf
  <2>2. PICK s \in SUBSET S : Cardinality(s) = m /\ g[s] \notin Int
    BY <2>1
  <2>3. g[s] = IF s = {} THEN 0 ELSE f[Pick(s)] + g[s \ {Pick(s)}]
    BY DEF Sums
  <2>4. s # {}
    BY <2>2, <2>3
  <2>5. Pick(s) \in S /\ s \ {Pick(s)} \in SUBSET S /\ Cardinality(s \ {Pick(s)}) = m - 1 /\ m # 0
    BY <2>2, <2>4, Picked
  <2>6. m \in Nat /\ m - 1 \in Nat /\ m - 1 < m
    BY <2>1, <2>5
  <2>7. g[s \ {Pick(s)}] \in Int
    BY <2>1, <2>5, <2>6
  <2> QED BY <2>2, <2>3, <2>4, <2>5, <2>7 DEF Ints
<1> QED BY <1>1, FS_CardinalityType

LEMMA SumsAgree ==
    ASSUME NEW S, IsFiniteSet(S), NEW T, NEW R \in SUBSET S, R \subseteq T,
           NEW f, NEW h, Same(f, h, R),
           NEW g, Sums(g, f, S), NEW k, Sums(k, h, T)
    PROVE  g[R] = k[R]
<1> DEFINE Bad == {n \in Nat : \E s \in SUBSET R : Cardinality(s) = n /\ g[s] # k[s]}
<1>0. Bad \subseteq Nat
  OBVIOUS
<1>1. ASSUME Bad # {} PROVE FALSE
  <2>1. PICK m \in Bad : \A y \in Bad : ~(y < m)
    <3> HIDE DEF Bad
    <3> QED BY <1>0, <1>1, SmallestOf
  <2>2. PICK s \in SUBSET R : Cardinality(s) = m /\ g[s] # k[s]
    BY <2>1
  <2>3. /\ g[s] = IF s = {} THEN 0 ELSE f[Pick(s)] + g[s \ {Pick(s)}]
        /\ k[s] = IF s = {} THEN 0 ELSE h[Pick(s)] + k[s \ {Pick(s)}]
    BY DEF Sums
  <2>4. s # {}
    BY <2>2, <2>3
  <2>5. /\ Pick(s) \in s /\ s \ {Pick(s)} \in SUBSET R
        /\ Cardinality(s \ {Pick(s)}) = m - 1 /\ m # 0
    <3>1. Pick(s) \in s
      BY <2>4 DEF Pick
    <3> QED BY <2>2, <2>4, <3>1, Picked
  <2>6. m - 1 \in Nat /\ m - 1 < m
    BY <2>1, <2>5
  <2>7. g[s \ {Pick(s)}] = k[s \ {Pick(s)}]
    BY <2>1, <2>5, <2>6
  <2> QED BY <2>2, <2>3, <2>4, <2>5, <2>7 DEF Same
<1>2. IsFiniteSet(R) /\ Cardinality(R) \in Nat
  BY FS_Subset, FS_CardinalityType
<1> QED BY <1>1, <1>2

(* Any element may be added last.                                          *)
LEMMA SumsTake ==
    ASSUME NEW S, IsFiniteSet(S), NEW f, Ints(f, S), NEW g, Sums(g, f, S),
           NEW z \in S
    PROVE  g[S] = f[z] + g[S \ {z}]
<1> DEFINE Bad == {n \in Nat : \E s \in SUBSET S : \E x \in s :
                                Cardinality(s) = n /\ g[s] # f[x] + g[s \ {x}]}
<1>0. Bad \subseteq Nat
  OBVIOUS
<1>i. \A s \in SUBSET S : g[s] \in Int
  <2> SUFFICES ASSUME NEW s \in SUBSET S PROVE g[s] \in Int
    OBVIOUS
  <2>1. IsFiniteSet(s)
    BY FS_Subset
  <2>2. PICK h : Sums(h, f, s)
    BY <2>1, SumsExist
  <2>3. h[s] \in Int
    BY <2>1, <2>2, SumsInt DEF Ints
  <2>4. h[s] = g[s]
    <3>1. Same(f, f, s) /\ s \in SUBSET s /\ s \subseteq S
      BY DEF Same
    <3> QED BY <2>1, <2>2, <3>1, SumsAgree
  <2> QED BY <2>3, <2>4
<1>1. ASSUME Bad # {} PROVE FALSE
  <2>1. PICK m \in Bad : \A y \in Bad : ~(y < m)
    <3> HIDE DEF Bad
    <3> QED BY <1>0, <1>1, SmallestOf
  <2>2. PICK s \in SUBSET S : \E x \in s : Cardinality(s) = m /\ g[s] # f[x] + g[s \ {x}]
    BY <2>1
  <2>x. PICK x \in s : Cardinality(s) = m /\ g[s] # f[x] + g[s \ {x}]
    BY <2>2
  <2> DEFINE c == Pick(s)
  <2>3. g[s] = f[c] + g[s \ {c}]
    BY DEF Sums
  <2>4. c \in s /\ s \ {c} \in SUBSET S /\ Cardinality(s \ {c}) = m - 1 /\ m # 0
    <3>1. c \in s
      BY DEF Pick
    <3> QED BY <2>x, <3>1, Picked
  <2> HIDE DEF c
  <2>5. c # x
    BY <2>x, <2>3
  <2>6. m - 1 \in Nat /\ m - 1 < m
    BY <2>1, <2>4
  <2>7. g[s \ {c}] = f[x] + g[(s \ {c}) \ {x}]
    BY <2>1, <2>4, <2>5, <2>6
  <2>8. g[s \ {x}] = f[c] + g[(s \ {x}) \ {c}]
    <3>1. IsFiniteSet(s \ {x}) /\ s \ {x} \in SUBSET S /\ c \in s \ {x}
      BY <2>4, <2>5, FS_Subset
    <3>2. Cardinality(s \ {x}) = m - 1
      BY <2>x, FS_Subset, FS_RemoveElement
    <3> QED BY <2>1, <2>6, <3>1, <3>2
  <2>9. (s \ {c}) \ {x} = (s \ {x}) \ {c}
    OBVIOUS
  <2>10. f[c] \in Int /\ f[x] \in Int /\ g[(s \ {x}) \ {c}] \in Int
    BY <1>i, <2>4 DEF Ints
  <2>11. g[(s \ {c}) \ {x}] = g[(s \ {x}) \ {c}]
    BY <2>9
  <2> DEFINE rest == g[(s \ {x}) \ {c}]
             fc == f[c]
             fx == f[x]
  <2>12. /\ g[s] = fc + g[s \ {c}] /\ g[s \ {c}] = fx + rest /\ g[s \ {x}] = fc + rest
         /\ g[s] # fx + g[s \ {x}] /\ fc \in Int /\ fx \in Int /\ rest \in Int
    BY <2>x, <2>3, <2>7, <2>8, <2>10, <2>11
  <2> HIDE DEF rest, fc, fx
  <2> QED BY <2>12
<1>2. Cardinality(S) \in Nat
  BY FS_CardinalityType
<1> QED BY <1>1, <1>2

SumOf(f, S) == MapThenSumSet(LAMBDA s : f[s], S)

LEMMA SumIter ==
    ASSUME NEW S, IsFiniteSet(S), NEW f
    PROVE  \E g : Sums(g, f, S) /\ SumOf(f, S) = g[S]
<1> DEFINE iter[s \in SUBSET S] ==
               IF s = {} THEN 0 ELSE f[CHOOSE x \in s : TRUE] + iter[s \ {CHOOSE x \in s : TRUE}]
<1>1. SumOf(f, S) = iter[S]
  BY DEF SumOf, MapThenSumSet, MapThenFoldSet
<1>2. \E g : Sums(g, f, S)
  BY SumsExist
<1>3. Sums(iter, f, S)
  BY <1>2 DEF Sums, Pick
<1> HIDE DEF iter
<1> QED BY <1>1, <1>3

LEMMA SumInt ==
    ASSUME NEW S, IsFiniteSet(S), NEW f, Ints(f, S)
    PROVE  SumOf(f, S) \in Int
BY SumIter, SumsInt

LEMMA SumNone == ASSUME NEW f PROVE SumOf(f, {}) = 0
<1>1. PICK g : Sums(g, f, {}) /\ SumOf(f, {}) = g[{}]
  BY SumIter, FS_EmptySet
<1> QED BY <1>1 DEF Sums

LEMMA SumSame ==
    ASSUME NEW S, IsFiniteSet(S), NEW f, NEW h, Same(f, h, S)
    PROVE  SumOf(f, S) = SumOf(h, S)
<1>1. PICK g : Sums(g, f, S) /\ SumOf(f, S) = g[S]
  BY SumIter
<1>2. PICK k : Sums(k, h, S) /\ SumOf(h, S) = k[S]
  BY SumIter
<1>3. S \in SUBSET S /\ S \subseteq S
  OBVIOUS
<1>4. g[S] = k[S]
  BY <1>1, <1>2, <1>3, SumsAgree
<1> QED BY <1>1, <1>2, <1>4

LEMMA SumTake ==
    ASSUME NEW S, IsFiniteSet(S), NEW f, Ints(f, S), NEW x \in S
    PROVE  SumOf(f, S) = f[x] + SumOf(f, S \ {x})
<1>1. PICK g : Sums(g, f, S) /\ SumOf(f, S) = g[S]
  BY SumIter
<1>2. IsFiniteSet(S \ {x})
  BY FS_Subset
<1>3. PICK k : Sums(k, f, S \ {x}) /\ SumOf(f, S \ {x}) = k[S \ {x}]
  BY <1>2, SumIter
<1> DEFINE R == S \ {x}
<1>4. k[R] = g[R]
  <2>1. IsFiniteSet(R) /\ R \in SUBSET R /\ R \subseteq S /\ Sums(k, f, R) /\ Sums(g, f, S)
    BY <1>1, <1>2, <1>3
  <2> HIDE DEF R
  <2>2. Same(f, f, R)
    BY DEF Same
  <2> QED BY <2>1, <2>2, SumsAgree
<1>5. g[S] = f[x] + g[S \ {x}]
  BY <1>1, SumsTake
<1> QED BY <1>1, <1>3, <1>4, <1>5

-----------------------------------------------------------------------------
(* The loops of totalFor over the edges, step by step.                     *)

Edge == [end : Wires, kw : Int, metered : SUBSET Int, idle : BOOLEAN, raw : Int]
Carried == [kw : Int, totals : [Boards -> Total], idle : BOOLEAN]
Answer == [flow : Total, totals : [Boards -> Total]]

(* The two loops over the edges: over the circuits of a board, and over    *)
(* the feeds of all boards.                                                *)
AddFeed(es, t, e) == IF e.end.to \in Boards THEN TotalFor(es)[AskFor(e.end.to, {}, t)].totals ELSE t
Inner(of, c) == [inner |-> TRUE, of |-> of, c |-> c]
Outer(es) == [inner |-> FALSE, es |-> es]
Advance(a, x, e) == IF a.inner THEN AddCircuit(a.of, a.c, x, e) ELSE AddFeed(a.es, x, e)
Runs(g, a, start, es, dom) ==
    g = [s \in dom |-> IF s = {} THEN start ELSE Advance(a, g[s \ {Max(s)}], es[Max(s)])]
Steps(d, a, start, es) ==
    d[0] = start /\ \A k \in 1..Len(es) : d[k] = Advance(a, d[k - 1], es[k])

LEMMA RunsExist ==
    ASSUME NEW a, NEW start, NEW es, NEW n \in Nat
    PROVE  \E g : Runs(g, a, start, es, SUBSET (1..n))
<1> DEFINE T == {m \in Nat : ~\E g : Runs(g, a, start, es, SUBSET (1..m))}
<1>0. T \subseteq Nat
  OBVIOUS
<1>1. ASSUME T # {} PROVE FALSE
  <2>1. PICK m \in T : \A y \in T : ~(y < m)
    <3> HIDE DEF T
    <3> QED BY <1>0, <1>1, SmallestOf
  <2>2. m \in Nat /\ \A g : ~Runs(g, a, start, es, SUBSET (1..m))
    BY <2>1
  <2>3. m # 0
    <3>1. SUBSET (1..0) = {{}}
      OBVIOUS
    <3>2. Runs([s \in {{}} |-> start], a, start, es, {{}})
      BY DEF Runs
    <3> QED BY <2>2, <3>1, <3>2
  <2>4. m - 1 \in Nat /\ m - 1 < m
    BY <2>2, <2>3
  <2>5. PICK h : Runs(h, a, start, es, SUBSET (1..(m - 1)))
    BY <2>1, <2>4
  <2> DEFINE Rest(s, g) == IF s = {} THEN start ELSE Advance(a, g[s \ {Max(s)}], es[Max(s)])
             k == [s \in SUBSET (1..m) |-> Rest(s, h)]
  <2>6. \A s \in SUBSET (1..(m - 1)) : s \in SUBSET (1..m) /\ k[s] = h[s]
    <3>1. \A s \in SUBSET (1..(m - 1)) : s \in SUBSET (1..m)
      BY <2>2
    <3>2. \A s \in SUBSET (1..(m - 1)) : h[s] = Rest(s, h)
      BY <2>5 DEF Runs
    <3> QED BY <3>1, <3>2
  <2>7. ASSUME NEW s \in SUBSET (1..m) PROVE Rest(s, h) = Rest(s, k)
    <3>1. ASSUME s # {} PROVE s \ {Max(s)} \in SUBSET (1..(m - 1))
      <4>1. Max(s) \in s /\ \A y \in s : y <= Max(s)
        BY <2>2, <3>1, MaxOfSome
      <4>2. ASSUME NEW y \in s, y # Max(s) PROVE y \in 1..(m - 1)
        <5>1. y \in 1..m /\ Max(s) \in 1..m /\ y <= Max(s)
          BY <4>1
        <5> QED BY <2>2, <4>2, <5>1
      <4> QED BY <4>2
    <3> HIDE DEF k
    <3> QED BY <2>6, <3>1
  <2>8. k = [s \in SUBSET (1..m) |-> Rest(s, k)]
    BY <2>7
  <2> HIDE DEF k
  <2>9. Runs(k, a, start, es, SUBSET (1..m))
    BY <2>8 DEF Runs
  <2> QED BY <2>2, <2>9
<1> QED BY <1>1

LEMMA StepsOf ==
    ASSUME NEW S, NEW es \in Seq(S), NEW a, NEW start, NEW g, Runs(g, a, start, es, SUBSET DOMAIN es)
    PROVE  \E d : Steps(d, a, start, es) /\ d[Len(es)] = g[DOMAIN es]
<1> DEFINE n == Len(es)
           d == [k \in 0..n |-> g[1..k]]
<1>1. n \in Nat /\ DOMAIN es = 1..n
  BY LenProperties
<1>5. g[{}] = start /\ 1..0 = {}
  BY DEF Runs
<1>6. ASSUME NEW k \in 1..n PROVE g[1..k] = Advance(a, g[1..(k - 1)], es[k])
  <2>0. n \in Nat /\ k \in Nat /\ 1 <= k /\ k <= n /\ k \in 1..k
    BY <1>1
  <2>1. 1..k \in SUBSET DOMAIN es /\ 1..k # {} /\ k \in 1..k /\ 1..k \in SUBSET (1..n)
    <3> HIDE DEF n
    <3>1. \A i \in 1..k : i \in 1..n
      BY <2>0
    <3> QED BY <1>1, <2>0, <3>1
  <2>2. Max(1..k) = k
    <3>1. Max(1..k) \in 1..k /\ k <= Max(1..k)
      BY <1>1, <2>1, MaxOfSome
    <3> QED BY <3>1
  <2>3. (1..k) \ {k} = 1..(k - 1)
    OBVIOUS
  <2>4. g[1..k] = Advance(a, g[(1..k) \ {Max(1..k)}], es[Max(1..k)])
    BY <2>1 DEF Runs
  <2> QED BY <2>2, <2>3, <2>4
<1>7. /\ d[0] = start /\ d[n] = g[DOMAIN es]
      /\ \A k \in 1..n : d[k] = g[1..k] /\ d[k - 1] = g[1..(k - 1)]
  BY <1>1, <1>5
<1> HIDE DEF d
<1>8. Steps(d, a, start, es)
  BY <1>6, <1>7 DEF Steps
<1> QED BY <1>7, <1>8

Begun(c) == [kw |-> 0, totals |-> c.totals, idle |-> TRUE]

LEMMA CircuitsSteps ==
    ASSUME NEW S, NEW es \in Seq(S), NEW of, NEW c
    PROVE  \E d : Steps(d, Inner(of, c), Begun(c), es) /\ Circuits(of, c, es) = d[Len(es)]
<1> DEFINE iter[s \in SUBSET DOMAIN es] ==
               IF s = {} THEN Begun(c) ELSE AddCircuit(of, c, iter[s \ {Max(s)}], es[Max(s)])
           Is(g) == g = [s \in SUBSET DOMAIN es |->
               IF s = {} THEN Begun(c) ELSE AddCircuit(of, c, g[s \ {Max(s)}], es[Max(s)])]
<1>1. DOMAIN es = 1..Len(es) /\ Len(es) \in Nat
  BY LenProperties
<1>2. Circuits(of, c, es) = iter[DOMAIN es]
  BY DEF Circuits, FoldLeft, MapThenFoldSet, Begun
<1>3. \E g : Runs(g, Inner(of, c), Begun(c), es, SUBSET DOMAIN es)
  BY <1>1, RunsExist
<1>4. \A x, e : Advance(Inner(of, c), x, e) = AddCircuit(of, c, x, e)
  BY DEF Advance, Inner
<1>5. ASSUME NEW h PROVE Is(h) <=> Runs(h, Inner(of, c), Begun(c), es, SUBSET DOMAIN es)
  BY <1>4 DEF Runs
<1>6. \E h : Is(h)
  <2> HIDE DEF Is
  <2> QED BY <1>3, <1>5
<1>7. Is(iter)
  BY <1>6
<1> HIDE DEF iter, Is
<1>8. Runs(iter, Inner(of, c), Begun(c), es, SUBSET DOMAIN es)
  BY <1>5, <1>7
<1> QED BY <1>2, <1>8, StepsOf

LEMMA TotalsSteps ==
    ASSUME NEW S, NEW es \in Seq(S)
    PROVE  \E d : Steps(d, Outer(es), Unknown, es) /\ Totals(es) = d[Len(es)]
<1> DEFINE iter[s \in SUBSET DOMAIN es] ==
               IF s = {} THEN Unknown ELSE AddFeed(es, iter[s \ {Max(s)}], es[Max(s)])
           Is(g) == g = [s \in SUBSET DOMAIN es |->
               IF s = {} THEN Unknown ELSE AddFeed(es, g[s \ {Max(s)}], es[Max(s)])]
<1>1. DOMAIN es = 1..Len(es) /\ Len(es) \in Nat
  BY LenProperties
<1>2. Totals(es) = iter[DOMAIN es]
  BY DEF Totals, FoldLeft, MapThenFoldSet, AddFeed
<1>3. \E g : Runs(g, Outer(es), Unknown, es, SUBSET DOMAIN es)
  BY <1>1, RunsExist
<1>4. \A x, e : Advance(Outer(es), x, e) = AddFeed(es, x, e)
  BY DEF Advance, Outer
<1>5. ASSUME NEW h PROVE Is(h) <=> Runs(h, Outer(es), Unknown, es, SUBSET DOMAIN es)
  BY <1>4 DEF Runs
<1>6. \E h : Is(h)
  <2> HIDE DEF Is
  <2> QED BY <1>3, <1>5
<1>7. Is(iter)
  BY <1>6
<1> HIDE DEF iter, Is
<1>8. Runs(iter, Outer(es), Unknown, es, SUBSET DOMAIN es)
  BY <1>5, <1>7
<1> QED BY <1>2, <1>8, StepsOf

-----------------------------------------------------------------------------
(* totalFor is a recursion that ends: with more boards under way there is  *)
(* less to work out.                                                       *)

(* What a board asks of the boards it feeds.                               *)
Deeper(c) == {x \in Call : x.visiting = c.visiting \cup {c.board}}
Answering(of, c) == \A x \in Deeper(c) : of[x] \in Answer
Agreeing(of, ot, c) == \A x \in Deeper(c) : of[x] = ot[x]

LEMMA AsksDeeper ==
    ASSUME NEW c \in Call, NEW b \in Boards, NEW t \in [Boards -> Total]
    PROVE  AskFor(b, c.visiting \cup {c.board}, t) \in Deeper(c)
BY DEF AskFor, Deeper, Call

LEMMA StepTyped ==
    ASSUME NEW c \in Call, NEW of, Answering(of, c), NEW sum \in Carried, NEW e \in Edge
    PROVE  AddCircuit(of, c, sum, e) \in Carried
<1>1. sum.kw \in Int /\ sum.totals \in [Boards -> Total] /\ sum.idle \in BOOLEAN
  BY DEF Carried
<1>2. e.kw \in Int /\ e.idle \in BOOLEAN
  BY DEF Edge
<1>3. CASE e.end.from # c.board
  BY <1>3 DEF AddCircuit
<1>4. CASE e.end.from = c.board /\ e.end.to \in Boards
  <2> DEFINE part == of[AskFor(e.end.to, c.visiting \cup {c.board}, sum.totals)]
  <2>1. part \in Answer
    BY <1>1, <1>4, AsksDeeper DEF Answering
  <2>2. AddCircuit(of, c, sum, e) =
            [kw |-> sum.kw + part.flow.kw, totals |-> part.totals,
             idle |-> sum.idle /\ (part.flow.idle \/ part.flow.kw = 0)]
    BY <1>4 DEF AddCircuit
  <2> HIDE DEF part
  <2>3. part.flow.kw \in Int /\ part.totals \in [Boards -> Total]
    BY <2>1 DEF Answer, Total
  <2>4. (sum.idle /\ (part.flow.idle \/ part.flow.kw = 0)) \in BOOLEAN
    OBVIOUS
  <2>5. sum.kw + part.flow.kw \in Int
    BY <1>1, <2>3
  <2> HIDE DEF Total, Boards
  <2> QED BY <2>2, <2>3, <2>4, <2>5 DEF Carried
<1>5. CASE e.end.from = c.board /\ e.end.to \notin Boards
  <2>1. AddCircuit(of, c, sum, e) =
            [kw |-> sum.kw + e.kw, totals |-> sum.totals, idle |-> sum.idle /\ (e.idle \/ e.kw = 0)]
    BY <1>5 DEF AddCircuit
  <2>2. (sum.idle /\ (e.idle \/ e.kw = 0)) \in BOOLEAN
    OBVIOUS
  <2>3. sum.kw + e.kw \in Int
    BY <1>1, <1>2
  <2> QED BY <1>1, <2>1, <2>2, <2>3 DEF Carried
<1> QED BY <1>3, <1>4, <1>5

LEMMA StepSame ==
    ASSUME NEW c \in Call, NEW of, NEW ot, Agreeing(of, ot, c), NEW sum \in Carried, NEW e \in Edge
    PROVE  AddCircuit(of, c, sum, e) = AddCircuit(ot, c, sum, e)
<1>1. CASE e.end.to \in Boards
  <2>1. AskFor(e.end.to, c.visiting \cup {c.board}, sum.totals) \in Deeper(c)
    BY <1>1, AsksDeeper DEF Carried
  <2>2. of[AskFor(e.end.to, c.visiting \cup {c.board}, sum.totals)]
          = ot[AskFor(e.end.to, c.visiting \cup {c.board}, sum.totals)]
    BY <2>1 DEF Agreeing
  <2> QED BY <1>1, <2>2 DEF AddCircuit
<1>2. CASE e.end.to \notin Boards
  BY <1>2 DEF AddCircuit
<1> QED BY <1>1, <1>2

LEMMA InnerStep ==
    ASSUME NEW of, NEW c, NEW x, NEW e
    PROVE  Advance(Inner(of, c), x, e) = AddCircuit(of, c, x, e)
BY DEF Advance, Inner

LEMMA OuterStep ==
    ASSUME NEW es, NEW x, NEW e
    PROVE  Advance(Outer(es), x, e) = AddFeed(es, x, e)
BY DEF Advance, Outer

(* The loop over the circuits: what it carries is typed on the way.        *)
LEMMA StepsTyped ==
    ASSUME NEW es \in Seq(Edge), NEW c \in Call, NEW of, Answering(of, c),
           NEW d, Steps(d, Inner(of, c), Begun(c), es)
    PROVE  \A k \in 0..Len(es) : d[k] \in Carried
<1> DEFINE n == Len(es)
           T == {k \in 0..n : d[k] \notin Carried}
<1>1. n \in Nat /\ \A k \in 1..n : es[k] \in Edge
  BY LenProperties, ElementOfSeq
<1> HIDE DEF n
<1>2. T \subseteq Nat
  BY <1>1
<1>3. ASSUME T # {} PROVE FALSE
  <2>1. PICK m \in T : \A y \in T : ~(y < m)
    <3> HIDE DEF T
    <3> QED BY <1>2, <1>3, SmallestOf
  <2>2. m # 0
    <3>1. d[0] = Begun(c)
      BY DEF Steps
    <3>2. c.totals \in [Boards -> Total]
      BY DEF Call
    <3>3. Begun(c) \in Carried
      BY <3>2 DEF Begun, Carried
    <3> QED BY <2>1, <3>1, <3>3
  <2>3. m - 1 \in 0..n /\ m \in 1..n /\ m - 1 < m
    BY <1>1, <2>1, <2>2
  <2>4. d[m - 1] \in Carried
    BY <2>1, <2>3
  <2>5. d[m] = AddCircuit(of, c, d[m - 1], es[m])
    BY <2>3, InnerStep DEF Steps, n
  <2>6. AddCircuit(of, c, d[m - 1], es[m]) \in Carried
    BY <1>1, <2>3, <2>4, StepTyped
  <2> QED BY <2>1, <2>5, <2>6
<1> QED BY <1>3 DEF n

LEMMA CircuitsTyped ==
    ASSUME NEW es \in Seq(Edge), NEW c \in Call, NEW of, Answering(of, c)
    PROVE  Circuits(of, c, es) \in Carried
<1>1. PICK d : Steps(d, Inner(of, c), Begun(c), es) /\ Circuits(of, c, es) = d[Len(es)]
  BY CircuitsSteps
<1>2. Len(es) \in 0..Len(es)
  BY LenProperties
<1> QED BY <1>1, <1>2, StepsTyped

LEMMA CircuitsSame ==
    ASSUME NEW es \in Seq(Edge), NEW c \in Call, NEW of, Answering(of, c),
           NEW ot, Agreeing(of, ot, c)
    PROVE  Circuits(of, c, es) = Circuits(ot, c, es)
<1>1. PICK d : Steps(d, Inner(of, c), Begun(c), es) /\ Circuits(of, c, es) = d[Len(es)]
  BY CircuitsSteps
<1>2. PICK f : Steps(f, Inner(ot, c), Begun(c), es) /\ Circuits(ot, c, es) = f[Len(es)]
  BY CircuitsSteps
<1> DEFINE n == Len(es)
           T == {k \in 0..n : d[k] # f[k]}
<1>3. n \in Nat /\ \A k \in 1..n : es[k] \in Edge
  BY LenProperties, ElementOfSeq
<1>4. \A k \in 0..n : d[k] \in Carried
  BY <1>1, StepsTyped
<1> HIDE DEF n
<1>5. T \subseteq Nat
  BY <1>3
<1>6. ASSUME T # {} PROVE FALSE
  <2>1. PICK m \in T : \A y \in T : ~(y < m)
    <3> HIDE DEF T
    <3> QED BY <1>5, <1>6, SmallestOf
  <2>2. m # 0
    BY <1>1, <1>2, <2>1 DEF Steps
  <2>3. m - 1 \in 0..n /\ m \in 1..n /\ m - 1 < m
    BY <1>3, <2>1, <2>2
  <2>4. d[m - 1] = f[m - 1]
    BY <2>1, <2>3
  <2>5. d[m] = AddCircuit(of, c, d[m - 1], es[m]) /\ f[m] = AddCircuit(ot, c, f[m - 1], es[m])
    BY <1>1, <1>2, <2>3, InnerStep DEF Steps, n
  <2>6. AddCircuit(of, c, d[m - 1], es[m]) = AddCircuit(ot, c, d[m - 1], es[m])
    BY <1>3, <1>4, <2>3, StepSame
  <2> QED BY <2>1, <2>4, <2>5, <2>6
<1>7. n \in 0..n
  BY <1>3
<1> QED BY <1>1, <1>2, <1>6, <1>7 DEF n

LEMMA TotalOfTyped ==
    ASSUME NEW es \in Seq(Edge), NEW c \in Call, NEW of, c.board \notin c.visiting => Answering(of, c)
    PROVE  TotalOf(of, c, es) \in Answer
<1>1. c.board \in Boards /\ c.totals \in [Boards -> Total]
  BY DEF Call
<1>2. CASE c.totals[c.board].known
  BY <1>1, <1>2 DEF TotalOf, Answer
<1>3. CASE ~c.totals[c.board].known /\ c.board \in c.visiting
  <2>1. Unknown[c.board] \in Total
    BY <1>1 DEF Unknown, Total
  <2> QED BY <1>1, <1>3, <2>1 DEF TotalOf, Answer
<1>4. CASE ~c.totals[c.board].known /\ c.board \notin c.visiting
  <2> DEFINE sum == Circuits(of, c, es)
             flow == [known |-> TRUE, kw |-> sum.kw, idle |-> sum.idle]
  <2>1. sum \in Carried
    BY <1>4, CircuitsTyped
  <2>2. TotalOf(of, c, es) = [flow |-> flow, totals |-> [sum.totals EXCEPT ![c.board] = flow]]
    BY <1>4 DEF TotalOf
  <2> HIDE DEF sum
  <2>3. sum.kw \in Int /\ sum.idle \in BOOLEAN /\ sum.totals \in [Boards -> Total]
    BY <2>1 DEF Carried
  <2>4. flow \in Total
    BY <2>3 DEF Total
  <2> HIDE DEF flow
  <2>5. [sum.totals EXCEPT ![c.board] = flow] \in [Boards -> Total]
    BY <2>3, <2>4
  <2> QED BY <2>2, <2>4, <2>5 DEF Answer
<1> QED BY <1>2, <1>3, <1>4

LEMMA TotalOfSame ==
    ASSUME NEW es \in Seq(Edge), NEW c \in Call, NEW of, NEW ot,
           c.board \notin c.visiting => Answering(of, c) /\ Agreeing(of, ot, c)
    PROVE  TotalOf(of, c, es) = TotalOf(ot, c, es)
<1>1. CASE c.board \in c.visiting
  BY <1>1 DEF TotalOf
<1>2. CASE c.board \notin c.visiting
  <2>1. Circuits(of, c, es) = Circuits(ot, c, es)
    BY <1>2, CircuitsSame
  <2> QED BY <2>1 DEF TotalOf
<1> QED BY <1>1, <1>2

(* Calls with at most n boards that are not being visited.                 *)
Unvisited(c) == Cardinality(Boards \ c.visiting)
Within(n) == {c \in Call : Unvisited(c) <= n}
Solves(g, es, dom) == g = [c \in dom |-> TotalOf(g, c, es)]

LEMMA UnvisitedNat ==
    ASSUME NEW c \in Call
    PROVE  Unvisited(c) \in Nat /\ Unvisited(c) <= Cardinality(Boards)
<1>1. IsFiniteSet(Boards)
  BY FlowAssumption, FS_Subset DEF Boards
<1>2. Boards \ c.visiting \in SUBSET Boards
  OBVIOUS
<1>3. IsFiniteSet(Boards \ c.visiting) /\ Cardinality(Boards \ c.visiting) <= Cardinality(Boards)
  BY <1>1, <1>2, FS_Subset
<1> QED BY <1>3, FS_CardinalityType DEF Unvisited

LEMMA BoardsFinite == IsFiniteSet(Boards) /\ Cardinality(Boards) \in Nat
<1>1. IsFiniteSet(Boards)
  BY FlowAssumption, FS_Subset DEF Boards
<1> QED BY <1>1, FS_CardinalityType

LEMMA Deepens ==
    ASSUME NEW c \in Call, c.board \notin c.visiting, NEW x \in Deeper(c)
    PROVE  x \in Call /\ Unvisited(x) = Unvisited(c) - 1
<1> DEFINE s == Boards \ c.visiting
<1>1. x \in Call /\ x.visiting = c.visiting \cup {c.board}
  BY DEF Deeper
<1>2. Boards \ x.visiting = s \ {c.board} /\ c.board \in s
  BY <1>1 DEF Call
<1>3. IsFiniteSet(s)
  BY BoardsFinite, FS_Subset
<1>4. Cardinality(s \ {c.board}) = Cardinality(s) - 1
  BY <1>2, <1>3, FS_RemoveElement
<1> QED BY <1>1, <1>2, <1>4 DEF Unvisited

LEMMA SolutionTyped ==
    ASSUME NEW es \in Seq(Edge), NEW n \in Nat, NEW g, Solves(g, es, Within(n)),
           NEW c \in Within(n)
    PROVE  g[c] \in Answer
<1> DEFINE T == {m \in Nat : \E x \in Within(n) : Unvisited(x) = m /\ g[x] \notin Answer}
<1>1. T \subseteq Nat
  OBVIOUS
<1>2. ASSUME T # {} PROVE FALSE
  <2>1. PICK m \in T : \A y \in T : ~(y < m)
    <3> HIDE DEF T
    <3> QED BY <1>1, <1>2, SmallestOf
  <2>2. PICK x \in Within(n) : Unvisited(x) = m /\ g[x] \notin Answer
    BY <2>1
  <2>3. x \in Call /\ g[x] = TotalOf(g, x, es) /\ m <= n /\ m \in Nat
    BY <2>1, <2>2 DEF Within, Solves
  <2>4. ASSUME x.board \notin x.visiting PROVE Answering(g, x)
    <3>1. ASSUME NEW y \in Deeper(x) PROVE g[y] \in Answer
      <4>1. y \in Call /\ Unvisited(y) = m - 1 /\ Unvisited(y) \in Nat
        BY <2>2, <2>3, <2>4, Deepens, UnvisitedNat
      <4>2. y \in Within(n) /\ m - 1 < m /\ m - 1 \in Nat
        BY <2>3, <4>1 DEF Within
      <4> QED BY <2>1, <4>1, <4>2
    <3> QED BY <3>1 DEF Answering
  <2>5. TotalOf(g, x, es) \in Answer
    BY <2>3, <2>4, TotalOfTyped
  <2> QED BY <2>2, <2>3, <2>5
<1>3. Unvisited(c) \in Nat
  BY UnvisitedNat DEF Within
<1> QED BY <1>2, <1>3

LEMMA SolutionExists ==
    ASSUME NEW es \in Seq(Edge), NEW n \in Nat
    PROVE  \E g : Solves(g, es, Within(n))
<1> DEFINE T == {m \in Nat : ~\E g : Solves(g, es, Within(m))}
<1>1. T \subseteq Nat
  OBVIOUS
<1>2. ASSUME T # {} PROVE FALSE
  <2>1. PICK m \in T : \A y \in T : ~(y < m)
    <3> HIDE DEF T
    <3> QED BY <1>1, <1>2, SmallestOf
  <2>2. m \in Nat /\ \A g : ~Solves(g, es, Within(m))
    BY <2>1
  <2>3. PICK h : m # 0 => Solves(h, es, Within(m - 1))
    BY <2>1, <2>2
  <2> DEFINE k == [c \in Within(m) |-> TotalOf(h, c, es)]
  <2>4. ASSUME NEW c \in Within(m) PROVE TotalOf(h, c, es) = TotalOf(k, c, es)
    <3>1. c \in Call /\ Unvisited(c) <= m
      BY DEF Within
    <3>2. ASSUME c.board \notin c.visiting PROVE Answering(h, c) /\ Agreeing(h, k, c)
      <4>1. ASSUME NEW x \in Deeper(c) PROVE h[x] \in Answer /\ h[x] = k[x]
        <5>1. /\ x \in Call /\ Unvisited(x) = Unvisited(c) - 1
              /\ Unvisited(x) \in Nat /\ Unvisited(c) \in Nat
          BY <3>1, <3>2, Deepens, UnvisitedNat
        <5>2. m # 0 /\ m - 1 \in Nat /\ x \in Within(m - 1) /\ x \in Within(m)
          BY <2>2, <3>1, <5>1 DEF Within
        <5>3. Solves(h, es, Within(m - 1))
          BY <2>3, <5>2
        <5> HIDE DEF k
        <5>4. h[x] \in Answer /\ h[x] = TotalOf(h, x, es)
          BY <5>2, <5>3, SolutionTyped DEF Solves
        <5>5. k[x] = TotalOf(h, x, es)
          BY <5>2 DEF k
        <5> QED BY <5>4, <5>5
      <4> HIDE DEF k
      <4> QED BY <4>1 DEF Answering, Agreeing
    <3> HIDE DEF k
    <3> QED BY <3>1, <3>2, TotalOfSame
  <2>5. k = [c \in Within(m) |-> TotalOf(k, c, es)]
    BY <2>4
  <2> HIDE DEF k
  <2>6. Solves(k, es, Within(m))
    BY <2>5 DEF Solves
  <2> QED BY <2>2, <2>6
<1> QED BY <1>2

(* totalFor is a function, and answers what it should.                     *)
LEMMA TotalForIs ==
    ASSUME NEW es \in Seq(Edge), NEW c \in Call
    PROVE  TotalFor(es)[c] = TotalOf(TotalFor(es), c, es) /\ TotalFor(es)[c] \in Answer
<1> DEFINE n == Cardinality(Boards)
           Of[x \in Call] == TotalOf(Of, x, es)
           Is(g) == g = [x \in Call |-> TotalOf(g, x, es)]
<1>1. n \in Nat /\ Call = Within(n)
  <2>1. n \in Nat
    BY BoardsFinite
  <2>2. \A x \in Call : Unvisited(x) <= n
    BY UnvisitedNat
  <2> QED BY <2>1, <2>2 DEF Within
<1>2. \E g : Is(g)
  <2>1. \E g : Solves(g, es, Within(n))
    BY <1>1, SolutionExists
  <2> QED BY <1>1, <2>1 DEF Solves
<1>3. Is(Of)
  BY <1>2
<1>4. TotalFor(es) = Of
  BY DEF TotalFor
<1> HIDE DEF Of
<1>5. Is(TotalFor(es))
  BY <1>3, <1>4
<1>6. Solves(TotalFor(es), es, Within(n))
  BY <1>1, <1>5 DEF Solves
<1> HIDE DEF n
<1>7. TotalFor(es)[c] \in Answer
  BY <1>1, <1>6, SolutionTyped
<1> QED BY <1>5, <1>7

-----------------------------------------------------------------------------
(* What the totals are.                                                    *)

(* Boards without a loop: what lies below a board, itself included.        *)
NoLoop(es) ==
    \A bs \in (SUBSET Boards) \ {{}} : \E b \in bs :
        \A i \in DOMAIN es : es[i].end.from = b => es[i].end.to \notin bs
Closed(es, bs) ==
    \A i \in DOMAIN es : es[i].end.from \in bs /\ es[i].end.to \in Boards => es[i].end.to \in bs
Down(es, b) == {x \in Boards : \A bs \in SUBSET Boards : b \in bs /\ Closed(es, bs) => x \in bs}

LEMMA DownLeast ==
    ASSUME NEW es, NEW bs \in SUBSET Boards, NEW b \in bs, Closed(es, bs)
    PROVE  Down(es, b) \subseteq bs
BY DEF Down

LEMMA DownSelf == ASSUME NEW es, NEW b \in Boards PROVE b \in Down(es, b) /\ Closed(es, Down(es, b))
BY DEF Down, Closed

LEMMA DownChild ==
    ASSUME NEW es, NEW b \in Boards, NEW x \in Boards, NEW i \in DOMAIN es,
           es[i].end.from = b, es[i].end.to = x
    PROVE  Down(es, x) \subseteq Down(es, b)
<1>1. x \in Down(es, b)
  BY DownSelf DEF Closed
<1>2. Down(es, b) \in SUBSET Boards
  BY DEF Down
<1> QED BY <1>1, <1>2, DownSelf, DownLeast

(* What is below a board is the board or is below one it feeds.            *)
LEMMA DownStep ==
    ASSUME NEW es, NEW b \in Boards, NEW y \in Down(es, b), y # b
    PROVE  \E i \in DOMAIN es :
               es[i].end.from = b /\ es[i].end.to \in Boards /\ y \in Down(es, es[i].end.to)
<1> DEFINE bs == {b} \cup {z \in Boards : \E i \in DOMAIN es :
                    es[i].end.from = b /\ es[i].end.to \in Boards /\ z \in Down(es, es[i].end.to)}
<1>1. bs \in SUBSET Boards /\ b \in bs
  OBVIOUS
<1>2. ASSUME NEW j \in DOMAIN es, es[j].end.from \in bs, es[j].end.to \in Boards
      PROVE  es[j].end.to \in bs
  <2>1. CASE es[j].end.from = b
    <3>1. es[j].end.to \in Down(es, es[j].end.to)
      BY <1>2, DownSelf
    <3> QED BY <1>2, <2>1, <3>1
  <2>2. CASE es[j].end.from # b
    <3>1. PICK i \in DOMAIN es : /\ es[i].end.from = b /\ es[i].end.to \in Boards
                                 /\ es[j].end.from \in Down(es, es[i].end.to)
      BY <1>2, <2>2
    <3>2. es[j].end.to \in Down(es, es[i].end.to)
      BY <1>2, <3>1, DownSelf DEF Closed
    <3> QED BY <1>2, <3>1, <3>2
  <2> QED BY <2>1, <2>2
<1>3. Closed(es, bs)
  <2> HIDE DEF bs
  <2> QED BY <1>2 DEF Closed
<1>4. y \in bs
  <2> HIDE DEF bs
  <2> QED BY <1>1, <1>3, DownLeast
<1> QED BY <1>4

(* Without a loop a board is not below one it feeds. *)
LEMMA NotBack ==
    ASSUME NEW es, NoLoop(es), NEW b \in Boards, NEW x \in Boards, NEW i \in DOMAIN es,
           es[i].end.from = b, es[i].end.to = x
    PROVE  b \notin Down(es, x)
<1> SUFFICES ASSUME b \in Down(es, x) PROVE FALSE
  OBVIOUS
<1> DEFINE bs == {y \in Down(es, x) : b \in Down(es, y)}
<1>0. Down(es, x) \subseteq Boards
  BY DEF Down
<1>1. b \in bs /\ x \in bs /\ bs \in SUBSET Boards
  BY <1>0, DownSelf
<1> HIDE DEF bs
<1>2. PICK y \in bs : \A j \in DOMAIN es : es[j].end.from = y => es[j].end.to \notin bs
  BY <1>1 DEF NoLoop
<1>3. y # b
  BY <1>1, <1>2
<1>4. y \in Boards /\ y \in Down(es, x) /\ b \in Down(es, y)
  BY <1>0 DEF bs
<1>5. PICK j \in DOMAIN es :
          es[j].end.from = y /\ es[j].end.to \in Boards /\ b \in Down(es, es[j].end.to)
  BY <1>3, <1>4, DownStep
<1>6. es[j].end.to \in Down(es, x)
  BY <1>4, <1>5, DownSelf DEF Closed
<1>7. es[j].end.to \in bs
  BY <1>5, <1>6 DEF bs
<1> QED BY <1>2, <1>5, <1>7

(* What a circuit carries, given the totals of boards; the circuits of a   *)
(* board among the first k edges; totals that are right, and ones that     *)
(* add to others.                                                          *)
Vals(es, t) ==
    [j \in DOMAIN es |-> IF es[j].end.to \in Boards THEN t[es[j].end.to].kw ELSE es[j].kw]
Out(es, b, k) == {j \in 1..k : es[j].end.from = b}
Filled(es, t, b, k) == \A j \in Out(es, b, k) : es[j].end.to \in Boards => t[es[j].end.to].known
OutSum(es, t, b, k) == SumOf(Vals(es, t), Out(es, b, k))
Right(es, t) ==
    \A b \in Boards : t[b].known => Filled(es, t, b, Len(es)) /\ t[b].kw = OutSum(es, t, b, Len(es))
Grows(t, u) == \A b \in Boards : t[b].known => u[b].known /\ u[b].kw = t[b].kw

LEMMA OutFinite ==
    ASSUME NEW es \in Seq(Edge), NEW b, NEW k \in 0..Len(es)
    PROVE  IsFiniteSet(Out(es, b, k)) /\ Out(es, b, k) \subseteq DOMAIN es /\ k \in Nat
<1>1. Len(es) \in Nat /\ DOMAIN es = 1..Len(es)
  BY LenProperties
<1>2. IsFiniteSet(1..k)
  BY <1>1, FS_Interval
<1>3. Out(es, b, k) \in SUBSET (1..k)
  BY DEF Out
<1>4. 1..k \subseteq DOMAIN es
  BY <1>1
<1>5. IsFiniteSet(Out(es, b, k))
  BY <1>2, <1>3, FS_Subset
<1> QED BY <1>1, <1>3, <1>4, <1>5

LEMMA EdgeAt == ASSUME NEW es \in Seq(Edge), NEW j \in DOMAIN es PROVE es[j] \in Edge
<1>1. j \in 1..Len(es)
  BY LenProperties
<1> QED BY <1>1, ElementOfSeq

LEMMA ValsInt ==
    ASSUME NEW es \in Seq(Edge), NEW t \in [Boards -> Total], NEW b, NEW k \in 0..Len(es)
    PROVE  Ints(Vals(es, t), Out(es, b, k))
<1>1. Out(es, b, k) \subseteq DOMAIN es
  BY OutFinite
<1>2. ASSUME NEW j \in DOMAIN es PROVE Vals(es, t)[j] \in Int
  <2>1. es[j].kw \in Int
    BY EdgeAt DEF Edge
  <2>2. es[j].end.to \in Boards => t[es[j].end.to].kw \in Int
    BY DEF Total
  <2> QED BY <2>1, <2>2 DEF Vals
<1> QED BY <1>1, <1>2 DEF Ints

LEMMA SumGrows ==
    ASSUME NEW es \in Seq(Edge), NEW t, NEW u, Grows(t, u),
           NEW b, NEW k \in 0..Len(es), Filled(es, t, b, k)
    PROVE  Filled(es, u, b, k) /\ OutSum(es, u, b, k) = OutSum(es, t, b, k)
<1>1. \A j \in Out(es, b, k) : es[j].end.to \in Boards =>
          u[es[j].end.to].known /\ u[es[j].end.to].kw = t[es[j].end.to].kw
  BY DEF Filled, Grows
<1>2. Filled(es, u, b, k)
  BY <1>1 DEF Filled
<1>3. IsFiniteSet(Out(es, b, k)) /\ Out(es, b, k) \subseteq DOMAIN es
  BY OutFinite
<1>4. Same(Vals(es, t), Vals(es, u), Out(es, b, k))
  BY <1>1, <1>3 DEF Same, Vals
<1> QED BY <1>2, <1>3, <1>4, SumSame DEF OutSum

(* Totals that agree on what is known are right together. *)
LEMMA GrowsOn == ASSUME NEW t, NEW u, NEW v, Grows(t, u), Grows(u, v) PROVE Grows(t, v)
BY DEF Grows

(* What totalFor promises of a board, with the totals it is given.         *)
Result(es, c, r) ==
    /\ r \in Answer
    /\ Right(es, r.totals) /\ Grows(c.totals, r.totals)
    /\ r.totals[c.board].known /\ r.flow.kw = r.totals[c.board].kw
Claim(es, b) ==
    \A c \in Call : c.board = b /\ Right(es, c.totals) /\ Down(es, b) \cap c.visiting = {}
                        => Result(es, c, TotalFor(es)[c])

(* Its loop over the circuits, up to the first k edges.                    *)
Part(es, c, k, s) ==
    /\ s \in Carried
    /\ Right(es, s.totals) /\ Grows(c.totals, s.totals) /\ Filled(es, s.totals, c.board, k)
    /\ s.kw = OutSum(es, s.totals, c.board, k)

LEMMA OutNext ==
    ASSUME NEW es \in Seq(Edge), NEW b, NEW k \in 1..Len(es)
    PROVE  /\ es[k].end.from # b => Out(es, b, k) = Out(es, b, k - 1)
           /\ es[k].end.from = b => k \in Out(es, b, k) /\ Out(es, b, k) \ {k} = Out(es, b, k - 1)
<1>1. k \in Nat /\ 1..k = 1..(k - 1) \cup {k} /\ k \notin 1..(k - 1)
  BY LenProperties
<1> QED BY <1>1 DEF Out

LEMMA SumNext ==
    ASSUME NEW es \in Seq(Edge), NEW t \in [Boards -> Total], NEW b, NEW k \in 1..Len(es)
    PROVE  /\ es[k].end.from # b => OutSum(es, t, b, k) = OutSum(es, t, b, k - 1)
           /\ es[k].end.from = b => OutSum(es, t, b, k) = OutSum(es, t, b, k - 1) + Vals(es, t)[k]
<1>1. CASE es[k].end.from # b
  BY <1>1, OutNext DEF OutSum
<1>2. CASE es[k].end.from = b
  <2> DEFINE f == Vals(es, t)
             S == Out(es, b, k)
  <2>0. k \in 0..Len(es) /\ k - 1 \in 0..Len(es)
    BY LenProperties
  <2>1. IsFiniteSet(S) /\ Ints(f, S) /\ k \in S /\ S \ {k} = Out(es, b, k - 1)
    BY <1>2, <2>0, OutFinite, ValsInt, OutNext
  <2>2. f[k] \in Int
    BY <2>1 DEF Ints
  <2>3. SumOf(f, S) = f[k] + SumOf(f, S \ {k})
    <3> HIDE DEF f, S
    <3> QED BY <2>1, SumTake
  <2>4. IsFiniteSet(Out(es, b, k - 1)) /\ Ints(f, Out(es, b, k - 1))
    BY <2>0, OutFinite, ValsInt
  <2>5. SumOf(f, Out(es, b, k - 1)) \in Int
    <3> HIDE DEF f
    <3> QED BY <2>4, SumInt
  <2>6. OutSum(es, t, b, k) = SumOf(f, S) /\ OutSum(es, t, b, k - 1) = SumOf(f, Out(es, b, k - 1))
    BY DEF OutSum
  <2> HIDE DEF f, S
  <2>7. OutSum(es, t, b, k) = OutSum(es, t, b, k - 1) + f[k]
    <3>1. SumOf(f, S \ {k}) = SumOf(f, Out(es, b, k - 1))
      BY <2>1
    <3> DEFINE p == SumOf(f, Out(es, b, k - 1))
               v == f[k]
    <3>2. p \in Int /\ v \in Int /\ OutSum(es, t, b, k) = v + p /\ OutSum(es, t, b, k - 1) = p
      BY <2>2, <2>3, <2>5, <2>6, <3>1
    <3> HIDE DEF p, v
    <3>3. OutSum(es, t, b, k) = p + v
      BY <3>2
    <3> QED BY <3>2, <3>3 DEF v
  <2> QED BY <1>2, <2>7 DEF f
<1> QED BY <1>1, <1>2

LEMMA FilledNext ==
    ASSUME NEW es \in Seq(Edge), NEW t, NEW b, NEW k \in 1..Len(es), Filled(es, t, b, k - 1),
           es[k].end.from = b /\ es[k].end.to \in Boards => t[es[k].end.to].known
    PROVE  Filled(es, t, b, k)
<1>1. CASE es[k].end.from = b
  <2>1. \A j \in Out(es, b, k) : j = k \/ j \in Out(es, b, k - 1)
    BY <1>1, OutNext
  <2> QED BY <1>1, <2>1 DEF Filled
<1>2. CASE es[k].end.from # b
  BY <1>2, OutNext DEF Filled
<1> QED BY <1>1, <1>2

LEMMA PartStep ==
    ASSUME NEW es \in Seq(Edge), NoLoop(es), NEW c \in Call, c.board \notin c.visiting,
           Down(es, c.board) \cap c.visiting = {},
           NEW k \in 1..Len(es), NEW s, Part(es, c, k - 1, s),
           es[k].end.from = c.board /\ es[k].end.to \in Boards => Claim(es, es[k].end.to)
    PROVE  Part(es, c, k, AddCircuit(TotalFor(es), c, s, es[k]))
<1> DEFINE of == TotalFor(es)
           e == es[k]
           b == c.board
           u == AddCircuit(of, c, s, e)
<1>1. e \in Edge /\ k \in DOMAIN es /\ k - 1 \in 0..Len(es) /\ b \in Boards
  <2>1. Len(es) \in Nat /\ DOMAIN es = 1..Len(es) /\ k \in Nat
    BY LenProperties
  <2> QED BY <2>1, EdgeAt DEF Call
<1>2. Answering(of, c)
  BY TotalForIs DEF Answering, Deeper
<1>3. u \in Carried
  <2> HIDE DEF of, e
  <2> QED BY <1>1, <1>2, StepTyped DEF Part
<1>4. /\ s.totals \in [Boards -> Total] /\ s.kw \in Int
  BY DEF Part, Carried
<1>5. CASE e.end.from # b
  <2>1. u = s
    BY <1>5 DEF AddCircuit
  <2>2. Filled(es, s.totals, b, k)
    BY <1>5, FilledNext DEF Part
  <2>3. OutSum(es, s.totals, b, k) = OutSum(es, s.totals, b, k - 1)
    BY <1>4, <1>5, SumNext
  <2> QED BY <2>1, <2>2, <2>3 DEF Part
<1>6. CASE e.end.from = b /\ e.end.to \notin Boards
  <2>1. u.kw = s.kw + e.kw /\ u.totals = s.totals
    BY <1>6 DEF AddCircuit
  <2>2. Filled(es, s.totals, b, k)
    BY <1>6, FilledNext DEF Part
  <2>3. OutSum(es, s.totals, b, k) = OutSum(es, s.totals, b, k - 1) + e.kw
    <3>1. Vals(es, s.totals)[k] = e.kw
      BY <1>1, <1>6 DEF Vals
    <3> QED BY <1>4, <1>6, <3>1, SumNext
  <2> HIDE DEF u, e
  <2>4. Right(es, u.totals) /\ Grows(c.totals, u.totals) /\ Filled(es, u.totals, b, k)
    BY <2>1, <2>2 DEF Part
  <2>5. u.kw = OutSum(es, u.totals, b, k)
    BY <2>1, <2>3 DEF Part
  <2>6. Part(es, c, k, u)
    BY <1>3, <2>4, <2>5 DEF Part
  <2> QED BY <2>6 DEF u, e
<1>7. CASE e.end.from = b /\ e.end.to \in Boards
  <2> DEFINE x == e.end.to
             ask == AskFor(x, c.visiting \cup {b}, s.totals)
             r == of[ask]
  <2>1. ask \in Call /\ ask.board = x /\ ask.totals = s.totals /\ ask.visiting = c.visiting \cup {b}
    BY <1>4, <1>7, AsksDeeper DEF AskFor, Deeper
  <2>2. Down(es, x) \cap ask.visiting = {}
    <3>1. Down(es, x) \subseteq Down(es, b)
      BY <1>1, <1>7, DownChild
    <3>2. b \notin Down(es, x)
      BY <1>1, <1>7, NotBack
    <3> HIDE DEF ask, x
    <3> QED BY <2>1, <3>1, <3>2
  <2>3. Result(es, ask, r)
    <3>1. Claim(es, x)
      BY <1>7
    <3> HIDE DEF ask, x
    <3> QED BY <2>1, <2>2, <3>1 DEF Claim, Part
  <2>4. u.kw = s.kw + r.flow.kw /\ u.totals = r.totals
    BY <1>7 DEF AddCircuit
  <2> HIDE DEF u, r, ask
  <2>5. /\ Right(es, r.totals) /\ Grows(s.totals, r.totals)
        /\ r.totals[x].known /\ r.flow.kw = r.totals[x].kw
    BY <2>1, <2>3 DEF Result
  <2>6. r.totals \in [Boards -> Total]
    BY <1>3, <2>4 DEF Carried
  <2>7. /\ Filled(es, r.totals, b, k - 1)
        /\ OutSum(es, r.totals, b, k - 1) = OutSum(es, s.totals, b, k - 1)
    BY <1>1, <2>5, SumGrows DEF Part
  <2>8. Filled(es, r.totals, b, k)
    BY <2>5, <2>7, FilledNext
  <2>9. OutSum(es, r.totals, b, k) = OutSum(es, r.totals, b, k - 1) + r.totals[x].kw
    <3>1. Vals(es, r.totals)[k] = r.totals[x].kw
      BY <1>1, <1>7 DEF Vals
    <3> QED BY <1>7, <2>6, <3>1, SumNext
  <2>10. Grows(c.totals, r.totals)
    BY <2>5, GrowsOn DEF Part
  <2>11. u.kw = OutSum(es, u.totals, b, k)
    BY <2>4, <2>5, <2>7, <2>9 DEF Part
  <2>12. Right(es, u.totals) /\ Grows(c.totals, u.totals) /\ Filled(es, u.totals, b, k)
    BY <2>4, <2>5, <2>8, <2>10
  <2>13. Part(es, c, k, u)
    BY <1>3, <2>11, <2>12 DEF Part
  <2> QED BY <2>13 DEF u
<1> QED BY <1>5, <1>6, <1>7

LEMMA PartEnd ==
    ASSUME NEW es \in Seq(Edge), NEW c \in Call, ~c.totals[c.board].known,
           NEW s, Part(es, c, Len(es), s),
           NEW flow, flow = [known |-> TRUE, kw |-> s.kw, idle |-> s.idle],
           NEW r, r = [flow |-> flow, totals |-> [s.totals EXCEPT ![c.board] = flow]]
    PROVE  Result(es, c, r)
<1> DEFINE b == c.board
           n == Len(es)
           t == s.totals
           u == r.totals
<1>1. b \in Boards /\ n \in 0..n /\ n \in Nat
  BY LenProperties DEF Call
<1>2. t \in [Boards -> Total] /\ s.kw \in Int /\ s.idle \in BOOLEAN
  BY DEF Part, Carried
<1>3. flow \in Total /\ flow.known /\ flow.kw = s.kw
  BY <1>2 DEF Total
<1>4. u = [t EXCEPT ![b] = flow]
  OBVIOUS
<1>5. u \in [Boards -> Total] /\ u[b] = flow /\ \A x \in Boards : x # b => u[x] = t[x]
  BY <1>1, <1>2, <1>3, <1>4
<1>6. r \in Answer /\ r.flow = flow
  BY <1>3, <1>5 DEF Answer
<1>7. Right(es, t) /\ Grows(c.totals, t) /\ Filled(es, t, b, n) /\ s.kw = OutSum(es, t, b, n)
  BY DEF Part
<1> HIDE DEF b, n, t, u
<1>8. Grows(t, u)
  <2>1. ASSUME NEW x \in Boards, t[x].known PROVE u[x].known /\ u[x].kw = t[x].kw
    <3>1. CASE x = b
      <4>1. t[x].kw = OutSum(es, t, b, n)
        BY <1>7, <2>1, <3>1 DEF Right, n
      <4> QED BY <1>3, <1>5, <1>7, <3>1, <4>1
    <3>2. CASE x # b
      BY <1>5, <2>1, <3>2
    <3> QED BY <3>1, <3>2
  <2> QED BY <2>1 DEF Grows
<1>9. Right(es, u)
  <2>1. ASSUME NEW x \in Boards, u[x].known
        PROVE  Filled(es, u, x, n) /\ u[x].kw = OutSum(es, u, x, n)
    <3>1. Filled(es, t, x, n) /\ u[x].kw = OutSum(es, t, x, n)
      <4>1. CASE x = b
        BY <1>3, <1>5, <1>7, <4>1
      <4>2. CASE x # b
        <5>1. t[x].known /\ u[x].kw = t[x].kw
          BY <1>5, <2>1, <4>2
        <5> QED BY <1>7, <5>1 DEF Right, n
      <4> QED BY <4>1, <4>2
    <3>2. n \in 0..Len(es)
      BY <1>1 DEF n
    <3>3. Filled(es, u, x, n) /\ OutSum(es, u, x, n) = OutSum(es, t, x, n)
      BY <1>8, <3>1, <3>2, SumGrows
    <3> QED BY <3>1, <3>3
  <2> QED BY <2>1 DEF Right, n
<1>10. Grows(c.totals, u)
  BY <1>7, <1>8, GrowsOn
<1>11. u[b].known /\ r.flow.kw = u[b].kw
  BY <1>3, <1>5, <1>6
<1> QED BY <1>6, <1>9, <1>10, <1>11 DEF Result, u, b

LEMMA ClaimStep ==
    ASSUME NEW es \in Seq(Edge), NoLoop(es), NEW b \in Boards,
           \A i \in DOMAIN es :
               es[i].end.from = b /\ es[i].end.to \in Boards => Claim(es, es[i].end.to)
    PROVE  Claim(es, b)
<1> SUFFICES ASSUME NEW c \in Call, c.board = b, Right(es, c.totals),
                    Down(es, b) \cap c.visiting = {}
             PROVE  Result(es, c, TotalFor(es)[c])
  BY DEF Claim
<1> DEFINE of == TotalFor(es)
           n == Len(es)
           r == of[c]
<1>1. r = TotalOf(of, c, es) /\ r \in Answer
  BY TotalForIs
<1>2. b \notin c.visiting
  BY DownSelf
<1>3. c.totals \in [Boards -> Total]
  BY DEF Call
<1>4. CASE c.totals[b].known
  <2>1. r = [flow |-> c.totals[b], totals |-> c.totals]
    BY <1>1, <1>4 DEF TotalOf
  <2>2. Grows(c.totals, c.totals)
    BY DEF Grows
  <2> HIDE DEF r
  <2>3. Result(es, c, r)
    BY <1>1, <1>4, <2>1, <2>2 DEF Result
  <2> QED BY <2>3 DEF r
<1>5. CASE ~c.totals[b].known
  <2>1. PICK d : Steps(d, Inner(of, c), Begun(c), es) /\ Circuits(of, c, es) = d[n]
    BY CircuitsSteps
  <2>2. n \in Nat /\ DOMAIN es = 1..n
    BY LenProperties
  <2> DEFINE T == {k \in 0..n : ~Part(es, c, k, d[k])}
  <2>3. T \subseteq Nat
    BY <2>2
  <2>4. ASSUME T # {} PROVE FALSE
    <3>1. PICK m \in T : \A y \in T : ~(y < m)
      <4> HIDE DEF T
      <4> QED BY <2>3, <2>4, SmallestOf
    <3>2. m # 0
      <4>1. d[0] = Begun(c) /\ Begun(c).totals = c.totals /\ Begun(c).kw = 0
        BY <2>1 DEF Steps, Begun
      <4>2. Out(es, b, 0) = {}
        BY DEF Out
      <4>3. Filled(es, c.totals, b, 0) /\ OutSum(es, c.totals, b, 0) = 0
        BY <4>2, SumNone DEF Filled, OutSum
      <4>4. Begun(c) \in Carried
        BY <1>3 DEF Begun, Carried
      <4>5. Grows(c.totals, c.totals)
        BY DEF Grows
      <4>6. Part(es, c, 0, d[0])
        BY <4>1, <4>3, <4>4, <4>5 DEF Part
      <4> QED BY <3>1, <4>6
    <3>3. m - 1 \in 0..n /\ m \in 1..n /\ m - 1 < m
      BY <2>2, <3>1, <3>2
    <3>4. Part(es, c, m - 1, d[m - 1])
      BY <3>1, <3>3
    <3>5. d[m] = AddCircuit(of, c, d[m - 1], es[m])
      BY <2>1, <3>3, InnerStep DEF Steps
    <3>6. Part(es, c, m, AddCircuit(of, c, d[m - 1], es[m]))
      BY <1>2, <2>2, <3>3, <3>4, PartStep
    <3> QED BY <3>1, <3>5, <3>6
  <2>5. Part(es, c, n, d[n])
    <3>1. n \in 0..n
      BY <2>2
    <3> QED BY <2>4, <3>1
  <2> DEFINE s == d[n]
             flow == [known |-> TRUE, kw |-> s.kw, idle |-> s.idle]
  <2>6. r = [flow |-> flow, totals |-> [s.totals EXCEPT ![b] = flow]]
    BY <1>1, <1>2, <1>5, <2>1 DEF TotalOf
  <2> HIDE DEF r, s
  <2>7. Result(es, c, r)
    BY <1>5, <2>5, <2>6, PartEnd DEF s
  <2> QED BY <2>7 DEF r
<1> QED BY <1>4, <1>5

LEMMA ClaimAll ==
    ASSUME NEW es \in Seq(Edge), NoLoop(es), NEW b \in Boards
    PROVE  Claim(es, b)
<1> DEFINE bs == {x \in Boards : ~Claim(es, x)}
<1>1. ASSUME bs # {} PROVE FALSE
  <2>1. PICK x \in bs : \A i \in DOMAIN es : es[i].end.from = x => es[i].end.to \notin bs
    <3>1. bs \in (SUBSET Boards) \ {{}}
      BY <1>1
    <3> HIDE DEF bs
    <3> QED BY <3>1 DEF NoLoop
  <2>2. \A i \in DOMAIN es : es[i].end.from = x /\ es[i].end.to \in Boards => Claim(es, es[i].end.to)
    BY <2>1
  <2>3. Claim(es, x)
    BY <2>1, <2>2, ClaimStep
  <2> QED BY <2>1, <2>3
<1> QED BY <1>1

(* The sums of the model, over sets of edges. *)
NetOf(e) ==
    IF e.end = Derived \/ IsTariff(e.end) THEN 0
    ELSE IF e.end.to = "cu" THEN -e.kw ELSE IF e.end.from = "cu" THEN e.kw ELSE 0

LEMMA KwSum ==
    ASSUME NEW es, NEW S, IsFiniteSet(S)
    PROVE  MapThenSumSet(LAMBDA i : es[i].kw, S) = SumOf([i \in S |-> es[i].kw], S)
<1> DEFINE f == [i \in S |-> es[i].kw]
           iter[s \in SUBSET S] ==
               IF s = {} THEN 0
               ELSE es[(CHOOSE x \in s : TRUE)].kw + iter[s \ {CHOOSE x \in s : TRUE}]
           Is(g) == g = [s \in SUBSET S |->
               IF s = {} THEN 0
               ELSE es[(CHOOSE x \in s : TRUE)].kw + g[s \ {CHOOSE x \in s : TRUE}]]
<1>1. MapThenSumSet(LAMBDA i : es[i].kw, S) = iter[S]
  BY DEF MapThenSumSet, MapThenFoldSet
<1>2. PICK g : Sums(g, f, S) /\ SumOf(f, S) = g[S]
  BY SumIter
<1>3. ASSUME NEW h PROVE Is(h) <=> Sums(h, f, S)
  <2>1. \A s \in SUBSET S : s # {} => f[Pick(s)] = es[(CHOOSE x \in s : TRUE)].kw
    BY DEF Pick
  <2> HIDE DEF f
  <2> QED BY <2>1 DEF Sums, Pick
<1>4. \E h : Is(h)
  <2> HIDE DEF Is, f
  <2> QED BY <1>2, <1>3
<1>5. Is(iter)
  BY <1>4
<1> HIDE DEF iter, f, Is
<1>6. Sums(iter, f, S)
  BY <1>3, <1>5
<1>7. iter[S] = g[S]
  <2>1. Same(f, f, S) /\ S \in SUBSET S /\ S \subseteq S
    BY DEF Same
  <2> QED BY <1>2, <1>6, <2>1, SumsAgree
<1> QED BY <1>1, <1>2, <1>7 DEF f

LEMMA FedSum ==
    ASSUME NEW es, NEW t, NEW S, IsFiniteSet(S)
    PROVE  MapThenSumSet(LAMBDA i : t[es[i].end.to].kw, S) =
               SumOf([i \in S |-> t[es[i].end.to].kw], S)
<1> DEFINE f == [i \in S |-> t[es[i].end.to].kw]
           iter[s \in SUBSET S] ==
               IF s = {} THEN 0
               ELSE t[es[(CHOOSE x \in s : TRUE)].end.to].kw + iter[s \ {CHOOSE x \in s : TRUE}]
           Is(g) == g = [s \in SUBSET S |->
               IF s = {} THEN 0
               ELSE t[es[(CHOOSE x \in s : TRUE)].end.to].kw + g[s \ {CHOOSE x \in s : TRUE}]]
<1>1. MapThenSumSet(LAMBDA i : t[es[i].end.to].kw, S) = iter[S]
  BY DEF MapThenSumSet, MapThenFoldSet
<1>2. PICK g : Sums(g, f, S) /\ SumOf(f, S) = g[S]
  BY SumIter
<1>3. ASSUME NEW h PROVE Is(h) <=> Sums(h, f, S)
  <2>1. \A s \in SUBSET S : s # {} => f[Pick(s)] = t[es[(CHOOSE x \in s : TRUE)].end.to].kw
    BY DEF Pick
  <2> HIDE DEF f
  <2> QED BY <2>1 DEF Sums, Pick
<1>4. \E h : Is(h)
  <2> HIDE DEF Is, f
  <2> QED BY <1>2, <1>3
<1>5. Is(iter)
  BY <1>4
<1> HIDE DEF iter, f, Is
<1>6. Sums(iter, f, S)
  BY <1>3, <1>5
<1>7. iter[S] = g[S]
  <2>1. Same(f, f, S) /\ S \in SUBSET S /\ S \subseteq S
    BY DEF Same
  <2> QED BY <1>2, <1>6, <2>1, SumsAgree
<1> QED BY <1>1, <1>2, <1>7 DEF f

LEMMA NetSum ==
    ASSUME NEW es, NEW S, IsFiniteSet(S)
    PROVE  MapThenSumSet(LAMBDA i : NetOf(es[i]), S) = SumOf([i \in S |-> NetOf(es[i])], S)
<1> DEFINE f == [i \in S |-> NetOf(es[i])]
           iter[s \in SUBSET S] ==
               IF s = {} THEN 0
               ELSE NetOf(es[(CHOOSE x \in s : TRUE)]) + iter[s \ {CHOOSE x \in s : TRUE}]
           Is(g) == g = [s \in SUBSET S |->
               IF s = {} THEN 0
               ELSE NetOf(es[(CHOOSE x \in s : TRUE)]) + g[s \ {CHOOSE x \in s : TRUE}]]
<1>1. MapThenSumSet(LAMBDA i : NetOf(es[i]), S) = iter[S]
  BY DEF MapThenSumSet, MapThenFoldSet
<1>2. PICK g : Sums(g, f, S) /\ SumOf(f, S) = g[S]
  BY SumIter
<1>3. ASSUME NEW h PROVE Is(h) <=> Sums(h, f, S)
  <2>1. \A s \in SUBSET S : s # {} => f[Pick(s)] = NetOf(es[(CHOOSE x \in s : TRUE)])
    BY DEF Pick
  <2> HIDE DEF f
  <2> QED BY <2>1 DEF Sums, Pick
<1>4. \E h : Is(h)
  <2> HIDE DEF Is, f
  <2> QED BY <1>2, <1>3
<1>5. Is(iter)
  BY <1>4
<1> HIDE DEF iter, f, Is
<1>6. Sums(iter, f, S)
  BY <1>3, <1>5
<1>7. iter[S] = g[S]
  <2>1. Same(f, f, S) /\ S \in SUBSET S /\ S \subseteq S
    BY DEF Same
  <2> QED BY <1>2, <1>6, <2>1, SumsAgree
<1> QED BY <1>1, <1>2, <1>7 DEF f

(* All boards that are fed, worked out one after the other.                *)
TotalsPart(es, k, t) ==
    Right(es, t) /\ \A j \in 1..k : es[j].end.to \in Boards => t[es[j].end.to].known

LEMMA FeedTyped ==
    ASSUME NEW es \in Seq(Edge), NEW t \in [Boards -> Total], NEW e
    PROVE  AddFeed(es, t, e) \in [Boards -> Total]
<1>1. CASE e.end.to \in Boards
  <2>1. AskFor(e.end.to, {}, t) \in Call
    BY <1>1 DEF AskFor, Call
  <2>2. TotalFor(es)[AskFor(e.end.to, {}, t)] \in Answer
    BY <2>1, TotalForIs
  <2> QED BY <1>1, <2>2 DEF AddFeed, Answer
<1>2. CASE e.end.to \notin Boards
  BY <1>2 DEF AddFeed
<1> QED BY <1>1, <1>2

LEMMA FeedStep ==
    ASSUME NEW es \in Seq(Edge), NoLoop(es), NEW k \in 1..Len(es), NEW t \in [Boards -> Total],
           TotalsPart(es, k - 1, t)
    PROVE  TotalsPart(es, k, AddFeed(es, t, es[k]))
<1> DEFINE x == es[k].end.to
<1>0. \A j \in 1..k : j = k \/ j \in 1..(k - 1)
  BY LenProperties
<1>1. CASE x \in Boards
  <2> DEFINE ask == AskFor(x, {}, t)
             r == TotalFor(es)[ask]
  <2>1. ask \in Call /\ ask.board = x /\ ask.visiting = {} /\ ask.totals = t
    BY <1>1 DEF AskFor, Call
  <2>2. AddFeed(es, t, es[k]) = r.totals
    BY <1>1 DEF AddFeed
  <2>3. Claim(es, x)
    BY <1>1, ClaimAll
  <2> HIDE DEF ask, x
  <2>4. Result(es, ask, r)
    BY <2>1, <2>3 DEF Claim, TotalsPart
  <2> HIDE DEF r
  <2>5. Right(es, r.totals) /\ Grows(t, r.totals) /\ r.totals[x].known
    BY <2>1, <2>4 DEF Result
  <2>6. ASSUME NEW j \in 1..k, es[j].end.to \in Boards PROVE r.totals[es[j].end.to].known
    <3>1. CASE j = k
      BY <2>5, <3>1 DEF x
    <3>2. CASE j \in 1..(k - 1)
      BY <2>5, <2>6, <3>2 DEF TotalsPart, Grows
    <3> QED BY <1>0, <3>1, <3>2
  <2> QED BY <2>2, <2>5, <2>6 DEF TotalsPart
<1>2. CASE x \notin Boards
  BY <1>0, <1>2 DEF AddFeed, TotalsPart
<1> QED BY <1>1, <1>2

LEMMA UnknownTyped == Unknown \in [Boards -> Total]
BY DEF Unknown, Total

LEMMA TotalsTyped ==
    ASSUME NEW es \in Seq(Edge)
    PROVE  /\ Totals(es) \in [Boards -> Total]
           /\ NoLoop(es) => TotalsPart(es, Len(es), Totals(es))
<1> DEFINE n == Len(es)
<1>1. PICK d : Steps(d, Outer(es), Unknown, es) /\ Totals(es) = d[n]
  BY TotalsSteps
<1>2. n \in Nat /\ n \in 0..n
  BY LenProperties
<1> DEFINE Fine(k) == d[k] \in [Boards -> Total] /\ (NoLoop(es) => TotalsPart(es, k, d[k]))
           T == {k \in 0..n : ~Fine(k)}
<1>3. T \subseteq Nat
  BY <1>2
<1>4. ASSUME T # {} PROVE FALSE
  <2>1. PICK m \in T : \A y \in T : ~(y < m)
    <3> HIDE DEF T
    <3> QED BY <1>3, <1>4, SmallestOf
  <2>2. m # 0
    <3>1. d[0] = Unknown
      BY <1>1 DEF Steps
    <3>2. \A b \in Boards : ~Unknown[b].known
      BY DEF Unknown
    <3>3. TotalsPart(es, 0, Unknown)
      BY <3>2 DEF TotalsPart, Right
    <3>4. Fine(0)
      BY <3>1, <3>3, UnknownTyped
    <3> QED BY <2>1, <3>4
  <2>3. m - 1 \in 0..n /\ m \in 1..n /\ m - 1 < m
    BY <1>2, <2>1, <2>2
  <2>4. Fine(m - 1)
    BY <2>1, <2>3
  <2>5. d[m] = AddFeed(es, d[m - 1], es[m])
    BY <1>1, <2>3, OuterStep DEF Steps
  <2>6. d[m] \in [Boards -> Total]
    BY <2>4, <2>5, FeedTyped
  <2>7. NoLoop(es) => TotalsPart(es, m, d[m])
    BY <2>3, <2>4, <2>5, FeedStep
  <2> QED BY <2>1, <2>6, <2>7
<1>5. Fine(n)
  BY <1>2, <1>4
<1> QED BY <1>1, <1>5

(* The flows are numbers, and deriving them leaves the edges as they are.  *)
EndsKept(a, b) == Len(a) = Len(b) /\ DOMAIN a = DOMAIN b /\ \A i \in DOMAIN a : a[i].end = b[i].end

LEMMA MadeSeq ==
    ASSUME NEW es \in Seq(Edge), NEW w, w = [i \in DOMAIN es |-> w[i]],
           \A i \in DOMAIN es : w[i] \in Edge /\ w[i].end = es[i].end
    PROVE  w \in Seq(Edge) /\ EndsKept(w, es)
<1>1. Len(es) \in Nat /\ DOMAIN es = 1..Len(es)
  BY LenProperties
<1>2. w \in [1..Len(es) -> Edge]
  BY <1>1
<1>3. w \in Seq(Edge) /\ Len(w) = Len(es)
  BY <1>1, <1>2
<1> QED BY <1>1, <1>2, <1>3 DEF EndsKept

LEMMA DomainFinite == ASSUME NEW es \in Seq(Edge), NEW S \in SUBSET DOMAIN es PROVE IsFiniteSet(S)
<1>1. Len(es) \in Nat /\ DOMAIN es = 1..Len(es)
  BY LenProperties
<1>2. IsFiniteSet(DOMAIN es)
  BY <1>1, FS_Interval
<1> QED BY <1>2, FS_Subset

LEMMA ToBoardsInt ==
    ASSUME NEW es \in Seq(Edge), NEW t \in [Boards -> Total], NEW handle
    PROVE  ToBoards(es, t, handle) \in Int
<1> DEFINE S == FedFrom(es, handle)
           f == [i \in S |-> t[es[i].end.to].kw]
<1>1. S \in SUBSET DOMAIN es /\ \A i \in S : es[i].end.to \in Boards
  BY DEF FedFrom
<1>2. IsFiniteSet(S)
  BY <1>1, DomainFinite
<1>3. Ints(f, S)
  BY <1>1 DEF Ints, Total
<1>4. SumOf(f, S) \in Int
  <2> HIDE DEF f, S
  <2> QED BY <1>2, <1>3, SumInt
<1>5. MapThenSumSet(LAMBDA i : t[es[i].end.to].kw, S) = SumOf(f, S)
  <2> HIDE DEF S
  <2> QED BY <1>2, FedSum
<1> QED BY <1>4, <1>5 DEF ToBoards

LEMMA NetInt == ASSUME NEW es \in Seq(Edge) PROVE NetAtCu(es) \in Int
<1> DEFINE S == DOMAIN es
           f == [i \in S |-> NetOf(es[i])]
<1>1. IsFiniteSet(S)
  BY DomainFinite
<1>2. Ints(f, S)
  <2>1. \A i \in S : es[i].kw \in Int
    BY EdgeAt DEF Edge
  <2> QED BY <2>1 DEF Ints, NetOf
<1>3. SumOf(f, S) \in Int
  <2> HIDE DEF f, S
  <2> QED BY <1>1, <1>2, SumInt
<1>4. MapThenSumSet(LAMBDA i : NetOf(es[i]), S) = SumOf(f, S)
  <2> HIDE DEF S
  <2> QED BY <1>1, NetSum
<1>5. NetAtCu(es) = MapThenSumSet(LAMBDA i : NetOf(es[i]), S)
  BY DEF NetAtCu, NetOf
<1> QED BY <1>3, <1>4, <1>5

-----------------------------------------------------------------------------
(* The derived flows.                                                      *)

LEMMA RemainderInt ==
    ASSUME NEW es \in Seq(Edge), NEW t \in [Boards -> Total], NEW i \in DOMAIN es
    PROVE  Remainder(es, t, i) \in Int
<1> DEFINE m == CHOOSE kw \in es[i].metered : TRUE
           a == ToBoards(es, t, Target(es[i]))
           b == ToBoards(es, t, Source(es[i]))
<1>1. a \in Int /\ b \in Int
  BY ToBoardsInt
<1>2. es[i].kw \in Int /\ es[i].metered \in SUBSET Int
  BY EdgeAt DEF Edge
<1>3. es[i].metered # {} => m \in Int
  BY <1>2
<1>4. Remainder(es, t, i) = IF Splits(es, i, Target(es[i])) THEN m - a
                            ELSE IF Splits(es, i, Source(es[i])) THEN m + b ELSE es[i].kw
  BY DEF Remainder
<1>5. \A handle : Splits(es, i, handle) => es[i].metered # {}
  BY DEF Splits
<1> HIDE DEF m, a, b
<1>6. CASE es[i].metered # {}
  <2>1. m - a \in Int /\ m + b \in Int
    BY <1>1, <1>3, <1>6
  <2> QED BY <1>2, <1>4, <2>1
<1>7. CASE es[i].metered = {}
  BY <1>2, <1>4, <1>5, <1>7
<1> QED BY <1>6, <1>7

LEMMA FeedsMade ==
    ASSUME NEW es \in Seq(Edge)
    PROVE  WithSubCuFeeds(es) \in Seq(Edge) /\ EndsKept(WithSubCuFeeds(es), es)
<1> DEFINE t == Totals(es)
           w == WithSubCuFeeds(es)
<1>1. w = [i \in DOMAIN es |->
            IF es[i].end.to \in Boards
            THEN [es[i] EXCEPT !.kw = t[es[i].end.to].kw, !.idle = t[es[i].end.to].idle]
            ELSE [es[i] EXCEPT !.kw = Remainder(es, t, i)]]
  BY DEF WithSubCuFeeds
<1>2. t \in [Boards -> Total]
  BY TotalsTyped
<1> HIDE DEF t, w
<1>3. ASSUME NEW i \in DOMAIN es PROVE w[i] \in Edge /\ w[i].end = es[i].end
  <2>1. es[i] \in Edge
    BY EdgeAt
  <2>2. CASE es[i].end.to \in Boards
    <3> DEFINE x == t[es[i].end.to]
    <3>1. x \in Total
      BY <1>2, <2>2
    <3>2. w[i] = [es[i] EXCEPT !.kw = x.kw, !.idle = x.idle]
      BY <1>1, <2>2
    <3> HIDE DEF x
    <3> QED BY <2>1, <3>1, <3>2 DEF Edge, Total
  <2>3. CASE es[i].end.to \notin Boards
    <3> DEFINE x == Remainder(es, t, i)
    <3>1. x \in Int
      BY <1>2, RemainderInt
    <3>2. w[i] = [es[i] EXCEPT !.kw = x]
      BY <1>1, <2>3
    <3> HIDE DEF x
    <3> QED BY <2>1, <3>1, <3>2 DEF Edge
  <2> QED BY <2>2, <2>3
<1>4. w = [i \in DOMAIN es |-> w[i]]
  BY <1>1
<1>5. w \in Seq(Edge) /\ EndsKept(w, es)
  BY <1>3, <1>4, MadeSeq
<1> QED BY <1>5 DEF w

LEMMA UnallocatedMade ==
    ASSUME NEW es \in Seq(Edge)
    PROVE  /\ WithUnallocated(es) \in Seq(Edge) /\ EndsKept(WithUnallocated(es), es)
           /\ \A i \in DOMAIN es : es[i].end # Derived => WithUnallocated(es)[i] = es[i]
<1> DEFINE n == NetAtCu(es)
           w == WithUnallocated(es)
           v == -Max({0, n})
<1>1. w = [i \in DOMAIN es |->
            IF es[i].end # Derived THEN es[i] ELSE [es[i] EXCEPT !.kw = v, !.raw = n]]
  BY DEF WithUnallocated
<1>2. n \in Int
  BY NetInt
<1>3. v \in Int
  <2>1. Max({0, n}) = IF 0 >= n THEN 0 ELSE n
    <3> HIDE DEF n
    <3> QED BY <1>2, MaxOf
  <2> QED BY <1>2, <2>1
<1> HIDE DEF n, w, v
<1>4. ASSUME NEW i \in DOMAIN es PROVE w[i] \in Edge /\ w[i].end = es[i].end
  <2>1. es[i] \in Edge
    BY EdgeAt
  <2>2. w[i] = es[i] \/ w[i] = [es[i] EXCEPT !.kw = v, !.raw = n]
    BY <1>1
  <2> QED BY <1>2, <1>3, <2>1, <2>2 DEF Edge
<1>5. w = [i \in DOMAIN es |-> w[i]]
  BY <1>1
<1>6. w \in Seq(Edge) /\ EndsKept(w, es)
  BY <1>4, <1>5, MadeSeq
<1>7. \A i \in DOMAIN es : es[i].end # Derived => w[i] = es[i]
  BY <1>1
<1> QED BY <1>6, <1>7 DEF w

(* What the invariants say of any edges. *)
Own(es) ==
    \A i \in DOMAIN es : es[i].end.from \in Boards /\ es[i].end.to \notin Boards =>
        FedFrom(es, Source(es[i])) = {} /\ FedFrom(es, Target(es[i])) = {}
KwOf(es, is) == MapThenSumSet(LAMBDA i : es[i].kw, is)
Even(es) ==
    \A i \in DOMAIN es : es[i].end.to \in Boards =>
        es[i].kw = KwOf(es, {j \in DOMAIN es : es[j].end.from = es[i].end.to})

LEMMA KeptWiring ==
    ASSUME NEW a, NEW b, EndsKept(a, b)
    PROVE  (NoLoop(a) => NoLoop(b)) /\ (Own(a) => Own(b))
<1>1. DOMAIN a = DOMAIN b /\ \A i \in DOMAIN a : a[i].end = b[i].end
  BY DEF EndsKept
<1>2. NoLoop(a) => NoLoop(b)
  BY <1>1 DEF NoLoop
<1>3. \A handle : FedFrom(a, handle) = FedFrom(b, handle)
  BY <1>1 DEF FedFrom, Source
<1>4. \A i \in DOMAIN a : Source(a[i]) = Source(b[i]) /\ Target(a[i]) = Target(b[i])
  BY <1>1 DEF Source, Target
<1>5. Own(a) => Own(b)
  BY <1>1, <1>3, <1>4 DEF Own
<1> QED BY <1>2, <1>5

LEMMA KeptTwice ==
    ASSUME NEW a, NEW b, NEW c, EndsKept(a, b), EndsKept(b, c) PROVE EndsKept(a, c)
BY DEF EndsKept

LEMMA DerivedEdges ==
    ASSUME NEW es \in Seq(Edge)
    PROVE  WithDerivedFlows(es) \in Seq(Edge) /\ EndsKept(WithDerivedFlows(es), es)
<1>1. WithSubCuFeeds(es) \in Seq(Edge) /\ EndsKept(WithSubCuFeeds(es), es)
  BY FeedsMade
<1>2. WithDerivedFlows(es) \in Seq(Edge) /\ EndsKept(WithDerivedFlows(es), WithSubCuFeeds(es))
  BY <1>1, UnallocatedMade DEF WithDerivedFlows
<1> QED BY <1>1, <1>2, KeptTwice

(* A circuit of a board shows what the totals count it for. *)
LEMMA CircuitShown ==
    ASSUME NEW es \in Seq(Edge), Own(es), NEW j \in DOMAIN es, es[j].end.from \in Boards
    PROVE  WithDerivedFlows(es)[j].kw = Vals(es, Totals(es))[j]
<1> DEFINE t == Totals(es)
           u == WithSubCuFeeds(es)
<1>1. u \in Seq(Edge) /\ DOMAIN u = DOMAIN es /\ u[j].end = es[j].end
  BY FeedsMade DEF EndsKept
<1>2. es[j].end # Derived
  BY FlowAssumption DEF Derived, Boards
<1>3. WithDerivedFlows(es)[j] = u[j]
  BY <1>1, <1>2, UnallocatedMade DEF WithDerivedFlows
<1>4. es[j] \in Edge
  BY EdgeAt
<1>5. u[j] = IF es[j].end.to \in Boards
             THEN [es[j] EXCEPT !.kw = t[es[j].end.to].kw, !.idle = t[es[j].end.to].idle]
             ELSE [es[j] EXCEPT !.kw = Remainder(es, t, j)]
  BY DEF WithSubCuFeeds
<1>6. es[j].end.to \notin Boards => Remainder(es, t, j) = es[j].kw
  BY DEF Own, Remainder, Splits
<1> HIDE DEF t
<1>7. u[j].kw = IF es[j].end.to \in Boards THEN t[es[j].end.to].kw ELSE es[j].kw
  <2> HIDE DEF u
  <2> QED BY <1>4, <1>5, <1>6 DEF Edge
<1> QED BY <1>3, <1>7 DEF Vals, t

LEMMA EvenDerived ==
    ASSUME NEW es \in Seq(Edge), NoLoop(es), Own(es)
    PROVE  Even(WithDerivedFlows(es))
<1> DEFINE t == Totals(es)
           w == WithDerivedFlows(es)
<1>1. w \in Seq(Edge) /\ DOMAIN w = DOMAIN es /\ \A i \in DOMAIN es : w[i].end = es[i].end
  BY DerivedEdges DEF EndsKept
<1>2. TotalsPart(es, Len(es), t)
  BY TotalsTyped
<1>3. Len(es) \in Nat /\ DOMAIN es = 1..Len(es) /\ Len(es) \in 0..Len(es)
  BY LenProperties
<1>4. \A j \in DOMAIN es : es[j].end.from \in Boards => w[j].kw = Vals(es, t)[j]
  BY CircuitShown
<1>5. ASSUME NEW i \in DOMAIN w, w[i].end.to \in Boards
      PROVE  w[i].kw = KwOf(w, {j \in DOMAIN w : w[j].end.from = w[i].end.to})
  <2> DEFINE b == es[i].end.to
             S == Out(es, b, Len(es))
             f == [j \in S |-> w[j].kw]
  <2>1. i \in DOMAIN es /\ b \in Boards /\ w[i].end.to = b
    BY <1>1, <1>5
  <2>2. w[i].kw = t[b].kw
    <3>1. es[i].end # Derived
      BY <2>1, FlowAssumption DEF Derived, Boards
    <3>2. w[i].kw = WithSubCuFeeds(es)[i].kw
      BY <2>1, <3>1, FeedsMade, UnallocatedMade DEF WithDerivedFlows, EndsKept
    <3>3. WithSubCuFeeds(es)[i] = [es[i] EXCEPT !.kw = t[b].kw, !.idle = t[b].idle]
      BY <2>1 DEF WithSubCuFeeds
    <3>4. es[i] \in Edge
      BY <2>1, EdgeAt
    <3> HIDE DEF t, b, w
    <3> QED BY <3>2, <3>3, <3>4 DEF Edge
  <2>3. t[b].known
    BY <1>2, <1>3, <2>1 DEF TotalsPart
  <2>4. t[b].kw = SumOf(Vals(es, t), S)
    BY <1>2, <2>1, <2>3 DEF TotalsPart, Right, OutSum
  <2>5. IsFiniteSet(S) /\ S \subseteq DOMAIN es
    BY <1>3, OutFinite
  <2>6. Same(f, Vals(es, t), S)
    <3>1. \A j \in S : j \in DOMAIN es /\ es[j].end.from = b
      BY <2>5 DEF Out
    <3> HIDE DEF t, w, S, b
    <3> QED BY <1>4, <2>1, <3>1 DEF Same
  <2>7. SumOf(f, S) = SumOf(Vals(es, t), S)
    <3> HIDE DEF f, S, t
    <3> QED BY <2>5, <2>6, SumSame
  <2>8. KwOf(w, S) = SumOf(f, S)
    <3> HIDE DEF S, w
    <3> QED BY <2>5, KwSum DEF KwOf
  <2>9. S = {j \in DOMAIN w : w[j].end.from = w[i].end.to}
    <3> HIDE DEF w, b
    <3> QED BY <1>1, <1>3, <2>1 DEF Out
  <2> HIDE DEF S, w, t, f, b
  <2> QED BY <2>2, <2>4, <2>7, <2>8, <2>9
<1> HIDE DEF w
<1>6. Even(w)
  BY <1>5 DEF Even
<1> QED BY <1>6 DEF w

LEMMA BareEdge == ASSUME NEW e \in Wires PROVE Bare(e) \in Edge /\ Bare(e).end = e
BY DEF Bare, Edge

LEMMA MeteredEdge ==
    ASSUME NEW b \in Edge, NEW p \in Int
    PROVE  Metered(b, p) \in Edge /\ Metered(b, p).end = b.end
<1> DEFINE kw == Flow(b.end, p)
           q == Idle(MeteredAt(b.end), p)
<1>1. kw \in Int
  BY DEF Flow
<1>2. q \in BOOLEAN
  BY DEF Idle
<1>3. Metered(b, p) = [b EXCEPT !.kw = kw, !.metered = {kw}, !.idle = q]
  BY DEF Metered
<1> HIDE DEF kw, q
<1> QED BY <1>1, <1>2, <1>3 DEF Edge

(* onInit: what is loaded are edges with flows derived. *)
LEMMA LoadedFrom ==
    ASSUME NEW saved \in Seq(Wires), NEW readings \in [Meters -> SUBSET Readings]
    PROVE  \E es \in Seq(Edge) : Loaded(saved, readings) = WithDerivedFlows(es)
<1> DEFINE a == [i \in DOMAIN saved |->
                    LET at == MeteredAt(saved[i]) IN
                    IF IsTariff(saved[i]) THEN Bare(saved[i])
                    ELSE IF at \in Meters /\ readings[at] # {}
                    THEN Metered(Bare(saved[i]), CHOOSE p \in readings[at] : TRUE)
                    ELSE [Bare(saved[i]) EXCEPT !.metered = {0}]]
<1>1. Loaded(saved, readings) = WithDerivedFlows(Append(a, Bare(Derived)))
  BY DEF Loaded
<1>2. /\ Len(saved) \in Nat /\ DOMAIN saved = 1..Len(saved)
      /\ \A i \in DOMAIN saved : saved[i] \in Wires
  <2>1. Len(saved) \in Nat /\ DOMAIN saved = 1..Len(saved)
    BY LenProperties
  <2> QED BY <2>1, ElementOfSeq
<1>3. ASSUME NEW i \in DOMAIN saved PROVE a[i] \in Edge
  <2> DEFINE at == MeteredAt(saved[i])
             p == CHOOSE p \in readings[at] : TRUE
  <2>1. Bare(saved[i]) \in Edge
    BY <1>2, BareEdge
  <2>2. at \in Meters /\ readings[at] # {} => p \in Int
    <3>1. Readings \subseteq Int
      BY FlowAssumption
    <3> HIDE DEF at
    <3> QED BY <3>1
  <2>3. at \in Meters /\ readings[at] # {} => Metered(Bare(saved[i]), p) \in Edge
    <3> HIDE DEF at, p
    <3> QED BY <2>1, <2>2, MeteredEdge
  <2>4. [Bare(saved[i]) EXCEPT !.metered = {0}] \in Edge
    BY <2>1 DEF Edge
  <2> QED BY <2>1, <2>3, <2>4
<1>4. a \in [1..Len(saved) -> Edge]
  <2>1. a = [i \in DOMAIN saved |-> a[i]]
    OBVIOUS
  <2> HIDE DEF a
  <2> QED BY <1>2, <1>3, <2>1
<1>5. a \in Seq(Edge)
  <2> HIDE DEF a
  <2> QED BY <1>2, <1>4
<1>6. Bare(Derived) \in Edge
  BY BareEdge DEF Wires
<1>7. Append(a, Bare(Derived)) \in Seq(Edge)
  <2> HIDE DEF a
  <2> QED BY <1>5, <1>6, AppendProperties
<1> QED BY <1>1, <1>7

(* handleWsMessage stamps readings on edges. *)
LEMMA StampedEdges ==
    ASSUME NEW es \in Seq(Edge), NEW ns \in SUBSET Meters, NEW batch \in [ns -> Readings]
    PROVE  Stamped(es, batch) \in Seq(Edge) /\ EndsKept(Stamped(es, batch), es)
<1> DEFINE w == Stamped(es, batch)
<1>1. w = [i \in DOMAIN es |-> IF es[i].end.to \notin Boards /\ MeteredAt(es[i].end) \in DOMAIN batch
                               THEN Metered(es[i], batch[MeteredAt(es[i].end)]) ELSE es[i]]
  BY DEF Stamped
<1> HIDE DEF w
<1>2. ASSUME NEW i \in DOMAIN es PROVE w[i] \in Edge /\ w[i].end = es[i].end
  <2> DEFINE at == MeteredAt(es[i].end)
  <2>1. es[i] \in Edge
    BY EdgeAt
  <2>2. at \in DOMAIN batch => batch[at] \in Int
    BY FlowAssumption
  <2>3. w[i] = IF es[i].end.to \notin Boards /\ at \in DOMAIN batch
               THEN Metered(es[i], batch[at]) ELSE es[i]
    BY <1>1
  <2> HIDE DEF at
  <2> QED BY <2>1, <2>2, <2>3, MeteredEdge
<1>3. w = [i \in DOMAIN es |-> w[i]]
  BY <1>1
<1>4. w \in Seq(Edge) /\ EndsKept(w, es)
  BY <1>2, <1>3, MadeSeq
<1> QED BY <1>4 DEF w

LEMMA RemovedSeq ==
    ASSUME NEW S, NEW s \in Seq(S), NEW i \in DOMAIN s
    PROVE  RemoveAt(s, i) \in Seq(S)
<1>1. Len(s) \in Nat /\ i \in 1..Len(s)
  BY LenProperties
<1>2. SubSeq(s, 1, i - 1) \in Seq(S) /\ SubSeq(s, i + 1, Len(s)) \in Seq(S)
  BY <1>1, SubSeqProperties
<1> QED BY <1>2, ConcatProperties DEF RemoveAt

-----------------------------------------------------------------------------
(* The readings on the nodes.                                              *)

(* Which frames carry a reading of meter n.                                *)
Carries(i, n) == i \in DOMAIN frames /\ n \in DOMAIN frames[i]
NewestOf(i, n) == Carries(i, n) /\ \A j \in DOMAIN frames : j > i => ~Carries(j, n)
UnderWay(n) == \E i \in DOMAIN frames : Carries(i, n)

FlowsTyped ==
    /\ cache \in [Meters -> SUBSET Readings] /\ power \in [Meters -> SUBSET Readings]
    /\ snapshot \in [Meters -> SUBSET Readings]
    /\ frames \in Seq(Batches)
    /\ socket \in BOOLEAN /\ view \in {"loading", "answered", "shown"}
    /\ warn \in BOOLEAN /\ held \in 0..Hold

(* The newest frame of a meter carries what the firmware has cached.  With *)
(* none under way the page has it: on its nodes, or in the answer that     *)
(* onInit will put there.  A closed socket has no frame under way, so that *)
(* a frame is never older than a report that was missed.                   *)
LatestInv ==
    /\ FlowsTyped
    /\ ~socket => frames = << >>
    /\ \A n \in Meters : \A i \in DOMAIN frames : NewestOf(i, n) => cache[n] = {frames[i][n]}
    /\ \A n \in Meters \ missed : ~UnderWay(n) =>
        /\ view = "shown" => power[n] = cache[n]
        /\ view = "answered" => snapshot[n] = cache[n]

LEMMA LatestStart == Init => LatestInv
<1> SUFFICES ASSUME Init PROVE LatestInv
  OBVIOUS
<1>1. /\ cache = NoReadings /\ power = NoReadings /\ snapshot = NoReadings
      /\ frames = << >> /\ socket = TRUE /\ view = "loading" /\ warn = FALSE /\ held = 0
  BY DEF Init
<1>2. NoReadings \in [Meters -> SUBSET Readings]
  BY DEF NoReadings
<1>3. frames \in Seq(Batches) /\ DOMAIN frames = {}
  BY <1>1
<1>4. held \in 0..Hold
  BY <1>1, FlowAssumption
<1>5. FlowsTyped
  BY <1>1, <1>2, <1>3, <1>4 DEF FlowsTyped
<1> QED BY <1>1, <1>3, <1>5 DEF LatestInv

(* A step that leaves the readings alone; only the timer may run on. *)
LEMMA ReadingsSame ==
    ASSUME LatestInv, UNCHANGED <<cache, frames, power, snapshot, view, missed>>,
           socket' \in BOOLEAN, ~socket' => ~socket, warn' \in BOOLEAN, held' \in 0..Hold
    PROVE  LatestInv'
<1>1. FlowsTyped'
  BY DEF LatestInv, FlowsTyped
<1>2. (~socket => frames = << >>)'
  BY DEF LatestInv
<1>3. \A n : UnderWay(n)' <=> UnderWay(n)
  BY DEF UnderWay, Carries
<1>4. \A n \in Meters : \A i \in DOMAIN frames : NewestOf(i, n)' <=> NewestOf(i, n)
  BY DEF NewestOf, Carries
<1> QED BY <1>1, <1>2, <1>3, <1>4 DEF LatestInv

LEMMA BroadcastKeeps == ASSUME LatestInv, NEW batch \in Batches, Broadcast(batch) PROVE LatestInv'
<1>1. PICK ns \in SUBSET Meters : batch \in [ns -> Readings]
  BY DEF Batches
<1>2. /\ cache' = [n \in Meters |-> IF n \in DOMAIN batch THEN {batch[n]} ELSE cache[n]]
      /\ UNCHANGED <<socket, view, snapshot, power, warn, held>>
  BY DEF Broadcast
<1>3. cache' \in [Meters -> SUBSET Readings]
  BY <1>1, <1>2 DEF LatestInv, FlowsTyped
<1>4. CASE socket
  <2>1. frames' = Append(frames, batch) /\ missed' = missed
    BY <1>4 DEF Broadcast
  <2>2. frames \in Seq(Batches)
    BY DEF LatestInv, FlowsTyped
  <2>3. /\ Len(frames) \in Nat /\ DOMAIN frames = 1..Len(frames)
        /\ frames' \in Seq(Batches) /\ DOMAIN frames' = 1..(Len(frames) + 1)
        /\ frames'[Len(frames) + 1] = batch /\ \A i \in DOMAIN frames : frames'[i] = frames[i]
    BY <2>1, <2>2, AppendProperties, LenProperties
  <2>4. FlowsTyped'
    BY <1>2, <1>3, <2>3 DEF LatestInv, FlowsTyped
  <2>5. ASSUME NEW n \in Meters, NEW i \in DOMAIN frames', NewestOf(i, n)'
        PROVE  cache'[n] = {frames'[i][n]}
    <3>1. CASE i = Len(frames) + 1
      BY <1>2, <2>3, <2>5, <3>1 DEF NewestOf, Carries
    <3>2. CASE i \in DOMAIN frames
      <4>1. n \notin DOMAIN batch
        BY <2>3, <2>5, <3>2 DEF NewestOf, Carries
      <4>2. NewestOf(i, n)
        BY <2>3, <2>5, <3>2 DEF NewestOf, Carries
      <4> QED BY <1>2, <2>3, <3>2, <4>1, <4>2 DEF LatestInv
    <3> QED BY <2>3, <3>1, <3>2
  <2>6. ASSUME NEW n \in Meters \ missed', ~UnderWay(n)'
        PROVE  /\ view' = "shown" => power'[n] = cache'[n]
               /\ view' = "answered" => snapshot'[n] = cache'[n]
    <3>1. n \notin DOMAIN batch /\ ~UnderWay(n)
      BY <2>3, <2>6 DEF UnderWay, Carries
    <3> QED BY <1>2, <2>1, <3>1 DEF LatestInv
  <2> QED BY <1>2, <1>4, <2>4, <2>5, <2>6 DEF LatestInv
<1>5. CASE ~socket
  <2>1. frames' = frames /\ missed' = missed \cup DOMAIN batch /\ frames = << >>
    BY <1>5 DEF Broadcast, LatestInv
  <2>2. FlowsTyped'
    BY <1>2, <1>3, <2>1 DEF LatestInv, FlowsTyped
  <2>3. DOMAIN frames' = {} /\ DOMAIN frames = {}
    BY <2>1
  <2>4. ASSUME NEW n \in Meters \ missed'
        PROVE  /\ view' = "shown" => power'[n] = cache'[n]
               /\ view' = "answered" => snapshot'[n] = cache'[n]
    <3>1. n \notin DOMAIN batch /\ n \notin missed /\ ~UnderWay(n)
      BY <2>1, <2>3, <2>4 DEF UnderWay
    <3> QED BY <1>2, <3>1 DEF LatestInv
  <2> QED BY <1>2, <2>1, <2>2, <2>3, <2>4 DEF LatestInv
<1> QED BY <1>4, <1>5 DEF LatestInv, FlowsTyped

LEMMA DisconnectKeeps == ASSUME LatestInv, Disconnect PROVE LatestInv'
<1>1. /\ socket' = FALSE /\ frames' = << >>
      /\ missed' = missed \cup UNION {DOMAIN frames[i] : i \in DOMAIN frames}
      /\ UNCHANGED <<cache, view, snapshot, power, warn, held>>
  BY DEF Disconnect
<1>2. frames' \in Seq(Batches) /\ DOMAIN frames' = {}
  BY <1>1
<1>3. FlowsTyped'
  BY <1>1, <1>2 DEF LatestInv, FlowsTyped
<1>4. \A n \in Meters \ missed' : n \notin missed /\ ~UnderWay(n)
  BY <1>1 DEF UnderWay, Carries
<1> QED BY <1>1, <1>2, <1>3, <1>4 DEF LatestInv

LEMMA AnswerLoadKeeps == ASSUME LatestInv, AnswerLoad PROVE LatestInv'
<1>1. /\ view' = "answered" /\ snapshot' = cache
      /\ UNCHANGED <<cache, frames, socket, power, warn, held>>
  BY DEF AnswerLoad
<1>2. FlowsTyped'
  BY <1>1 DEF LatestInv, FlowsTyped
<1>3. \A n \in Meters : \A i \in DOMAIN frames : NewestOf(i, n)' <=> NewestOf(i, n)
  BY <1>1 DEF NewestOf, Carries
<1> QED BY <1>1, <1>2, <1>3 DEF LatestInv

LEMMA ShowLoadKeeps == ASSUME LatestInv, ShowLoad PROVE LatestInv'
<1>1. /\ view = "answered" /\ view' = "shown" /\ power' = snapshot
      /\ UNCHANGED <<cache, frames, socket, snapshot, warn, missed>> /\ held' \in {0, held}
  BY DEF ShowLoad, RestartTimer
<1>2. FlowsTyped'
  BY <1>1, FlowAssumption DEF LatestInv, FlowsTyped
<1>3. \A n \in Meters : \A i \in DOMAIN frames : NewestOf(i, n)' <=> NewestOf(i, n)
  BY <1>1 DEF NewestOf, Carries
<1>4. \A n : UnderWay(n)' <=> UnderWay(n)
  BY <1>1 DEF UnderWay, Carries
<1> QED BY <1>1, <1>2, <1>3, <1>4 DEF LatestInv

LEMMA FrameKeeps == ASSUME LatestInv, Frame PROVE LatestInv'
<1> DEFINE batch == frames[1]
<1>1. frames \in Seq(Batches) /\ frames # << >>
  BY DEF Frame, LatestInv, FlowsTyped
<1>2. /\ Len(frames) \in Nat \ {0} /\ DOMAIN frames = 1..Len(frames)
      /\ Head(frames) = batch /\ batch \in Batches
  BY <1>1, EmptySeq, LenProperties, ElementOfSeq, HeadTailProperties
<1>3. frames' = Tail(frames) /\ UNCHANGED <<cache, socket, view, snapshot, warn>> /\ held' \in {0, held}
  BY DEF Frame, RestartTimer
<1>4. frames' \in Seq(Batches) /\ DOMAIN frames' = 1..(Len(frames) - 1)
  <2>1. frames' \in Seq(Batches) /\ Len(frames') = Len(frames) - 1
    BY <1>1, <1>3, HeadTailProperties
  <2> QED BY <2>1, LenProperties
<1>5. \A i \in DOMAIN frames' : i + 1 \in DOMAIN frames /\ frames'[i] = frames[i + 1]
  BY <1>1, <1>2, <1>3, <1>4, HeadTailProperties
<1>6. PICK ns \in SUBSET Meters : batch \in [ns -> Readings]
  BY <1>2 DEF Batches
<1>7. IF view = "shown"
      THEN /\ power' = [n \in Meters |-> IF n \in DOMAIN batch THEN {batch[n]} ELSE power[n]]
           /\ missed' = missed \ DOMAIN batch
      ELSE missed' = missed \cup DOMAIN batch /\ power' = power
  BY <1>2 DEF Frame
<1> HIDE DEF batch
<1>8. FlowsTyped'
  <2>1. power' \in [Meters -> SUBSET Readings]
    BY <1>6, <1>7 DEF LatestInv, FlowsTyped
  <2>2. held' \in 0..Hold
    BY <1>3, FlowAssumption DEF LatestInv, FlowsTyped
  <2> QED BY <1>3, <1>4, <2>1, <2>2 DEF LatestInv, FlowsTyped
<1>9. ~socket' => frames' = << >>
  BY <1>1, <1>3 DEF LatestInv
<1>10. ASSUME NEW n \in Meters, NEW i \in DOMAIN frames', NewestOf(i, n)'
       PROVE  cache'[n] = {frames'[i][n]}
  <2>1. i + 1 \in DOMAIN frames /\ frames'[i] = frames[i + 1] /\ i \in Nat
    BY <1>4, <1>5
  <2>2. Carries(i + 1, n)
    BY <1>10, <2>1 DEF NewestOf, Carries
  <2>3. ASSUME NEW j \in DOMAIN frames, j > i + 1 PROVE ~Carries(j, n)
    <3>1. j - 1 \in DOMAIN frames' /\ j - 1 > i /\ (j - 1) + 1 = j
      BY <1>2, <1>4, <2>1, <2>3
    <3>2. ~Carries(j - 1, n)'
      BY <1>10, <3>1 DEF NewestOf
    <3> QED BY <1>5, <3>1, <3>2 DEF Carries
  <2>4. NewestOf(i + 1, n)
    BY <2>2, <2>3 DEF NewestOf
  <2> QED BY <1>3, <2>1, <2>4 DEF LatestInv
<1>11. ASSUME NEW n \in Meters \ missed', ~UnderWay(n)'
       PROVE  /\ view' = "shown" => power'[n] = cache'[n]
              /\ view' = "answered" => snapshot'[n] = cache'[n]
  <2>1. \A j \in DOMAIN frames : j > 1 => ~Carries(j, n)
    <3> SUFFICES ASSUME NEW j \in DOMAIN frames, j > 1 PROVE ~Carries(j, n)
      OBVIOUS
    <3>1. j - 1 \in DOMAIN frames' /\ (j - 1) + 1 = j
      BY <1>2, <1>4
    <3>2. ~Carries(j - 1, n)'
      BY <1>11, <3>1 DEF UnderWay
    <3> QED BY <1>5, <3>1, <3>2 DEF Carries
  <2>2. CASE n \in DOMAIN batch
    <3>1. 1 \in DOMAIN frames
      BY <1>2
    <3>2. NewestOf(1, n)
      BY <2>1, <2>2, <3>1 DEF NewestOf, Carries, batch
    <3>3. cache[n] = {batch[n]}
      BY <3>1, <3>2 DEF LatestInv, batch
    <3>4. view = "shown"
      BY <1>7, <1>11, <2>2
    <3> QED BY <1>3, <1>7, <2>2, <3>3, <3>4
  <2>3. CASE n \notin DOMAIN batch
    <3>1. n \notin missed
      BY <1>7, <1>11, <2>3
    <3>2. \A j \in DOMAIN frames : j = 1 \/ j > 1
      BY <1>2
    <3>3. ~UnderWay(n)
      BY <2>1, <2>3, <3>2 DEF UnderWay, Carries, batch
    <3> QED BY <1>3, <1>7, <2>3, <3>1, <3>3 DEF LatestInv
  <2> QED BY <2>2, <2>3
<1> QED BY <1>8, <1>9, <1>10, <1>11 DEF LatestInv

LEMMA LatestStep == LatestInv /\ [Next]_vars => LatestInv'
<1> SUFFICES ASSUME LatestInv, [Next]_vars PROVE LatestInv'
  OBVIOUS
<1>1. ASSUME NEW batch \in Batches, Broadcast(batch) PROVE LatestInv'
  BY <1>1, BroadcastKeeps
<1>2. CASE Disconnect
  BY <1>2, DisconnectKeeps
<1>3. CASE Reconnect
  BY <1>3, ReadingsSame DEF Reconnect, LatestInv, FlowsTyped
<1>4. CASE AnswerLoad
  BY <1>4, AnswerLoadKeeps
<1>5. CASE ShowLoad
  BY <1>5, ShowLoadKeeps
<1>6. CASE Frame
  BY <1>6, FrameKeeps
<1>7. ASSUME NEW es, NEW saved, Edit(es, saved) PROVE LatestInv'
  <2>1. UNCHANGED <<cache, frames, socket, view, snapshot, power, warn, missed>> /\ held' \in {0, held}
    BY <1>7 DEF Edit, RestartTimer
  <2> QED BY <2>1, ReadingsSame, FlowAssumption DEF LatestInv, FlowsTyped
<1>8. CASE Tick
  <2>1. UNCHANGED <<cache, frames, socket, view, snapshot, power, missed>>
    BY <1>8 DEF Tick
  <2>2. held \in 0..Hold /\ socket \in BOOLEAN /\ Hold \in Nat
    BY FlowAssumption DEF LatestInv, FlowsTyped
  <2>3. held' \in 0..Hold
    <3>1. held' = held \/ (held < Hold /\ held' = held + 1)
      BY <1>8 DEF Tick
    <3> QED BY <2>2, <3>1
  <2>4. warn' \in BOOLEAN
    <3>1. warn' = warn \/ warn' = Negative
      BY <1>8 DEF Tick
    <3>2. Negative \in BOOLEAN
      BY DEF Negative
    <3>3. warn \in BOOLEAN
      BY DEF LatestInv, FlowsTyped
    <3> QED BY <3>1, <3>2, <3>3
  <2> QED BY <2>1, <2>2, <2>3, <2>4, ReadingsSame
<1>9. CASE UNCHANGED vars
  BY <1>9, ReadingsSame DEF vars, LatestInv, FlowsTyped
<1> QED BY <1>1, <1>2, <1>3, <1>4, <1>5, <1>6, <1>7, <1>8, <1>9 DEF Next, Connect, RemoveEdge

(* handleWsMessage, onInit: whatever order reports, frames, dropped        *)
(* connections and the answer of the load come in, a node shows the        *)
(* firmware's reading unless its last report did not reach the canvas.     *)
THEOREM AlwaysShowsLatest == Spec => []ShowsLatest
<1>1. LatestInv => ShowsLatest
  BY DEF LatestInv, ShowsLatest, UnderWay, Carries
<1> QED BY LatestStart, LatestStep, <1>1, PTL DEF Spec

-----------------------------------------------------------------------------
(* The timer starts anew when the remainder turns, whatever turned it, and *)
(* the warning is raised by nothing but its end.                           *)
LEMMA HeldBeforeWarning ==
    ASSUME LatestInv, [Next]_vars
    PROVE  /\ ~warn /\ warn' => held = Hold /\ Negative
           /\ ~Negative /\ NegativeNext => held' = 0
<1>1. CASE Tick
  <2>1. edges' = edges
    BY <1>1 DEF Tick
  <2>2. UnallocatedRaw' = UnallocatedRaw
    BY <2>1 DEF UnallocatedRaw
  <2>3. ~Negative => ~NegativeNext
    BY <2>2 DEF Negative, NegativeNext
  <2>4. ASSUME ~warn, warn' PROVE held = Hold /\ Negative
    <3>1. warn \in BOOLEAN /\ held \in 0..Hold /\ Hold \in Nat
      BY FlowAssumption DEF LatestInv, FlowsTyped
    <3>2. ~(Negative /\ held < Hold) /\ warn' = Negative
      BY <1>1, <2>4 DEF Tick
    <3>3. Negative
      BY <2>4, <3>2
    <3> QED BY <3>1, <3>2, <3>3
  <2> QED BY <2>3, <2>4
<1>2. CASE warn' = warn /\ RestartTimer
  BY <1>2 DEF RestartTimer
<1>3. CASE warn' = warn /\ edges' = edges
  <2>1. UnallocatedRaw' = UnallocatedRaw
    BY <1>3 DEF UnallocatedRaw
  <2> QED BY <1>3, <2>1 DEF Negative, NegativeNext
<1>4. Next => Tick \/ (warn' = warn /\ RestartTimer) \/ (warn' = warn /\ edges' = edges)
  BY DEF Next, Broadcast, Disconnect, Reconnect, AnswerLoad, ShowLoad, Frame, Connect, RemoveEdge, Edit
<1>5. UNCHANGED vars => warn' = warn /\ edges' = edges
  BY DEF vars
<1> QED BY <1>1, <1>2, <1>3, <1>4, <1>5

(* The Unallocated node: the warning is raised only once the remainder has *)
(* stayed negative for the hold time, however frames, loads and edits come *)
(* between the ticks.                                                      *)
THEOREM WarnsOnlyAfterHold == Spec => WarnsOnlyIfHeld
<1>1. LatestInv /\ [Next]_vars =>
        [/\ ~warn /\ warn' => held = Hold /\ Negative
         /\ ~Negative /\ NegativeNext => held' = 0]_vars
  BY HeldBeforeWarning
<1> QED BY LatestStart, LatestStep, <1>1, PTL DEF Spec, WarnsOnlyIfHeld


-----------------------------------------------------------------------------
(* The canvas holds edges, and they balance from a frame or a load to the  *)
(* next edit.                                                              *)
CanvasInv ==
    /\ LatestInv
    /\ edges \in Seq(Edge) /\ graph \in Seq(Wires)
    /\ Balanced

Evened == NoLoop(edges) /\ Own(edges) => Even(edges)

LEMMA EvenedBalanced == Balanced <=> (view = "shown" /\ "derived" \notin stale => Evened)
BY DEF Balanced, Evened, LoopFree, OwnCircuits, NoLoop, Own, Even, KwOf, Sum

LEMMA DerivedEvened ==
    ASSUME NEW es \in Seq(Edge), edges' = WithDerivedFlows(es)
    PROVE  (edges \in Seq(Edge))' /\ Evened'
<1> DEFINE w == WithDerivedFlows(es)
<1>1. w \in Seq(Edge) /\ EndsKept(w, es)
  BY DerivedEdges
<1>2. NoLoop(w) /\ Own(w) => Even(w)
  BY <1>1, KeptWiring, EvenDerived
<1> HIDE DEF w
<1>3. edges' = w
  BY DEF w
<1> QED BY <1>1, <1>2, <1>3 DEF Evened

LEMMA CanvasStart == Init => CanvasInv
<1> SUFFICES ASSUME Init PROVE CanvasInv
  OBVIOUS
<1>1. LatestInv
  BY LatestStart
<1>2. edges = << >> /\ graph \in Graphs /\ view = "loading"
  BY DEF Init
<1>3. edges \in Seq(Edge) /\ graph \in Seq(Wires)
  BY <1>2, FlowAssumption
<1>4. Balanced
  BY <1>2 DEF Balanced
<1> QED BY <1>1, <1>3, <1>4 DEF CanvasInv

LEMMA CanvasStep == CanvasInv /\ [Next]_vars => CanvasInv'
<1> SUFFICES ASSUME CanvasInv, [Next]_vars PROVE CanvasInv'
  OBVIOUS
<1>1. LatestInv'
  BY LatestStep DEF CanvasInv
<1>0. Balanced' <=> (view' = "shown" /\ "derived" \notin stale' => Evened')
  BY DEF Balanced, Evened, LoopFree, OwnCircuits, NoLoop, Own, Even, KwOf, Sum
<1>2. edges \in Seq(Edge) /\ graph \in Seq(Wires) /\ LatestInv
  BY DEF CanvasInv
<1>3. ASSUME UNCHANGED <<edges, graph>>,
             view' = "shown" /\ "derived" \notin stale' => view = "shown" /\ "derived" \notin stale
      PROVE  CanvasInv'
  <2>1. view = "shown" /\ "derived" \notin stale => Evened
    BY EvenedBalanced DEF CanvasInv
  <2>2. Evened' <=> Evened
    BY <1>3 DEF Evened
  <2>3. Balanced'
    BY <1>0, <1>3, <2>1, <2>2
  <2> QED BY <1>1, <1>2, <1>3, <2>3 DEF CanvasInv
<1>4. ASSUME NEW es \in Seq(Edge), edges' = WithDerivedFlows(es), graph' = graph PROVE CanvasInv'
  <2>1. (edges \in Seq(Edge))' /\ Evened'
    BY <1>4, DerivedEvened
  <2>2. Balanced'
    BY <1>0, <2>1
  <2> QED BY <1>1, <1>2, <1>4, <2>1, <2>2 DEF CanvasInv
<1>5. ASSUME NEW es \in Seq(Edge), NEW saved \in Seq(Wires), Edit(es, saved) PROVE CanvasInv'
  <2>1. edges' = es /\ graph' = saved /\ "derived" \in stale'
    BY <1>5 DEF Edit
  <2>2. Balanced'
    BY <2>1 DEF Balanced
  <2> QED BY <1>1, <2>1, <2>2 DEF CanvasInv
<1>6. CASE ShowLoad
  <2>1. snapshot \in [Meters -> SUBSET Readings]
    BY <1>2 DEF LatestInv, FlowsTyped
  <2>2. edges' = Loaded(graph, snapshot) /\ graph' = graph
    BY <1>6 DEF ShowLoad
  <2>3. PICK es \in Seq(Edge) : Loaded(graph, snapshot) = WithDerivedFlows(es)
    BY <1>2, <2>1, LoadedFrom
  <2> QED BY <1>4, <2>2, <2>3
<1>7. CASE Frame
  <2> DEFINE batch == Head(frames)
  <2>1. CASE view = "shown"
    <3>1. edges' = WithDerivedFlows(Stamped(edges, batch)) /\ graph' = graph
      BY <1>7, <2>1 DEF Frame
    <3>2. frames \in Seq(Batches) /\ frames # << >>
      BY <1>2, <1>7 DEF Frame, LatestInv, FlowsTyped
    <3>3. batch \in Batches
      BY <3>2, HeadTailProperties
    <3>4. PICK ns \in SUBSET Meters : batch \in [ns -> Readings]
      BY <3>3 DEF Batches
    <3> HIDE DEF batch
    <3>5. Stamped(edges, batch) \in Seq(Edge)
      BY <1>2, <3>4, StampedEdges
    <3> QED BY <1>4, <3>1, <3>5
  <2>2. CASE view # "shown"
    BY <1>3, <1>7, <2>2 DEF Frame
  <2> QED BY <2>1, <2>2
<1>8. ASSUME NEW e \in Drawable, Connect(e) PROVE CanvasInv'
  <2>1. Edit(Append(edges, Bare(e)), Append(graph, e))
    BY <1>8 DEF Connect
  <2>2. e \in Wires /\ Bare(e) \in Edge
    BY BareEdge DEF Wires
  <2>3. Append(edges, Bare(e)) \in Seq(Edge) /\ Append(graph, e) \in Seq(Wires)
    BY <1>2, <2>2, AppendProperties
  <2> QED BY <1>5, <2>1, <2>3
<1>9. ASSUME NEW i \in DOMAIN edges, RemoveEdge(i) PROVE CanvasInv'
  <2>1. PICK k \in DOMAIN graph : Edit(RemoveAt(edges, i), RemoveAt(graph, k))
    BY <1>9 DEF RemoveEdge
  <2>2. RemoveAt(edges, i) \in Seq(Edge) /\ RemoveAt(graph, k) \in Seq(Wires)
    BY <1>2, RemovedSeq
  <2> QED BY <1>5, <2>1, <2>2
<1>10. ASSUME NEW batch \in Batches, Broadcast(batch) PROVE CanvasInv'
  BY <1>3, <1>10 DEF Broadcast
<1>11. CASE Disconnect
  BY <1>3, <1>11 DEF Disconnect
<1>12. CASE Reconnect
  BY <1>3, <1>12 DEF Reconnect
<1>13. CASE AnswerLoad
  BY <1>3, <1>13 DEF AnswerLoad
<1>14. CASE Tick
  BY <1>3, <1>14 DEF Tick
<1>15. CASE UNCHANGED vars
  BY <1>3, <1>15 DEF vars
<1> QED BY <1>6, <1>7, <1>8, <1>9, <1>10, <1>11, <1>12, <1>13, <1>14, <1>15 DEF Next

(* totalFor, withSubCuFeeds, handleWsMessage: in whatever order the edges  *)
(* lie and the frames come, from a load or a frame to the next edit what   *)
(* flows into a board flows out of it on its circuits, for any wiring of   *)
(* any number of boards without a loop and without shared circuits.        *)
THEOREM AlwaysBalanced == Spec => []Balanced
<1>1. CanvasInv => Balanced
  BY DEF CanvasInv
<1> QED BY CanvasStart, CanvasStep, <1>1, PTL DEF Spec

===============================================================================
