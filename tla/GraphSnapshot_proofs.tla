------------------------ MODULE GraphSnapshot_proofs ------------------------
(***************************************************************************)
(* What the resident call graph answers, for any facts and queries.        *)
(*                                                                         *)
(* build_csr stores what csr_row reads back: after k rows the offsets say  *)
(* where each of them ends among the targets, empty rows included.         *)
(*                                                                         *)
(* reverse_bfs finds the nearest callers because of what holds between its *)
(* rounds: the answer followed by the queue has each node that was seen    *)
(* once, at its distance, in the order of distance, and none more than one *)
(* call further than the last that was answered; and the callers of all    *)
(* that was answered above the depth asked for are seen.  Nodes are queued *)
(* once, so the queue is empty after as many rounds as there are nodes.    *)
(*                                                                         *)
(* A caller tree is shown to be every way without a cycle by induction on  *)
(* the depth that remains: what extends a way is the way itself or extends *)
(* it with a caller that it does not have.                                 *)
(*                                                                         *)
(* The recursive functions that stand for the loops of the code are first  *)
(* shown to exist: a CHOOSE says nothing of one that does not.             *)
(***************************************************************************)
EXTENDS GraphSnapshot, FiniteSetTheorems, SequenceTheorems, WellFoundedInduction, TLAPS

-----------------------------------------------------------------------------
(* Numbers and sequences                                                   *)

\* A set of numbers that is not empty has a least element.
LEMMA LeastNumber ==
  ASSUME NEW T, T \subseteq Nat, T # {}
  PROVE  \E n \in T : \A m \in T : n <= m
<1> DEFINE R == {p \in Nat \X Nat : p[1] < p[2]}
<1>1. IsWellFoundedOn(R, Nat)
  BY NatLessThanWellFounded DEF OpToRel
<1>2. \E n \in T : \A m \in T : ~ (<<m, n>> \in R)
  <2> HIDE DEF R
  <2> QED BY <1>1, WFMin
<1>3. PICK n \in T : \A m \in T : ~ (<<m, n>> \in R)
  BY <1>2
<1>4. \A m \in T : n <= m
  <2> TAKE m \in T
  <2>1. ~ (m < n)
    BY <1>3
  <2> QED BY <2>1
<1> QED BY <1>4

\* Induction up to a number, over the set of the numbers something holds of.
LEMMA UpTo ==
  ASSUME NEW n \in Nat, NEW T, 0 \in T,
         \A k \in 0 .. n - 1 : k \in T => k + 1 \in T
  PROVE  0 .. n \subseteq T
<1> SUFFICES ASSUME NEW x \in 0 .. n, x \notin T PROVE FALSE
  OBVIOUS
<1> DEFINE Bad == {k \in 0 .. n : k \notin T}
<1>1. PICK m \in Bad : \A k \in Bad : m <= k
  <2> Bad \subseteq Nat /\ Bad # {}
    OBVIOUS
  <2> HIDE DEF Bad
  <2> QED BY LeastNumber
<1>2. m - 1 \in 0 .. n - 1 /\ m - 1 \notin Bad
  BY <1>1
<1>3. m - 1 \in T
  BY <1>2
<1> QED BY <1>1, <1>2, <1>3

\* What a loop of n steps computes.
IsLoop(f, n, S, base, step) ==
  /\ f \in [0 .. n -> S]
  /\ f[0] = base
  /\ \A k \in 1 .. n : f[k] = step[k][f[k - 1]]

LEMMA LoopDefined ==
  ASSUME NEW n \in Nat, NEW S, NEW base \in S, NEW step \in [1 .. n -> [S -> S]]
  PROVE  \E f : IsLoop(f, n, S, base, step)
<1> DEFINE Loop(m, f) == f[0] = base /\ \A k \in 1 .. m : f[k] = step[k][f[k - 1]]
           T == {m \in 0 .. n : \E f \in [0 .. m -> S] : Loop(m, f)}
<1>1. 0 \in T
  <2> DEFINE f == [k \in 0 .. 0 |-> base]
  <2>1. f \in [0 .. 0 -> S] /\ Loop(0, f)
    OBVIOUS
  <2> HIDE DEF f, Loop
  <2> QED BY <2>1
<1>2. ASSUME NEW m \in 0 .. n - 1, m \in T
      PROVE  m + 1 \in T
  <2>1. PICK f \in [0 .. m -> S] : Loop(m, f)
    BY <1>2
  <2> DEFINE g == [k \in 0 .. m + 1 |-> IF k <= m THEN f[k] ELSE step[m + 1][f[m]]]
  <2>2. m + 1 \in 1 .. n /\ f[m] \in S
    OBVIOUS
  <2>3. step[m + 1][f[m]] \in S
    BY <2>2
  <2>4. g \in [0 .. m + 1 -> S]
    BY <2>3
  <2>5. g[0] = base
    BY <2>1
  <2>6. ASSUME NEW k \in 1 .. m + 1 PROVE g[k] = step[k][g[k - 1]]
    <3>1. k - 1 \in 0 .. m /\ g[k - 1] = f[k - 1]
      OBVIOUS
    <3>2. CASE k <= m
      BY <2>1, <3>1, <3>2
    <3>3. CASE k = m + 1
      <4>1. g[m + 1] = step[m + 1][f[m]] /\ g[m] = f[m]
        OBVIOUS
      <4>2. k - 1 = m
        BY <3>3
      <4> HIDE DEF g
      <4> QED BY <4>1, <4>2, <3>3
    <3> QED BY <3>2, <3>3
  <2>7. Loop(m + 1, g)
    BY <2>5, <2>6
  <2>8. m + 1 \in 0 .. n
    OBVIOUS
  <2> HIDE DEF g, Loop
  <2> QED BY <2>4, <2>7, <2>8
<1>3. n \in T
  <2> HIDE DEF T
  <2>1. 0 .. n \subseteq T
    BY <1>1, <1>2, UpTo
  <2> QED BY <2>1
<1> QED BY <1>3 DEF IsLoop

\* A function on the first numbers is a sequence of that length.
LEMMA FunctionIsSeq ==
  ASSUME NEW n \in Nat, NEW S, NEW s \in [1 .. n -> S]
  PROVE  s \in Seq(S) /\ Len(s) = n
BY SeqDef, LenProperties

-----------------------------------------------------------------------------
(* Sorted                                                                  *)

Chained(R) == \A x, y, z : <<x, y>> \in R /\ <<y, z>> \in R => <<x, z>> \in R

\* A finite set has its elements in any strict order that compares them all.
LEMMA SortedExists ==
  ASSUME NEW n \in Nat, NEW R, Chained(R)
  PROVE  \A S : /\ IsFiniteSet(S) /\ Cardinality(S) = n
                /\ \A x, y \in S : x # y => <<x, y>> \in R \/ <<y, x>> \in R
                => \E s \in [1 .. n -> S] : \A i, j \in 1 .. n : i < j => <<s[i], s[j]>> \in R
<1> DEFINE Ordered(S) == \A x, y \in S : x # y => <<x, y>> \in R \/ <<y, x>> \in R
           Enumerated(S, m) ==
             \E s \in [1 .. m -> S] : \A i, j \in 1 .. m : i < j => <<s[i], s[j]>> \in R
           Topped(S) == \E x \in S : \A y \in S \ {x} : <<y, x>> \in R
           T == {m \in 0 .. n : \A S : IsFiniteSet(S) /\ Cardinality(S) = m /\ Ordered(S)
                                         => Enumerated(S, m) /\ (S # {} => Topped(S))}
<1>1. 0 \in T
  <2>1. ASSUME NEW S, IsFiniteSet(S), Cardinality(S) = 0
        PROVE  Enumerated(S, 0) /\ S = {}
    <3>1. S = {}
      BY <2>1, FS_EmptySet
    <3>2. [i \in 1 .. 0 |-> i] \in [1 .. 0 -> S]
      OBVIOUS
    <3>3. \A i, j \in 1 .. 0 : FALSE
      OBVIOUS
    <3> QED BY <3>1, <3>2, <3>3
  <2> HIDE DEF Enumerated, Topped, Ordered
  <2> QED BY <2>1
<1>2. ASSUME NEW m \in 0 .. n - 1, m \in T
      PROVE  m + 1 \in T
  <2> SUFFICES ASSUME NEW S, IsFiniteSet(S), Cardinality(S) = m + 1, Ordered(S)
               PROVE  Enumerated(S, m + 1) /\ Topped(S)
    <3> m + 1 \in 0 .. n
      OBVIOUS
    <3> HIDE DEF Enumerated, Topped, Ordered
    <3> QED OBVIOUS
  <2>1. S # {}
    BY FS_EmptySet
  <2>2. Topped(S)
    <3>1. PICK a \in S : TRUE
      BY <2>1
    <3>2. IsFiniteSet(S \ {a}) /\ Cardinality(S \ {a}) = m
      BY FS_RemoveElement
    <3>3. Ordered(S \ {a})
      OBVIOUS
    <3>4. S \ {a} # {} => Topped(S \ {a})
      <4> HIDE DEF Enumerated, Topped, Ordered
      <4> QED BY <1>2, <3>2, <3>3
    <3>5. CASE S \ {a} = {}
      BY <3>1, <3>5
    <3>6. CASE S \ {a} # {}
      <4>1. PICK b \in S \ {a} : \A y \in (S \ {a}) \ {b} : <<y, b>> \in R
        BY <3>4, <3>6
      <4>2. CASE <<a, b>> \in R
        <5>1. \A y \in S \ {b} : <<y, b>> \in R
          BY <4>1, <4>2 DEF Chained
        <5> QED BY <5>1
      <4>3. CASE <<b, a>> \in R
        <5>1. \A y \in S \ {a} : <<y, a>> \in R
          BY <4>1, <4>3 DEF Chained
        <5> QED BY <5>1
      <4> QED BY <4>2, <4>3
    <3> QED BY <3>5, <3>6
  <2>3. PICK x \in S : \A y \in S \ {x} : <<y, x>> \in R
    BY <2>2
  <2>4. IsFiniteSet(S \ {x}) /\ Cardinality(S \ {x}) = m
    BY FS_RemoveElement
  <2>5. Ordered(S \ {x})
    OBVIOUS
  <2>6. Enumerated(S \ {x}, m)
    <3> HIDE DEF Enumerated, Topped, Ordered
    <3> QED BY <1>2, <2>4, <2>5
  <2>7. PICK s \in [1 .. m -> S \ {x}] : \A i, j \in 1 .. m : i < j => <<s[i], s[j]>> \in R
    BY <2>6
  <2> DEFINE t == [i \in 1 .. m + 1 |-> IF i <= m THEN s[i] ELSE x]
  <2>8. t \in [1 .. m + 1 -> S]
    OBVIOUS
  <2>9. ASSUME NEW i \in 1 .. m + 1, NEW j \in 1 .. m + 1, i < j
        PROVE  <<t[i], t[j]>> \in R
    <3>1. i \in 1 .. m /\ t[i] = s[i] /\ s[i] \in S \ {x}
      BY <2>9
    <3>2. CASE j <= m
      BY <3>1, <3>2, <2>7, <2>9
    <3>3. CASE j = m + 1
      <4>1. t[j] = x
        BY <3>3
      <4> HIDE DEF t
      <4> QED BY <4>1, <3>1, <2>3
    <3> QED BY <3>2, <3>3
  <2> HIDE DEF t
  <2>10. Enumerated(S, m + 1)
    BY <2>8, <2>9
  <2> QED BY <2>2, <2>10
<1>3. n \in T
  <2> HIDE DEF T
  <2>1. 0 .. n \subseteq T
    BY <1>1, <1>2, UpTo
  <2> QED BY <2>1
<1>4. \A S : IsFiniteSet(S) /\ Cardinality(S) = n /\ Ordered(S) => Enumerated(S, n)
  <2> HIDE DEF Enumerated, Topped, Ordered
  <2> QED BY <1>3
<1> QED BY <1>4

\* Numbers in order: each of the set, and no other.
LEMMA AscendingNumbers ==
  ASSUME NEW S \in SUBSET Nat, IsFiniteSet(S)
  PROVE  LET s == Ascending(S)
         IN  /\ s \in Seq(S) /\ s \in Seq(Nat)
             /\ Len(s) = Cardinality(S)
             /\ \A i, j \in 1 .. Len(s) : i < j => s[i] < s[j]
             /\ {s[i] : i \in 1 .. Len(s)} = S
<1> DEFINE n == Cardinality(S)
           R == {p \in Nat \X Nat : p[1] < p[2]}
           Increasing(s) == \A i, j \in DOMAIN s : i < j => s[i] < s[j]
<1>1. n \in Nat
  BY FS_CardinalityType
<1>2. \E s \in [1 .. n -> S] : \A i, j \in 1 .. n : i < j => <<s[i], s[j]>> \in R
  <2>1. Chained(R)
    BY DEF Chained
  <2>2. \A x, y \in S : x # y => <<x, y>> \in R \/ <<y, x>> \in R
    OBVIOUS
  <2> HIDE DEF R
  <2> QED BY <1>1, <2>1, <2>2, SortedExists
<1>3. PICK s \in [1 .. n -> S] : \A i, j \in 1 .. n : i < j => <<s[i], s[j]>> \in R
  BY <1>2
<1>4. Increasing(s)
  BY <1>3
<1>5. Ascending(S) = CHOOSE t \in [1 .. n -> S] : Increasing(t)
  BY DEF Ascending, Sorted
<1>6. Ascending(S) \in [1 .. n -> S] /\ Increasing(Ascending(S))
  <2> HIDE DEF Increasing, n
  <2> QED BY <1>3, <1>4, <1>5
<1> DEFINE t == Ascending(S)
<1>7. t \in Seq(S) /\ Len(t) = n
  <2> HIDE DEF t, n
  <2>1. t \in [1 .. n -> S]
    BY <1>6 DEF t
  <2> QED BY <2>1, <1>1, FunctionIsSeq
<1>8. DOMAIN t = 1 .. n
  BY <1>6
<1>9. t \in Seq(Nat)
  BY <1>7, SeqMonotonic
<1>10. \A i, j \in 1 .. n : i < j => t[i] < t[j]
  BY <1>6, <1>8
<1>11. {t[i] : i \in 1 .. n} = S
  <2> HIDE DEF t
  <2>1. t \in Injection(1 .. n, S)
    <3>1. t \in [1 .. n -> S]
      BY <1>6 DEF t
    <3>2. \A i, j \in 1 .. n : t[i] = t[j] => i = j
      <4> TAKE i, j \in 1 .. n
      <4>1. t[i] \in Nat /\ t[j] \in Nat
        BY <3>1
      <4>2. i \in Nat /\ j \in Nat
        OBVIOUS
      <4> QED BY <4>1, <4>2, <1>10
    <3> QED BY <3>1, <3>2 DEF Injection, IsInjective
  <2>2. Cardinality(1 .. n) = n
    BY <1>1, FS_Interval
  <2>3. t \in Surjection(1 .. n, S)
    BY <2>1, <2>2, FS_Injection
  <2> QED BY <2>3, <1>8 DEF Surjection
<1> QED BY <1>7, <1>9, <1>10, <1>11

\* Nodes in order: every definition and every end has one.
LEMMA NodesNumbered ==
  ASSUME GraphAssumption, NEW defs \in Corpora, NEW es \in SUBSET (Ends \X Ends)
  PROVE  LET nodes == Numbered(defs, es)
         IN  /\ nodes \in Seq(Nat \X Nat \X Nat)
             /\ DOMAIN nodes = 1 .. Len(nodes) /\ Len(nodes) \in Nat
             /\ \A e \in es : /\ \E id \in DOMAIN nodes : End(nodes[id]) = e[1]
                              /\ \E id \in DOMAIN nodes : End(nodes[id]) = e[2]
<1> DEFINE Triples == Nat \X Nat \X Nat
           external == [e \in Ends |-> <<e[1], e[2], 0>>]
           S == defs \cup Externals(defs, es)
           n == Cardinality(S)
           R == {p \in Triples \X Triples : Below(p[1], p[2])}
           nodes == Numbered(defs, es)
<1>1. IsFiniteSet({external[e] : e \in Ends})
  <2>1. external \in Surjection(Ends, {external[e] : e \in Ends})
    BY DEF Surjection
  <2> HIDE DEF external
  <2> QED BY <2>1, FS_Surjection, GraphAssumption DEF GraphAssumption
<1>2. UNION {{x[1], x[2]} : x \in es} \subseteq Ends
  OBVIOUS
<1>3. Externals(defs, es) \subseteq {external[e] : e \in Ends}
  BY <1>2 DEF Externals
<1>4. IsFiniteSet(S)
  <2>1. IsFiniteSet(defs)
    BY GraphAssumption DEF GraphAssumption
  <2>2. IsFiniteSet(Externals(defs, es))
    BY <1>1, <1>3, FS_Subset
  <2> QED BY <2>1, <2>2, FS_Union
<1>5. n \in Nat
  BY <1>4, FS_CardinalityType
<1>6. S \subseteq Triples
  <2>1. defs \subseteq Triples
    BY GraphAssumption DEF GraphAssumption
  <2>2. Externals(defs, es) \subseteq Triples
    BY <1>2, GraphAssumption DEF GraphAssumption, Externals
  <2> QED BY <2>1, <2>2
<1>7. Chained(R)
  <2> SUFFICES ASSUME NEW x, NEW y, NEW z, <<x, y>> \in R, <<y, z>> \in R
               PROVE  <<x, z>> \in R
    BY DEF Chained
  <2>1. x \in Triples /\ y \in Triples /\ z \in Triples /\ Below(x, y) /\ Below(y, z)
    OBVIOUS
  <2>2. Below(x, z)
    BY <2>1 DEF Below, End
  <2> QED BY <2>1, <2>2
<1>8. \A x, y \in S : x # y => <<x, y>> \in R \/ <<y, x>> \in R
  <2> TAKE x, y \in S
  <2>1. x \in Triples /\ y \in Triples
    BY <1>6
  <2>2. x # y => Below(x, y) \/ Below(y, x)
    BY <2>1 DEF Below, End
  <2> QED BY <2>1, <2>2
<1>9. \E s \in [1 .. n -> S] : \A i, j \in 1 .. n : i < j => <<s[i], s[j]>> \in R
  <2> HIDE DEF R, S
  <2> QED BY <1>4, <1>5, <1>7, <1>8, SortedExists
<1>10. PICK s \in [1 .. n -> S] : \A i, j \in 1 .. n : i < j => <<s[i], s[j]>> \in R
  BY <1>9
<1>11. \A i, j \in DOMAIN s : i < j => Below(s[i], s[j])
  <2> HIDE DEF n
  <2> QED BY <1>10
<1>12. nodes = CHOOSE t \in [1 .. n -> S] : \A i, j \in DOMAIN t : i < j => Below(t[i], t[j])
  BY DEF Numbered, Sorted
<1>13. nodes \in [1 .. n -> S] /\ \A i, j \in DOMAIN nodes : i < j => Below(nodes[i], nodes[j])
  <2> HIDE DEF nodes, n, S
  <2> QED BY <1>10, <1>11, <1>12
<1> HIDE DEF nodes, S, n
<1>14. nodes \in Seq(S) /\ Len(nodes) = n
  BY <1>5, <1>13, FunctionIsSeq
<1>15. nodes \in Seq(Triples)
  BY <1>6, <1>14, SeqMonotonic
<1>16. nodes \in Injection(1 .. n, S)
  <2>1. \A x \in Triples : ~ Below(x, x)
    BY DEF Below
  <2>2. \A i, j \in 1 .. n : nodes[i] = nodes[j] => i = j
    <3> TAKE i, j \in 1 .. n
    <3>1. nodes[i] \in Triples /\ nodes[j] \in Triples
      BY <1>6, <1>13
    <3>2. i \in Nat /\ j \in Nat
      BY <1>5
    <3> QED BY <3>1, <3>2, <2>1, <1>13
  <2> QED BY <2>2, <1>13 DEF Injection, IsInjective
<1>17. nodes \in Surjection(1 .. n, S)
  <2>1. IsFiniteSet(1 .. n) /\ Cardinality(1 .. n) = n
    BY <1>5, FS_Interval
  <2> QED BY <2>1, <1>4, <1>16, FS_Injection DEF n
<1>18. ASSUME NEW end \in UNION {{x[1], x[2]} : x \in es}
       PROVE  \E id \in 1 .. n : End(nodes[id]) = end
  <2>1. \E d \in S : End(d) = end
    <3>1. CASE \E d \in defs : End(d) = end
      BY <3>1 DEF S
    <3>2. CASE end \notin {End(d) : d \in defs}
      <4>1. <<end[1], end[2], 0>> \in S
        BY <1>18, <3>2 DEF S, Externals
      <4>2. end = <<end[1], end[2]>>
        BY <1>18, <1>2, GraphAssumption DEF GraphAssumption
      <4> QED BY <4>1, <4>2 DEF End
    <3> QED BY <3>1, <3>2
  <2> QED BY <2>1, <1>17 DEF Surjection
<1>19. \A e \in es : /\ \E id \in 1 .. n : End(nodes[id]) = e[1]
                     /\ \E id \in 1 .. n : End(nodes[id]) = e[2]
  <2> TAKE e \in es
  <2> e[1] \in UNION {{x[1], x[2]} : x \in es} /\ e[2] \in UNION {{x[1], x[2]} : x \in es}
    OBVIOUS
  <2> QED BY <1>18
<1>20. DOMAIN nodes = 1 .. n
  BY <1>13
<1> QED BY <1>5, <1>14, <1>15, <1>19, <1>20 DEF nodes

\* The first node of an end that has one.
LEMMA FirstOfEnd ==
  ASSUME NEW n \in Nat, NEW nodes, DOMAIN nodes = 1 .. n,
         NEW end, \E id \in 1 .. n : End(nodes[id]) = end
  PROVE  FirstOf(nodes, end) \in 1 .. n /\ End(nodes[FirstOf(nodes, end)]) = end
<1> DEFINE T == {id \in 1 .. n : End(nodes[id]) = end}
<1>1. T \subseteq Nat /\ T # {}
  OBVIOUS
<1>2. \E m \in T : \A k \in T : m <= k
  <2> HIDE DEF T
  <2> QED BY <1>1, LeastNumber
<1>3. FirstOf(nodes, end) = CHOOSE m \in T : \A k \in T : m <= k
  BY DEF FirstOf, Least
<1>4. FirstOf(nodes, end) \in T
  <2> HIDE DEF T
  <2> QED BY <1>2, <1>3
<1> QED BY <1>4

-----------------------------------------------------------------------------
(* The rows                                                                *)

\* What has been stored up to row k: as many offsets, each no further than the
\* next and the targets, and between two of them the row in order.
IsStored(csr, rows, k) ==
  /\ csr \in [offsets : Seq(Nat), targets : Seq(Nat)]
  /\ Len(csr.offsets) = k + 1
  /\ csr.offsets[k + 1] = Len(csr.targets)
  /\ \A i \in 1 .. k : /\ csr.offsets[i] <= csr.offsets[i + 1]
                       /\ csr.offsets[i + 1] <= Len(csr.targets)
                       /\ SubSeq(csr.targets, csr.offsets[i] + 1, csr.offsets[i + 1])
                            = Ascending(rows[i])

\* The loop of build_csr.
CsrStart == [offsets |-> <<0>>, targets |-> <<>>]

CsrLoop(c, rows) ==
  c = [n \in 0 .. Len(rows) |-> IF n = 0 THEN CsrStart ELSE Stored(c[n - 1], rows[n])]

\* A row put behind others leaves those before it, and is found at its place.
LEMMA SubSeqOfFront ==
  ASSUME NEW s \in Seq(Nat), NEW t \in Seq(Nat), NEW a \in Nat, NEW b \in Nat,
         a <= b, b <= Len(s)
  PROVE  SubSeq(s \o t, a + 1, b) = SubSeq(s, a + 1, b)
<1>1. CASE a = b
  BY <1>1, SubSeqEmpty
<1>2. CASE a < b
  <2>1. Len(s) \in Nat
    BY LenProperties
  <2>2. a + 1 \in 1 .. Len(s) /\ b \in 1 .. Len(s)
    BY <1>2, <2>1
  <2> QED BY <2>2, SubSeqOfConcat1
<1> QED BY <1>1, <1>2

LEMMA SubSeqOfBack ==
  ASSUME NEW s \in Seq(Nat), NEW t \in Seq(Nat)
  PROVE  SubSeq(s \o t, Len(s) + 1, Len(s) + Len(t)) = t
<1> DEFINE m == Len(s)
           l == Len(t)
<1>1. m \in Nat /\ l \in Nat
  BY LenProperties
<1> HIDE DEF m, l
<1>2. CASE l = 0
  <2>1. t = <<>>
    BY <1>2, EmptySeq DEF l
  <2>2. SubSeq(s \o t, m + 1, m + l) = <<>>
    BY <1>1, <1>2, SubSeqEmpty
  <2> QED BY <2>1, <2>2 DEF m, l
<1>3. CASE l # 0
  <2>1. m + 1 \in m + 1 .. m + l /\ m + l \in m + 1 .. m + l
    BY <1>1, <1>3
  <2>2. SubSeq(s \o t, m + 1, m + l) = SubSeq(t, (m + 1) - m, (m + l) - m)
    BY <2>1, SubSeqOfConcat2 DEF m, l
  <2>3. (m + 1) - m = 1 /\ (m + l) - m = l
    BY <1>1
  <2>4. SubSeq(t, 1, l) = t
    BY SubSeqFull DEF l
  <2>5. SubSeq(s \o t, m + 1, m + l) = t
    BY <2>2, <2>3, <2>4
  <2> QED BY <2>5 DEF m, l
<1> QED BY <1>2, <1>3

LEMMA SomeIds ==
  ASSUME NEW n \in Nat, NEW row \in SUBSET (1 .. n)
  PROVE  IsFiniteSet(row) /\ row \in SUBSET Nat /\ Ascending(row) \in Seq(Nat)
<1>1. IsFiniteSet(1 .. n)
  BY FS_Interval
<1>2. IsFiniteSet(row)
  BY <1>1, FS_Subset
<1>3. row \in SUBSET Nat
  OBVIOUS
<1> QED BY <1>2, <1>3, AscendingNumbers

LEMMA StoredRow ==
  ASSUME NEW n \in Nat, NEW rows \in [1 .. n -> SUBSET (1 .. n)],
         NEW k \in 0 .. n - 1, NEW csr, IsStored(csr, rows, k)
  PROVE  IsStored(Stored(csr, rows[k + 1]), rows, k + 1)
<1> DEFINE row == Ascending(rows[k + 1])
           targets == csr.targets \o row
           next == Stored(csr, rows[k + 1])
<1>1. row \in Seq(Nat)
  <2>1. rows[k + 1] \in SUBSET (1 .. n)
    OBVIOUS
  <2> QED BY <2>1, SomeIds
<1>2. csr.offsets \in Seq(Nat) /\ csr.targets \in Seq(Nat) /\ Len(csr.offsets) = k + 1
  BY DEF IsStored
<1> HIDE DEF row
<1>3. /\ targets \in Seq(Nat) /\ Len(targets) = Len(csr.targets) + Len(row)
      /\ Len(targets) \in Nat /\ Len(csr.targets) \in Nat /\ Len(row) \in Nat
  BY <1>1, <1>2, ConcatProperties, LenProperties
<1>4. next = [offsets |-> Append(csr.offsets, Len(targets)), targets |-> targets]
  BY DEF Stored, row
<1> HIDE DEF targets, next
<1>5. /\ next.offsets \in Seq(Nat) /\ Len(next.offsets) = k + 2
      /\ \A i \in 1 .. k + 1 : next.offsets[i] = csr.offsets[i]
      /\ next.offsets[k + 2] = Len(targets)
      /\ next.targets = targets
      /\ next \in [offsets : Seq(Nat), targets : Seq(Nat)]
  BY <1>2, <1>3, <1>4, AppendProperties
<1>6. csr.offsets[k + 1] = Len(csr.targets)
  BY DEF IsStored
<1>7. \A i \in 1 .. k + 1 : csr.offsets[i] \in Nat
  BY <1>2, ElementOfSeq
<1>8. ASSUME NEW i \in 1 .. k + 1
      PROVE  /\ next.offsets[i] <= next.offsets[i + 1]
             /\ next.offsets[i + 1] <= Len(next.targets)
             /\ SubSeq(next.targets, next.offsets[i] + 1, next.offsets[i + 1]) = Ascending(rows[i])
  <2>1. CASE i = k + 1
    <3>1. next.offsets[i] = Len(csr.targets) /\ next.offsets[i + 1] = Len(csr.targets) + Len(row)
      BY <2>1, <1>3, <1>5, <1>6
    <3>2. SubSeq(targets, Len(csr.targets) + 1, Len(csr.targets) + Len(row)) = row
      BY <1>1, <1>2, SubSeqOfBack DEF targets
    <3>3. next.offsets[i] <= next.offsets[i + 1] /\ next.offsets[i + 1] <= Len(targets)
      BY <3>1, <1>3
    <3>4. Ascending(rows[i]) = row
      BY <2>1 DEF row
    <3> QED BY <3>1, <3>2, <3>3, <3>4, <1>5
  <2>2. CASE i \in 1 .. k
    <3>1. /\ csr.offsets[i] <= csr.offsets[i + 1]
          /\ csr.offsets[i + 1] <= Len(csr.targets)
          /\ SubSeq(csr.targets, csr.offsets[i] + 1, csr.offsets[i + 1]) = Ascending(rows[i])
      BY <2>2 DEF IsStored
    <3>2. next.offsets[i] = csr.offsets[i] /\ next.offsets[i + 1] = csr.offsets[i + 1]
      BY <2>2, <1>5
    <3>3. csr.offsets[i] \in Nat /\ csr.offsets[i + 1] \in Nat
      BY <2>2, <1>7
    <3>4. SubSeq(targets, csr.offsets[i] + 1, csr.offsets[i + 1])
            = SubSeq(csr.targets, csr.offsets[i] + 1, csr.offsets[i + 1])
      BY <3>1, <3>3, <1>1, <1>2, SubSeqOfFront, ZenonT(40) DEF targets
    <3>5. csr.offsets[i + 1] <= Len(targets)
      <4> DEFINE b == csr.offsets[i + 1]
                 m == Len(csr.targets)
                 l == Len(row)
      <4>1. b \in Nat /\ m \in Nat /\ l \in Nat /\ b <= m /\ Len(targets) = m + l
        BY <3>1, <3>3, <1>3
      <4> HIDE DEF b, m, l
      <4>2. b <= Len(targets)
        BY <4>1
      <4> QED BY <4>2 DEF b
    <3> QED BY <3>1, <3>2, <3>4, <3>5, <1>5
  <2> QED BY <2>1, <2>2
<1>9. next.offsets[(k + 1) + 1] = Len(next.targets) /\ Len(next.offsets) = (k + 1) + 1
  BY <1>5
<1> QED BY <1>5, <1>8, <1>9 DEF IsStored, next

\* build_csr and csr_row: the row of a node is the set it was built from, in order.
LEMMA RowOfCsr ==
  ASSUME NEW n \in Nat, NEW rows \in [1 .. n -> SUBSET (1 .. n)], NEW id \in 1 .. n
  PROVE  Row(Csr(rows), id) = Ascending(rows[id])
<1> DEFINE S == [offsets : Seq(Nat), targets : Seq(Nat)]
           T == {csr \in S : \E k \in 0 .. n : IsStored(csr, rows, k)}
           step == [k \in 1 .. n |-> [csr \in S |-> Stored(csr, rows[k])]]
<1>1. Len(rows) = n
  BY FunctionIsSeq
<1>2. CsrStart \in S /\ IsStored(CsrStart, rows, 0)
  <2>1. <<0>> \in Seq(Nat) /\ <<>> \in Seq(Nat) /\ Len(<<0>>) = 1 /\ Len(<<>>) = 0 /\ <<0>>[1] = 0
    OBVIOUS
  <2> QED BY <2>1 DEF CsrStart, IsStored
<1>3. \A csr \in S, k \in 1 .. n : Stored(csr, rows[k]) \in S
  <2> TAKE csr \in S, k \in 1 .. n
  <2>1. rows[k] \in SUBSET (1 .. n)
    OBVIOUS
  <2>3. Ascending(rows[k]) \in Seq(Nat)
    BY <2>1, SomeIds
  <2>4. csr.targets \o Ascending(rows[k]) \in Seq(Nat)
    BY <2>3, ConcatProperties
  <2>5. Append(csr.offsets, Len(csr.targets \o Ascending(rows[k]))) \in Seq(Nat)
    BY <2>4, AppendProperties, LenProperties
  <2> QED BY <2>4, <2>5 DEF Stored
<1>4. \E c : CsrLoop(c, rows)
  <2>1. step \in [1 .. n -> [S -> S]]
    BY <1>3
  <2>2. \A k \in 1 .. n, csr \in S : step[k][csr] = Stored(csr, rows[k])
    OBVIOUS
  <2>0. CsrStart \in S
    BY <1>2
  <2> HIDE DEF step, S
  <2>3. PICK c : IsLoop(c, n, S, CsrStart, step)
    BY <2>0, <2>1, LoopDefined
  <2>4. \A k \in 1 .. n : c[k] = Stored(c[k - 1], rows[k])
    <3> TAKE k \in 1 .. n
    <3>1. c[k - 1] \in S /\ c[k] = step[k][c[k - 1]]
      BY <2>3 DEF IsLoop
    <3> QED BY <3>1, <2>2
  <2>5. c = [k \in 0 .. n |-> IF k = 0 THEN CsrStart ELSE Stored(c[k - 1], rows[k])]
    BY <2>3, <2>4 DEF IsLoop
  <2> QED BY <2>5, <1>1 DEF CsrLoop
<1>5. PICK c : CsrLoop(c, rows) /\ Csr(rows) = c[n]
  <2>1. Csr(rows) = (CHOOSE c : CsrLoop(c, rows))[n]
    BY <1>1 DEF Csr, CsrLoop, CsrStart
  <2> QED BY <1>4, <2>1
<1>6. 0 .. n \subseteq {k \in 0 .. n : IsStored(c[k], rows, k)}
  <2> DEFINE K == {k \in 0 .. n : IsStored(c[k], rows, k)}
  <2>1. c[0] = CsrStart /\ \A k \in 0 .. n - 1 : c[k + 1] = Stored(c[k], rows[k + 1])
    <3>1. c = [k \in 0 .. n |-> IF k = 0 THEN CsrStart ELSE Stored(c[k - 1], rows[k])]
      BY <1>1, <1>5 DEF CsrLoop
    <3>2. \A k \in 0 .. n - 1 : k + 1 \in 0 .. n /\ (k + 1) - 1 = k /\ k + 1 # 0
      OBVIOUS
    <3>3. 0 \in 0 .. n
      OBVIOUS
    <3>4. \A k \in 0 .. n : c[k] = IF k = 0 THEN CsrStart ELSE Stored(c[k - 1], rows[k])
      BY <3>1
    <3> QED BY <3>2, <3>3, <3>4
  <2>2. 0 \in K
    BY <1>2, <2>1
  <2>3. \A k \in 0 .. n - 1 : k \in K => k + 1 \in K
    BY <2>1, StoredRow
  <2> HIDE DEF K
  <2>4. 0 .. n \subseteq K
    BY <2>2, <2>3, UpTo
  <2> QED BY <2>4 DEF K
<1>7. IsStored(Csr(rows), rows, n)
  BY <1>5, <1>6
<1> QED BY <1>7, SMTT(30) DEF IsStored, Row

-----------------------------------------------------------------------------
(* The snapshot                                                            *)

EdgesOf(nodes, es) == {<<FirstOf(nodes, e[1]), FirstOf(nodes, e[2])>> : e \in es}

\* What the queries are asked of: n nodes, and the rows of a set E of edges.
IsGraph(g, n, E) ==
  /\ n \in Nat
  /\ E \subseteq (1 .. n) \X (1 .. n)
  /\ g.nodes \in Seq(Nat \X Nat \X Nat)
  /\ Len(g.nodes) = n
  /\ DOMAIN g.nodes = 1 .. n
  /\ \A id \in 1 .. n : /\ Callees(g, id) = Ascending({m \in 1 .. n : <<id, m>> \in E})
                        /\ Callers(g, id) = Ascending({m \in 1 .. n : <<m, id>> \in E})

LEMMA SnapshotIsGraph ==
  ASSUME GraphAssumption, NEW defs \in Corpora, NEW es \in SUBSET (Ends \X Ends)
  PROVE  LET g == Snapshot(defs, es)
         IN  IsGraph(g, Len(g.nodes), EdgesOf(g.nodes, es))
<1> DEFINE g == Snapshot(defs, es)
           nodes == Numbered(defs, es)
           n == Len(nodes)
           E == EdgesOf(nodes, es)
           first(e) == FirstOf(nodes, e[1])
           second(e) == FirstOf(nodes, e[2])
           out == [id \in DOMAIN nodes |-> {second(e) : e \in {x \in es : first(x) = id}}]
           in == [id \in DOMAIN nodes |-> {first(e) : e \in {x \in es : second(x) = id}}]
<1>1. /\ nodes \in Seq(Nat \X Nat \X Nat)
      /\ DOMAIN nodes = 1 .. n /\ n \in Nat
      /\ \A e \in es : /\ \E id \in DOMAIN nodes : End(nodes[id]) = e[1]
                       /\ \E id \in DOMAIN nodes : End(nodes[id]) = e[2]
  BY NodesNumbered
<1>2. g.nodes = nodes /\ g.forward = Csr(out) /\ g.reverse = Csr(in)
  BY DEF Snapshot
<1> HIDE DEF nodes, n, g
<1>3. \A e \in es : first(e) \in 1 .. n /\ second(e) \in 1 .. n
  BY <1>1, FirstOfEnd
<1>4. E = {<<first(e), second(e)>> : e \in es}
  BY DEF EdgesOf
<1> HIDE DEF first, second
<1>5. E \subseteq (1 .. n) \X (1 .. n)
  BY <1>3, <1>4
<1>6. out \in [1 .. n -> SUBSET (1 .. n)] /\ in \in [1 .. n -> SUBSET (1 .. n)]
  BY <1>1, <1>3
<1>7. ASSUME NEW id \in 1 .. n
      PROVE  /\ out[id] = {m \in 1 .. n : <<id, m>> \in E}
             /\ in[id] = {m \in 1 .. n : <<m, id>> \in E}
  <2>1. out[id] = {second(e) : e \in {x \in es : first(x) = id}}
    BY <1>1
  <2>2. in[id] = {first(e) : e \in {x \in es : second(x) = id}}
    BY <1>1
  <2> HIDE DEF out, in
  <2>3. \A m : <<id, m>> \in E <=> \E e \in es : first(e) = id /\ second(e) = m
    BY <1>4
  <2>4. \A m : <<m, id>> \in E <=> \E e \in es : first(e) = m /\ second(e) = id
    BY <1>4
  <2> HIDE DEF E
  <2>5. out[id] = {m \in 1 .. n : <<id, m>> \in E}
    BY <2>1, <2>3, <1>3
  <2>6. in[id] = {m \in 1 .. n : <<m, id>> \in E}
    BY <2>2, <2>4, <1>3
  <2> QED BY <2>5, <2>6
<1> HIDE DEF E, out, in
<1>8. ASSUME NEW id \in 1 .. n
      PROVE  /\ Callees(g, id) = Ascending({m \in 1 .. n : <<id, m>> \in E})
             /\ Callers(g, id) = Ascending({m \in 1 .. n : <<m, id>> \in E})
  <2>1. n \in Nat
    BY <1>1
  <2>2. Row(Csr(out), id) = Ascending(out[id]) /\ Row(Csr(in), id) = Ascending(in[id])
    BY <1>6, <2>1, RowOfCsr
  <2>3. Callees(g, id) = Ascending(out[id]) /\ Callers(g, id) = Ascending(in[id])
    BY <1>2, <2>2 DEF Callees, Callers
  <2> QED BY <1>7, <2>3
<1>9. IsGraph(g, n, E)
  BY <1>1, <1>2, <1>5, <1>8 DEF IsGraph, n
<1> QED BY <1>2, <1>9 DEF g, n, E

\* The facts do not change, and the graph is theirs once it is built.
Built ==
  /\ definitions \in Corpora
  /\ edges \in SUBSET (Ends \X Ends)
  /\ graph = None => answer = None
  /\ graph # None => graph = Snapshot(definitions, edges)

LEMMA BuiltStep == Built /\ [Next]_vars => Built'
<1> SUFFICES ASSUME Built, [Next]_vars PROVE Built'
  OBVIOUS
<1>1. CASE Build
  BY <1>1 DEF Built, Build
<1>2. CASE graph # None /\ UNCHANGED <<definitions, edges, graph>>
  BY <1>2 DEF Built
<1>3. CASE UNCHANGED vars
  BY <1>3 DEF Built, vars
<1> QED BY <1>1, <1>2, <1>3 DEF Next, AskCallers, AskComponents, AskImpact, Answered

LEMMA BuiltInvariant == Spec => []Built
<1>1. Init => Built
  BY DEF Init, Built
<1> QED BY <1>1, BuiltStep, PTL DEF Spec

LEMMA BuiltIsGraph ==
  ASSUME GraphAssumption, Built, graph # None
  PROVE  IsGraph(graph, Len(graph.nodes), Edge) /\ Ids = 1 .. Len(graph.nodes)
<1>1. graph = Snapshot(definitions, edges)
  BY DEF Built
<1>2. IsGraph(graph, Len(graph.nodes), EdgesOf(graph.nodes, edges))
  BY <1>1, SnapshotIsGraph DEF Built
<1>3. Edge = EdgesOf(graph.nodes, edges)
  BY DEF Edge, EdgesOf
<1> QED BY <1>2, <1>3 DEF IsGraph, Ids

(* build_csr and csr_row: every stored row, of callees or of callers, has  *)
(* the nodes that the edges of the facts give, in order and once.          *)
THEOREM RowsHoldTheEdges == Spec => []RowsAreEdges
<1>1. Built => RowsAreEdges
  <2> SUFFICES ASSUME Built, graph # None, NEW id \in Ids
               PROVE  /\ Callees(graph, id) = Ascending({m \in Ids : <<id, m>> \in Edge})
                      /\ Callers(graph, id) = Ascending({m \in Ids : <<m, id>> \in Edge})
    BY DEF RowsAreEdges
  <2> QED BY BuiltIsGraph, GraphAssumption DEF IsGraph
<1> QED BY <1>1, BuiltInvariant, PTL

-----------------------------------------------------------------------------
(* The closure of callers                                                  *)

\* ball[k] holds the nodes that reach S in at most k calls.
IsBall(ball, S, n, d, E) ==
  /\ ball \in [0 .. d -> SUBSET (1 .. n)]
  /\ ball[0] = S
  /\ \A k \in 1 .. d :
       ball[k] = ball[k - 1] \cup {m \in 1 .. n : \E x \in ball[k - 1] : <<m, x>> \in E}

LEMMA BallGrows ==
  ASSUME NEW n \in Nat, NEW d \in Nat, NEW S, NEW E, NEW ball, IsBall(ball, S, n, d, E),
         NEW j \in 0 .. d, NEW k \in 0 .. d, j <= k
  PROVE  ball[j] \subseteq ball[k]
<1> DEFINE T == {i \in 0 .. k - j : ball[j] \subseteq ball[j + i]}
<1>1. k - j \in Nat
  OBVIOUS
<1>2. 0 \in T
  OBVIOUS
<1>3. ASSUME NEW i \in 0 .. (k - j) - 1, i \in T
      PROVE  i + 1 \in T
  <2>1. j + (i + 1) \in 1 .. d /\ (j + (i + 1)) - 1 = j + i /\ i + 1 \in 0 .. k - j
    OBVIOUS
  <2>2. ball[j + i] \subseteq ball[j + (i + 1)]
    BY <2>1 DEF IsBall
  <2> QED BY <1>3, <2>1, <2>2
<1> HIDE DEF T
<1>4. 0 .. k - j \subseteq T
  BY <1>1, <1>2, <1>3, UpTo
<1>5. k - j \in T
  BY <1>1, <1>4
<1>6. j + (k - j) = k
  OBVIOUS
<1> QED BY <1>5, <1>6 DEF T

Entry(n, d) == (1 .. n) \X (0 .. d)

\* A sequence of nodes with their depths, the first done of which are answered:
\* each node once, at its distance, the nearer first, and none more than one
\* call further than the last that was answered.
InOrder(q, done, seen, n, d, ball) ==
  /\ q \in Seq(Entry(n, d))
  /\ \A i, j \in 1 .. Len(q) : q[i][1] = q[j][1] => i = j
  /\ seen = {q[i][1] : i \in 1 .. Len(q)}
  /\ \A i, j \in 1 .. Len(q) : i < j => q[i][2] <= q[j][2]
  /\ \A i \in 1 .. Len(q) : q[i][2] <= IF done = 0 THEN 0 ELSE q[done][2] + 1
  /\ \A i \in 1 .. Len(q) : /\ q[i][1] \in ball[q[i][2]]
                            /\ q[i][2] > 0 => q[i][1] \notin ball[q[i][2] - 1]

LEMMA InOrderAppend ==
  ASSUME NEW n \in Nat, NEW d \in Nat, NEW ball, NEW seen, NEW q, NEW done \in 0 .. Len(q),
         InOrder(q, done, seen, n, d, ball),
         NEW c \in 1 .. n, NEW x \in 0 .. d, c \notin seen,
         \A i \in 1 .. Len(q) : q[i][2] <= x,
         x <= IF done = 0 THEN 0 ELSE q[done][2] + 1,
         c \in ball[x], x > 0 => c \notin ball[x - 1]
  PROVE  InOrder(Append(q, <<c, x>>), done, seen \cup {c}, n, d, ball)
<1> DEFINE t == Append(q, <<c, x>>)
           l == Len(q)
<1>1. q \in Seq(Entry(n, d)) /\ l \in Nat /\ <<c, x>> \in Entry(n, d)
  BY LenProperties DEF InOrder, Entry
<1>2. /\ t \in Seq(Entry(n, d)) /\ Len(t) = l + 1
      /\ \A i \in 1 .. l : t[i] = q[i]
      /\ t[l + 1] = <<c, x>>
  BY <1>1, AppendProperties
<1>3. \A i \in 1 .. l : q[i] \in (1 .. n) \X (0 .. d)
  BY <1>1, ElementOfSeq DEF Entry
<1>4. \A i \in 1 .. l : q[i][1] # c
  BY DEF InOrder
<1> HIDE DEF t, l
<1>5. \A i \in 1 .. l + 1 : i \in 1 .. l \/ i = l + 1
  BY <1>1
<1>6. \A i, j \in 1 .. l + 1 : t[i][1] = t[j][1] => i = j
  <2>1. \A i, j \in 1 .. l : q[i][1] = q[j][1] => i = j
    BY DEF InOrder, l
  <2>2. t[l + 1][1] = c
    BY <1>2
  <2> QED BY <2>1, <2>2, <1>2, <1>4, <1>5
<1>7. seen \cup {c} = {t[i][1] : i \in 1 .. l + 1}
  <2>1. seen = {q[i][1] : i \in 1 .. l}
    BY DEF InOrder, l
  <2>2. \A i \in 1 .. l : i \in 1 .. l + 1
    BY <1>1
  <2>3. l + 1 \in 1 .. l + 1 /\ t[l + 1][1] = c
    BY <1>1, <1>2
  <2> QED BY <2>1, <2>2, <2>3, <1>2, <1>5, SMTT(30)
<1>8. \A i, j \in 1 .. l + 1 : i < j => t[i][2] <= t[j][2]
  <2>1. \A i, j \in 1 .. l : i < j => q[i][2] <= q[j][2]
    BY DEF InOrder, l
  <2> TAKE i, j \in 1 .. l + 1
  <2> HAVE i < j
  <2>2. i \in 1 .. l /\ t[i] = q[i]
    BY <1>1, <1>2
  <2>3. CASE j \in 1 .. l
    BY <2>1, <2>2, <2>3, <1>2
  <2>4. CASE j = l + 1
    <3>1. t[j][2] = x
      BY <2>4, <1>2
    <3> QED BY <3>1, <2>2 DEF l
  <2> QED BY <2>3, <2>4, <1>5
<1>9. ASSUME NEW i \in 1 .. l + 1 PROVE t[i][2] <= IF done = 0 THEN 0 ELSE t[done][2] + 1
  <2>1. done # 0 => done \in 1 .. l /\ t[done] = q[done]
    BY <1>1, <1>2 DEF l
  <2>2. CASE i \in 1 .. l
    <3>1. q[i][2] <= IF done = 0 THEN 0 ELSE q[done][2] + 1
      BY <2>2 DEF InOrder, l
    <3> QED BY <3>1, <2>1, <2>2, <1>2
  <2>3. CASE i = l + 1
    <3>1. t[i][2] = x
      BY <2>3, <1>2
    <3> QED BY <3>1, <2>1
  <2> QED BY <2>2, <2>3, <1>5
<1>10. ASSUME NEW i \in 1 .. l + 1
       PROVE  t[i][1] \in ball[t[i][2]] /\ (t[i][2] > 0 => t[i][1] \notin ball[t[i][2] - 1])
  <2>1. CASE i \in 1 .. l
    <3>1. q[i][1] \in ball[q[i][2]] /\ (q[i][2] > 0 => q[i][1] \notin ball[q[i][2] - 1])
      BY <2>1 DEF InOrder, l
    <3>2. t[i] = q[i]
      BY <2>1, <1>2
    <3> QED BY <3>1, <3>2
  <2>2. CASE i = l + 1
    <3>1. t[i][1] = c /\ t[i][2] = x
      BY <2>2, <1>2
    <3> QED BY <3>1
  <2> QED BY <2>1, <2>2, <1>5
<1>11. InOrder(t, done, seen \cup {c}, n, d, ball)
  BY <1>2, <1>6, <1>7, <1>8, <1>9, <1>10 DEF InOrder
<1> QED BY <1>11 DEF t

\* The callers of everything nearer than j are seen.
Explored(q, j, seen, n, E) ==
  \A i \in 1 .. Len(q) : q[i][2] < j => \A m \in 1 .. n : <<m, q[i][1]>> \in E => m \in seen

LEMMA PairParts ==
  ASSUME NEW A, NEW B, NEW e \in A \X B
  PROVE  e[1] \in A /\ e[2] \in B /\ e = <<e[1], e[2]>>
OBVIOUS

\* Then the ball of radius j is.
LEMMA BallSeen ==
  ASSUME NEW n \in Nat, NEW d \in Nat, NEW S, NEW E, NEW ball, IsBall(ball, S, n, d, E),
         NEW seen, NEW q, NEW done, InOrder(q, done, seen, n, d, ball), S \subseteq seen,
         NEW j \in 0 .. d, Explored(q, j, seen, n, E)
  PROVE  ball[j] \subseteq seen
<1> DEFINE T == {k \in 0 .. j : ball[k] \subseteq seen}
<1>1. 0 \in T
  BY DEF IsBall
<1>2. ASSUME NEW k \in 0 .. j - 1, k \in T
      PROVE  k + 1 \in T
  <2>1. k + 1 \in 0 .. j /\ k + 1 \in 1 .. d /\ (k + 1) - 1 = k /\ k \in 0 .. d
    OBVIOUS
  <2>2. ball[k + 1] = ball[k] \cup {m \in 1 .. n : \E x \in ball[k] : <<m, x>> \in E}
    <3>1. \A i \in 1 .. d :
            ball[i] = ball[i - 1] \cup {m \in 1 .. n : \E x \in ball[i - 1] : <<m, x>> \in E}
      BY DEF IsBall
    <3>2. ball[k + 1] =
            ball[(k + 1) - 1] \cup {m \in 1 .. n : \E x \in ball[(k + 1) - 1] : <<m, x>> \in E}
      BY <2>1, <3>1
    <3> QED BY <2>1, <3>2, Zenon
  <2>3. ASSUME NEW x \in ball[k], NEW m \in 1 .. n, <<m, x>> \in E PROVE m \in seen
    <3>1. PICK i \in 1 .. Len(q) : x = q[i][1]
      BY <1>2, <2>3 DEF InOrder
    <3>2. q[i] \in (1 .. n) \X (0 .. d)
      BY ElementOfSeq DEF InOrder, Entry
    <3>3. q[i][2] > 0 => x \notin ball[q[i][2] - 1]
      BY <3>1 DEF InOrder
    <3>4. q[i][2] <= k
      <4> SUFFICES ASSUME q[i][2] > k PROVE FALSE
        BY <3>2
      <4> DEFINE y == q[i][2]
      <4>3. y \in 0 .. d
        BY <3>2, PairParts, Zenon
      <4>4. y > k
        OBVIOUS
      <4> HIDE DEF y
      <4>5. y - 1 \in 0 .. d /\ k <= y - 1 /\ y > 0
        BY <4>3, <4>4
      <4>1. q[i][2] - 1 \in 0 .. d /\ k <= q[i][2] - 1 /\ q[i][2] > 0
        BY <4>5 DEF y
      <4>2. ball[k] \subseteq ball[q[i][2] - 1]
        BY <4>1, <2>1, BallGrows
      <4> QED BY <4>1, <4>2, <3>3, <2>3
    <3>5. q[i][2] < j
      <4> DEFINE y == q[i][2]
      <4>1. y \in Nat /\ y <= k
        BY <3>2, <3>4
      <4> HIDE DEF y
      <4>2. y < j
        BY <4>1
      <4> QED BY <4>2 DEF y
    <3> QED BY <3>1, <3>5, <2>3 DEF Explored
  <2> QED BY <2>1, <2>2, <2>3, <1>2
<1> HIDE DEF T
<1>3. 0 .. j \subseteq T
  <2>1. j \in Nat
    OBVIOUS
  <2> QED BY <2>1, <1>1, <1>2, UpTo
<1>4. j \in T
  BY <1>3
<1> QED BY <1>4 DEF T

\* The queue is what follows the answer.
BfsStates(n, d) == [seen : SUBSET (1 .. n), queue : Seq(Entry(n, d)), answer : Seq(Entry(n, d))]

Found(s) == s.answer \o s.queue

Searching(s, n, d, ball) ==
  /\ s \in BfsStates(n, d)
  /\ InOrder(Found(s), Len(s.answer), s.seen, n, d, ball)

\* Nodes may be found at depth x: nothing is deeper, and all that is nearer is seen.
Fits(s, x, ball) ==
  /\ \A i \in 1 .. Len(Found(s)) : Found(s)[i][2] <= x
  /\ x <= IF Len(s.answer) = 0 THEN 0 ELSE Found(s)[Len(s.answer)][2] + 1
  /\ x > 0 => ball[x - 1] \subseteq s.seen

\* t has found what s has, and has answered the same.
Extends(t, s) ==
  /\ t.answer = s.answer
  /\ s.seen \subseteq t.seen
  /\ Len(Found(s)) <= Len(Found(t))
  /\ \A i \in 1 .. Len(Found(s)) : Found(t)[i] = Found(s)[i]

LEMMA ConcatAppend ==
  ASSUME NEW S, NEW a \in Seq(S), NEW b \in Seq(S), NEW e \in S
  PROVE  a \o Append(b, e) = Append(a \o b, e)
<1>1. <<e>> \in Seq(S)
  OBVIOUS
<1>2. (a \o b) \o <<e>> = a \o (b \o <<e>>)
  <2>1. \A u \in Seq(S) : (a \o b) \o u = a \o (b \o u)
    BY ConcatAssociative
  <2> QED BY <1>1, <2>1
<1>3. a \o b \in Seq(S)
  BY ConcatProperties
<1>4. Append(b, e) = b \o <<e>> /\ Append(a \o b, e) = (a \o b) \o <<e>>
  BY <1>3, AppendIsConcat, Zenon
<1> QED BY <1>2, <1>4, Zenon

LEMMA FoundType ==
  ASSUME NEW n, NEW d, NEW s \in BfsStates(n, d)
  PROVE  /\ s.answer \in Seq(Entry(n, d)) /\ s.queue \in Seq(Entry(n, d))
         /\ Found(s) \in Seq(Entry(n, d))
         /\ Len(s.answer) \in Nat /\ Len(s.queue) \in Nat /\ Len(Found(s)) \in Nat
         /\ Len(Found(s)) = Len(s.answer) + Len(s.queue)
         /\ Len(s.answer) \in 0 .. Len(Found(s))
         /\ Len(s.answer) # 0 => Len(s.answer) \in 1 .. Len(Found(s))
         /\ \A i \in 1 .. Len(s.answer) : Found(s)[i] = s.answer[i]
         /\ \A i \in 1 .. Len(s.queue) : Found(s)[Len(s.answer) + i] = s.queue[i]
<1>1. s.answer \in Seq(Entry(n, d)) /\ s.queue \in Seq(Entry(n, d))
  BY DEF BfsStates
<1> DEFINE a == s.answer
           q == s.queue
<1> HIDE DEF a, q
<1>2. a \in Seq(Entry(n, d)) /\ q \in Seq(Entry(n, d))
  BY <1>1 DEF a, q
<1>3. Len(a) \in Nat /\ Len(q) \in Nat
  BY <1>2, LenProperties
<1>4. /\ a \o q \in Seq(Entry(n, d))
      /\ Len(a \o q) = Len(a) + Len(q)
      /\ \A i \in 1 .. Len(a) + Len(q) :
           (a \o q)[i] = IF i <= Len(a) THEN a[i] ELSE q[i - Len(a)]
  BY <1>2, ConcatProperties
<1>5. \A i \in 1 .. Len(a) : (a \o q)[i] = a[i]
  BY <1>3, <1>4
<1>6. \A i \in 1 .. Len(q) : (a \o q)[Len(a) + i] = q[i]
  <2> TAKE i \in 1 .. Len(q)
  <2>1. /\ Len(a) + i \in 1 .. Len(a) + Len(q)
        /\ ~ (Len(a) + i <= Len(a)) /\ (Len(a) + i) - Len(a) = i
    BY <1>3
  <2> QED BY <2>1, <1>4
<1>7. /\ Len(a \o q) \in Nat
      /\ Len(a) \in 0 .. Len(a \o q)
      /\ Len(a) # 0 => Len(a) \in 1 .. Len(a \o q)
  <2> DEFINE x == Len(a)
             y == Len(q)
             z == Len(a \o q)
  <2>1. x \in Nat /\ y \in Nat /\ z = x + y
    BY <1>3, <1>4
  <2> HIDE DEF x, y, z
  <2>2. z \in Nat /\ x \in 0 .. z /\ (x # 0 => x \in 1 .. z)
    BY <2>1
  <2> QED BY <2>2, Zenon DEF x, z
<1>8. Len(a \o q) = Len(a) + Len(q)
  BY <1>4
<1> QED BY <1>2, <1>3, <1>4, <1>5, <1>6, <1>7, <1>8, Zenon DEF Found, a, q

LEMMA DiscoverOne ==
  ASSUME NEW n \in Nat, NEW d \in Nat, NEW ball, NEW s, Searching(s, n, d, ball),
         NEW x \in 0 .. d, Fits(s, x, ball), NEW c \in 1 .. n, c \in ball[x]
  PROVE  LET t == Discover(s, c, x)
         IN  Searching(t, n, d, ball) /\ Extends(t, s) /\ Fits(t, x, ball) /\ c \in t.seen
<1> DEFINE t == Discover(s, c, x)
           q == Found(s)
           e == <<c, x>>
<1>1. s \in BfsStates(n, d) /\ InOrder(q, Len(s.answer), s.seen, n, d, ball)
  BY DEF Searching
<1>2. s.answer \in Seq(Entry(n, d)) /\ s.queue \in Seq(Entry(n, d)) /\ q \in Seq(Entry(n, d))
  BY <1>1, FoundType
<1>5. /\ Len(s.answer) \in Nat /\ Len(s.queue) \in Nat /\ Len(q) \in Nat
      /\ Len(s.answer) \in 0 .. Len(q)
      /\ Len(s.answer) # 0 => Len(s.answer) \in 1 .. Len(q)
  BY <1>1, FoundType
<1>3. CASE c \in s.seen
  <2>1. t = s
    BY <1>3 DEF Discover
  <2>2. Extends(s, s)
    BY <1>5 DEF Extends
  <2> HIDE DEF t
  <2> QED BY <2>1, <2>2, <1>3 DEF t
<1>4. CASE c \notin s.seen
  <2>1. e \in Entry(n, d)
    BY DEF Entry
  <2>2. t = [s EXCEPT !.seen = @ \cup {c}, !.queue = Append(@, e)]
    BY <1>4 DEF Discover
  <2>3. Append(s.queue, e) \in Seq(Entry(n, d))
    BY <1>2, <2>1, AppendProperties
  <2>4. /\ t.answer = s.answer /\ t.seen = s.seen \cup {c} /\ t.queue = Append(s.queue, e)
        /\ t \in BfsStates(n, d)
    BY <1>1, <2>2, <2>3 DEF BfsStates
  <2>5. Found(t) = Append(q, e)
    <3> HIDE DEF t, e
    <3>1. s.answer \o Append(s.queue, e) = Append(s.answer \o s.queue, e)
      <4>1. \A a, b \in Seq(Entry(n, d)), y \in Entry(n, d) :
              a \o Append(b, y) = Append(a \o b, y)
        BY ConcatAppend
      <4> QED BY <1>2, <2>1, <4>1, Zenon
    <3> QED BY <2>4, <3>1, Zenon DEF Found
  <2> HIDE DEF t, q, e
  <2>6. Len(s.answer) \in 0 .. Len(q)
    BY <1>5
  <2>7. InOrder(Append(q, e), Len(s.answer), s.seen \cup {c}, n, d, ball)
    <3>1. x > 0 => c \notin ball[x - 1]
      BY <1>4 DEF Fits
    <3>2. /\ \A i \in 1 .. Len(q) : q[i][2] <= x
          /\ x <= IF Len(s.answer) = 0 THEN 0 ELSE q[Len(s.answer)][2] + 1
      BY DEF Fits, q
    <3> QED BY <1>1, <1>4, <2>6, <3>1, <3>2, InOrderAppend DEF e
  <2>8. Searching(t, n, d, ball)
    BY <2>4, <2>5, <2>7 DEF Searching
  <2>9. /\ Len(Append(q, e)) = Len(q) + 1
        /\ \A i \in 1 .. Len(q) : Append(q, e)[i] = q[i]
        /\ Append(q, e)[Len(q) + 1] = e
    BY <1>2, <2>1, AppendProperties
  <2>10. Len(q) \in Nat
    BY <1>5
  <2>11. Extends(t, s)
    BY <2>4, <2>5, <2>9, <2>10 DEF Extends, q
  <2>12. ASSUME NEW i \in 1 .. Len(Found(t)) PROVE Found(t)[i][2] <= x
    <3>1. i \in 1 .. Len(q) \/ i = Len(q) + 1
      BY <2>5, <2>9, <2>10
    <3>2. CASE i \in 1 .. Len(q)
      BY <3>2, <2>5, <2>9 DEF q, Fits
    <3>3. CASE i = Len(q) + 1
      <4>1. Found(t)[i] = <<c, x>>
        BY <3>3, <2>5, <2>9 DEF e
      <4> QED BY <4>1
    <3> QED BY <3>1, <3>2, <3>3
  <2>13. x <= IF Len(t.answer) = 0 THEN 0 ELSE Found(t)[Len(t.answer)][2] + 1
    <3>1. Len(s.answer) # 0 => Len(s.answer) \in 1 .. Len(q)
      BY <1>5
    <3>2. x <= IF Len(s.answer) = 0 THEN 0 ELSE q[Len(s.answer)][2] + 1
      BY DEF Fits, q
    <3> QED BY <2>4, <2>5, <2>9, <3>1, <3>2
  <2>14. x > 0 => ball[x - 1] \subseteq t.seen
    BY <2>4 DEF Fits
  <2>15. Fits(t, x, ball)
    BY <2>12, <2>13, <2>14 DEF Fits
  <2> QED BY <2>4, <2>8, <2>11, <2>15 DEF t
<1> QED BY <1>3, <1>4

LEMMA ExtendsTransitive ==
  ASSUME NEW n, NEW d, NEW s \in BfsStates(n, d), NEW t \in BfsStates(n, d),
         NEW u \in BfsStates(n, d), Extends(t, s), Extends(u, t)
  PROVE  Extends(u, s)
<1> DEFINE x == Len(Found(s))
           y == Len(Found(t))
           z == Len(Found(u))
<1>1. x \in Nat /\ y \in Nat /\ z \in Nat
  BY FoundType
<1>2. /\ t.answer = s.answer /\ s.seen \subseteq t.seen /\ x <= y
      /\ \A i \in 1 .. x : Found(t)[i] = Found(s)[i]
  BY DEF Extends
<1>3. /\ u.answer = t.answer /\ t.seen \subseteq u.seen /\ y <= z
      /\ \A i \in 1 .. y : Found(u)[i] = Found(t)[i]
  BY DEF Extends
<1> HIDE DEF x, y, z
<1>4. x <= z
  BY <1>1, <1>2, <1>3
<1>5. \A i \in 1 .. x : i \in 1 .. y
  BY <1>1, <1>2
<1>6. \A i \in 1 .. x : Found(u)[i] = Found(s)[i]
  BY <1>2, <1>3, <1>5
<1>7. s.seen \subseteq u.seen /\ u.answer = s.answer
  BY <1>2, <1>3
<1> QED BY <1>4, <1>6, <1>7 DEF Extends, x, z

AllIn(ids, B) == \A i \in 1 .. Len(ids) : ids[i] \in B

\* The loop over the callers of a node, and the one over the starts.
DiscoverLoop(f, s, ids, x) ==
  f = [i \in 0 .. Len(ids) |-> IF i = 0 THEN s ELSE Discover(f[i - 1], ids[i], x)]

LEMMA DiscoverType ==
  ASSUME NEW n, NEW d, NEW s \in BfsStates(n, d), NEW c \in 1 .. n, NEW x \in 0 .. d
  PROVE  Discover(s, c, x) \in BfsStates(n, d)
<1>1. CASE c \in s.seen
  BY <1>1 DEF Discover
<1>2. CASE c \notin s.seen
  <2>1. <<c, x>> \in Entry(n, d)
    BY DEF Entry
  <2>2. s.queue \in Seq(Entry(n, d))
    BY DEF BfsStates
  <2>3. Append(s.queue, <<c, x>>) \in Seq(Entry(n, d))
    BY <2>1, <2>2, AppendProperties
  <2> QED BY <1>2, <2>3 DEF Discover, BfsStates
<1> QED BY <1>1, <1>2

LEMMA DiscoverAllLoop ==
  ASSUME NEW n \in Nat, NEW d \in Nat, NEW s \in BfsStates(n, d), NEW x \in 0 .. d,
         NEW ids \in Seq(1 .. n)
  PROVE  \E f : /\ DiscoverAll(s, ids, x) = f[Len(ids)]
                /\ f[0] = s
                /\ \A i \in 0 .. Len(ids) - 1 : f[i + 1] = Discover(f[i], ids[i + 1], x)
<1> DEFINE l == Len(ids)
           S == BfsStates(n, d)
           step == [i \in 1 .. l |-> [t \in S |-> Discover(t, ids[i], x)]]
<1>1. l \in Nat /\ \A i \in 1 .. l : ids[i] \in 1 .. n
  BY LenProperties, ElementOfSeq
<1> HIDE DEF l
<1>2. s \in S
  OBVIOUS
<1>3. \E f : DiscoverLoop(f, s, ids, x)
  <2>1. step \in [1 .. l -> [S -> S]]
    <3>1. \A i \in 1 .. l, t \in S : Discover(t, ids[i], x) \in S
      BY <1>1, DiscoverType
    <3> HIDE DEF S
    <3> QED BY <3>1
  <2>2. \A i \in 1 .. l, t \in S : step[i][t] = Discover(t, ids[i], x)
    OBVIOUS
  <2> HIDE DEF step, S
  <2>3. PICK f : IsLoop(f, l, S, s, step)
    BY <1>1, <1>2, <2>1, LoopDefined
  <2>4. \A i \in 1 .. l : f[i] = Discover(f[i - 1], ids[i], x)
    <3> TAKE i \in 1 .. l
    <3>1. f[i - 1] \in S /\ f[i] = step[i][f[i - 1]]
      BY <2>3, <1>1 DEF IsLoop
    <3> QED BY <3>1, <2>2
  <2>5. f = [i \in 0 .. l |-> IF i = 0 THEN s ELSE Discover(f[i - 1], ids[i], x)]
    BY <2>3, <2>4, <1>1 DEF IsLoop
  <2> QED BY <2>5 DEF DiscoverLoop, l
<1>4. PICK f : DiscoverLoop(f, s, ids, x) /\ DiscoverAll(s, ids, x) = f[l]
  <2>1. DiscoverAll(s, ids, x) = (CHOOSE f : DiscoverLoop(f, s, ids, x))[l]
    BY DEF DiscoverAll, DiscoverLoop, l
  <2> QED BY <1>3, <2>1
<1>5. f[0] = s /\ \A i \in 0 .. l - 1 : f[i + 1] = Discover(f[i], ids[i + 1], x)
  <2>1. f = [i \in 0 .. l |-> IF i = 0 THEN s ELSE Discover(f[i - 1], ids[i], x)]
    BY <1>4 DEF DiscoverLoop, l
  <2>2. \A i \in 0 .. l - 1 : i + 1 \in 0 .. l /\ (i + 1) - 1 = i /\ i + 1 # 0
    BY <1>1
  <2>3. 0 \in 0 .. l
    BY <1>1
  <2>4. \A i \in 0 .. l : f[i] = IF i = 0 THEN s ELSE Discover(f[i - 1], ids[i], x)
    BY <2>1
  <2> QED BY <2>2, <2>3, <2>4
<1> QED BY <1>4, <1>5 DEF l

LEMMA DiscoverAllType ==
  ASSUME NEW n \in Nat, NEW d \in Nat, NEW s \in BfsStates(n, d), NEW x \in 0 .. d,
         NEW ids \in Seq(1 .. n)
  PROVE  DiscoverAll(s, ids, x) \in BfsStates(n, d)
<1> DEFINE l == Len(ids)
           S == BfsStates(n, d)
<1>1. l \in Nat /\ \A i \in 1 .. l : ids[i] \in 1 .. n
  BY LenProperties, ElementOfSeq
<1>2. PICK f : /\ DiscoverAll(s, ids, x) = f[l]
               /\ f[0] = s
               /\ \A i \in 0 .. l - 1 : f[i + 1] = Discover(f[i], ids[i + 1], x)
  BY DiscoverAllLoop
<1> HIDE DEF l
<1> DEFINE T == {k \in 0 .. l : f[k] \in S}
<1>3. 0 \in T
  BY <1>1, <1>2
<1>4. ASSUME NEW k \in 0 .. l - 1, k \in T
      PROVE  k + 1 \in T
  <2>1. k + 1 \in 1 .. l /\ k + 1 \in 0 .. l
    BY <1>1
  <2>2. Discover(f[k], ids[k + 1], x) \in S
    BY <1>1, <1>4, <2>1, DiscoverType
  <2> HIDE DEF S
  <2> QED BY <1>2, <2>1, <2>2
<1> HIDE DEF T
<1>5. 0 .. l \subseteq T
  BY <1>1, <1>3, <1>4, UpTo
<1>6. l \in T
  BY <1>1, <1>5
<1> QED BY <1>2, <1>6 DEF T

LEMMA DiscoverMany ==
  ASSUME NEW n \in Nat, NEW d \in Nat, NEW ball, NEW s, Searching(s, n, d, ball),
         NEW x \in 0 .. d, Fits(s, x, ball), NEW ids \in Seq(1 .. n), AllIn(ids, ball[x])
  PROVE  LET t == DiscoverAll(s, ids, x)
         IN  /\ Searching(t, n, d, ball) /\ Extends(t, s) /\ Fits(t, x, ball)
             /\ AllIn(ids, t.seen)
<1> DEFINE l == Len(ids)
           S == BfsStates(n, d)
<1>1. l \in Nat /\ \A i \in 1 .. l : ids[i] \in 1 .. n
  BY LenProperties, ElementOfSeq
<1>2. s \in S
  BY DEF Searching
<1>4. PICK f : /\ DiscoverAll(s, ids, x) = f[l]
               /\ f[0] = s
               /\ \A i \in 0 .. l - 1 : f[i + 1] = Discover(f[i], ids[i + 1], x)
  BY <1>2, DiscoverAllLoop
<1> HIDE DEF l
<1>5. f[0] = s /\ \A i \in 0 .. l - 1 : f[i + 1] = Discover(f[i], ids[i + 1], x)
  BY <1>4
<1> DEFINE Good(t, k) == /\ Searching(t, n, d, ball) /\ Extends(t, s) /\ Fits(t, x, ball)
                         /\ \A i \in 1 .. k : ids[i] \in t.seen
           T == {k \in 0 .. l : Good(f[k], k)}
<1>6. 0 \in T
  <2>1. Extends(s, s)
    BY <1>2, FoundType DEF Extends
  <2> QED BY <1>1, <1>5, <2>1
<1>7. ASSUME NEW k \in 0 .. l - 1, k \in T
      PROVE  k + 1 \in T
  <2> DEFINE t == f[k]
             u == Discover(t, ids[k + 1], x)
  <2>1. /\ Searching(t, n, d, ball) /\ Extends(t, s) /\ Fits(t, x, ball)
        /\ \A i \in 1 .. k : ids[i] \in t.seen
    BY <1>7
  <2>2. k + 1 \in 1 .. l /\ k + 1 \in 0 .. l
    BY <1>1
  <2>3. ids[k + 1] \in 1 .. n /\ ids[k + 1] \in ball[x]
    BY <1>1, <2>2 DEF AllIn, l
  <2> HIDE DEF t
  <2>4. /\ Searching(u, n, d, ball) /\ Extends(u, t) /\ Fits(u, x, ball)
        /\ ids[k + 1] \in u.seen
    BY <2>1, <2>3, DiscoverOne
  <2> HIDE DEF u
  <2>5. t \in S /\ u \in S
    BY <2>1, <2>4 DEF Searching
  <2>6. Extends(u, s)
    BY <1>2, <2>1, <2>4, <2>5, ExtendsTransitive
  <2>7. ASSUME NEW i \in 1 .. k + 1 PROVE ids[i] \in u.seen
    <3>1. i \in 1 .. k \/ i = k + 1
      OBVIOUS
    <3>2. t.seen \subseteq u.seen
      BY <2>4 DEF Extends
    <3> QED BY <3>1, <3>2, <2>1, <2>4
  <2>8. Good(u, k + 1)
    BY <2>4, <2>6, <2>7
  <2>9. f[k + 1] = u
    BY <1>5 DEF u, t
  <2> HIDE DEF Good
  <2> QED BY <2>2, <2>8, <2>9
<1>8. Good(f[l], l)
  <2> HIDE DEF T, Good
  <2>1. 0 .. l \subseteq T
    BY <1>1, <1>6, <1>7, UpTo
  <2>2. l \in T
    BY <1>1, <2>1
  <2> QED BY <2>2 DEF T
<1> QED BY <1>4, <1>8 DEF AllIn, l

\* The callers of what was answered are seen, up to the depth.
Closed(s, k, n, d, E) ==
  \A i \in 1 .. k : Found(s)[i][2] < d =>
    \A m \in 1 .. n : <<m, Found(s)[i][1]>> \in E => m \in s.seen

LEMMA ConcatHead ==
  ASSUME NEW S, NEW a \in Seq(S), NEW q \in Seq(S), q # <<>>
  PROVE  Append(a, Head(q)) \o Tail(q) = a \o q
<1> DEFINE h == Head(q)
           r == Tail(q)
<1>1. h \in S /\ r \in Seq(S)
  BY HeadTailProperties
<1>2. <<h>> \o r = q
  <2>1. Len(q) \in Nat \ {0}
    BY EmptySeq
  <2>2. 1 \in 1 .. Len(q) /\ Len(q) \in 1 .. Len(q)
    BY <2>1
  <2>3. SubSeq(q, 1, Len(q)) = <<q[1]>> \o SubSeq(q, 1 + 1, Len(q))
    BY <2>2, SubSeqRecursiveFirst
  <2>4. SubSeq(q, 1, Len(q)) = q
    BY SubSeqFull
  <2>5. r = SubSeq(q, 2, Len(q))
    BY TailIsSubSeq
  <2>6. h = q[1]
    OBVIOUS
  <2>7. 1 + 1 = 2
    OBVIOUS
  <2> HIDE DEF h, r
  <2> QED BY <2>3, <2>4, <2>5, <2>6, <2>7, Zenon
<1> HIDE DEF h, r
<1>3. Append(a, h) = a \o <<h>>
  BY <1>1, AppendIsConcat
<1>4. <<h>> \in Seq(S)
  BY <1>1
<1>5. (a \o <<h>>) \o r = a \o (<<h>> \o r)
  <2>1. \A u \in Seq(S) : (a \o u) \o r = a \o (u \o r)
    BY <1>1, ConcatAssociative
  <2> QED BY <1>4, <2>1
<1>6. Append(a, h) \o r = a \o q
  BY <1>2, <1>3, <1>5, Zenon
<1> QED BY <1>6 DEF h, r

LEMMA ConcatSecond ==
  ASSUME NEW S, NEW a \in Seq(S), NEW b \in Seq(S), NEW i \in 1 .. Len(b)
  PROVE  (a \o b)[Len(a) + i] = b[i]
<1>1. Len(a) \in Nat /\ Len(b) \in Nat
  BY LenProperties
<1>2. \A k \in 1 .. Len(a) + Len(b) : (a \o b)[k] = IF k <= Len(a) THEN a[k] ELSE b[k - Len(a)]
  BY ConcatProperties
<1>3. /\ Len(a) + i \in 1 .. Len(a) + Len(b)
      /\ ~ (Len(a) + i <= Len(a)) /\ (Len(a) + i) - Len(a) = i
  BY <1>1
<1> QED BY <1>2, <1>3

\* The next of a sequence is answered.
LEMMA InOrderNext ==
  ASSUME NEW n \in Nat, NEW d \in Nat, NEW ball, NEW seen, NEW q, NEW done \in Nat,
         done + 1 \in 1 .. Len(q), InOrder(q, done, seen, n, d, ball)
  PROVE  /\ InOrder(q, done + 1, seen, n, d, ball)
         /\ \A i \in 1 .. Len(q) : q[i][2] <= q[done + 1][2] + 1
         /\ \A i \in 1 .. Len(q) : q[i][2] < q[done + 1][2] => i \in 1 .. done
<1>1. \A i \in 1 .. Len(q) : q[i] \in (1 .. n) \X (0 .. d)
  BY ElementOfSeq DEF InOrder, Entry
<1>2. \A i, j \in 1 .. Len(q) : i < j => q[i][2] <= q[j][2]
  BY DEF InOrder
<1>3. \A i \in 1 .. Len(q) : q[i][2] <= IF done = 0 THEN 0 ELSE q[done][2] + 1
  BY DEF InOrder
<1> DEFINE l == Len(q)
<1>4. l \in Nat
  BY LenProperties DEF InOrder
<1> HIDE DEF l
<1>5. ASSUME NEW i \in 1 .. l PROVE q[i][2] <= q[done + 1][2] + 1
  <2> DEFINE y == q[i][2]
             z == q[done + 1][2]
             w == q[done][2]
  <2>1. y \in Nat /\ z \in Nat
    <3>1. q[i] \in (1 .. n) \X (0 .. d) /\ q[done + 1] \in (1 .. n) \X (0 .. d)
      BY <1>1 DEF l
    <3>2. y \in 0 .. d /\ z \in 0 .. d
      BY <3>1, PairParts, Zenon
    <3> HIDE DEF y, z
    <3> QED BY <3>2
  <2>2. y <= IF done = 0 THEN 0 ELSE w + 1
    BY <1>3 DEF l
  <2>3. done # 0 => w \in Nat /\ w <= z
    <3> SUFFICES ASSUME done # 0 PROVE w \in Nat /\ w <= z
      OBVIOUS
    <3>1. done \in 1 .. l /\ done + 1 \in 1 .. l /\ done < done + 1
      BY <1>4 DEF l
    <3> QED BY <3>1, <1>1, <1>2 DEF l
  <2> HIDE DEF y, z, w
  <2>4. y <= z + 1
    BY <2>1, <2>2, <2>3
  <2> QED BY <2>4 DEF y, z
<1>6. ASSUME NEW i \in 1 .. l, q[i][2] < q[done + 1][2] PROVE i \in 1 .. done
  <2> SUFFICES ASSUME i > done PROVE FALSE
    BY <1>4
  <2> DEFINE y == q[i][2]
             z == q[done + 1][2]
  <2>1. y \in Nat /\ z \in Nat
    <3>1. q[i] \in (1 .. n) \X (0 .. d) /\ q[done + 1] \in (1 .. n) \X (0 .. d)
      BY <1>1 DEF l
    <3>2. y \in 0 .. d /\ z \in 0 .. d
      BY <3>1, PairParts, Zenon
    <3> HIDE DEF y, z
    <3> QED BY <3>2
  <2>2. y < z
    BY <1>6
  <2>3. CASE i = done + 1
    <3>1. y = z
      BY <2>3
    <3> HIDE DEF y, z
    <3> QED BY <3>1, <2>1, <2>2
  <2>4. CASE done + 1 < i
    <3>1. z <= y
      BY <2>4, <1>2 DEF l
    <3> HIDE DEF y, z
    <3> QED BY <3>1, <2>1, <2>2
  <2> QED BY <2>3, <2>4, <1>4
<1>7. done + 1 # 0
  OBVIOUS
<1>8. InOrder(q, done + 1, seen, n, d, ball)
  BY <1>5, <1>7 DEF InOrder, l
<1> QED BY <1>5, <1>6, <1>8 DEF l

\* A round that finds the queue empty leaves all as it is; one that does not
\* answers the head and queues its callers.
LEMMA BfsRound ==
  ASSUME NEW g, NEW n, NEW E, IsGraph(g, n, E), NEW d \in Nat, NEW S, NEW ball,
         IsBall(ball, S, n, d, E), NEW s, Searching(s, n, d, ball), S \subseteq s.seen,
         Closed(s, Len(s.answer), n, d, E), s.queue # <<>>
  PROVE  LET t == Round(g, s, d)
         IN  /\ Searching(t, n, d, ball) /\ S \subseteq t.seen
             /\ Closed(t, Len(t.answer), n, d, E)
             /\ Len(t.answer) = Len(s.answer) + 1
<1> DEFINE h == Head(s.queue)
           done == Len(s.answer)
           q == Found(s)
           taken == [s EXCEPT !.queue = Tail(@), !.answer = Append(@, <<h[1], h[2]>>)]
           t == Round(g, s, d)
<1>0. n \in Nat
  BY DEF IsGraph
<1>1. s \in BfsStates(n, d) /\ InOrder(q, done, s.seen, n, d, ball)
  BY DEF Searching
<1>2. /\ s.answer \in Seq(Entry(n, d)) /\ s.queue \in Seq(Entry(n, d)) /\ q \in Seq(Entry(n, d))
  BY <1>1, FoundType
<1>3. done \in Nat /\ Len(s.queue) \in Nat /\ Len(q) \in Nat /\ Len(q) = done + Len(s.queue)
  BY <1>1, FoundType
<1>4. h \in Entry(n, d) /\ Tail(s.queue) \in Seq(Entry(n, d)) /\ h = s.queue[1]
  BY <1>2, HeadTailProperties
<1>5. h[1] \in 1 .. n /\ h[2] \in 0 .. d /\ h = <<h[1], h[2]>>
  <2> HIDE DEF h
  <2>1. h \in (1 .. n) \X (0 .. d)
    BY <1>4 DEF Entry
  <2> QED BY <2>1, PairParts, ZenonT(40)
<1>6. done + 1 \in 1 .. Len(q) /\ q[done + 1] = h
  <2>1. Len(s.queue) \in Nat \ {0}
    BY <1>2, EmptySeq
  <2>2. 1 \in 1 .. Len(s.queue)
    BY <2>1
  <2>3. q[done + 1] = s.queue[1]
    <3> DEFINE a == s.answer
               b == s.queue
    <3>1. a \in Seq(Entry(n, d)) /\ b \in Seq(Entry(n, d)) /\ 1 \in 1 .. Len(b)
      BY <1>2, <2>2
    <3> HIDE DEF a, b
    <3>2. (a \o b)[Len(a) + 1] = b[1]
      BY <3>1, ConcatSecond
    <3> QED BY <3>2 DEF a, b, Found
  <2> DEFINE x == Len(s.queue)
             y == Len(q)
             z == done
  <2>4. x \in Nat \ {0} /\ z \in Nat /\ y = z + x
    BY <2>1, <1>3
  <2> HIDE DEF x, y, z
  <2>5. z + 1 \in 1 .. y
    BY <2>4
  <2> QED BY <2>3, <2>5, <1>4 DEF y, z
<1>7. /\ taken.answer = Append(s.answer, h) /\ taken.queue = Tail(s.queue)
      /\ taken.seen = s.seen
      /\ taken \in BfsStates(n, d) /\ Len(taken.answer) = done + 1
  <2>1. Append(s.answer, h) \in Seq(Entry(n, d)) /\ Len(Append(s.answer, h)) = done + 1
    BY <1>2, <1>4, AppendProperties
  <2>2. taken = [s EXCEPT !.queue = Tail(s.queue), !.answer = Append(s.answer, h)]
    BY <1>5
  <2>3. /\ taken.answer = Append(s.answer, h) /\ taken.queue = Tail(s.queue)
        /\ taken.seen = s.seen /\ taken \in BfsStates(n, d)
    BY <1>1, <1>4, <2>1, <2>2 DEF BfsStates
  <2> QED BY <2>1, <2>3
<1>8. Found(taken) = q
  <2>1. Append(s.answer, h) \o Tail(s.queue) = s.answer \o s.queue
    BY <1>2, ConcatHead
  <2> QED BY <1>7, <2>1, Zenon DEF Found
<1>9. t = IF h[2] = d THEN taken ELSE DiscoverAll(taken, Callers(g, h[1]), h[2] + 1)
  BY DEF Round
<1> HIDE DEF h, done, q, taken, t
<1>10. /\ InOrder(q, done + 1, s.seen, n, d, ball)
       /\ \A i \in 1 .. Len(q) : q[i][2] <= h[2] + 1
       /\ \A i \in 1 .. Len(q) : q[i][2] < h[2] => i \in 1 .. done
  BY <1>0, <1>1, <1>3, <1>6, InOrderNext
<1>11. Searching(taken, n, d, ball)
  BY <1>7, <1>8, <1>10 DEF Searching
<1>12. ASSUME NEW i \in 1 .. done, q[i][2] < d, NEW m \in 1 .. n, <<m, q[i][1]>> \in E
       PROVE  m \in s.seen
  BY <1>12 DEF Closed, q, done
<1>13. \A i \in 1 .. done + 1 : i \in 1 .. done \/ i = done + 1
  BY <1>3
<1>14. CASE h[2] = d
  <2>1. t = taken
    BY <1>9, <1>14
  <2>2. ASSUME NEW i \in 1 .. done + 1, q[i][2] < d, NEW m \in 1 .. n, <<m, q[i][1]>> \in E
        PROVE  m \in s.seen
    <3>1. i # done + 1
      BY <1>6, <1>14, <2>2
    <3> QED BY <3>1, <2>2, <1>12, <1>13
  <2>3. Closed(taken, done + 1, n, d, E)
    BY <2>2, <1>7, <1>8 DEF Closed
  <2> QED BY <2>1, <2>3, <1>7, <1>11 DEF t, done
<1>15. CASE h[2] # d
  <2> DEFINE called == {m \in 1 .. n : <<m, h[1]>> \in E}
             ids == Callers(g, h[1])
  <2>1. h[2] + 1 \in 0 .. d /\ h[2] + 1 > 0 /\ (h[2] + 1) - 1 = h[2] /\ h[2] + 1 \in 1 .. d
    BY <1>5, <1>15
  <2>2. ids = Ascending(called)
    BY <1>5 DEF IsGraph
  <2>3. IsFiniteSet(called) /\ called \in SUBSET Nat
    <3>1. called \in SUBSET (1 .. n)
      OBVIOUS
    <3> QED BY <3>1, <1>0, SomeIds
  <2>4. ids \in Seq(called) /\ {ids[i] : i \in 1 .. Len(ids)} = called
    <3> HIDE DEF called, ids
    <3>1. /\ Ascending(called) \in Seq(called)
          /\ {Ascending(called)[i] : i \in 1 .. Len(Ascending(called))} = called
      BY <2>3, AscendingNumbers
    <3> QED BY <2>2, <3>1
  <2>5. ids \in Seq(1 .. n)
    BY <2>4, SeqMonotonic
  <2>6. h[1] \in ball[h[2]]
    BY <1>1, <1>6 DEF InOrder
  <2>7. called \subseteq ball[h[2] + 1]
    BY <2>1, <2>6 DEF IsBall
  <2>8. AllIn(ids, ball[h[2] + 1])
    BY <2>4, <2>7 DEF AllIn
  <2>9. ball[h[2]] \subseteq s.seen
    <3>1. ASSUME NEW i \in 1 .. Len(q), q[i][2] < h[2], NEW m \in 1 .. n, <<m, q[i][1]>> \in E
          PROVE  m \in s.seen
      <4>1. i \in 1 .. done
        BY <1>10, <3>1
      <4>2. q[i] \in (1 .. n) \X (0 .. d)
        BY <1>2, ElementOfSeq DEF Entry
      <4>3. q[i][2] < d
        <5> DEFINE y == q[i][2]
                   z == h[2]
        <5>1. y \in Nat /\ z \in 0 .. d /\ y < z
          BY <4>2, <1>5, <3>1
        <5> HIDE DEF y, z
        <5>2. y < d
          BY <5>1
        <5> QED BY <5>2 DEF y
      <4> QED BY <4>1, <4>3, <1>12, <3>1
    <3>2. Explored(q, h[2], s.seen, n, E)
      BY <3>1 DEF Explored
    <3> QED BY <3>2, <1>0, <1>1, <1>5, BallSeen
  <2>10. Fits(taken, h[2] + 1, ball)
    <3>1. \A i \in 1 .. Len(q) : q[i][2] <= h[2] + 1
      BY <1>10
    <3>2. done + 1 # 0 /\ h[2] + 1 <= q[done + 1][2] + 1
      <4>1. q[done + 1][2] = h[2]
        BY <1>6
      <4>2. h[2] + 1 <= h[2] + 1
        BY <1>5
      <4> QED BY <4>1, <4>2, <1>3
    <3>3. ball[(h[2] + 1) - 1] \subseteq taken.seen
      BY <2>1, <2>9, <1>7
    <3> QED BY <3>1, <3>2, <3>3, <1>7, <1>8 DEF Fits
  <2> HIDE DEF ids, called
  <2>11. t = DiscoverAll(taken, ids, h[2] + 1)
    BY <1>9, <1>15 DEF ids
  <2>12. /\ Searching(t, n, d, ball) /\ Extends(t, taken) /\ AllIn(ids, t.seen)
    BY <1>0, <1>11, <2>1, <2>5, <2>8, <2>10, <2>11, DiscoverMany
  <2>13. /\ Len(t.answer) = done + 1 /\ s.seen \subseteq t.seen
         /\ \A i \in 1 .. Len(q) : Found(t)[i] = q[i]
    BY <1>7, <1>8, <2>12 DEF Extends
  <2>14. ASSUME NEW i \in 1 .. done + 1, Found(t)[i][2] < d,
                NEW m \in 1 .. n, <<m, Found(t)[i][1]>> \in E
         PROVE  m \in t.seen
    <3>1. i \in 1 .. Len(q)
      BY <1>3, <1>6
    <3>2. Found(t)[i] = q[i]
      BY <2>13, <3>1
    <3>3. CASE i \in 1 .. done
      BY <3>2, <3>3, <2>13, <2>14, <1>12
    <3>4. CASE i = done + 1
      <4>1. <<m, h[1]>> \in E
        BY <3>2, <3>4, <1>6, <2>14
      <4>2. m \in called
        BY <4>1 DEF called
      <4> QED BY <4>2, <2>4, <2>12 DEF AllIn
    <3> QED BY <3>3, <3>4, <1>13
  <2>15. Closed(t, done + 1, n, d, E)
    BY <2>14 DEF Closed
  <2> QED BY <2>12, <2>13, <2>15 DEF t, done
<1> QED BY <1>14, <1>15


LEMMA RoundType ==
  ASSUME NEW g, NEW n, NEW E, IsGraph(g, n, E), NEW d \in Nat, NEW s \in BfsStates(n, d)
  PROVE  Round(g, s, d) \in BfsStates(n, d)
<1> DEFINE h == Head(s.queue)
           taken == [s EXCEPT !.queue = Tail(@), !.answer = Append(@, <<h[1], h[2]>>)]
<1>0. n \in Nat
  BY DEF IsGraph
<1>1. s.answer \in Seq(Entry(n, d)) /\ s.queue \in Seq(Entry(n, d))
  BY FoundType
<1>2. Round(g, s, d) = IF s.queue = <<>> THEN s
                       ELSE IF h[2] = d THEN taken
                       ELSE DiscoverAll(taken, Callers(g, h[1]), h[2] + 1)
  BY DEF Round
<1>3. CASE s.queue = <<>>
  BY <1>2, <1>3
<1>4. CASE s.queue # <<>>
  <2>1. h \in Entry(n, d) /\ Tail(s.queue) \in Seq(Entry(n, d))
    BY <1>1, <1>4, HeadTailProperties
  <2> HIDE DEF h
  <2>2. h[1] \in 1 .. n /\ h[2] \in 0 .. d /\ h = <<h[1], h[2]>>
    BY <2>1, PairParts, Zenon DEF Entry
  <2>3. taken \in BfsStates(n, d)
    <3>1. Append(s.answer, h) \in Seq(Entry(n, d))
      BY <1>1, <2>1, AppendProperties
    <3>2. taken = [s EXCEPT !.queue = Tail(s.queue), !.answer = Append(s.answer, h)]
      BY <2>2
    <3> QED BY <2>1, <3>1, <3>2 DEF BfsStates
  <2> HIDE DEF taken
  <2>4. ASSUME h[2] # d PROVE DiscoverAll(taken, Callers(g, h[1]), h[2] + 1) \in BfsStates(n, d)
    <3> DEFINE called == {m \in 1 .. n : <<m, h[1]>> \in E}
    <3>1. Callers(g, h[1]) = Ascending(called)
      BY <2>2 DEF IsGraph
    <3>2. called \in SUBSET (1 .. n)
      OBVIOUS
    <3> HIDE DEF called
    <3>3. Ascending(called) \in Seq(called)
      BY <1>0, <3>2, SomeIds, AscendingNumbers
    <3>4. Callers(g, h[1]) \in Seq(1 .. n)
      BY <3>1, <3>2, <3>3, SeqMonotonic
    <3>5. h[2] + 1 \in 0 .. d
      BY <2>2, <2>4
    <3> QED BY <1>0, <2>3, <3>4, <3>5, DiscoverAllType
  <2> QED BY <1>2, <1>4, <2>3, <2>4
<1> QED BY <1>3, <1>4

\* The search before its first round.
BfsStart(starts) == DiscoverAll([seen |-> {}, queue |-> <<>>, answer |-> <<>>], starts, 0)

BfsLoop(f, g, starts, d) ==
  f = [k \in 0 .. Len(g.nodes) |-> IF k = 0 THEN BfsStart(starts) ELSE Round(g, f[k - 1], d)]

LEMMA BfsRounds ==
  ASSUME NEW g, NEW n, NEW E, IsGraph(g, n, E), NEW d \in Nat, NEW starts \in Seq(1 .. n)
  PROVE  \E f : /\ ReverseBfs(g, starts, d) = f[n].answer
                /\ f[0] = BfsStart(starts)
                /\ \A k \in 0 .. n - 1 : f[k + 1] = Round(g, f[k], d)
<1> DEFINE S == BfsStates(n, d)
           step == [k \in 1 .. n |-> [s \in S |-> Round(g, s, d)]]
<1>1. n \in Nat /\ n = Len(g.nodes)
  BY DEF IsGraph
<1>2. BfsStart(starts) \in S
  <2> DEFINE s == [seen |-> {}, queue |-> <<>>, answer |-> <<>>]
  <2>1. s \in S
    BY DEF BfsStates
  <2> HIDE DEF s
  <2>2. DiscoverAll(s, starts, 0) \in S
    BY <1>1, <2>1, DiscoverAllType
  <2> QED BY <2>2 DEF BfsStart, s
<1>3. \E f : BfsLoop(f, g, starts, d)
  <2>1. step \in [1 .. n -> [S -> S]]
    <3>1. \A s \in S : Round(g, s, d) \in S
      BY RoundType
    <3> HIDE DEF S
    <3> QED BY <3>1
  <2>2. \A k \in 1 .. n, s \in S : step[k][s] = Round(g, s, d)
    OBVIOUS
  <2> HIDE DEF step, S
  <2>3. PICK f : IsLoop(f, n, S, BfsStart(starts), step)
    BY <1>1, <1>2, <2>1, LoopDefined
  <2>4. \A k \in 1 .. n : f[k] = Round(g, f[k - 1], d)
    <3> TAKE k \in 1 .. n
    <3>1. f[k - 1] \in S /\ f[k] = step[k][f[k - 1]]
      <4>1. n \in Nat
        BY <1>1
      <4> QED BY <2>3, <4>1 DEF IsLoop
    <3> QED BY <3>1, <2>2
  <2>5. f = [k \in 0 .. n |-> IF k = 0 THEN BfsStart(starts) ELSE Round(g, f[k - 1], d)]
    BY <2>3, <2>4, <1>1 DEF IsLoop
  <2> QED BY <1>1, <2>5 DEF BfsLoop
<1>4. PICK f : BfsLoop(f, g, starts, d) /\ ReverseBfs(g, starts, d) = f[n].answer
  <2>1. ReverseBfs(g, starts, d) = (CHOOSE f : BfsLoop(f, g, starts, d))[Len(g.nodes)].answer
    BY DEF ReverseBfs, BfsLoop, BfsStart
  <2> QED BY <1>1, <1>3, <2>1
<1>5. f[0] = BfsStart(starts) /\ \A k \in 0 .. n - 1 : f[k + 1] = Round(g, f[k], d)
  <2>1. f = [k \in 0 .. n |-> IF k = 0 THEN BfsStart(starts) ELSE Round(g, f[k - 1], d)]
    BY <1>1, <1>4 DEF BfsLoop
  <2>2. \A k \in 0 .. n - 1 : k + 1 \in 0 .. n /\ (k + 1) - 1 = k /\ k + 1 # 0
    BY <1>1
  <2>3. 0 \in 0 .. n
    BY <1>1
  <2>4. \A k \in 0 .. n : f[k] = IF k = 0 THEN BfsStart(starts) ELSE Round(g, f[k - 1], d)
    BY <2>1
  <2> QED BY <2>2, <2>3, <2>4
<1> QED BY <1>4, <1>5

LEMMA BfsStarted ==
  ASSUME NEW n \in Nat, NEW d \in Nat, NEW E, NEW S, NEW ball, IsBall(ball, S, n, d, E),
         NEW starts \in Seq(1 .. n), S = {starts[i] : i \in 1 .. Len(starts)}
  PROVE  LET s == BfsStart(starts)
         IN  /\ Searching(s, n, d, ball) /\ S \subseteq s.seen
             /\ Len(s.answer) = 0
             /\ Closed(s, Len(s.answer), n, d, E)
<1> DEFINE e == [seen |-> {}, queue |-> <<>>, answer |-> <<>>]
           t == BfsStart(starts)
<1>1. e \in BfsStates(n, d)
  BY DEF BfsStates
<1>2. e.seen = {} /\ e.queue = <<>> /\ e.answer = <<>>
  OBVIOUS
<1>3. t = DiscoverAll(e, starts, 0)
  BY DEF BfsStart
<1> HIDE DEF e, t
<1>4. Found(e) = <<>>
  <2>1. <<>> \o <<>> = <<>>
    <3>1. <<>> \in Seq(Nat)
      OBVIOUS
    <3> QED BY <3>1, ConcatEmptySeq
  <2> QED BY <1>2, <2>1, Zenon DEF Found
<1>5. Len(<<>>) = 0
  OBVIOUS
<1>6. Searching(e, n, d, ball)
  <2>1. \A i \in 1 .. 0 : FALSE
    OBVIOUS
  <2>2. <<>> \in Seq(Entry(n, d))
    OBVIOUS
  <2>3. InOrder(<<>>, 0, {}, n, d, ball)
    BY <1>5, <2>1, <2>2 DEF InOrder
  <2> QED BY <1>1, <1>2, <1>4, <1>5, <2>3 DEF Searching
<1>7. Fits(e, 0, ball)
  BY <1>2, <1>4, <1>5 DEF Fits
<1>8. AllIn(starts, ball[0])
  BY DEF AllIn, IsBall
<1>9. 0 \in 0 .. d
  OBVIOUS
<1>10. Searching(t, n, d, ball) /\ Extends(t, e) /\ AllIn(starts, t.seen)
  BY <1>3, <1>6, <1>7, <1>8, <1>9, DiscoverMany
<1>11. S \subseteq t.seen
  BY <1>10 DEF AllIn
<1>12. Len(t.answer) = 0
  BY <1>2, <1>5, <1>10 DEF Extends
<1>13. Closed(t, 0, n, d, E)
  BY DEF Closed
<1> QED BY <1>10, <1>11, <1>12, <1>13 DEF t

\* A search finds no more entries than there are nodes.
LEMMA FoundBounded ==
  ASSUME NEW n \in Nat, NEW d \in Nat, NEW q \in Seq(Entry(n, d)),
         \A i, j \in 1 .. Len(q) : q[i][1] = q[j][1] => i = j
  PROVE  Len(q) <= n
<1> DEFINE l == Len(q)
           f == [i \in 1 .. l |-> q[i][1]]
<1>1. l \in Nat /\ \A i \in 1 .. l : q[i] \in (1 .. n) \X (0 .. d)
  BY LenProperties, ElementOfSeq DEF Entry
<1> HIDE DEF l
<1>2. f \in [1 .. l -> 1 .. n]
  <2>1. \A i \in 1 .. l : q[i][1] \in 1 .. n
    BY <1>1, PairParts, Zenon
  <2> QED BY <2>1
<1>3. /\ IsFiniteSet(1 .. l) /\ Cardinality(1 .. l) = l
      /\ IsFiniteSet(1 .. n) /\ Cardinality(1 .. n) = n
  <2>1. Cardinality(1 .. l) = IF 1 > l THEN 0 ELSE l - 1 + 1
    BY <1>1, FS_Interval
  <2>2. Cardinality(1 .. n) = IF 1 > n THEN 0 ELSE n - 1 + 1
    BY FS_Interval
  <2> QED BY <1>1, <2>1, <2>2, FS_Interval
<1>4. ~ (l > n)
  <2> SUFFICES ASSUME l > n PROVE FALSE
    OBVIOUS
  <2>1. PICK i, j \in 1 .. l : i # j /\ f[i] = f[j]
    <3> DEFINE A == 1 .. l
               B == 1 .. n
    <3>1. Cardinality(B) < Cardinality(A)
      BY <1>3
    <3>2. f \in [A -> B] /\ IsFiniteSet(A) /\ IsFiniteSet(B)
      BY <1>2, <1>3
    <3> HIDE DEF f, A, B
    <3>3. \E i, j \in A : i # j /\ f[i] = f[j]
      BY <3>1, <3>2, FS_PigeonHole
    <3> QED BY <3>3 DEF A
  <2> QED BY <2>1 DEF l
<1>5. l <= n
  BY <1>1, <1>4
<1> QED BY <1>5 DEF l

\* The queue runs empty within as many rounds as there are nodes; the answer
\* then has everything that was found, and that is the ball.
LEMMA BfsFinds ==
  ASSUME NEW g, NEW n, NEW E, IsGraph(g, n, E), NEW d \in Nat, NEW S, NEW ball,
         IsBall(ball, S, n, d, E),
         NEW starts \in Seq(1 .. n), S = {starts[i] : i \in 1 .. Len(starts)}
  PROVE  LET q == ReverseBfs(g, starts, d)
         IN  /\ \E seen : InOrder(q, Len(q), seen, n, d, ball)
             /\ \A j \in 0 .. d : ball[j] \subseteq {q[i][1] : i \in 1 .. Len(q)}
<1> DEFINE Good(s, k) == /\ Searching(s, n, d, ball) /\ S \subseteq s.seen
                         /\ Closed(s, Len(s.answer), n, d, E)
                         /\ s.queue = <<>> \/ Len(s.answer) = k
<1>0. n \in Nat
  BY DEF IsGraph
<1>1. PICK f : /\ ReverseBfs(g, starts, d) = f[n].answer
               /\ f[0] = BfsStart(starts)
               /\ \A k \in 0 .. n - 1 : f[k + 1] = Round(g, f[k], d)
  BY BfsRounds
<1>2. Good(f[0], 0)
  BY <1>0, <1>1, BfsStarted
<1>3. ASSUME NEW k \in 0 .. n - 1, Good(f[k], k)
      PROVE  Good(f[k + 1], k + 1)
  <2> DEFINE s == f[k]
             t == Round(g, s, d)
  <2>1. f[k + 1] = t
    BY <1>1
  <2>2. /\ Searching(s, n, d, ball) /\ S \subseteq s.seen
        /\ Closed(s, Len(s.answer), n, d, E)
        /\ s.queue = <<>> \/ Len(s.answer) = k
    BY <1>3
  <2> HIDE DEF s
  <2>3. CASE s.queue = <<>>
    <3>1. t = s
      BY <2>3 DEF Round
    <3> HIDE DEF t
    <3> QED BY <2>1, <2>2, <2>3, <3>1
  <2>4. CASE s.queue # <<>>
    <3>1. /\ Searching(t, n, d, ball) /\ S \subseteq t.seen
          /\ Closed(t, Len(t.answer), n, d, E)
          /\ Len(t.answer) = Len(s.answer) + 1
      BY <2>2, <2>4, BfsRound
    <3> HIDE DEF t
    <3>2. Len(t.answer) = k + 1
      BY <2>2, <2>4, <3>1
    <3> QED BY <2>1, <3>1, <3>2
  <2> QED BY <2>3, <2>4
<1> DEFINE T == {k \in 0 .. n : Good(f[k], k)}
<1>4. n \in T
  <2>1. 0 \in T
    <3> HIDE DEF Good
    <3> QED BY <1>0, <1>2
  <2>2. \A k \in 0 .. n - 1 : k \in T => k + 1 \in T
    <3> HIDE DEF Good
    <3> QED BY <1>0, <1>3
  <2> HIDE DEF T
  <2>3. 0 .. n \subseteq T
    BY <1>0, <2>1, <2>2, UpTo
  <2> QED BY <1>0, <2>3
<1> DEFINE s == f[n]
           q == s.answer
<1>5. /\ Searching(s, n, d, ball) /\ S \subseteq s.seen
      /\ Closed(s, Len(s.answer), n, d, E)
      /\ s.queue = <<>> \/ Len(s.answer) = n
  BY <1>4
<1> HIDE DEF s
<1>6. s \in BfsStates(n, d) /\ InOrder(Found(s), Len(s.answer), s.seen, n, d, ball)
  BY <1>5 DEF Searching
<1>7. s.queue = <<>>
  <2> SUFFICES ASSUME s.queue # <<>> PROVE FALSE
    OBVIOUS
  <2>1. Found(s) \in Seq(Entry(n, d)) /\ s.queue \in Seq(Entry(n, d))
    BY <1>6, FoundType
  <2>2. Len(Found(s)) = Len(s.answer) + Len(s.queue)
    BY <1>6, FoundType
  <2>3. \A i, j \in 1 .. Len(Found(s)) : Found(s)[i][1] = Found(s)[j][1] => i = j
    BY <1>6 DEF InOrder
  <2>4. Len(Found(s)) <= n
    <3> DEFINE r == Found(s)
    <3>1. r \in Seq(Entry(n, d)) /\ \A i, j \in 1 .. Len(r) : r[i][1] = r[j][1] => i = j
      BY <2>1, <2>3
    <3> HIDE DEF r
    <3>2. Len(r) <= n
      BY <1>0, <3>1, FoundBounded
    <3> QED BY <3>2 DEF r
  <2>5. Len(s.queue) \in Nat \ {0}
    BY <2>1, EmptySeq
  <2> DEFINE x == Len(Found(s))
             y == Len(s.queue)
  <2>6. x = n + y /\ x <= n /\ y \in Nat \ {0}
    BY <1>5, <2>2, <2>4, <2>5
  <2> HIDE DEF x, y
  <2> QED BY <1>0, <2>6
<1>8. Found(s) = q
  <2>1. s.answer \in Seq(Entry(n, d))
    BY <1>6, FoundType
  <2>2. s.answer \o <<>> = s.answer
    BY <2>1, ConcatEmptySeq
  <2> QED BY <1>7, <2>2, Zenon DEF Found
<1> HIDE DEF q
<1>9. InOrder(q, Len(q), s.seen, n, d, ball)
  BY <1>6, <1>8 DEF q
<1>10. ASSUME NEW j \in 0 .. d PROVE ball[j] \subseteq s.seen
  <2>1. ASSUME NEW i \in 1 .. Len(q), q[i][2] < j, NEW m \in 1 .. n, <<m, q[i][1]>> \in E
        PROVE  m \in s.seen
    <3>1. q \in Seq(Entry(n, d))
      BY <1>9 DEF InOrder
    <3>2. q[i] \in (1 .. n) \X (0 .. d)
      BY <3>1, ElementOfSeq DEF Entry
    <3> DEFINE y == q[i][2]
    <3>3. y \in 0 .. d /\ y < j
      BY <3>2, <2>1, PairParts
    <3> HIDE DEF y
    <3>4. y < d
      BY <3>3
    <3> QED BY <1>5, <1>8, <2>1, <3>4 DEF Closed, q, y
  <2>2. \A i \in 1 .. Len(q) : q[i][2] < j =>
          \A m \in 1 .. n : <<m, q[i][1]>> \in E => m \in s.seen
    BY <2>1
  <2> DEFINE seen == s.seen
  <2>3. S \subseteq seen /\ InOrder(q, Len(q), seen, n, d, ball)
    BY <1>5, <1>9
  <2>4. \A i \in 1 .. Len(q) : q[i][2] < j =>
          \A m \in 1 .. n : <<m, q[i][1]>> \in E => m \in seen
    BY <2>2
  <2>6. Explored(q, j, seen, n, E)
    BY <2>4 DEF Explored
  <2> HIDE DEF seen
  <2>5. ball[j] \subseteq seen
    BY <1>0, <2>3, <2>6, BallSeen
  <2> QED BY <2>5 DEF seen
<1>11. s.seen = {q[i][1] : i \in 1 .. Len(q)}
  BY <1>9 DEF InOrder
<1>12. ReverseBfs(g, starts, d) = q
  BY <1>1 DEF q, s
<1> QED BY <1>9, <1>10, <1>11, <1>12

WithCallers(B) == B \cup {n \in Ids : \E m \in B : <<n, m>> \in Edge}

BallLoop(f, S, d) == f = [k \in 0 .. d |-> IF k = 0 THEN S ELSE WithCallers(f[k - 1])]

LEMMA WithinIsBall ==
  ASSUME NEW n \in Nat, Ids = 1 .. n, NEW d \in Nat, NEW S \in SUBSET Ids
  PROVE  IsBall(Within(S, d), S, n, d, Edge)
<1> DEFINE P == SUBSET (1 .. n)
           step == [k \in 1 .. d |-> [B \in P |-> WithCallers(B)]]
<1>1. S \in P /\ \A B \in P : WithCallers(B) \in P
  BY DEF WithCallers
<1>2. \E f : BallLoop(f, S, d)
  <2>1. step \in [1 .. d -> [P -> P]]
    <3> HIDE DEF P
    <3> QED BY <1>1
  <2>2. \A k \in 1 .. d, B \in P : step[k][B] = WithCallers(B)
    OBVIOUS
  <2> HIDE DEF step, P
  <2>3. PICK f : IsLoop(f, d, P, S, step)
    BY <1>1, <2>1, LoopDefined
  <2>4. \A k \in 1 .. d : f[k] = WithCallers(f[k - 1])
    <3> TAKE k \in 1 .. d
    <3>1. f[k - 1] \in P /\ f[k] = step[k][f[k - 1]]
      BY <2>3 DEF IsLoop
    <3> QED BY <3>1, <2>2
  <2>5. f = [k \in 0 .. d |-> IF k = 0 THEN S ELSE WithCallers(f[k - 1])]
    BY <2>3, <2>4 DEF IsLoop
  <2> QED BY <2>5 DEF BallLoop
<1> DEFINE f == Within(S, d)
<1>3. BallLoop(f, S, d)
  <2>1. f = CHOOSE h : BallLoop(h, S, d)
    BY DEF Within, BallLoop, WithCallers
  <2> HIDE DEF f
  <2> QED BY <1>2, <2>1
<1> HIDE DEF f
<1>4. \A k \in 0 .. d : f[k] = IF k = 0 THEN S ELSE WithCallers(f[k - 1])
  BY <1>3 DEF BallLoop
<1>5. f[0] = S /\ \A k \in 1 .. d : f[k] = WithCallers(f[k - 1])
  <2>1. 0 \in 0 .. d /\ \A k \in 1 .. d : k \in 0 .. d /\ k # 0
    OBVIOUS
  <2> QED BY <1>4, <2>1
<1> DEFINE T == {k \in 0 .. d : f[k] \in P}
<1>6. 0 .. d \subseteq T
  <2>1. 0 \in T
    <3>1. f[0] = S
      BY <1>5
    <3>2. f[0] \in P
      BY <1>1, <3>1
    <3> HIDE DEF P
    <3> QED BY <3>2
  <2>2. ASSUME NEW k \in 0 .. d - 1, k \in T
        PROVE  k + 1 \in T
    <3> HIDE DEF P
    <3>1. k + 1 \in 1 .. d /\ k + 1 \in 0 .. d /\ (k + 1) - 1 = k
      OBVIOUS
    <3>2. WithCallers(f[k]) \in P
      BY <1>1, <2>2
    <3>3. f[k + 1] = WithCallers(f[(k + 1) - 1])
      BY <1>5, <3>1
    <3>4. f[k + 1] = WithCallers(f[k])
      BY <3>1, <3>3, Zenon
    <3> QED BY <3>1, <3>2, <3>4
  <2> HIDE DEF T
  <2> QED BY <2>1, <2>2, UpTo
<1>7. f = [k \in 0 .. d |-> f[k]]
  BY <1>3 DEF BallLoop
<1>8. f \in [0 .. d -> SUBSET (1 .. n)]
  BY <1>6, <1>7
<1>9. IsBall(f, S, n, d, Edge)
  BY <1>5, <1>8 DEF IsBall, WithCallers
<1> QED BY <1>9 DEF f

AtDistance(m, j, ball) == m \in ball[j] /\ (j > 0 => m \notin ball[j - 1])

\* A node is at one distance only.
LEMMA OneDistance ==
  ASSUME NEW n \in Nat, NEW d \in Nat, NEW S, NEW E, NEW ball, IsBall(ball, S, n, d, E),
         NEW m, NEW j \in 0 .. d, AtDistance(m, j, ball),
         NEW k \in 0 .. d, AtDistance(m, k, ball)
  PROVE  j = k
<1> USE DEF AtDistance
<1>1. ASSUME NEW x \in 0 .. d, NEW y \in 0 .. d, x < y, m \in ball[x], m \notin ball[y - 1]
      PROVE  FALSE
  <2>1. y - 1 \in 0 .. d /\ x <= y - 1
    BY <1>1
  <2>2. ball[x] \subseteq ball[y - 1]
    BY <2>1, BallGrows
  <2> QED BY <1>1, <2>2
<1>2. ~ (j < k)
  <2> SUFFICES ASSUME j < k PROVE FALSE
    OBVIOUS
  <2>1. k > 0
    OBVIOUS
  <2> QED BY <1>1, <2>1
<1>3. ~ (k < j)
  <2> SUFFICES ASSUME k < j PROVE FALSE
    OBVIOUS
  <2>1. j > 0
    OBVIOUS
  <2> QED BY <1>1, <2>1
<1> QED BY <1>2, <1>3

LEMMA NearestFound ==
  ASSUME NEW n \in Nat, Ids = 1 .. n, IsGraph(graph, n, Edge), NEW d \in Nat,
         NEW starts \in Seq(1 .. n)
  PROVE  LET ball == Within(Range(starts), d)
             found == ReverseBfs(graph, starts, d)
         IN  /\ Range(found) = {e \in Ids \X (0 .. d) :
                                  e[1] \in ball[e[2]] /\ (e[2] > 0 => e[1] \notin ball[e[2] - 1])}
             /\ IsInjective(found)
             /\ \A i, j \in DOMAIN found : i < j => found[i][2] <= found[j][2]
<1> DEFINE S == Range(starts)
           ball == Within(S, d)
           found == ReverseBfs(graph, starts, d)
           at == {e \in Ids \X (0 .. d) :
                    e[1] \in ball[e[2]] /\ (e[2] > 0 => e[1] \notin ball[e[2] - 1])}
<1>1. S = {starts[i] : i \in 1 .. Len(starts)} /\ S \in SUBSET (1 .. n)
  <2>1. DOMAIN starts = 1 .. Len(starts) /\ \A i \in 1 .. Len(starts) : starts[i] \in 1 .. n
    BY LenProperties, ElementOfSeq
  <2> QED BY <2>1 DEF Range
<1> HIDE DEF S
<1>2. IsBall(ball, S, n, d, Edge)
  BY <1>1, WithinIsBall
<1> HIDE DEF ball
<1>3. /\ \E seen : InOrder(found, Len(found), seen, n, d, ball)
      /\ \A j \in 0 .. d : ball[j] \subseteq {found[i][1] : i \in 1 .. Len(found)}
  BY <1>1, <1>2, BfsFinds
<1> HIDE DEF found
<1>4. PICK seen : InOrder(found, Len(found), seen, n, d, ball)
  BY <1>3
<1>5. DOMAIN found = 1 .. Len(found) /\ \A i \in 1 .. Len(found) : found[i] \in (1 .. n) \X (0 .. d)
  <2>1. found \in Seq(Entry(n, d))
    BY <1>4 DEF InOrder
  <2> QED BY <2>1, LenProperties, ElementOfSeq DEF Entry
<1>6. \A i \in 1 .. Len(found) : /\ found[i][1] \in ball[found[i][2]]
                                 /\ found[i][2] > 0 => found[i][1] \notin ball[found[i][2] - 1]
  BY <1>4 DEF InOrder
<1>7. Range(found) \subseteq at
  BY <1>5, <1>6 DEF Range
<1>8. ASSUME NEW e \in at PROVE e \in Range(found)
  <2>1. e \in (1 .. n) \X (0 .. d) /\ e[1] \in ball[e[2]] /\ (e[2] > 0 => e[1] \notin ball[e[2] - 1])
    OBVIOUS
  <2> HIDE DEF at
  <2>2. e[1] \in 1 .. n /\ e[2] \in 0 .. d /\ e = <<e[1], e[2]>>
    BY <2>1, PairParts, ZenonT(40)
  <2>3. PICK i \in 1 .. Len(found) : found[i][1] = e[1]
    BY <1>3, <2>1, <2>2
  <2>4. found[i][2] \in 0 .. d /\ found[i] = <<found[i][1], found[i][2]>>
    BY <1>5, PairParts, Zenon
  <2> DEFINE x == found[i][2]
             y == e[2]
             m == e[1]
  <2>5. /\ x \in 0 .. d /\ m \in ball[x] /\ (x > 0 => m \notin ball[x - 1])
        /\ y \in 0 .. d /\ m \in ball[y] /\ (y > 0 => m \notin ball[y - 1])
    BY <1>6, <2>1, <2>2, <2>3, <2>4
  <2> HIDE DEF x, y, m
  <2>8. AtDistance(m, x, ball) /\ AtDistance(m, y, ball)
    BY <2>5 DEF AtDistance
  <2>6. x = y
    BY <1>2, <2>5, <2>8, OneDistance
  <2>7. found[i] = e
    BY <2>2, <2>3, <2>4, <2>6, Zenon DEF x, y
  <2> QED BY <1>5, <2>7 DEF Range
<1>9. IsInjective(found)
  <2>1. \A i, j \in 1 .. Len(found) : found[i][1] = found[j][1] => i = j
    BY <1>4 DEF InOrder
  <2> QED BY <1>5, <2>1 DEF IsInjective
<1>10. \A i, j \in 1 .. Len(found) : i < j => found[i][2] <= found[j][2]
  BY <1>4 DEF InOrder
<1>11. Range(found) = at
  BY <1>7, <1>8
<1> QED BY <1>5, <1>9, <1>10, <1>11 DEF ball, found, S

\* The starts of a query are nodes.
LEMMA StartsAreNodes ==
  ASSUME GraphAssumption, Built, NEW starts \in Starts
  PROVE  graph # None /\ starts \in Seq(Ids)
<1>1. graph # None
  BY DEF Starts
<1>2. PICK name \in Names : starts = Ascending(Candidates(graph, name, Files))
  BY <1>1 DEF Starts
<1>3. Ids = 1 .. Len(graph.nodes) /\ Len(graph.nodes) \in Nat
  BY <1>1, BuiltIsGraph DEF IsGraph
<1> DEFINE c == Candidates(graph, name, Files)
<1>4. c \in SUBSET (1 .. Len(graph.nodes))
  BY <1>3 DEF Candidates, Ids
<1> HIDE DEF c
<1>5. IsFiniteSet(c) /\ c \in SUBSET Nat
  BY <1>3, <1>4, SomeIds
<1>6. Ascending(c) \in Seq(c)
  BY <1>5, AscendingNumbers
<1>7. Ascending(c) \in Seq(Ids)
  BY <1>3, <1>4, <1>6, SeqMonotonic
<1> QED BY <1>1, <1>2, <1>7 DEF c

(* reverse_bfs: what it returns is every function that reaches a start in  *)
(* at most the depth asked for, once, at its least distance, the nearer    *)
(* first.                                                                  *)
THEOREM CallersAreNearest == Spec => []NearestCallers
<1> DEFINE Inv == Built /\ NearestCallers
<1>1. Init => Inv
  <2> SUFFICES ASSUME Init PROVE Inv
    OBVIOUS
  <2>1. Built
    BY DEF Init, Built
  <2>2. answer.query = "none"
    BY DEF Init, None
  <2> QED BY <2>1, <2>2 DEF NearestCallers
<1>2. Inv /\ [Next]_vars => Inv'
  <2> SUFFICES ASSUME Inv, [Next]_vars, Built' PROVE NearestCallers'
    <3>1. Built /\ [Next]_vars => Built'
      BY BuiltStep
    <3> QED BY <3>1
  <2>1. CASE UNCHANGED vars
    BY <2>1, SMTT(30) DEF NearestCallers, Within, Ids, Edge, vars
  <2>2. CASE Build
    <3>1. answer' = None
      BY <2>2 DEF Build, Built, None
    <3>2. answer'.query = "none"
      BY <3>1 DEF None
    <3> QED BY <3>2 DEF NearestCallers
  <2>3. ASSUME NEW starts \in Starts, NEW d \in Depths, AskCallers(starts, d)
        PROVE  NearestCallers'
    <3>1. d \in Nat
      BY GraphAssumption DEF GraphAssumption
    <3>2. graph # None /\ starts \in Seq(Ids)
      BY StartsAreNodes, GraphAssumption
    <3> DEFINE n == Len(graph.nodes)
    <3>3. n \in Nat /\ Ids = 1 .. n /\ IsGraph(graph, n, Edge)
      BY <3>2, BuiltIsGraph, GraphAssumption DEF IsGraph
    <3> HIDE DEF n
    <3>4. /\ UNCHANGED <<edges, graph>>
          /\ answer'.starts = Range(starts) /\ answer'.depth = d
          /\ answer'.found = ReverseBfs(graph, starts, d)
      BY <2>3 DEF AskCallers, Answered
    <3>5. Ids' = Ids /\ Edge' = Edge
      BY <3>4 DEF Ids, Edge
    <3>6. \A S, k : Within(S, k)' = Within(S, k)
      BY <3>5 DEF Within
    <3> QED BY <3>1, <3>2, <3>3, <3>4, <3>5, <3>6, NearestFound DEF NearestCallers
  <2>4. CASE AskComponents
    <3>1. answer'.query = "components"
      BY <2>4 DEF AskComponents, Answered
    <3> QED BY <3>1 DEF NearestCallers
  <2>5. ASSUME NEW name \in Names, NEW d \in Depths, NEW files \in SUBSET Files,
               AskImpact(name, d, files)
        PROVE  NearestCallers'
    <3>1. answer'.query = "impact"
      BY <2>5 DEF AskImpact, Answered
    <3> QED BY <3>1 DEF NearestCallers
  <2> QED BY <2>1, <2>2, <2>3, <2>4, <2>5 DEF Next
<1> QED BY <1>1, <1>2, PTL DEF Spec

-----------------------------------------------------------------------------
(* The caller trees                                                        *)

\* The ways to a node, against the calls and without a cycle, of at most limit nodes.
Ways(limit) == {q \in Seq(Ids) : q # <<>> /\ Len(q) <= limit /\ IsSimple(q) /\ Backwards(q)}

Prolongs(q, p) == Len(p) <= Len(q) /\ \A i \in 1 .. Len(p) : q[i] = p[i]

Extending(p, limit) == {q \in Ways(limit) : Prolongs(q, p)}

NoteOf(q, limit) == IF Len(q) = limit /\ CalledBy(Last(q)) # {} THEN "depth" ELSE "none"

\* The branches at the end of a way: its own, and those of the callers it has already.
EndsAt(q, limit) ==
  {<<q, NoteOf(q, limit)>>} \cup
  {<<Append(q, m), "cycle">> : m \in {c \in CalledBy(Last(q)) \cap Range(q) : Len(q) < limit}}

BranchesFrom(p, limit) == UNION {EndsAt(q, limit) : q \in Extending(p, limit)}

LEMMA WayParts ==
  ASSUME NEW limit, NEW q \in Ways(limit)
  PROVE  /\ q \in Seq(Ids) /\ Len(q) \in Nat /\ Len(q) > 0 /\ Len(q) <= limit
         /\ Len(q) \in 1 .. Len(q) /\ 1 \in 1 .. Len(q)
         /\ DOMAIN q = 1 .. Len(q)
         /\ Last(q) = q[Len(q)] /\ Last(q) \in Ids
         /\ Range(q) = {q[i] : i \in 1 .. Len(q)}
         /\ \A i, j \in 1 .. Len(q) : q[i] = q[j] => i = j
         /\ \A i \in 1 .. Len(q) - 1 : <<q[i + 1], q[i]>> \in Edge
<1>1. q \in Seq(Ids) /\ q # <<>> /\ Len(q) <= limit /\ IsSimple(q) /\ Backwards(q)
  BY DEF Ways
<1>2. Len(q) \in Nat /\ DOMAIN q = 1 .. Len(q)
  BY <1>1, LenProperties
<1>3. Len(q) # 0
  BY <1>1, EmptySeq
<1> DEFINE l == Len(q)
<1>4. l \in 1 .. l /\ 1 \in 1 .. l /\ l > 0
  <2>1. l \in Nat /\ l # 0
    BY <1>2, <1>3
  <2> HIDE DEF l
  <2> QED BY <2>1
<1>5. q[l] \in Ids
  BY <1>1, <1>4, ElementOfSeq
<1>6. Last(q) = q[l]
  BY DEF Last
<1>7. Range(q) = {q[i] : i \in 1 .. Len(q)}
  BY <1>2 DEF Range
<1>8. \A i, j \in 1 .. Len(q) : q[i] = q[j] => i = j
  BY <1>1, <1>2 DEF IsSimple, IsInjective
<1>9. \A i \in 1 .. Len(q) - 1 : <<q[i + 1], q[i]>> \in Edge
  BY <1>1 DEF Backwards
<1> QED BY <1>1, <1>2, <1>4, <1>5, <1>6, <1>7, <1>8, <1>9, Zenon DEF l

\* A caller that is not on the way makes it longer.
LEMMA WayGoesOn ==
  ASSUME NEW limit \in Nat, NEW p \in Ways(limit), Len(p) < limit,
         NEW c \in CalledBy(Last(p)), c \notin Range(p)
  PROVE  Append(p, c) \in Ways(limit) /\ Len(Append(p, c)) = Len(p) + 1
<1> DEFINE q == Append(p, c)
           l == Len(p)
<1>1. /\ p \in Seq(Ids) /\ l \in Nat
      /\ \A i, j \in 1 .. l : p[i] = p[j] => i = j
      /\ \A i \in 1 .. l - 1 : <<p[i + 1], p[i]>> \in Edge
      /\ Last(p) = p[l] /\ Range(p) = {p[i] : i \in 1 .. l}
      /\ l \in 1 .. l
  BY WayParts, Zenon
<1>2. c \in Ids /\ <<c, p[l]>> \in Edge
  BY <1>1 DEF CalledBy
<1>3. /\ q \in Seq(Ids) /\ q # <<>> /\ Len(q) = l + 1
      /\ \A i \in 1 .. l : q[i] = p[i]
      /\ q[l + 1] = c
  BY <1>1, <1>2, AppendProperties
<1>4. DOMAIN q = 1 .. Len(q)
  BY <1>3, LenProperties
<1>5. l < limit
  OBVIOUS
<1>6. \A i \in 1 .. l : p[i] # c
  BY <1>1
<1> HIDE DEF q, l
<1>7. \A i \in 1 .. l + 1 : i \in 1 .. l \/ i = l + 1
  BY <1>1
<1>8. IsSimple(q)
  <2> SUFFICES ASSUME NEW i \in 1 .. l + 1, NEW j \in 1 .. l + 1, q[i] = q[j] PROVE i = j
    BY <1>3, <1>4 DEF IsSimple, IsInjective
  <2> QED BY <1>1, <1>3, <1>6, <1>7
<1>9. Backwards(q)
  <2> SUFFICES ASSUME NEW i \in 1 .. (l + 1) - 1 PROVE <<q[i + 1], q[i]>> \in Edge
    BY <1>3 DEF Backwards
  <2>1. i \in 1 .. l
    BY <1>1
  <2>2. CASE i = l
    BY <2>1, <2>2, <1>2, <1>3
  <2>3. CASE i # l
    <3>1. i \in 1 .. l - 1 /\ i + 1 \in 1 .. l
      BY <2>1, <2>3, <1>1
    <3> QED BY <3>1, <2>1, <1>1, <1>3
  <2> QED BY <2>2, <2>3
<1>10. l + 1 <= limit
  BY <1>1, <1>5
<1>11. q \in Ways(limit)
  BY <1>3, <1>8, <1>9, <1>10 DEF Ways
<1> QED BY <1>3, <1>11 DEF q, l

LEMMA FullWay ==
  ASSUME NEW limit \in Nat, NEW p \in Ways(limit), Len(p) = limit
  PROVE  Extending(p, limit) = {p}
<1>1. p \in Extending(p, limit)
  <2>1. Len(p) <= Len(p)
    OBVIOUS
  <2> QED BY <2>1 DEF Extending, Prolongs
<1>2. ASSUME NEW q \in Extending(p, limit) PROVE q = p
  <2>1. q \in Ways(limit) /\ Len(p) <= Len(q) /\ \A i \in 1 .. Len(p) : q[i] = p[i]
    BY DEF Extending, Prolongs
  <2>2. /\ q \in Seq(Ids) /\ Len(q) \in Nat /\ Len(q) <= limit
        /\ p \in Seq(Ids)
    BY <2>1, WayParts, Zenon
  <2>3. Len(p) = Len(q)
    BY <2>1, <2>2
  <2>4. \A i \in 1 .. Len(p) : p[i] = q[i]
    BY <2>1
  <2> QED BY <2>2, <2>3, <2>4, SeqEqual
<1> QED BY <1>1, <1>2

\* What extends a way is the way itself, or extends it with a further caller.
LEMMA WaysBranch ==
  ASSUME NEW limit \in Nat, NEW p \in Ways(limit), Len(p) < limit
  PROVE  Extending(p, limit) =
           {p} \cup UNION {Extending(Append(p, c), limit) : c \in CalledBy(Last(p)) \ Range(p)}
<1> DEFINE l == Len(p)
           further == CalledBy(Last(p)) \ Range(p)
<1>1. /\ p \in Seq(Ids) /\ l \in Nat
      /\ Last(p) = p[l] /\ Range(p) = {p[i] : i \in 1 .. l}
      /\ l \in 1 .. l
  <2>1. p \in Seq(Ids) /\ l \in Nat /\ Last(p) = p[l]
    BY WayParts, Zenon
  <2>2. Range(p) = {p[i] : i \in 1 .. l}
    <3>1. DOMAIN p = 1 .. l
      BY WayParts, Zenon
    <3> HIDE DEF l
    <3> QED BY <3>1 DEF Range
  <2>3. l \in 1 .. l
    BY WayParts, Zenon
  <2> QED BY <2>1, <2>2, <2>3, Zenon
<1>2. p \in Extending(p, limit)
  BY <1>1 DEF Extending, Prolongs
<1>3. ASSUME NEW c \in further, NEW q \in Extending(Append(p, c), limit)
      PROVE  q \in Extending(p, limit)
  <2>1. c \in Ids
    BY DEF CalledBy
  <2>2. Len(Append(p, c)) = l + 1 /\ \A i \in 1 .. l : Append(p, c)[i] = p[i]
    BY <1>1, <2>1, AppendProperties
  <2>3. q \in Ways(limit) /\ l + 1 <= Len(q) /\ \A i \in 1 .. l + 1 : q[i] = Append(p, c)[i]
    BY <2>2 DEF Extending, Prolongs
  <2>4. Len(q) \in Nat
    BY <2>3, WayParts, Zenon
  <2> HIDE DEF l
  <2>5. l <= Len(q) /\ \A i \in 1 .. l : i \in 1 .. l + 1
    <3> DEFINE m == Len(q)
    <3>1. m \in Nat /\ l + 1 <= m
      BY <2>3, <2>4
    <3> HIDE DEF m
    <3>2. l <= m /\ \A i \in 1 .. l : i \in 1 .. l + 1
      BY <1>1, <3>1
    <3> QED BY <3>2 DEF m
  <2>6. \A i \in 1 .. l : q[i] = p[i]
    BY <2>2, <2>3, <2>5
  <2> QED BY <2>3, <2>5, <2>6 DEF Extending, Prolongs, l
<1>4. ASSUME NEW q \in Extending(p, limit), q # p
      PROVE  \E c \in further : q \in Extending(Append(p, c), limit)
  <2> DEFINE m == Len(q)
             c == q[l + 1]
  <2>1. q \in Ways(limit) /\ l <= m /\ \A i \in 1 .. l : q[i] = p[i]
    BY DEF Extending, Prolongs
  <2>2. /\ q \in Seq(Ids) /\ m \in Nat
        /\ \A i, j \in 1 .. m : q[i] = q[j] => i = j
        /\ \A i \in 1 .. m - 1 : <<q[i + 1], q[i]>> \in Edge
    BY <2>1, WayParts, Zenon
  <2>3. l # m
    <3> SUFFICES ASSUME Len(p) = Len(q) PROVE FALSE
      OBVIOUS
    <3>1. \A i \in 1 .. Len(p) : p[i] = q[i]
      BY <2>1
    <3>2. p = q
      BY <1>1, <2>2, <3>1, SeqEqual
    <3> QED BY <3>2, <1>4
  <2> HIDE DEF l, m
  <2>4. l + 1 \in 1 .. m /\ l \in 1 .. m - 1 /\ l + 1 <= m
    BY <1>1, <2>1, <2>2, <2>3
  <2>5. c \in Ids
    BY <2>2, <2>4, ElementOfSeq DEF m
  <2>6. <<c, p[l]>> \in Edge
    BY <2>1, <2>2, <2>4, <1>1
  <2>7. c \notin Range(p)
    <3> SUFFICES ASSUME NEW i \in 1 .. l, p[i] = c PROVE FALSE
      BY <1>1
    <3>1. i \in 1 .. m /\ i # l + 1
      BY <1>1, <2>4, <2>2
    <3>2. q[i] = q[l + 1]
      BY <2>1
    <3> QED BY <2>2, <2>4, <3>1, <3>2
  <2>8. c \in further
    BY <2>5, <2>6, <2>7, <1>1 DEF CalledBy
  <2>9. /\ Len(Append(p, c)) = l + 1
        /\ \A i \in 1 .. l : Append(p, c)[i] = p[i]
        /\ Append(p, c)[l + 1] = c
    BY <1>1, <2>5, AppendProperties DEF l
  <2>10. ASSUME NEW i \in 1 .. l + 1 PROVE q[i] = Append(p, c)[i]
    <3>1. i \in 1 .. l \/ i = l + 1
      BY <1>1
    <3> QED BY <3>1, <2>1, <2>9
  <2>11. Prolongs(q, Append(p, c))
    BY <2>4, <2>9, <2>10 DEF Prolongs, m
  <2> HIDE DEF c, further
  <2> QED BY <2>1, <2>8, <2>11 DEF Extending
<1> HIDE DEF further
<1>5. Extending(p, limit) = {p} \cup UNION {Extending(Append(p, c), limit) : c \in further}
  BY <1>2, <1>3, <1>4
<1> QED BY <1>5 DEF further

\* What extends a longer way, and what ends on the way.
LEMMA BranchesOfCallers ==
  ASSUME NEW limit \in Nat, NEW p \in Ways(limit), Len(p) < limit
  PROVE  BranchesFrom(p, limit) =
           {<<p, "none">>} \cup
           UNION {IF OnPath(p, c) THEN {<<Append(p, c), "cycle">>}
                  ELSE BranchesFrom(Append(p, c), limit) : c \in CalledBy(Last(p))}
<1> DEFINE called == CalledBy(Last(p))
           further == called \ Range(p)
           from(c) == IF OnPath(p, c) THEN {<<Append(p, c), "cycle">>}
                      ELSE BranchesFrom(Append(p, c), limit)
           ends(q) == EndsAt(q, limit)
           all(q) == Extending(q, limit)
           longer(c) == all(Append(p, c))
<1>1. all(p) = {p} \cup UNION {longer(c) : c \in further}
  BY WaysBranch
<1>2. BranchesFrom(p, limit) = UNION {ends(q) : q \in all(p)}
  BY DEF BranchesFrom
<1>3. \A c : BranchesFrom(Append(p, c), limit) = UNION {ends(q) : q \in longer(c)}
  BY DEF BranchesFrom
<1>4. NoteOf(p, limit) = "none"
  <2>1. Len(p) \in Nat
    BY WayParts, Zenon
  <2>2. Len(p) # limit
    BY <2>1
  <2> QED BY <2>2 DEF NoteOf
<1>5. ends(p) = {<<p, "none">>} \cup {<<Append(p, m), "cycle">> : m \in called \cap Range(p)}
  BY <1>4 DEF EndsAt
<1>6. \A c \in called : from(c) = IF c \in Range(p) THEN {<<Append(p, c), "cycle">>}
                                  ELSE UNION {ends(q) : q \in longer(c)}
  BY <1>3 DEF OnPath
<1> HIDE DEF from, ends, all, longer, called
<1>7. UNION {ends(q) : q \in all(p)} =
        ends(p) \cup UNION {UNION {ends(q) : q \in longer(c)} : c \in further}
  BY <1>1
<1>8. {<<p, "none">>} \cup UNION {from(c) : c \in called} =
        ends(p) \cup UNION {UNION {ends(q) : q \in longer(c)} : c \in further}
  <2> DEFINE cyc(m) == <<Append(p, m), "cycle">>
             one == <<p, "none">>
  <2>1. ends(p) = {one} \cup {cyc(m) : m \in called \cap Range(p)}
    BY <1>5
  <2>2. \A c \in called : from(c) = IF c \in Range(p) THEN {cyc(c)}
                                    ELSE UNION {ends(q) : q \in longer(c)}
    BY <1>6
  <2> HIDE DEF cyc, one
  <2>3. {one} \cup UNION {from(c) : c \in called} =
          ends(p) \cup UNION {UNION {ends(q) : q \in longer(c)} : c \in further}
    <3>1. ASSUME NEW b \in UNION {from(c) : c \in called}
          PROVE  b \in ends(p) \cup UNION {UNION {ends(q) : q \in longer(c)} : c \in further}
      <4>1. PICK c \in called : b \in from(c)
        BY <3>1
      <4>2. CASE c \in Range(p)
        BY <4>1, <4>2, <2>1, <2>2
      <4>3. CASE c \notin Range(p)
        BY <4>1, <4>3, <2>2
      <4> QED BY <4>2, <4>3
    <3>2. ASSUME NEW c \in further
          PROVE  UNION {ends(q) : q \in longer(c)} \subseteq UNION {from(m) : m \in called}
      <4>1. c \in called /\ from(c) = UNION {ends(q) : q \in longer(c)}
        BY <2>2
      <4> QED BY <4>1
    <3>3. ASSUME NEW m \in called \cap Range(p)
          PROVE  cyc(m) \in UNION {from(c) : c \in called}
      <4>1. from(m) = {cyc(m)}
        BY <2>2
      <4> QED BY <4>1
    <3>4. ends(p) \subseteq {one} \cup UNION {from(c) : c \in called}
      BY <2>1, <3>3
    <3>5. one \in ends(p)
      BY <2>1
    <3> HIDE DEF further
    <3> QED BY <3>1, <3>2, <3>4, <3>5
  <2> QED BY <2>3 DEF one
<1> QED BY <1>2, <1>7, <1>8 DEF from, called

LEMMA BranchesOfFull ==
  ASSUME NEW limit \in Nat, NEW p \in Ways(limit), Len(p) = limit
  PROVE  BranchesFrom(p, limit) = {<<p, IF CalledBy(Last(p)) # {} THEN "depth" ELSE "none">>}
<1>1. BranchesFrom(p, limit) = EndsAt(p, limit)
  <2>1. Extending(p, limit) = {p}
    BY FullWay
  <2> QED BY <2>1 DEF BranchesFrom
<1>2. ~ (Len(p) < limit)
  OBVIOUS
<1> QED BY <1>1, <1>2 DEF EndsAt, NoteOf

Paths == Seq(Ids) \ {<<>>}

\* What caller_tree gives for a path when its calls for longer ones are known.
Direct(path) == Range(Callers(graph, Last(path)))

Reported(tree, remaining, path) ==
  IF remaining = 0 /\ Direct(path) # {} THEN {<<path, "depth">>}
  ELSE {<<path, "none">>} \cup
       UNION {IF OnPath(path, caller) THEN {<<Append(path, caller), "cycle">>}
              ELSE tree[remaining - 1][Append(path, caller)] : caller \in Direct(path)}

TreeLoop(tree, depth) ==
  tree = [remaining \in 0 .. depth |-> [path \in Paths |-> Reported(tree, remaining, path)]]

\* The same, at the limit, and above it from what the rest is.
AtLimit(path) == {<<path, IF Direct(path) # {} THEN "depth" ELSE "none">>}

OneMore(rest, path) ==
  {<<path, "none">>} \cup
  UNION {IF OnPath(path, caller) THEN {<<Append(path, caller), "cycle">>}
         ELSE rest[Append(path, caller)] : caller \in Direct(path)}

LEMMA ReportedAtLimit ==
  ASSUME NEW tree, NEW path
  PROVE  Reported(tree, 0, path) = AtLimit(path)
<1>1. CASE Direct(path) # {}
  BY <1>1 DEF Reported, AtLimit
<1>2. CASE Direct(path) = {}
  BY <1>2 DEF Reported, AtLimit
<1> QED BY <1>1, <1>2

LEMMA ReportedAbove ==
  ASSUME NEW tree, NEW path, NEW r \in Nat, r # 0
  PROVE  Reported(tree, r, path) = OneMore(tree[r - 1], path)
BY DEF Reported, OneMore

LEMMA PathParts ==
  ASSUME NEW n \in Nat, Ids = 1 .. n, IsGraph(graph, n, Edge), NEW path \in Paths
  PROVE  /\ Last(path) \in Ids
         /\ Direct(path) = CalledBy(Last(path))
         /\ Direct(path) \subseteq Ids
         /\ \A c \in Direct(path) : Append(path, c) \in Paths
<1>1. path \in Seq(Ids) /\ path # <<>>
  BY DEF Paths
<1>2. Len(path) \in 1 .. Len(path)
  <2> DEFINE l == Len(path)
  <2>1. l \in Nat /\ l # 0
    BY <1>1, LenProperties, EmptySeq
  <2> HIDE DEF l
  <2>2. l \in 1 .. l
    BY <2>1
  <2> QED BY <2>2 DEF l
<1>3. Last(path) \in Ids
  BY <1>1, <1>2, ElementOfSeq DEF Last
<1> DEFINE id == Last(path)
           called == CalledBy(id)
<1>4. Callers(graph, id) = Ascending({m \in 1 .. n : <<m, id>> \in Edge})
  BY <1>3 DEF IsGraph
<1>5. called = {m \in 1 .. n : <<m, id>> \in Edge}
  BY DEF CalledBy
<1>6. Callers(graph, id) = Ascending(called)
  BY <1>4, <1>5
<1>7. called \in SUBSET (1 .. n)
  BY <1>5
<1> HIDE DEF called
<1>8. IsFiniteSet(called) /\ called \in SUBSET Nat
  BY <1>7, SomeIds
<1> DEFINE row == Ascending(called)
<1>9. row \in Seq(called) /\ {row[i] : i \in 1 .. Len(row)} = called
  BY <1>8, AscendingNumbers
<1> HIDE DEF row
<1>10. DOMAIN row = 1 .. Len(row)
  BY <1>9, LenProperties
<1>11. Range(row) = called
  BY <1>9, <1>10 DEF Range
<1>12. Direct(path) = called
  BY <1>6, <1>11 DEF Direct, row
<1>13. \A c \in called : Append(path, c) \in Paths
  <2> TAKE c \in called
  <2>1. c \in Ids
    BY <1>7
  <2> QED BY <1>1, <2>1, AppendProperties DEF Paths
<1> QED BY <1>3, <1>7, <1>12, <1>13 DEF called

\* caller_tree ends: each call of it is for a longer path and a smaller depth.
LEMMA TreeDefined ==
  ASSUME NEW n \in Nat, Ids = 1 .. n, IsGraph(graph, n, Edge), NEW depth \in Nat
  PROVE  \E tree : /\ \A id : CallerTree(graph, id, depth) = tree[depth][<<id>>]
                   /\ \A path \in Paths : tree[0][path] = AtLimit(path)
                   /\ \A r \in 1 .. depth, path \in Paths :
                        tree[r][path] = OneMore(tree[r - 1], path)
<1> DEFINE Branch == Seq(Ids) \X {"depth", "none", "cycle"}
           S == [Paths -> SUBSET Branch]
           base == [path \in Paths |-> AtLimit(path)]
           more(rest) == [path \in Paths |-> OneMore(rest, path)]
           step == [k \in 1 .. depth |-> [rest \in S |-> more(rest)]]
<1>1. ASSUME NEW path \in Paths
      PROVE  path \in Seq(Ids) /\ \A c \in Direct(path) : Append(path, c) \in Seq(Ids)
  <2>1. \A c \in Direct(path) : Append(path, c) \in Paths
    BY PathParts
  <2> QED BY <2>1 DEF Paths
<1>2. base \in S
  <2>1. \A path \in Paths : AtLimit(path) \in SUBSET Branch
    BY <1>1 DEF AtLimit
  <2> HIDE DEF Branch
  <2> QED BY <2>1
<1>3. ASSUME NEW rest \in S PROVE more(rest) \in S
  <2>1. ASSUME NEW path \in Paths PROVE OneMore(rest, path) \in SUBSET Branch
    <3>1. <<path, "none">> \in Branch
      BY <1>1
    <3>2. ASSUME NEW c \in Direct(path)
          PROVE  (IF OnPath(path, c) THEN {<<Append(path, c), "cycle">>}
                  ELSE rest[Append(path, c)]) \in SUBSET Branch
      <4>1. Append(path, c) \in Paths
        BY PathParts
      <4>2. rest[Append(path, c)] \in SUBSET Branch
        <5> HIDE DEF Branch
        <5> QED BY <4>1
      <4>3. <<Append(path, c), "cycle">> \in Branch
        BY <1>1
      <4> HIDE DEF Branch
      <4> QED BY <4>2, <4>3
    <3> HIDE DEF Branch, S
    <3> QED BY <3>1, <3>2 DEF OneMore
  <2> HIDE DEF Branch
  <2> QED BY <2>1
<1> HIDE DEF Branch
<1>4. step \in [1 .. depth -> [S -> S]]
  <2> HIDE DEF S, more
  <2> QED BY <1>3
<1>5. \A k \in 1 .. depth, rest \in S : step[k][rest] = more(rest)
  <2> HIDE DEF S, more
  <2> QED OBVIOUS
<1> HIDE DEF S, base, step
<1>6. PICK f : IsLoop(f, depth, S, base, step)
  BY <1>2, <1>4, LoopDefined
<1>7. /\ f[0] = base
      /\ \A r \in 1 .. depth : f[r] = more(f[r - 1])
      /\ f = [r \in 0 .. depth |-> f[r]]
  <2>1. ASSUME NEW r \in 1 .. depth PROVE f[r] = more(f[r - 1])
    <3>1. f[r - 1] \in S /\ f[r] = step[r][f[r - 1]]
      BY <1>6 DEF IsLoop
    <3> HIDE DEF more
    <3> QED BY <3>1, <1>5
  <2> HIDE DEF more
  <2> QED BY <1>6, <2>1 DEF IsLoop
<1>8. TreeLoop(f, depth)
  <2>1. f[0] = [path \in Paths |-> Reported(f, 0, path)]
    <3>1. \A path : Reported(f, 0, path) = AtLimit(path)
      BY ReportedAtLimit
    <3> QED BY <1>7, <3>1, Zenon DEF base
  <2>2. ASSUME NEW r \in 1 .. depth
        PROVE  f[r] = [path \in Paths |-> Reported(f, r, path)]
    <3>1. \A path : Reported(f, r, path) = OneMore(f[r - 1], path)
      <4>1. r \in Nat /\ r # 0
        OBVIOUS
      <4> QED BY <4>1, ReportedAbove
    <3> QED BY <1>7, <3>1, ZenonT(40)
  <2>3. \A r \in 0 .. depth : r = 0 \/ r \in 1 .. depth
    OBVIOUS
  <2>4. \A r \in 0 .. depth : f[r] = [path \in Paths |-> Reported(f, r, path)]
    BY <2>1, <2>2, <2>3
  <2>5. [r \in 0 .. depth |-> f[r]] =
          [r \in 0 .. depth |-> [path \in Paths |-> Reported(f, r, path)]]
    BY <2>4, Zenon
  <2> QED BY <1>7, <2>5, Zenon DEF TreeLoop
<1>9. PICK tree : TreeLoop(tree, depth) /\ \A id : CallerTree(graph, id, depth) = tree[depth][<<id>>]
  <2> DEFINE tree == CHOOSE t : TreeLoop(t, depth)
  <2>1. \A id : CallerTree(graph, id, depth) = tree[depth][<<id>>]
    BY DEF CallerTree, TreeLoop, Reported, Direct, Paths, Ids
  <2>2. TreeLoop(tree, depth)
    BY <1>8
  <2> QED BY <2>1, <2>2
<1>10. \A r \in 0 .. depth : tree[r] = [path \in Paths |-> Reported(tree, r, path)]
  <2> DEFINE body(r) == [path \in Paths |-> Reported(tree, r, path)]
  <2>1. tree = [r \in 0 .. depth |-> body(r)]
    BY <1>9 DEF TreeLoop
  <2> HIDE DEF body
  <2>2. \A r \in 0 .. depth : tree[r] = body(r)
    BY <2>1
  <2> QED BY <2>2 DEF body
<1>11. \A r \in 0 .. depth, path \in Paths : tree[r][path] = Reported(tree, r, path)
  BY <1>10
<1>12. ASSUME NEW path \in Paths PROVE tree[0][path] = AtLimit(path)
  <2>1. tree[0][path] = Reported(tree, 0, path)
    BY <1>11
  <2> QED BY <2>1, ReportedAtLimit
<1>13. ASSUME NEW r \in 1 .. depth, NEW path \in Paths
       PROVE  tree[r][path] = OneMore(tree[r - 1], path)
  <2>1. tree[r][path] = Reported(tree, r, path)
    BY <1>11
  <2>2. r \in Nat /\ r # 0
    OBVIOUS
  <2>3. Reported(tree, r, path) = OneMore(tree[r - 1], path)
    BY <2>2, ReportedAbove
  <2> QED BY <2>1, <2>3
<1> QED BY <1>9, <1>12, <1>13

\* The tree of a way that leaves r calls to the limit has the branches from it.
LEMMA TreeHasBranches ==
  ASSUME NEW n \in Nat, Ids = 1 .. n, IsGraph(graph, n, Edge), NEW depth \in Nat,
         NEW id \in Ids
  PROVE  CallerTree(graph, id, depth) = BranchesFrom(<<id>>, depth + 1)
<1> DEFINE limit == depth + 1
<1>1. PICK tree : /\ \A i : CallerTree(graph, i, depth) = tree[depth][<<i>>]
                  /\ \A path \in Paths : tree[0][path] = AtLimit(path)
                  /\ \A r \in 1 .. depth, path \in Paths :
                       tree[r][path] = OneMore(tree[r - 1], path)
  BY TreeDefined
<1>2. limit \in Nat
  OBVIOUS
<1>3. \A p \in Ways(limit) : p \in Paths
  BY DEF Ways, Paths
<1> DEFINE T == {r \in 0 .. depth : \A p \in Ways(limit) :
                   Len(p) = limit - r => tree[r][p] = BranchesFrom(p, limit)}
<1>4. 0 \in T
  <2> SUFFICES ASSUME NEW p \in Ways(limit), Len(p) = limit - 0
               PROVE  tree[0][p] = BranchesFrom(p, limit)
    OBVIOUS
  <2>1. Len(p) = limit
    BY <1>2
  <2> HIDE DEF limit
  <2>2. BranchesFrom(p, limit) = {<<p, IF CalledBy(Last(p)) # {} THEN "depth" ELSE "none">>}
    BY <1>2, <2>1, BranchesOfFull
  <2>3. Direct(p) = CalledBy(Last(p))
    BY <1>3, PathParts
  <2>4. tree[0][p] = AtLimit(p)
    BY <1>1, <1>3
  <2> QED BY <2>2, <2>3, <2>4 DEF AtLimit
<1>5. ASSUME NEW r \in 0 .. depth - 1, r \in T
      PROVE  r + 1 \in T
  <2>1. r + 1 \in 1 .. depth /\ r + 1 \in 0 .. depth /\ (r + 1) - 1 = r
    OBVIOUS
  <2>2. ASSUME NEW p \in Ways(limit), Len(p) = limit - (r + 1)
        PROVE  tree[r + 1][p] = BranchesFrom(p, limit)
    <3>1. Len(p) < limit /\ Len(p) + 1 = limit - r
      BY <2>2
    <3>2. Direct(p) = CalledBy(Last(p))
      BY <1>3, PathParts
    <3> DEFINE called == CalledBy(Last(p))
    <3>3. ASSUME NEW c \in called, c \notin Range(p)
          PROVE  tree[r][Append(p, c)] = BranchesFrom(Append(p, c), limit)
      <4> HIDE DEF T, limit
      <4>1. Append(p, c) \in Ways(limit) /\ Len(Append(p, c)) = Len(p) + 1
        BY <1>2, <3>1, <3>3, WayGoesOn
      <4>2. Len(Append(p, c)) = limit - r
        BY <3>1, <4>1
      <4> QED BY <1>5, <4>1, <4>2 DEF T
    <3> DEFINE reported(c) == IF OnPath(p, c) THEN {<<Append(p, c), "cycle">>}
                              ELSE tree[r][Append(p, c)]
               branches(c) == IF OnPath(p, c) THEN {<<Append(p, c), "cycle">>}
                              ELSE BranchesFrom(Append(p, c), limit)
    <3>4. \A c \in called : reported(c) = branches(c)
      BY <3>3 DEF OnPath
    <3>5. tree[r + 1][p] = OneMore(tree[r], p)
      <4>1. tree[r + 1][p] = OneMore(tree[(r + 1) - 1], p)
        BY <1>1, <1>3, <2>1
      <4> QED BY <2>1, <4>1, Zenon
    <3>6. OneMore(tree[r], p) = {<<p, "none">>} \cup UNION {reported(c) : c \in called}
      BY <3>2, Zenon DEF OneMore
    <3>7. BranchesFrom(p, limit) = {<<p, "none">>} \cup UNION {branches(c) : c \in called}
      <4> HIDE DEF limit
      <4> QED BY <1>2, <3>1, BranchesOfCallers, Zenon
    <3> HIDE DEF reported, branches, called, T
    <3>8. {reported(c) : c \in called} = {branches(c) : c \in called}
      BY <3>4
    <3> QED BY <3>5, <3>6, <3>7, <3>8
  <2> HIDE DEF limit
  <2> QED BY <2>1, <2>2
<1> HIDE DEF T
<1>6. depth \in T
  <2>1. 0 .. depth \subseteq T
    BY <1>4, <1>5, UpTo
  <2> QED BY <2>1
<1>7. <<id>> \in Ways(limit) /\ Len(<<id>>) = limit - depth
  <2> DEFINE q == <<id>>
  <2>1. q \in Seq(Ids) /\ q # <<>> /\ Len(q) = 1 /\ DOMAIN q = 1 .. 1
    OBVIOUS
  <2> HIDE DEF q
  <2>2. IsSimple(q)
    BY <2>1 DEF IsSimple, IsInjective
  <2>3. Backwards(q)
    BY <2>1 DEF Backwards
  <2>4. 1 <= limit /\ 1 = limit - depth
    OBVIOUS
  <2>5. q \in Ways(limit) /\ Len(q) = limit - depth
    BY <2>1, <2>2, <2>3, <2>4 DEF Ways
  <2> QED BY <2>5 DEF q
<1>8. tree[depth][<<id>>] = BranchesFrom(<<id>>, limit)
  <2> HIDE DEF limit
  <2> QED BY <1>6, <1>7 DEF T
<1> QED BY <1>1, <1>8

LEMMA ShortSequences ==
  ASSUME NEW S, NEW limit \in Nat, NEW p
  PROVE  p \in SeqOf(S, limit) <=> p \in Seq(S) /\ Len(p) <= limit
<1>1. ASSUME p \in SeqOf(S, limit) PROVE p \in Seq(S) /\ Len(p) <= limit
  <2>1. PICK m \in 0 .. limit : p \in [1 .. m -> S]
    BY <1>1 DEF SeqOf
  <2>2. m \in Nat
    OBVIOUS
  <2>3. p \in Seq(S) /\ Len(p) = m
    BY <2>1, <2>2, FunctionIsSeq
  <2> QED BY <2>3
<1>2. ASSUME p \in Seq(S), Len(p) <= limit PROVE p \in SeqOf(S, limit)
  <2> DEFINE m == Len(p)
  <2>1. m \in Nat /\ m <= limit /\ p \in [1 .. m -> S]
    BY <1>2, LenProperties
  <2> HIDE DEF m
  <2>2. m \in 0 .. limit
    BY <2>1
  <2> QED BY <2>1, <2>2 DEF SeqOf
<1> QED BY <1>1, <1>2

LEMMA BranchesAreEveryPath ==
  ASSUME NEW depth \in Nat, NEW target \in Ids
  PROVE  BranchesFrom(<<target>>, depth + 1) = EveryPath(target, depth)
<1> DEFINE limit == depth + 1
           simple == {p \in SeqOf(Ids, limit) :
                        p # <<>> /\ p[1] = target /\ IsSimple(p) /\ Backwards(p)}
<1>1. limit \in Nat
  OBVIOUS
<1>2. Extending(<<target>>, limit) = simple
  <2>1. Len(<<target>>) = 1 /\ <<target>>[1] = target /\ \A i \in 1 .. 1 : i = 1
    OBVIOUS
  <2>2. ASSUME NEW p PROVE p \in Extending(<<target>>, limit) <=> p \in simple
    <3>1. p \in simple <=> p \in Ways(limit) /\ p[1] = target
      BY <1>1, ShortSequences DEF Ways
    <3>2. p \in Ways(limit) => 1 <= Len(p)
      <4> SUFFICES ASSUME p \in Ways(limit) PROVE 1 <= Len(p)
        OBVIOUS
      <4>1. Len(p) \in Nat /\ Len(p) > 0
        BY WayParts, Zenon
      <4> QED BY <4>1
    <3>3. p \in Extending(<<target>>, limit) <=> p \in Ways(limit) /\ 1 <= Len(p) /\ p[1] = target
      BY <2>1 DEF Extending, Prolongs
    <3> HIDE DEF simple, limit
    <3> QED BY <3>1, <3>2, <3>3
  <2> HIDE DEF simple, limit
  <2> QED BY <2>2
<1>3. \A q \in simple : (Len(q) < limit <=> Len(q) <= depth)
  <2> TAKE q \in simple
  <2>1. q \in Seq(Ids)
    BY <1>1, ShortSequences
  <2>2. Len(q) \in Nat
    BY <2>1, LenProperties
  <2> QED BY <2>2
<1>4. EveryPath(target, depth) =
        {<<p, NoteOf(p, limit)>> : p \in simple} \cup
        UNION {{<<Append(p, m), "cycle">> : m \in CalledBy(Last(p)) \cap Range(p)} :
                 p \in {q \in simple : Len(q) <= depth}}
  BY Zenon DEF EveryPath, NoteOf
<1>5. BranchesFrom(<<target>>, limit) = UNION {EndsAt(q, limit) : q \in simple}
  BY <1>2 DEF BranchesFrom
<1> HIDE DEF simple
<1> DEFINE own(q) == <<q, NoteOf(q, limit)>>
           there(q) == CalledBy(Last(q)) \cap Range(q)
           again(q, m) == <<Append(q, m), "cycle">>
<1>6. \A q : EndsAt(q, limit) = {own(q)} \cup {again(q, m) : m \in {c \in there(q) : Len(q) < limit}}
  BY Zenon DEF EndsAt
<1>7. EveryPath(target, depth) =
        {own(p) : p \in simple} \cup
        UNION {{again(p, m) : m \in there(p)} : p \in {q \in simple : Len(q) <= depth}}
  BY <1>4, Zenon
<1> HIDE DEF own, there, again, limit
<1>8. UNION {EndsAt(q, limit) : q \in simple} =
        {own(p) : p \in simple} \cup
        UNION {{again(p, m) : m \in there(p)} : p \in {q \in simple : Len(q) <= depth}}
  BY <1>3, <1>6
<1> QED BY <1>5, <1>7, <1>8 DEF limit

LEMMA GreatestIn ==
  ASSUME NEW n \in Nat, NEW S \in SUBSET (1 .. n), S # {}
  PROVE  Greatest(S) \in S
<1> DEFINE T == {n - x : x \in S}
<1>0. \A x \in S : x \in Int /\ n - x \in Nat
  <2> SUFFICES ASSUME NEW x \in S PROVE x \in Int /\ n - x \in Nat
    OBVIOUS
  <2>1. x \in 1 .. n
    OBVIOUS
  <2> QED BY <2>1
<1>1. T \subseteq Nat /\ T # {}
  BY <1>0, Zenon
<1>2. PICK m \in T : \A k \in T : m <= k
  <2> HIDE DEF T
  <2> QED BY <1>1, LeastNumber
<1>3. PICK x \in S : m = n - x
  BY <1>2
<1>4. \A y \in S : y <= x
  <2> TAKE y \in S
  <2>1. n - y \in T
    OBVIOUS
  <2>2. n - x <= n - y
    BY <2>1, <1>2, <1>3, Zenon
  <2>3. x \in Int /\ y \in Int
    BY <1>0, Zenon
  <2> HIDE DEF T
  <2> QED BY <2>2, <2>3, SMT
<1> QED BY <1>4 DEF Greatest

\* An end is filed with the tree of the last node that has it.
LEMMA ReportIsEveryPath ==
  ASSUME NEW n \in Nat, Ids = 1 .. n, IsGraph(graph, n, Edge), NEW depth \in Nat,
         NEW name, NEW files, NEW end \in DOMAIN ImpactReport(graph, name, depth, files)
  PROVE  ImpactReport(graph, name, depth, files)[end] =
           EveryPath(Greatest({id \in Ids : End(graph.nodes[id]) = end}), depth)
<1> DEFINE found == Candidates(graph, name, files)
           ends == {End(graph.nodes[id]) : id \in found}
           named == {id \in Ids : End(graph.nodes[id]) = end}
           target == Greatest(named)
<1>1. ImpactReport(graph, name, depth, files) =
        [e \in ends |-> CallerTree(graph, Greatest({id \in found : End(graph.nodes[id]) = e}), depth)]
  BY DEF ImpactReport
<1>2. end \in ends
  BY <1>1
<1>3. PICK first \in found : end = End(graph.nodes[first])
  BY <1>2
<1>4. found = {id \in Ids : graph.nodes[id][2] = name /\ graph.nodes[id][1] \in files}
  BY DEF Candidates, Ids
<1>5. end[1] \in files /\ end[2] = name /\ first \in Ids
  BY <1>3, <1>4 DEF End
<1>6. {id \in found : End(graph.nodes[id]) = end} = named
  <2>1. ASSUME NEW id \in Ids, End(graph.nodes[id]) = end PROVE id \in found
    <3>1. graph.nodes[id][1] = end[1] /\ graph.nodes[id][2] = end[2]
      BY <2>1 DEF End
    <3> QED BY <3>1, <1>4, <1>5
  <2>2. found \subseteq Ids
    BY <1>4
  <2> HIDE DEF found
  <2> QED BY <2>1, <2>2
<1>7. target \in Ids
  <2>1. named \in SUBSET (1 .. n) /\ named # {}
    BY <1>3, <1>5
  <2> HIDE DEF named
  <2>2. Greatest(named) \in named
    BY <2>1, GreatestIn
  <2> QED BY <2>1, <2>2
<1>8. ImpactReport(graph, name, depth, files)[end] = CallerTree(graph, target, depth)
  <2>1. ImpactReport(graph, name, depth, files)[end] =
          CallerTree(graph, Greatest({id \in found : End(graph.nodes[id]) = end}), depth)
    BY <1>1, <1>2
  <2> QED BY <2>1, <1>6, Zenon
<1> HIDE DEF target
<1>9. CallerTree(graph, target, depth) = BranchesFrom(<<target>>, depth + 1)
  BY <1>7, TreeHasBranches
<1>10. BranchesFrom(<<target>>, depth + 1) = EveryPath(target, depth)
  BY <1>7, BranchesAreEveryPath
<1> QED BY <1>8, <1>9, <1>10 DEF target

(* impact_report and caller_tree: the tree of a target has every way that  *)
(* leads to it without a cycle, up to the depth, and its notes say of each *)
(* why it ends there.                                                      *)
THEOREM TreesAreEveryPath == Spec => []ImpactIsEveryPath
<1> DEFINE Inv == Built /\ ImpactIsEveryPath
<1>1. Init => Inv
  <2> SUFFICES ASSUME Init PROVE Inv
    OBVIOUS
  <2>1. Built
    BY DEF Init, Built
  <2>2. answer.query = "none"
    BY DEF Init, None
  <2> QED BY <2>1, <2>2 DEF ImpactIsEveryPath
<1>2. Inv /\ [Next]_vars => Inv'
  <2> SUFFICES ASSUME Inv, [Next]_vars PROVE ImpactIsEveryPath'
    BY BuiltStep
  <2>1. CASE UNCHANGED vars
    <3>1. graph' = graph /\ edges' = edges /\ answer' = answer
      BY <2>1 DEF vars
    <3>2. Ids' = Ids /\ Edge' = Edge
      BY <3>1 DEF Ids, Edge
    <3>3. \A target, k : EveryPath(target, k)' = EveryPath(target, k)
      BY <3>2 DEF EveryPath, Backwards, CalledBy
    <3> QED BY <3>1, <3>2, <3>3 DEF ImpactIsEveryPath
  <2>2. CASE Build
    <3>1. answer' = None
      BY <2>2 DEF Build, Built, None
    <3>2. answer'.query = "none"
      BY <3>1 DEF None
    <3> QED BY <3>2 DEF ImpactIsEveryPath
  <2>3. ASSUME NEW starts \in Starts, NEW d \in Depths, AskCallers(starts, d)
        PROVE  ImpactIsEveryPath'
    <3>1. answer'.query = "callers"
      BY <2>3 DEF AskCallers, Answered
    <3> QED BY <3>1 DEF ImpactIsEveryPath
  <2>4. CASE AskComponents
    <3>1. answer'.query = "components"
      BY <2>4 DEF AskComponents, Answered
    <3> QED BY <3>1 DEF ImpactIsEveryPath
  <2>5. ASSUME NEW name \in Names, NEW d \in Depths, NEW files \in SUBSET Files,
               AskImpact(name, d, files)
        PROVE  ImpactIsEveryPath'
    <3>1. d \in Nat
      BY GraphAssumption DEF GraphAssumption
    <3>2. /\ graph # None /\ UNCHANGED <<edges, graph>>
          /\ answer'.depth = d /\ answer'.found = ImpactReport(graph, name, d, files)
      BY <2>5 DEF AskImpact, Answered
    <3> DEFINE n == Len(graph.nodes)
    <3>3. n \in Nat /\ Ids = 1 .. n /\ IsGraph(graph, n, Edge)
      BY <3>2, BuiltIsGraph, GraphAssumption DEF IsGraph
    <3> HIDE DEF n
    <3>4. Ids' = Ids /\ Edge' = Edge /\ graph' = graph
      BY <3>2 DEF Ids, Edge
    <3>5. \A target, k : EveryPath(target, k)' = EveryPath(target, k)
      BY <3>4 DEF EveryPath, Backwards, CalledBy
    <3>6. \A end \in DOMAIN ImpactReport(graph, name, d, files) :
            ImpactReport(graph, name, d, files)[end] =
              EveryPath(Greatest({id \in Ids : End(graph.nodes[id]) = end}), d)
      BY <3>1, <3>3, ReportIsEveryPath
    <3> QED BY <3>2, <3>4, <3>5, <3>6 DEF ImpactIsEveryPath
  <2> QED BY <2>1, <2>2, <2>3, <2>4, <2>5 DEF Next
<1> QED BY <1>1, <1>2, PTL DEF Spec
=============================================================================
