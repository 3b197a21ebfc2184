----------------------------- MODULE JQueProofs -----------------------------
(***************************************************************************)
(* jque is the deque with permits that its users are modelled over, for    *)
(* any finite set of threads and any memory: its two ends never meet at a  *)
(* node, and no node or item is lost or in two places.                     *)
(***************************************************************************)
EXTENDS JQue, FiniteSetTheorems, SequenceTheorems, WellFoundedInduction, TLAPS

(* The list as a sequence *)

\* s holds the nodes that the links in nx lead through from node h up to the
\* end e, which is not one of them, and no node twice.
IsList(h, e, nx, s) ==
    /\ s \in Seq(Nodes) /\ e \in Nodes
    /\ h = IF s = <<>> THEN e ELSE s[1]
    /\ \A i \in DOMAIN s : s[i] # e /\ nx[s[i]] = IF i = Len(s) THEN e ELSE s[i + 1]
    /\ \A i, j \in DOMAIN s : s[i] = s[j] => i = j

\* Every non-empty set of natural numbers has a least element.
LEMMA Least ==
    ASSUME NEW T \in SUBSET Nat, T # {}
    PROVE  \E x \in T : \A y \in T : x <= y
<1> DEFINE R == OpToRel(<, Nat)
<1>1. IsWellFoundedOn(R, Nat)
  BY NatLessThanWellFounded
<1>2. \A x, y \in Nat : <<x, y>> \in R <=> x < y
  BY DEF OpToRel
<1> HIDE DEF R
<1>3. PICK x \in T : \A y \in T : <<y, x>> \notin R
  BY <1>1, WFMin
<1>4. \A y \in T : x \in Nat /\ y \in Nat /\ ~(y < x)
  BY <1>2, <1>3
<1>. QED
  BY <1>3, <1>4

\* The set of numbers that a property holds for is all of them, if it holds for
\* 0 and for every number after one that it holds for.
LEMMA Induction ==
    ASSUME NEW N \in Nat, NEW P \in SUBSET (0 .. N), 0 \in P,
           \A k \in P : k < N => k + 1 \in P
    PROVE  P = 0 .. N
<1> SUFFICES ASSUME (0 .. N) \ P # {} PROVE FALSE
  OBVIOUS
<1>1. (0 .. N) \ P \in SUBSET Nat
  OBVIOUS
<1>2. PICK k \in (0 .. N) \ P : \A j \in (0 .. N) \ P : k <= j
  BY <1>1, Least
<1>3. k # 0 /\ k - 1 \in 0 .. N /\ k - 1 < N
  OBVIOUS
<1>4. k - 1 \in P
  BY <1>2, <1>3
<1>5. (k - 1) + 1 \in P
  BY <1>3, <1>4
<1>. QED
  BY <1>2, <1>5

\* From is the function that its recursive definition says it is.
Links == Nodes \cup {Null, Junk}
Longer(f, k) ==
    [n \in Links |-> IF k = 0 \/ n \notin Nodes \ {tail} THEN <<>> ELSE <<n>> \o f[k - 1][next[n]]]
FromEquation(N, f) == f = [k \in 0 .. N |-> Longer(f, k)]

LEMMA FromExists ==
    ASSUME NEW N \in Nat
    PROVE  \E f : FromEquation(N, f)
<1> DEFINE P == {k \in 0 .. N : \E f : FromEquation(k, f)}
<1>1. 0 \in P
  <2> DEFINE f == [k \in 0 .. 0 |-> [n \in Links |-> <<>>]]
  <2>1. \A k \in 0 .. 0 : Longer(f, k) = [n \in Links |-> <<>>]
    BY DEF Longer
  <2>2. FromEquation(0, f)
    BY <2>1 DEF FromEquation
  <2>. QED
    BY <2>2
<1>2. ASSUME NEW k \in P, k < N PROVE k + 1 \in P
  <2>1. PICK f : FromEquation(k, f)
    OBVIOUS
  <2> DEFINE g == [i \in 0 .. k + 1 |-> Longer(f, i)]
  <2>2. \A i \in 0 .. k : g[i] = f[i]
    BY <2>1 DEF FromEquation
  <2>3. ASSUME NEW i \in 0 .. k + 1 PROVE Longer(g, i) = Longer(f, i)
    <3>1. CASE i = 0
      BY <3>1 DEF Longer
    <3>2. CASE i # 0
      <4>1. g[i - 1] = f[i - 1]
        BY <2>2, <3>2
      <4>. HIDE DEF g
      <4>. QED
        BY <4>1 DEF Longer
    <3>. QED
      BY <3>1, <3>2
  <2>4. [i \in 0 .. k + 1 |-> Longer(g, i)] = [i \in 0 .. k + 1 |-> Longer(f, i)]
    BY <2>3
  <2>5. FromEquation(k + 1, g)
    BY <2>4 DEF FromEquation
  <2>6. k + 1 \in 0 .. N
    BY <1>2
  <2>. HIDE DEF g
  <2>. QED
    BY <2>5, <2>6
<1>. HIDE DEF P
<1>3. P \in SUBSET (0 .. N)
  BY DEF P
<1>4. P = 0 .. N
  BY <1>1, <1>2, <1>3, Induction
<1>. QED
  BY <1>4 DEF P

LEMMA FromUnfolds ==
    \A k \in 0 .. Cardinality(Nodes), n \in Links :
        From[k][n] = IF k = 0 \/ n \notin Nodes \ {tail} THEN <<>> ELSE <<n>> \o From[k - 1][next[n]]
<1>1. Cardinality(Nodes) \in Nat
  BY NamesAssumption, FS_CardinalityType
<1>2. From = CHOOSE f : FromEquation(Cardinality(Nodes), f)
  BY DEF From, FromEquation, Longer, Links
<1>3. FromEquation(Cardinality(Nodes), From)
  BY <1>1, <1>2, FromExists
<1>4. \A k \in 0 .. Cardinality(Nodes) : From[k] = Longer(From, k)
  BY <1>3 DEF FromEquation
<1>. QED
  BY <1>4 DEF Longer

\* No sequence without repetition is longer than there are nodes.
LEMMA ListFits ==
    ASSUME NEW h, NEW e, NEW nx, NEW s, IsList(h, e, nx, s)
    PROVE  Len(s) <= Cardinality(Nodes)
<1>1. s \in [1 .. Len(s) -> Nodes] /\ Len(s) \in Nat
  BY DEF IsList
<1>2. s \in Injection(1 .. Len(s), Nodes)
  BY <1>1 DEF IsList, Injection, IsInjective
<1>3. Cardinality(1 .. Len(s)) = Len(s) /\ IsFiniteSet(Nodes)
  <2>1. \A n \in Nat : Cardinality(1 .. n) = n
    BY FS_Interval
  <2>. QED
    BY <1>1, <2>1, NamesAssumption
<1>. QED
  BY <1>2, <1>3, NamesAssumption, FS_Injection

\* The list that the model computes by following the links is the one that the
\* links describe.
LEMMA ListIs == \A s : IsList(head, tail, next, s) => List = s
<1> SUFFICES ASSUME NEW s, IsList(head, tail, next, s) PROVE List = s
  OBVIOUS
<1> DEFINE N == Cardinality(Nodes)
           L == Len(s)
           Rest(i) == SubSeq(s, i, L)
           P == {k \in 0 .. N : \A i \in 1 .. L + 1 :
                     L + 1 - i <= k => /\ i <= L => From[k][s[i]] = Rest(i)
                                       /\ From[k][tail] = <<>>}
<1>0. /\ N \in Nat /\ L \in Nat /\ L <= N /\ s \in Seq(Nodes)
      /\ tail \in Nodes /\ tail \in Links /\ tail \notin Nodes \ {tail}
  <2>1. L <= N
    BY ListFits
  <2>2. N \in Nat
    BY NamesAssumption, FS_CardinalityType
  <2>3. s \in Seq(Nodes) /\ tail \in Nodes
    BY DEF IsList
  <2>. QED
    BY <2>1, <2>2, <2>3 DEF Links
<1>1. \A k \in 0 .. N : From[k][tail] = <<>>
  BY <1>0, FromUnfolds
<1>2. \A i \in 1 .. L : s[i] \in Nodes \ {tail} /\ s[i] \in Links
  BY <1>0 DEF Links, IsList
<1>3. \A i \in 1 .. L : next[s[i]] = IF i = L THEN tail ELSE s[i + 1]
  BY <1>0 DEF IsList
<1>4. 0 \in P
  BY <1>0, <1>1
<1>5. ASSUME NEW k \in P, k < N PROVE k + 1 \in P
  <2>1. k + 1 \in 0 .. N /\ k \in 0 .. N /\ (k + 1) - 1 = k /\ k + 1 # 0
    BY <1>0, <1>5
  <2>2. ASSUME NEW i \in 1 .. L, L + 1 - i <= k + 1
        PROVE  From[k + 1][s[i]] = Rest(i)
    <3>1. From[k + 1][s[i]] = <<s[i]>> \o From[k][next[s[i]]]
      <4>1. s[i] \in Links /\ ~ (k + 1 = 0 \/ s[i] \notin Nodes \ {tail})
        BY <1>2, <2>1
      <4>2. From[k + 1][s[i]] = <<s[i]>> \o From[(k + 1) - 1][next[s[i]]]
        BY <2>1, <4>1, FromUnfolds
      <4>. QED
        BY <2>1, <4>2
    <3>2. From[k][next[s[i]]] = Rest(i + 1)
      <4>1. CASE i = L
        <5>1. From[k][next[s[i]]] = <<>>
          BY <1>1, <1>3, <2>1, <4>1
        <5>2. Rest(i + 1) = <<>>
          BY <1>0, <4>1, SubSeqEmpty
        <5>. QED
          BY <5>1, <5>2
      <4>2. CASE i # L
        <5>1. i + 1 \in 1 .. L /\ L + 1 - (i + 1) <= k
          BY <1>0, <2>2, <4>2
        <5>2. From[k][s[i + 1]] = Rest(i + 1)
          BY <5>1, <1>0
        <5>. QED
          BY <1>3, <4>2, <5>2
      <4>. QED
        BY <4>1, <4>2
    <3>3. Rest(i) = <<s[i]>> \o Rest(i + 1)
      BY <1>0, SubSeqRecursiveFirst
    <3>. QED
      BY <3>1, <3>2, <3>3
  <2>. QED
    BY <1>1, <2>1, <2>2
<1>. HIDE DEF P
<1>6. P \in SUBSET (0 .. N)
  BY DEF P
<1>7. N \in P
  BY <1>0, <1>4, <1>5, <1>6, Induction
<1>8. CASE s = <<>>
  BY <1>0, <1>1, <1>8 DEF List, IsList
<1>9. CASE s # <<>>
  <2>1. 1 \in 1 .. L /\ L + 1 - 1 <= N /\ head = s[1]
    BY <1>0, <1>9 DEF IsList
  <2>2. From[N][s[1]] = Rest(1)
    BY <1>7, <1>0, <2>1 DEF P
  <2>3. Rest(1) = s
    BY <1>0, SubSeqFull
  <2>. QED
    BY <2>1, <2>2, <2>3 DEF List
<1>. QED
  BY <1>8, <1>9

Members(s) == {s[i] : i \in DOMAIN s}

\* A list stays one as long as the links of its nodes stay.
LEMMA ListFrame ==
    ASSUME NEW h, NEW e, NEW nx, NEW ny, NEW s, IsList(h, e, nx, s), \A n \in Members(s) : ny[n] = nx[n]
    PROVE  IsList(h, e, ny, s)
BY DEF IsList, Members

\* A node linked to the head makes a list with the list it is put before.
LEMMA ListPush ==
    ASSUME NEW h, NEW e, NEW nx, NEW s, IsList(h, e, nx, s),
           NEW n \in Nodes, n \notin Members(s), n # e, nx[n] = h
    PROVE  /\ IsList(n, e, nx, <<n>> \o s)
           /\ Len(<<n>> \o s) = Len(s) + 1
           /\ Members(<<n>> \o s) = Members(s) \cup {n}
<1> DEFINE q == <<n>> \o s
<1>0. s \in Seq(Nodes) /\ <<n>> \in Seq(Nodes) /\ Len(<<n>>) = 1 /\ <<n>>[1] = n
      /\ Len(s) \in Nat /\ DOMAIN s = 1 .. Len(s)
  BY DEF IsList
<1>1. /\ q \in Seq(Nodes) /\ Len(q) = Len(s) + 1 /\ DOMAIN q = 1 .. Len(s) + 1
      /\ \A i \in 1 .. Len(s) + 1 : q[i] = IF i <= 1 THEN <<n>>[i] ELSE s[i - 1]
  <2>1. /\ q \in Seq(Nodes) /\ Len(q) = 1 + Len(s)
        /\ \A i \in 1 .. 1 + Len(s) : q[i] = IF i <= 1 THEN <<n>>[i] ELSE s[i - 1]
    BY <1>0, ConcatProperties
  <2>2. 1 + Len(s) = Len(s) + 1
    BY <1>0
  <2>. QED
    BY <2>1, <2>2
<1>. HIDE DEF q
<1>2. q[1] = n /\ \A i \in 1 .. Len(s) : q[i + 1] = s[i]
  BY <1>0, <1>1
<1>3. \A i \in DOMAIN q : i = 1 \/ (i # 1 /\ i - 1 \in DOMAIN s /\ q[i] = s[i - 1])
  BY <1>0, <1>1
<1>4. ASSUME NEW i \in DOMAIN q
      PROVE  q[i] # e /\ nx[q[i]] = IF i = Len(q) THEN e ELSE q[i + 1]
  <2>1. CASE i = 1
    <3>1. CASE s = <<>>
      <4>1. h = e /\ Len(s) = 0
        BY <3>1 DEF IsList
      <4>. QED
        BY <1>1, <1>2, <2>1, <4>1
    <3>2. CASE s # <<>>
      <4>1. h = s[1] /\ Len(s) > 0
        BY <1>0, <3>2 DEF IsList
      <4>. QED
        BY <1>0, <1>1, <1>2, <2>1, <4>1
    <3>. QED
      BY <3>1, <3>2
  <2>2. CASE i # 1
    <3>1. i - 1 \in DOMAIN s /\ q[i] = s[i - 1]
      BY <1>3, <2>2
    <3>2. s[i - 1] # e /\ nx[s[i - 1]] = IF i - 1 = Len(s) THEN e ELSE s[(i - 1) + 1]
      BY <3>1 DEF IsList
    <3>3. i - 1 # Len(s) => q[i + 1] = s[(i - 1) + 1]
      BY <1>0, <1>1, <1>2, <3>1
    <3>. QED
      BY <1>0, <1>1, <3>1, <3>2, <3>3
  <2>. QED
    BY <2>1, <2>2
<1>5. ASSUME NEW i \in DOMAIN q, NEW j \in DOMAIN q, q[i] = q[j]
      PROVE  i = j
  <2>1. \A k \in DOMAIN s : s[k] # n
    BY DEF Members
  <2>2. \A k, l \in DOMAIN s : s[k] = s[l] => k = l
    BY DEF IsList
  <2>. QED
    BY <1>1, <1>2, <1>3, <1>5, <2>1, <2>2
<1>6. Members(q) = Members(s) \cup {n}
  <2>1. \A i \in DOMAIN s : i + 1 \in DOMAIN q /\ q[i + 1] = s[i]
    BY <1>0, <1>1, <1>2
  <2>2. 1 \in DOMAIN q
    BY <1>0, <1>1
  <2>. QED
    BY <1>2, <1>3, <2>1, <2>2 DEF Members
<1>7. n = IF q = <<>> THEN e ELSE q[1]
  BY <1>0, <1>1, <1>2
<1>8. IsList(n, e, nx, q)
  <2>1. e \in Nodes
    BY DEF IsList
  <2>. QED
    BY <2>1, <1>1, <1>4, <1>5, <1>7 DEF IsList
<1>. QED
  BY <1>1, <1>6, <1>8 DEF q

\* Without its head a list is the list from the second node on.
LEMMA ListPop ==
    ASSUME NEW h, NEW e, NEW nx, NEW s, IsList(h, e, nx, s), h # e
    PROVE  /\ s # <<>> /\ Head(s) = h /\ Len(s) > 0
           /\ IsList(nx[h], e, nx, Tail(s))
           /\ Len(Tail(s)) = Len(s) - 1
           /\ Members(s) = Members(Tail(s)) \cup {h} /\ h \notin Members(Tail(s))
<1> DEFINE q == Tail(s)
<1>0. /\ s \in Seq(Nodes) /\ s # <<>> /\ h = s[1] /\ Head(s) = h
      /\ Len(s) \in Nat /\ Len(s) > 0 /\ DOMAIN s = 1 .. Len(s)
  BY DEF IsList
<1>1. /\ q \in Seq(Nodes) /\ Len(q) = Len(s) - 1 /\ DOMAIN q = 1 .. Len(s) - 1
      /\ \A i \in 1 .. Len(s) - 1 : q[i] = s[i + 1]
  <2>1. /\ q \in Seq(Nodes) /\ Len(q) = Len(s) - 1
        /\ \A i \in 1 .. Len(q) : q[i] = s[i + 1]
    BY <1>0, HeadTailProperties
  <2>. QED
    BY <2>1
<1>. HIDE DEF q
<1>2. \A i \in DOMAIN q : i + 1 \in DOMAIN s /\ i + 1 # 1 /\ q[i] = s[i + 1]
  BY <1>0, <1>1
<1>3. \A i \in DOMAIN s : i # 1 => i - 1 \in DOMAIN q /\ q[i - 1] = s[i]
  BY <1>0, <1>1
<1>4. 1 \in DOMAIN s
  BY <1>0
<1>5. \A i \in DOMAIN s : s[i] # e /\ nx[s[i]] = IF i = Len(s) THEN e ELSE s[i + 1]
  BY DEF IsList
<1>6. \A k, l \in DOMAIN s : s[k] = s[l] => k = l
  BY DEF IsList
<1>7. nx[h] = IF q = <<>> THEN e ELSE q[1]
  <2>1. CASE Len(s) = 1
    <3>1. q = <<>>
      BY <1>1, <2>1
    <3>. QED
      BY <1>0, <1>4, <1>5, <2>1, <3>1
  <2>2. CASE Len(s) # 1
    <3>1. q # <<>> /\ 1 \in DOMAIN q
      BY <1>0, <1>1, <2>2
    <3>. QED
      BY <1>0, <1>2, <1>4, <1>5, <2>2, <3>1
  <2>. QED
    BY <2>1, <2>2
<1>8. ASSUME NEW i \in DOMAIN q PROVE q[i] # e /\ nx[q[i]] = IF i = Len(q) THEN e ELSE q[i + 1]
  <2>1. s[i + 1] # e /\ nx[s[i + 1]] = IF i + 1 = Len(s) THEN e ELSE s[(i + 1) + 1]
    BY <1>2, <1>5
  <2>2. i # Len(q) => i + 1 \in DOMAIN q
    BY <1>1
  <2>. QED
    BY <1>0, <1>1, <1>2, <2>1, <2>2
<1>9. \A i, j \in DOMAIN q : q[i] = q[j] => i = j
  <2> TAKE i, j \in DOMAIN q
  <2>1. q[i] = q[j] => i + 1 = j + 1
    BY <1>2, <1>6
  <2>. QED
    BY <1>1, <2>1
<1>10. Members(s) = Members(q) \cup {h}
  BY <1>0, <1>2, <1>3, <1>4 DEF Members
<1>11. h \notin Members(q)
  BY <1>0, <1>2, <1>4, <1>6 DEF Members
<1>12. IsList(nx[h], e, nx, q)
  <2>1. e \in Nodes
    BY DEF IsList
  <2>. QED
    BY <2>1, <1>1, <1>7, <1>8, <1>9 DEF IsList
<1>. QED
  BY <1>0, <1>1, <1>10, <1>11, <1>12 DEF q

\* An end linked to a new one becomes the last node of the list.
LEMMA ListAppend ==
    ASSUME NEW h, NEW e, NEW nx, NEW s, IsList(h, e, nx, s),
           NEW n \in Nodes, n \notin Members(s), n # e, nx[e] = n
    PROVE  /\ IsList(h, n, nx, Append(s, e))
           /\ Members(Append(s, e)) = Members(s) \cup {e} /\ e \notin Members(s)
<1> DEFINE q == Append(s, e)
<1>0. s \in Seq(Nodes) /\ e \in Nodes /\ Len(s) \in Nat /\ DOMAIN s = 1 .. Len(s)
  BY DEF IsList
<1>1. /\ q \in Seq(Nodes) /\ Len(q) = Len(s) + 1 /\ DOMAIN q = 1 .. Len(s) + 1
      /\ \A i \in 1 .. Len(s) : q[i] = s[i]
      /\ q[Len(s) + 1] = e
  BY <1>0
<1>. HIDE DEF q
<1>2. \A i \in DOMAIN q : (i \in DOMAIN s /\ q[i] = s[i]) \/ (i = Len(s) + 1 /\ q[i] = e)
  BY <1>0, <1>1
<1>3. /\ \A i \in DOMAIN s : s[i] # e /\ nx[s[i]] = IF i = Len(s) THEN e ELSE s[i + 1]
      /\ \A i, j \in DOMAIN s : s[i] = s[j] => i = j
  BY DEF IsList
<1>4. ASSUME NEW i \in DOMAIN q
      PROVE  q[i] # n /\ nx[q[i]] = IF i = Len(q) THEN n ELSE q[i + 1]
  <2>1. CASE i \in DOMAIN s
    <3>1. q[i] = s[i] /\ q[i] # n /\ i # Len(q)
      BY <1>0, <1>1, <2>1 DEF Members
    <3>2. nx[s[i]] = q[i + 1]
      BY <1>0, <1>1, <1>3, <2>1
    <3>. QED
      BY <3>1, <3>2
  <2>2. CASE i = Len(s) + 1
    BY <1>1, <2>2
  <2>. QED
    BY <1>2, <2>1, <2>2
<1>5. \A i, j \in DOMAIN q : q[i] = q[j] => i = j
  BY <1>2, <1>3
<1>6. h = IF q = <<>> THEN n ELSE q[1]
  <2>1. q # <<>>
    BY <1>0, <1>1
  <2>2. CASE s = <<>>
    <3>1. h = e /\ Len(s) = 0
      BY <2>2 DEF IsList
    <3>. QED
      BY <1>1, <2>1, <3>1
  <2>3. CASE s # <<>>
    <3>1. h = s[1] /\ 1 \in 1 .. Len(s)
      BY <1>0, <2>3 DEF IsList
    <3>. QED
      BY <1>1, <2>1, <3>1
  <2>. QED
    BY <2>2, <2>3
<1>7. IsList(h, n, nx, q)
  BY <1>1, <1>4, <1>5, <1>6 DEF IsList
<1>8. Members(q) = Members(s) \cup {e}
  <2>1. \A i \in DOMAIN s : i \in DOMAIN q /\ q[i] = s[i]
    BY <1>0, <1>1
  <2>2. Len(s) + 1 \in DOMAIN q /\ q[Len(s) + 1] = e
    BY <1>0, <1>1
  <2>. QED
    BY <1>2, <2>1, <2>2 DEF Members
<1>9. e \notin Members(s)
  BY <1>3 DEF Members
<1>. QED
  BY <1>7, <1>8, <1>9 DEF q

\* The links of a list's nodes lead to nodes of the list or to its end.
LEMMA ListLinks ==
    ASSUME NEW h, NEW e, NEW nx, NEW s, IsList(h, e, nx, s)
    PROVE  /\ Members(s) \subseteq Nodes /\ e \in Nodes \ Members(s) /\ h \in Members(s) \cup {e}
           /\ \A n \in Members(s) : nx[n] \in Members(s) \cup {e}
           /\ h = e <=> s = <<>>
           /\ Len(s) \in Nat /\ DOMAIN s = 1 .. Len(s) /\ s \in Seq(Nodes)
<1>1. s \in Seq(Nodes) /\ Len(s) \in Nat /\ DOMAIN s = 1 .. Len(s) /\ e \in Nodes
  BY DEF IsList
<1>2. \A i \in DOMAIN s : s[i] \in Nodes \ {e} /\ (i # Len(s) => i + 1 \in DOMAIN s)
  BY <1>1 DEF IsList
<1>3. s # <<>> => 1 \in DOMAIN s
  BY <1>1
<1>4. \A i \in DOMAIN s : nx[s[i]] = e \/ \E j \in DOMAIN s : nx[s[i]] = s[j]
  BY <1>2 DEF IsList
<1>5. h = IF s = <<>> THEN e ELSE s[1]
  BY DEF IsList
<1>. QED
  BY <1>1, <1>2, <1>3, <1>4, <1>5 DEF Members

-----------------------------------------------------------------------------
(* The inductive invariant *)

P == INSTANCE PermitDequeProofs WITH content <- Content, call <- CallsOf

\* Where a thread holds mut, and where it holds muh.
Backs == {"b_val", "b_next", "b_tail", "b_unlock"}
Fronts == {"f_next", "f_head", "f_unlock", "o_read", "o_head", "o_unlock"}

Chained == IsList(head, tail, next, List)

\* A node in use is the tail, on the list or with one thread, and only one of these.
Owned == UNION {Private(t) : t \in Threads}

Places ==
    /\ nodes = {tail} \cup Listed \cup Owned
    /\ \A t \in Threads : Private(t) \cap ({tail} \cup Listed) = {}
    /\ \A t, u \in Threads : t # u => Private(t) \cap Private(u) = {}

Locked ==
    \A t \in Threads : (pc[t] \in Backs <=> mut = t) /\ (pc[t] \in Fronts <=> muh = t)

\* What a call has written and read is still so when it goes on.
CallFits(t) ==
    /\ pc[t] \in {"b_lock", "b_val", "b_next", "b_tail", "f_lock", "f_next", "f_head"}
           => item[t] \in Items
    /\ pc[t] \in {"b_next", "b_tail"} => val[tail] = item[t]
    /\ pc[t] = "b_tail" => next[tail] = ptr[t]
    /\ pc[t] \in {"f_lock", "f_next", "f_head"} => val[ptr[t]] = item[t]
    /\ pc[t] = "f_head" => next[ptr[t]] = head
    /\ pc[t] = "o_head" => ptr[t] = head
    /\ pc[t] = "o_free" => item[t] = val[ptr[t]]

CallsFit == \A t \in Threads : CallFits(t)

\* Each node on the list has an item of its own, and so has each running call that
\* has one; callers hold none of these.
ListedItems == {val[n] : n \in Listed}

ItemsKept ==
    /\ \A n \in Listed : val[n] \in Items \ held
    /\ \A m, n \in Listed : val[m] = val[n] => m = n
    /\ \A t \in Threads : PrivateItem(t) \subseteq Items \ (held \cup ListedItems)
    /\ \A t, u \in Threads : t # u => PrivateItem(t) \cap PrivateItem(u) = {}
    /\ blocks = held \cup ListedItems \cup UNION {PrivateItem(t) : t \in Threads}

\* P!IInv is what keeps pops off the tail: a pop that has its permit finds an item.
IInv == TypeOK /\ Chained /\ Places /\ Locked /\ CallsFit /\ ItemsKept /\ P!IInv

-----------------------------------------------------------------------------
(* What a step of one thread leaves alone *)

Acts(t) == Call(t) \/ Step(t)

\* Where a step goes from and to.
LEMMA Goes ==
    ASSUME TypeOK, NEW t \in Threads
    PROVE  \A x, y : Goto(t, x, y) => pc[t] = x /\ pc'[t] = y /\ pc' = [pc EXCEPT ![t] = y]
BY DEF Goto, TypeOK

\* A step is one thread's: it changes that thread's part of the call only.
LEMMA OthersStay ==
    ASSUME TypeOK, NEW t \in Threads, Acts(t)
    PROVE  /\ pc' \in [Threads -> Labels] /\ ptr' \in [Threads -> Nodes \cup {Null}]
           /\ \A u \in Threads \ {t} :
                  /\ pc'[u] = pc[u] /\ ptr'[u] = ptr[u] /\ item'[u] = item[u]
                  /\ Private(u)' = Private(u)
<1>1. \E y \in Labels : pc' = [pc EXCEPT ![t] = y]
  <2>1. \A x, y : Goto(t, x, y) => pc' = [pc EXCEPT ![t] = y]
    BY DEF Goto
  <2>2. CASE Call(t)
    BY <2>1, <2>2 DEF Call, PopCall, PushBackCall, PushFrontCall, Labels
  <2>3. CASE BackLock(t) \/ BackVal(t) \/ BackNext(t) \/ BackTail(t) \/ BackUnlock(t)
    BY <2>1, <2>3 DEF BackLock, BackVal, BackNext, BackTail, BackUnlock, Labels
  <2>4. CASE FrontLock(t) \/ FrontNext(t) \/ FrontHead(t) \/ FrontUnlock(t) \/ PushCount(t)
    BY <2>1, <2>4 DEF FrontLock, FrontNext, FrontHead, FrontUnlock, PushCount, Labels
  <2>5. CASE PopTake(t)
    BY <2>1, <2>5 DEF PopTake, Labels
  <2>6. CASE \/ PopUndo(t) \/ PopLock(t) \/ PopRead(t) \/ PopHead(t) \/ PopUnlock(t)
             \/ PopVal(t) \/ PopFree(t)
    BY <2>1, <2>6 DEF PopUndo, PopLock, PopRead, PopHead, PopUnlock, PopVal, PopFree, Labels
  <2>. QED
    BY <2>2, <2>3, <2>4, <2>5, <2>6 DEF Acts, Step
<1>2. ptr' = ptr \/ \E n \in Nodes \cup {Null} : ptr' = [ptr EXCEPT ![t] = n]
  BY DEF Acts, Call, Step, PopCall, PushBackCall, PushFrontCall, BackLock, BackVal, BackNext,
     BackTail, BackUnlock, FrontLock, FrontNext, FrontHead, FrontUnlock, PushCount, PopTake,
     PopUndo, PopLock, PopRead, PopHead, PopUnlock, PopVal, PopFree, local, TypeOK
<1>3. item' = item \/ \E x : item' = [item EXCEPT ![t] = x]
  BY DEF Acts, Call, Step, PopCall, PushBackCall, PushFrontCall, BackLock, BackVal, BackNext,
     BackTail, BackUnlock, FrontLock, FrontNext, FrontHead, FrontUnlock, PushCount, PopTake,
     PopUndo, PopLock, PopRead, PopHead, PopUnlock, PopVal, PopFree, local
<1>4. ASSUME NEW u \in Threads \ {t} PROVE pc'[u] = pc[u] /\ ptr'[u] = ptr[u] /\ item'[u] = item[u]
  BY <1>1, <1>2, <1>3 DEF TypeOK
<1>5. \A u \in Threads \ {t} : Private(u)' = Private(u)
  BY <1>4 DEF Private
<1>6. pc' \in [Threads -> Labels]
  BY <1>1 DEF TypeOK
<1>7. ptr' \in [Threads -> Nodes \cup {Null}]
  BY <1>2 DEF TypeOK
<1>. QED
  BY <1>4, <1>5, <1>6, <1>7

\* At these labels a thread has a node, at the others it has none.
LEMMA PrivateAt ==
    ASSUME NEW t
    PROVE  LET own == {"b_lock", "b_val", "b_next", "b_tail", "f_lock", "f_next", "f_head",
                       "o_unlock", "o_val", "o_free"}
           IN  /\ pc[t] \in own => Private(t) = {ptr[t]}
               /\ pc[t] \notin own => Private(t) = {}
               /\ pc'[t] \in own => Private(t)' = {ptr'[t]}
               /\ pc'[t] \notin own => Private(t)' = {}
BY DEF Private

\* A thread writes to a node of its own, to one not in use, or to the tail, which
\* it locks.
LEMMA WritesOwn ==
    ASSUME TypeOK, NEW t \in Threads, Acts(t), NEW n \in nodes, n \notin Private(t),
           n = tail => pc[t] \notin Backs
    PROVE  next'[n] = next[n] /\ val'[n] = val[n]
<1>1. n \in Nodes
  BY DEF TypeOK
<1>2. next \in [Nodes -> Nodes \cup {Null, Junk}] /\ val \in [Nodes -> Items \cup {Junk}]
  BY DEF TypeOK
<1>3. CASE PopCall(t)
  BY <1>3 DEF PopCall, list
<1>4. CASE \E m \in Nodes, d \in Items : PushBackCall(t, m, d) \/ PushFrontCall(t, m, d)
  <2>1. PICK m \in Nodes, d \in Items : PushBackCall(t, m, d) \/ PushFrontCall(t, m, d)
    BY <1>4
  <2>2. m # n
    BY <2>1 DEF PushBackCall, PushFrontCall, NodeAlloc!Allocate
  <2>3. \/ next' = [next EXCEPT ![m] = Null] /\ val' = val
        \/ next' = next /\ val' = [val EXCEPT ![m] = d]
    BY <2>1 DEF PushBackCall, PushFrontCall
  <2>. QED
    BY <1>1, <1>2, <2>2, <2>3
<1>5. CASE BackVal(t) \/ BackNext(t)
  <2>1. pc[t] \in Backs
    BY <1>5 DEF BackVal, BackNext, Goto, Backs
  <2>2. \/ val' = [val EXCEPT ![tail] = item[t]] /\ next' = next
        \/ next' = [next EXCEPT ![tail] = ptr[t]] /\ val' = val
    BY <1>5 DEF BackVal, BackNext
  <2>. QED
    BY <1>1, <1>2, <2>1, <2>2
<1>6. CASE FrontNext(t) \/ PopFree(t)
  <2>1. pc[t] \in {"f_next", "o_free"}
    BY <1>6 DEF FrontNext, PopFree, Goto
  <2>2. n # ptr[t]
    BY <2>1, PrivateAt
  <2>3. \/ next' = [next EXCEPT ![ptr[t]] = head] /\ val' = val
        \/ next' = [next EXCEPT ![ptr[t]] = Junk] /\ val' = [val EXCEPT ![ptr[t]] = Junk]
    BY <1>6 DEF FrontNext, PopFree
  <2>. QED
    BY <1>1, <1>2, <2>2, <2>3
<1>7. CASE Step(t) /\ ~ (BackVal(t) \/ BackNext(t) \/ FrontNext(t) \/ PopFree(t))
  BY <1>7 DEF Step, BackLock, BackTail, BackUnlock, FrontLock, FrontHead, FrontUnlock,
     PushCount, PopTake, PopUndo, PopLock, PopRead, PopHead, PopUnlock, PopVal, list
<1>. QED
  BY <1>3, <1>4, <1>5, <1>6, <1>7 DEF Acts, Call

-----------------------------------------------------------------------------
(* How far a call is *)

\* What the call of thread t looks like.
LEMMA CallAt ==
    ASSUME NEW t \in Threads
    PROVE  LET at(op, it) == [op |-> op, item |-> it]
           IN  /\ pc[t] = "idle" => CallsOf[t] = at("idle", NoItem)
               /\ pc[t] \in {"b_lock", "b_val", "b_next", "b_tail"} =>
                      CallsOf[t] = at("push_back", item[t])
               /\ pc[t] \in {"f_lock", "f_next", "f_head"} =>
                      CallsOf[t] = at("push_front", item[t])
               /\ pc[t] \in {"b_unlock", "f_unlock", "count"} =>
                      CallsOf[t] = at("linked", NoItem)
               /\ pc[t] = "o_take" => CallsOf[t] = at("pop_front", NoItem)
               /\ pc[t] = "o_undo" => CallsOf[t] = at("refused", NoItem)
               /\ pc[t] \in {"o_lock", "o_read", "o_head"} => CallsOf[t] = at("entitled", NoItem)
               /\ pc[t] \in {"o_unlock", "o_val"} => CallsOf[t] = at("done", val[ptr[t]])
               /\ pc[t] = "o_free" => CallsOf[t] = at("done", item[t])
BY DEF CallsOf, OpOf, ItemOf

\* What it looks like after a step.
LEMMA CallNext ==
    ASSUME NEW t \in Threads
    PROVE  LET at(op, it) == [op |-> op, item |-> it]
           IN  /\ pc'[t] = "idle" => CallsOf'[t] = at("idle", NoItem)
               /\ pc'[t] \in {"b_lock", "b_val", "b_next", "b_tail"} =>
                      CallsOf'[t] = at("push_back", item'[t])
               /\ pc'[t] \in {"f_lock", "f_next", "f_head"} =>
                      CallsOf'[t] = at("push_front", item'[t])
               /\ pc'[t] \in {"b_unlock", "f_unlock", "count"} =>
                      CallsOf'[t] = at("linked", NoItem)
               /\ pc'[t] = "o_take" => CallsOf'[t] = at("pop_front", NoItem)
               /\ pc'[t] = "o_undo" => CallsOf'[t] = at("refused", NoItem)
               /\ pc'[t] \in {"o_lock", "o_read", "o_head"} => CallsOf'[t] = at("entitled", NoItem)
               /\ pc'[t] \in {"o_unlock", "o_val"} => CallsOf'[t] = at("done", val'[ptr'[t]])
               /\ pc'[t] = "o_free" => CallsOf'[t] = at("done", item'[t])
BY DEF CallsOf, OpOf, ItemOf

\* The items of a sequence of nodes.
ItemsOf(v, s) == [i \in DOMAIN s |-> v[s[i]]]

\* A pop that has its permit finds a node before the tail.
LEMMA EntitledFinds ==
    ASSUME IInv, NEW t \in Threads, pc[t] \in {"o_lock", "o_read", "o_head"}
    PROVE  Content # <<>> /\ List # <<>> /\ head # tail
<1>1. CallsOf[t].op = "entitled" /\ P!IInv
  <2>1. CallsOf[t] = [op |-> "entitled", item |-> NoItem]
    BY CallAt
  <2>. QED
    BY <2>1 DEF IInv
<1>2. P!IsFiniteSet(Threads)
  BY NamesAssumption DEF IsFiniteSet, P!IsFiniteSet
<1>3. Content # <<>>
  BY <1>1, <1>2, P!EntitledFinds
<1>4. List = <<>> => Content = <<>>
  BY DEF Content
<1>5. head = tail => List = <<>>
  BY ListLinks DEF IInv, Chained
<1>. QED
  BY <1>3, <1>4, <1>5

\* The nodes in use, and that a thread with muh or mut is alone with it.
LEMMA InUse ==
    ASSUME TypeOK, Chained, Places
    PROVE  /\ Listed = Members(List) /\ Listed \subseteq nodes /\ tail \notin Listed
           /\ tail \in nodes /\ nodes \subseteq Nodes
           /\ head \in Listed \cup {tail}
           /\ \A t \in Threads : Private(t) \subseteq nodes /\ tail \notin Private(t)
<1>1. Listed = Members(List)
  BY DEF Listed, Members
<1>2. tail \notin Members(List) /\ head \in Members(List) \cup {tail}
  BY ListLinks DEF Chained
<1>3. \A t \in Threads : Private(t) \subseteq nodes /\ tail \notin Private(t)
  BY DEF Places, Owned
<1>. QED
  BY <1>1, <1>2, <1>3 DEF Places, TypeOK

-----------------------------------------------------------------------------
(* What a step does to the places of the nodes *)

Stays(t) ==
    /\ Private(t)' = Private(t)
    /\ UNCHANGED <<head, tail, nodes>>

\* a push gets a node
Gets(t, n) ==
    /\ pc[t] = "idle" /\ ptr'[t] = n
    /\ Private(t) = {} /\ Private(t)' = {n}
    /\ n \in Nodes \ nodes /\ nodes' = nodes \cup {n}
    /\ UNCHANGED <<head, tail>>

\* the tail becomes the last node of the list
LinksBack(t) ==
    /\ pc[t] = "b_tail" /\ pc'[t] = "b_unlock"
    /\ Private(t) = {ptr[t]} /\ Private(t)' = {}
    /\ next[tail] = ptr[t] /\ val[tail] = item[t] /\ tail' = ptr[t]
    /\ UNCHANGED <<head, next, val, nodes, blocks, held>>

\* a node becomes the first of the list
LinksFront(t) ==
    /\ pc[t] = "f_head" /\ pc'[t] = "f_unlock"
    /\ Private(t) = {ptr[t]} /\ Private(t)' = {}
    /\ next[ptr[t]] = head /\ val[ptr[t]] = item[t] /\ head' = ptr[t]
    /\ UNCHANGED <<tail, next, val, nodes, blocks, held>>

\* the first node is taken off the list
Unlinks(t) ==
    /\ pc[t] = "o_head" /\ pc'[t] = "o_unlock" /\ ptr[t] = head /\ ptr'[t] = head
    /\ Private(t) = {} /\ Private(t)' = {head}
    /\ head # tail /\ head' = next[head]
    /\ UNCHANGED <<tail, next, val, nodes, blocks, held>>

\* a pop frees a node
Frees(t) ==
    /\ pc[t] = "o_free" /\ pc'[t] = "idle"
    /\ Private(t) = {ptr[t]} /\ Private(t)' = {}
    /\ nodes' = nodes \ {ptr[t]}
    /\ held' = held \cup {item[t]} /\ UNCHANGED <<head, tail, blocks>>

\* Every step is of one of these kinds.
LEMMA Effect ==
    ASSUME IInv, NEW t \in Threads, Acts(t)
    PROVE  /\ BackTail(t) => LinksBack(t)
           /\ FrontHead(t) => LinksFront(t)
           /\ PopHead(t) => Unlinks(t)
           /\ PopFree(t) => Frees(t)
           /\ \/ BackTail(t) \/ FrontHead(t) \/ PopHead(t) \/ PopFree(t)
              \/ Stays(t) \/ \E n \in Nodes : Gets(t, n)
<1>0. TypeOK /\ CallFits(t) /\ ptr[t] \in Nodes \cup {Null}
  BY DEF IInv, CallsFit, TypeOK
<1>1. \A x, y : Goto(t, x, y) => pc[t] = x /\ pc'[t] = y
  BY <1>0, Goes
<1>2. ASSUME \E n \in Nodes, d \in Items : PushBackCall(t, n, d) \/ PushFrontCall(t, n, d)
      PROVE  \E n \in Nodes : Gets(t, n)
  <2>1. PICK n \in Nodes, d \in Items : PushBackCall(t, n, d) \/ PushFrontCall(t, n, d)
    BY <1>2
  <2>2. /\ pc[t] = "idle" /\ pc'[t] \in {"b_lock", "f_lock"} /\ ptr'[t] = n
        /\ n \in Nodes \ nodes /\ nodes' = nodes \cup {n} /\ UNCHANGED <<head, tail>>
    BY <1>0, <1>1, <2>1 DEF PushBackCall, PushFrontCall, NodeAlloc!Allocate, TypeOK
  <2>3. Private(t) = {} /\ Private(t)' = {n}
    BY <2>2, PrivateAt
  <2>. QED
    BY <2>2, <2>3 DEF Gets
<1>3. ASSUME \/ BackLock(t) \/ BackVal(t) \/ BackNext(t) \/ FrontLock(t) \/ FrontNext(t)
             \/ PopUnlock(t) \/ PopVal(t)
      PROVE  Stays(t)
  <2>1. /\ UNCHANGED <<head, tail, nodes>> /\ ptr' = ptr
        /\ pc[t] \in {"b_lock", "b_val", "b_next", "f_lock", "f_next", "o_unlock", "o_val"}
        /\ pc'[t] \in {"b_val", "b_next", "b_tail", "f_next", "f_head", "o_val", "o_free"}
    BY <1>1, <1>3 DEF BackLock, BackVal, BackNext, FrontLock, FrontNext, PopUnlock, PopVal,
       list, memory, local
  <2>2. Private(t)' = Private(t)
    BY <2>1, PrivateAt
  <2>. QED
    BY <2>1, <2>2 DEF Stays
<1>4. ASSUME \/ PopCall(t) \/ BackUnlock(t) \/ FrontUnlock(t) \/ PushCount(t)
             \/ PopUndo(t) \/ PopLock(t) \/ PopRead(t)
      PROVE  Stays(t)
  <2>1. /\ UNCHANGED <<head, tail, nodes>>
        /\ pc[t] \in {"idle", "b_unlock", "f_unlock", "count", "o_undo", "o_lock", "o_read"}
        /\ pc'[t] \in {"o_take", "count", "idle", "o_read", "o_head"}
    BY <1>1, <1>4 DEF PopCall, BackUnlock, FrontUnlock, PushCount, PopUndo, PopLock, PopRead,
       list, memory
  <2>2. Private(t)' = {} /\ Private(t) = {}
    BY <2>1, PrivateAt
  <2>. QED
    BY <2>1, <2>2 DEF Stays
<1>5. ASSUME PopTake(t) PROVE Stays(t)
  <2>1. /\ UNCHANGED <<head, tail, nodes>> /\ pc[t] = "o_take"
        /\ pc'[t] = IF size <= 0 THEN "o_undo" ELSE "o_lock"
    BY <1>1, <1>5 DEF PopTake, list, memory
  <2>2. Private(t)' = {} /\ Private(t) = {}
    BY <2>1, PrivateAt
  <2>. QED
    BY <2>1, <2>2 DEF Stays
<1>6. ASSUME BackTail(t) PROVE LinksBack(t)
  <2>1. /\ pc[t] = "b_tail" /\ pc'[t] = "b_unlock" /\ tail' = ptr[t]
        /\ UNCHANGED <<head, next, val, nodes, blocks, held>>
    BY <1>1, <1>6 DEF BackTail, memory
  <2>2. Private(t)' = {} /\ Private(t) = {ptr[t]}
    BY <2>1, PrivateAt
  <2>. QED
    BY <1>0, <2>1, <2>2 DEF LinksBack, CallFits
<1>7. ASSUME FrontHead(t) PROVE LinksFront(t)
  <2>1. /\ pc[t] = "f_head" /\ pc'[t] = "f_unlock" /\ head' = ptr[t]
        /\ UNCHANGED <<tail, next, val, nodes, blocks, held>>
    BY <1>1, <1>7 DEF FrontHead, memory
  <2>2. Private(t)' = {} /\ Private(t) = {ptr[t]}
    BY <2>1, PrivateAt
  <2>. QED
    BY <1>0, <2>1, <2>2 DEF LinksFront, CallFits
<1>8. ASSUME PopHead(t) PROVE Unlinks(t)
  <2>1. /\ pc[t] = "o_head" /\ pc'[t] = "o_unlock" /\ head' = next[ptr[t]]
        /\ UNCHANGED <<tail, next, val, nodes, blocks, held, ptr>>
    BY <1>1, <1>8 DEF PopHead, memory, local
  <2>2. Private(t)' = {ptr[t]} /\ Private(t) = {}
    BY <2>1, PrivateAt
  <2>3. ptr[t] = head
    BY <1>0, <2>1 DEF CallFits
  <2>4. head # tail
    BY <2>1, EntitledFinds
  <2>. QED
    BY <2>1, <2>2, <2>3, <2>4 DEF Unlinks
<1>9. ASSUME PopFree(t) PROVE Frees(t)
  <2>1. /\ UNCHANGED <<head, tail, blocks>> /\ pc[t] = "o_free" /\ pc'[t] = "idle"
        /\ nodes' = nodes \ {ptr[t]} /\ held' = held \cup {item[t]}
    BY <1>1, <1>9 DEF PopFree, NodeAlloc!Deallocate
  <2>2. Private(t)' = {} /\ Private(t) = {ptr[t]}
    BY <2>1, PrivateAt
  <2>. QED
    BY <2>1, <2>2 DEF Frees
<1>. QED
  BY <1>2, <1>3, <1>4, <1>5, <1>6, <1>7, <1>8, <1>9 DEF Acts, Call, Step

-----------------------------------------------------------------------------
(* A step keeps the parts of the invariant *)

\* The list: it stays, grows at either end or loses its first node.
LEMMA StepList ==
    ASSUME IInv, NEW t \in Threads, Acts(t)
    PROVE  /\ Chained'
           /\ Stays(t) \/ (\E n \in Nodes : Gets(t, n)) \/ Frees(t) => List' = List
           /\ LinksBack(t) => List' = Append(List, tail) /\ ptr[t] \notin Listed \cup {tail}
           /\ LinksFront(t) => List' = <<ptr[t]>> \o List /\ ptr[t] \notin Listed
           /\ Unlinks(t) => List' = Tail(List)
<1>0. TypeOK /\ Chained /\ Places
  BY DEF IInv
<1>1. \A s : IsList(head', tail', next', s) => List' = s /\ Chained'
  <2>1. (\A s : IsList(head, tail, next, s) => List = s)'
    BY ListIs, PTL
  <2>. QED
    BY <2>1 DEF Chained
<1>2. /\ Listed = Members(List) /\ Listed \subseteq nodes /\ tail \notin Listed
      /\ Listed \cap Private(t) = {} /\ tail \notin Private(t) /\ Private(t) \subseteq Nodes
  BY <1>0, InUse DEF Places
<1>3. \A n \in Members(List) : next'[n] = next[n]
  BY <1>0, <1>2, WritesOwn
<1>4. ASSUME Stays(t) \/ (\E n \in Nodes : Gets(t, n)) \/ Frees(t)
      PROVE  List' = List /\ Chained'
  <2>1. head' = head /\ tail' = tail
    BY <1>4 DEF Stays, Gets, Frees
  <2>2. IsList(head, tail, next', List)
    BY <1>0, <1>3, ListFrame DEF Chained
  <2>. QED
    BY <1>1, <2>1, <2>2
<1>5. ASSUME LinksBack(t)
      PROVE  List' = Append(List, tail) /\ Chained' /\ ptr[t] \notin Listed \cup {tail}
  <2>1. ptr[t] \in Nodes /\ ptr[t] \notin Members(List) /\ ptr[t] # tail /\ next[tail] = ptr[t]
    BY <1>2, <1>5 DEF LinksBack
  <2>2. IsList(head, ptr[t], next, Append(List, tail))
    BY <1>0, <2>1, ListAppend DEF Chained
  <2>3. IsList(head', tail', next', Append(List, tail))
    BY <1>5, <2>2 DEF LinksBack
  <2>. QED
    BY <1>1, <1>2, <2>1, <2>3
<1>6. ASSUME LinksFront(t)
      PROVE  List' = <<ptr[t]>> \o List /\ Chained' /\ ptr[t] \notin Listed
  <2>1. ptr[t] \in Nodes /\ ptr[t] \notin Members(List) /\ ptr[t] # tail /\ next[ptr[t]] = head
    BY <1>2, <1>6 DEF LinksFront
  <2>2. IsList(ptr[t], tail, next, <<ptr[t]>> \o List)
    BY <1>0, <2>1, ListPush DEF Chained
  <2>3. IsList(head', tail', next', <<ptr[t]>> \o List)
    BY <1>6, <2>2 DEF LinksFront
  <2>. QED
    BY <1>1, <1>2, <2>1, <2>3
<1>7. ASSUME Unlinks(t)
      PROVE  List' = Tail(List) /\ Chained'
  <2>1. IsList(next[head], tail, next, Tail(List))
    BY <1>0, <1>7, ListPop DEF Chained, Unlinks
  <2>2. IsList(head', tail', next', Tail(List))
    BY <1>7, <2>1 DEF Unlinks
  <2>. QED
    BY <1>1, <2>2
<1>. QED
  BY <1>4, <1>5, <1>6, <1>7, Effect

\* The nodes on the list after a step.
LEMMA StepListed ==
    ASSUME IInv, NEW t \in Threads, Acts(t)
    PROVE  /\ Stays(t) \/ (\E n \in Nodes : Gets(t, n)) \/ Frees(t) => Listed' = Listed
           /\ LinksBack(t) => Listed' = Listed \cup {tail}
           /\ LinksFront(t) => Listed' = Listed \cup {ptr[t]}
           /\ Unlinks(t) => Listed' = Listed \ {head} /\ head \in Listed
<1>0. TypeOK /\ Chained /\ Places
  BY DEF IInv
<1>1. Listed = Members(List) /\ Listed' = Members(List')
  BY DEF Listed, Members
<1>2. tail \notin Private(t) /\ Private(t) \subseteq Nodes
  BY <1>0, InUse
<1>3. Stays(t) \/ (\E n \in Nodes : Gets(t, n)) \/ Frees(t) => Listed' = Listed
  BY <1>1, StepList
<1>4. ASSUME LinksBack(t) PROVE Listed' = Listed \cup {tail}
  <2>1. ptr[t] \in Nodes /\ ptr[t] \notin Members(List) /\ ptr[t] # tail /\ next[tail] = ptr[t]
    BY <1>1, <1>2, <1>4, StepList DEF LinksBack
  <2>2. Members(Append(List, tail)) = Members(List) \cup {tail}
    BY <1>0, <2>1, ListAppend DEF Chained
  <2>. QED
    BY <1>1, <1>4, <2>2, StepList
<1>5. ASSUME LinksFront(t) PROVE Listed' = Listed \cup {ptr[t]}
  <2>1. ptr[t] \in Nodes /\ ptr[t] \notin Members(List) /\ ptr[t] # tail /\ next[ptr[t]] = head
    BY <1>1, <1>2, <1>5, StepList DEF LinksFront
  <2>2. Members(<<ptr[t]>> \o List) = Members(List) \cup {ptr[t]}
    BY <1>0, <2>1, ListPush DEF Chained
  <2>. QED
    BY <1>1, <1>5, <2>2, StepList
<1>6. ASSUME Unlinks(t) PROVE Listed' = Listed \ {head} /\ head \in Listed
  <2>1. Members(List) = Members(Tail(List)) \cup {head} /\ head \notin Members(Tail(List))
    BY <1>0, <1>6, ListPop DEF Chained, Unlinks
  <2>. QED
    BY <1>1, <1>6, <2>1, StepList
<1>. QED
  BY <1>3, <1>4, <1>5, <1>6

\* Places: what a node leaves and what it gets to.
LEMMA StepPlaces ==
    ASSUME IInv, NEW t \in Threads, Acts(t)
    PROVE  Places'
<1> DEFINE Others == UNION {Private(u) : u \in Threads \ {t}}
           L == {tail} \cup Listed
<1>0. TypeOK /\ Chained /\ Places /\ tail \notin Listed
  BY InUse DEF IInv
<1>1. \A u \in Threads \ {t} : Private(u)' = Private(u)
  BY <1>0, OthersStay
<1>2. Owned = Private(t) \cup Others
  BY DEF Owned
<1>3. Owned' = Private(t)' \cup Others
  <2>1. Owned' = UNION {Private(u)' : u \in Threads}
    BY DEF Owned
  <2>2. UNION {Private(u)' : u \in Threads} = Private(t)' \cup Others
    BY <1>1
  <2>. QED
    BY <2>1, <2>2
<1>4. /\ nodes = L \cup Private(t) \cup Others
      /\ L \cap Private(t) = {} /\ L \cap Others = {} /\ Private(t) \cap Others = {}
  BY <1>0, <1>2 DEF Places
<1>5. \A u \in Threads \ {t} : Private(u) \subseteq Others
  OBVIOUS
<1>6. L' = {tail'} \cup Listed'
  OBVIOUS
<1>7. /\ nodes' = L' \cup Private(t)' \cup Others
      /\ L' \cap Private(t)' = {} /\ L' \cap Others = {} /\ Private(t)' \cap Others = {}
  <2>1. L = {tail} \cup Listed
    OBVIOUS
  <2>. HIDE DEF L, Others
  <2>2. CASE Stays(t)
    BY <1>4, <1>6, <2>1, <2>2, StepListed DEF Stays
  <2>3. CASE \E m \in Nodes : Gets(t, m)
    BY <1>4, <1>6, <2>1, <2>3, StepListed DEF Gets
  <2>4. CASE LinksBack(t)
    BY <1>4, <1>6, <2>1, <2>4, StepListed DEF LinksBack
  <2>5. CASE LinksFront(t)
    BY <1>4, <1>6, <2>1, <2>5, StepListed DEF LinksFront
  <2>6. CASE Unlinks(t)
    BY <1>4, <1>6, <2>1, <2>6, StepListed DEF Unlinks
  <2>7. CASE Frees(t)
    BY <1>4, <1>6, <2>1, <2>7, StepListed DEF Frees
  <2>. QED
    BY <2>2, <2>3, <2>4, <2>5, <2>6, <2>7, Effect
<1>8. nodes' = {tail'} \cup Listed' \cup Owned'
  BY <1>3, <1>6, <1>7
<1>. HIDE DEF L, Others
<1>9. \A u \in Threads : Private(u)' \cap ({tail'} \cup Listed') = {}
  <2> TAKE u \in Threads
  <2>1. CASE u = t
    BY <1>6, <1>7, <2>1
  <2>2. CASE u # t
    BY <1>1, <1>5, <1>6, <1>7, <2>2
  <2>. QED
    BY <2>1, <2>2
<1>10. \A u, v \in Threads : u # v => Private(u)' \cap Private(v)' = {}
  <2>1. \A u \in Threads \ {t} : Private(u)' \cap Private(t)' = {}
    BY <1>1, <1>5, <1>7
  <2>2. \A u, v \in Threads \ {t} : u # v => Private(u)' \cap Private(v)' = {}
    BY <1>0, <1>1 DEF Places
  <2>. QED
    BY <2>1, <2>2
<1>. QED
  BY <1>8, <1>9, <1>10 DEF Places

\* The mutexes: a thread is where it holds one exactly while it holds it.
LEMMA StepLocked ==
    ASSUME IInv, NEW t \in Threads, Acts(t)
    PROVE  /\ Locked'
           /\ mut' \in Threads \cup {NoThread} /\ muh' \in Threads \cup {NoThread}
<1>0. /\ TypeOK /\ Locked /\ NoThread \notin Threads
      /\ mut \in Threads \cup {NoThread} /\ muh \in Threads \cup {NoThread}
  BY NamesAssumption DEF IInv, TypeOK
<1>1. \A x, y : Goto(t, x, y) => pc[t] = x /\ pc'[t] = y
  BY <1>0, Goes
<1>2. \A u \in Threads \ {t} : pc'[u] = pc[u]
  BY <1>0, OthersStay
<1>3. ASSUME \/ mut' = mut /\ (pc[t] \in Backs <=> pc'[t] \in Backs)
             \/ mut = NoThread /\ mut' = t /\ pc'[t] \in Backs
             \/ mut' = NoThread /\ pc[t] \in Backs /\ pc'[t] \notin Backs,
             \/ muh' = muh /\ (pc[t] \in Fronts <=> pc'[t] \in Fronts)
             \/ muh = NoThread /\ muh' = t /\ pc'[t] \in Fronts
             \/ muh' = NoThread /\ pc[t] \in Fronts /\ pc'[t] \notin Fronts
      PROVE  /\ Locked'
             /\ mut' \in Threads \cup {NoThread} /\ muh' \in Threads \cup {NoThread}
  <2>1. /\ pc[t] \in Backs <=> mut = t
        /\ pc[t] \in Fronts <=> muh = t
    BY <1>0 DEF Locked
  <2>2. \A u \in Threads \ {t} : /\ pc'[u] \in Backs <=> mut = u
                                 /\ pc'[u] \in Fronts <=> muh = u
    BY <1>0, <1>2 DEF Locked
  <2>3. /\ pc'[t] \in Backs <=> mut' = t
        /\ \A u \in Threads \ {t} : mut' = u <=> mut = u
        /\ mut' \in Threads \cup {NoThread}
    BY <1>0, <1>3, <2>1
  <2>4. /\ pc'[t] \in Fronts <=> muh' = t
        /\ \A u \in Threads \ {t} : muh' = u <=> muh = u
        /\ muh' \in Threads \cup {NoThread}
    BY <1>0, <1>3, <2>1
  <2>5. \A u \in Threads : (pc'[u] \in Backs <=> mut' = u) /\ (pc'[u] \in Fronts <=> muh' = u)
    BY <2>2, <2>3, <2>4
  <2>. QED
    BY <2>3, <2>4, <2>5 DEF Locked
<1>4. CASE BackLock(t) \/ BackUnlock(t)
  <2>1. /\ muh' = muh
        /\ \/ pc[t] = "b_lock" /\ pc'[t] = "b_val" /\ mut = NoThread /\ mut' = t
           \/ pc[t] = "b_unlock" /\ pc'[t] = "count" /\ mut' = NoThread
    BY <1>1, <1>4 DEF BackLock, BackUnlock
  <2>. QED
    BY <1>3, <2>1 DEF Backs, Fronts
<1>5. CASE FrontLock(t) \/ FrontUnlock(t) \/ PopLock(t) \/ PopUnlock(t)
  <2>1. /\ mut' = mut
        /\ \/ /\ pc[t] \in {"f_lock", "o_lock"} /\ pc'[t] \in {"f_next", "o_read"}
              /\ muh = NoThread /\ muh' = t
           \/ /\ pc[t] \in {"f_unlock", "o_unlock"} /\ pc'[t] \in {"count", "o_val"}
              /\ muh' = NoThread
    BY <1>1, <1>5 DEF FrontLock, FrontUnlock, PopLock, PopUnlock
  <2>. QED
    BY <1>3, <2>1 DEF Backs, Fronts
<1>6. CASE Call(t) \/ BackVal(t) \/ BackNext(t) \/ BackTail(t) \/ PushCount(t)
  <2>1. /\ mut' = mut /\ muh' = muh
        /\ \/ pc[t] \in {"b_val", "b_next", "b_tail"} /\ pc'[t] \in {"b_next", "b_tail", "b_unlock"}
           \/ pc[t] \in {"idle", "count"} /\ pc'[t] \in {"b_lock", "f_lock", "o_take", "idle"}
    BY <1>1, <1>6 DEF Call, PopCall, PushBackCall, PushFrontCall, BackVal, BackNext, BackTail,
       PushCount, locks
  <2>. QED
    BY <1>3, <2>1 DEF Backs, Fronts
<1>7. CASE FrontNext(t) \/ FrontHead(t) \/ PopRead(t) \/ PopHead(t)
  <2>1. /\ mut' = mut /\ muh' = muh
        /\ pc[t] \in {"f_next", "f_head", "o_read", "o_head"}
        /\ pc'[t] \in {"f_head", "f_unlock", "o_head", "o_unlock"}
    BY <1>1, <1>7 DEF FrontNext, FrontHead, PopRead, PopHead, locks
  <2>. QED
    BY <1>3, <2>1 DEF Backs, Fronts
<1>8. CASE PopTake(t) \/ PopUndo(t) \/ PopVal(t) \/ PopFree(t)
  <2>1. /\ mut' = mut /\ muh' = muh
        /\ pc[t] \in {"o_take", "o_undo", "o_val", "o_free"}
        /\ pc'[t] \in {"o_undo", "o_lock", "idle", "o_free"}
    BY <1>1, <1>8 DEF PopTake, PopUndo, PopVal, PopFree, locks
  <2>. QED
    BY <1>3, <2>1 DEF Backs, Fronts
<1>. QED
  BY <1>4, <1>5, <1>6, <1>7, <1>8 DEF Acts, Step

\* The other calls: what they have read and written is theirs or under their mutex.
LEMMA OthersFit ==
    ASSUME IInv, NEW t \in Threads, Acts(t), NEW u \in Threads, u # t
    PROVE  /\ CallFits(u)'
           /\ PrivateItem(u)' = PrivateItem(u) /\ CallsOf'[u] = CallsOf[u]
<1>0. TypeOK /\ Chained /\ Places /\ Locked /\ CallFits(u) /\ u \in Threads \ {t}
  BY DEF IInv, CallsFit
<1>1. pc'[u] = pc[u] /\ ptr'[u] = ptr[u] /\ item'[u] = item[u]
  BY <1>0, OthersStay
<1>2. ASSUME pc[u] \in Backs
      PROVE  tail' = tail /\ next'[tail] = next[tail] /\ val'[tail] = val[tail]
  <2>1. pc[t] \notin Backs
    BY <1>0, <1>2 DEF Locked
  <2>2. tail' = tail
    BY <2>1, Effect DEF Stays, Gets, LinksBack, LinksFront, Unlinks, Frees, Backs
  <2>3. tail \in nodes /\ tail \notin Private(t)
    BY <1>0, InUse
  <2>. QED
    BY <1>0, <2>1, <2>2, <2>3, WritesOwn
<1>3. ASSUME Private(u) = {ptr[u]}
      PROVE  next'[ptr[u]] = next[ptr[u]] /\ val'[ptr[u]] = val[ptr[u]]
  <2>1. ptr[u] \in nodes /\ ptr[u] # tail
    BY <1>0, <1>3, InUse
  <2>2. ptr[u] \notin Private(t)
    BY <1>0, <1>3 DEF Places
  <2>. QED
    BY <1>0, <2>1, <2>2, WritesOwn
<1>4. pc[u] \in Fronts => head' = head
  <2>1. pc[u] \in Fronts => pc[t] \notin Fronts
    BY <1>0 DEF Locked
  <2>. QED
    BY <2>1, Effect DEF Stays, Gets, LinksBack, LinksFront, Unlinks, Frees, Fronts
<1>5. pc[u] \in {"f_lock", "f_next", "f_head", "o_unlock", "o_val", "o_free"} => Private(u) = {ptr[u]}
  BY PrivateAt
<1>6. CallFits(u)'
  <2>1. /\ pc[u] \in {"b_lock", "b_val", "b_next", "b_tail", "f_lock", "f_next", "f_head"}
               => item[u] \in Items
        /\ pc[u] \in {"b_next", "b_tail"} => val'[tail'] = item[u]
        /\ pc[u] = "b_tail" => next'[tail'] = ptr[u]
    BY <1>0, <1>2 DEF CallFits, Backs
  <2>2. /\ pc[u] \in {"f_lock", "f_next", "f_head"} => val'[ptr[u]] = item[u]
        /\ pc[u] = "f_head" => next'[ptr[u]] = head'
        /\ pc[u] = "o_head" => ptr[u] = head'
        /\ pc[u] = "o_free" => item[u] = val'[ptr[u]]
    BY <1>0, <1>3, <1>4, <1>5 DEF CallFits, Fronts
  <2>. QED
    BY <1>1, <2>1, <2>2 DEF CallFits
<1>7. pc[u] \in {"o_unlock", "o_val"} => val'[ptr[u]] = val[ptr[u]]
  BY <1>3, <1>5
<1>8. PrivateItem(u)' = PrivateItem(u)
  BY <1>1, <1>7 DEF PrivateItem
<1>9. CallsOf'[u] = CallsOf[u]
  <2>1. ItemOf(u)' = ItemOf(u)
    BY <1>1, <1>7 DEF ItemOf
  <2>2. CallsOf'[u] = [op |-> OpOf(pc'[u]), item |-> ItemOf(u)']
    BY DEF CallsOf
  <2>3. CallsOf[u] = [op |-> OpOf(pc[u]), item |-> ItemOf(u)]
    BY DEF CallsOf
  <2>. QED
    BY <1>1, <2>1, <2>2, <2>3
<1>. QED
  BY <1>6, <1>8, <1>9

\* The call of the thread that makes the step.
LEMMA OwnFits ==
    ASSUME IInv, NEW t \in Threads, Acts(t)
    PROVE  CallFits(t)'
<1>0. TypeOK /\ CallFits(t)
  BY DEF IInv, CallsFit
<1>1. \A x, y : Goto(t, x, y) => pc[t] = x /\ pc'[t] = y
  BY <1>0, Goes
<1>2. CASE \E n \in Nodes, d \in Items : PushBackCall(t, n, d)
  <2>1. pc'[t] = "b_lock" /\ item'[t] \in Items
    BY <1>0, <1>1, <1>2 DEF PushBackCall, TypeOK
  <2>. QED
    BY <2>1 DEF CallFits
<1>3. CASE \E n \in Nodes, d \in Items : PushFrontCall(t, n, d)
  <2>1. pc'[t] = "f_lock" /\ item'[t] \in Items /\ val'[ptr'[t]] = item'[t]
    BY <1>0, <1>1, <1>3 DEF PushFrontCall, TypeOK
  <2>. QED
    BY <2>1 DEF CallFits
<1>4. CASE BackLock(t)
  <2>1. pc[t] = "b_lock" /\ pc'[t] = "b_val" /\ item'[t] = item[t]
    BY <1>1, <1>4 DEF BackLock, local
  <2>. QED
    BY <1>0, <2>1 DEF CallFits
<1>5. CASE BackVal(t)
  <2>1. /\ pc[t] = "b_val" /\ pc'[t] = "b_next" /\ item'[t] = item[t]
        /\ tail' = tail /\ val'[tail] = item[t]
    BY <1>0, <1>1, <1>5 DEF BackVal, local, TypeOK
  <2>. QED
    BY <1>0, <2>1 DEF CallFits
<1>6. CASE BackNext(t)
  <2>1. /\ pc[t] = "b_next" /\ pc'[t] = "b_tail" /\ item'[t] = item[t] /\ ptr'[t] = ptr[t]
        /\ tail' = tail /\ next'[tail] = ptr[t] /\ val' = val
    BY <1>0, <1>1, <1>6 DEF BackNext, local, TypeOK
  <2>. QED
    BY <1>0, <2>1 DEF CallFits
<1>7. CASE FrontLock(t)
  <2>1. /\ pc[t] = "f_lock" /\ pc'[t] = "f_next" /\ item'[t] = item[t] /\ ptr'[t] = ptr[t]
        /\ val' = val
    BY <1>1, <1>7 DEF FrontLock, local, list
  <2>. QED
    BY <1>0, <2>1 DEF CallFits
<1>8. CASE FrontNext(t)
  <2>1. /\ pc[t] = "f_next" /\ pc'[t] = "f_head" /\ item'[t] = item[t] /\ ptr'[t] = ptr[t]
        /\ val' = val /\ head' = head
    BY <1>1, <1>8 DEF FrontNext, local
  <2>2. next'[ptr[t]] = head
    <3>1. ptr[t] \in Nodes
      <4>1. Private(t) = {ptr[t]}
        BY <2>1, PrivateAt
      <4>. QED
        BY <4>1, InUse DEF IInv
    <3>. QED
      BY <1>0, <1>8, <3>1 DEF FrontNext, TypeOK
  <2>. QED
    BY <1>0, <2>1, <2>2 DEF CallFits
<1>9. CASE PopRead(t)
  <2>1. pc'[t] = "o_head" /\ ptr'[t] = head /\ head' = head
    BY <1>0, <1>1, <1>9 DEF PopRead, list, TypeOK
  <2>. QED
    BY <2>1 DEF CallFits
<1>10. CASE PopVal(t)
  <2>1. pc'[t] = "o_free" /\ item'[t] = val[ptr[t]] /\ ptr'[t] = ptr[t] /\ val' = val
    BY <1>0, <1>1, <1>10 DEF PopVal, list, TypeOK
  <2>. QED
    BY <2>1 DEF CallFits
<1>11. CASE \/ PopCall(t) \/ BackTail(t) \/ BackUnlock(t) \/ FrontHead(t) \/ FrontUnlock(t)
            \/ PushCount(t) \/ PopUndo(t) \/ PopLock(t) \/ PopHead(t) \/ PopUnlock(t) \/ PopFree(t)
  <2>1. pc'[t] \in {"o_take", "b_unlock", "count", "f_unlock", "idle", "o_read", "o_unlock", "o_val"}
    BY <1>1, <1>11 DEF PopCall, BackTail, BackUnlock, FrontHead, FrontUnlock, PushCount,
       PopUndo, PopLock, PopHead, PopUnlock, PopFree
  <2>. QED
    BY <2>1 DEF CallFits
<1>12. CASE PopTake(t)
  <2>1. pc'[t] \in {"o_undo", "o_lock"}
    BY <1>1, <1>12 DEF PopTake
  <2>. QED
    BY <2>1 DEF CallFits
<1>. QED
  BY <1>2, <1>3, <1>4, <1>5, <1>6, <1>7, <1>8, <1>9, <1>10, <1>11, <1>12 DEF Acts, Call, Step

\* At these labels a call has an item, at the others it has none.
LEMMA PrivateItemAt ==
    ASSUME NEW t
    PROVE  LET given == {"b_lock", "b_val", "b_next", "b_tail", "f_lock", "f_next", "f_head", "o_free"}
               found == {"o_unlock", "o_val"}
           IN  /\ pc[t] \in given => PrivateItem(t) = {item[t]}
               /\ pc[t] \in found => PrivateItem(t) = {val[ptr[t]]}
               /\ pc[t] \notin given \cup found => PrivateItem(t) = {}
               /\ pc'[t] \in given => PrivateItem(t)' = {item'[t]}
               /\ pc'[t] \in found => PrivateItem(t)' = {val'[ptr'[t]]}
               /\ pc'[t] \notin given \cup found => PrivateItem(t)' = {}
BY DEF PrivateItem

\* b is made of h, v, p and o, and these have nothing in common.
Parts(b, h, v, p, o) ==
    /\ b = h \cup v \cup p \cup o
    /\ h \cap v = {} /\ h \cap p = {} /\ h \cap o = {}
    /\ v \cap p = {} /\ v \cap o = {} /\ p \cap o = {}

OtherItems(t) == UNION {PrivateItem(u) : u \in Threads \ {t}}

\* What happens to the item of the call that makes a step: it stays, the call gets
\* it, puts it on the list, takes it off the list or gives it to its caller.
LEMMA ItemMoves ==
    ASSUME IInv, NEW t \in Threads, Acts(t)
    PROVE  LET p == PrivateItem(t)
               q == PrivateItem(t)'
           IN  \/ Listed' = Listed /\ q = p /\ blocks' = blocks /\ held' = held
               \/ /\ Listed' = Listed /\ p = {} /\ held' = held
                  /\ \E d \in Items \ blocks : q = {d} /\ blocks' = blocks \cup {d}
               \/ /\ \E n \in Nodes \ Listed : Listed' = Listed \cup {n} /\ p = {val'[n]}
                  /\ q = {} /\ blocks' = blocks /\ held' = held
               \/ /\ \E n \in Listed : Listed' = Listed \ {n} /\ q = {val[n]}
                  /\ p = {} /\ blocks' = blocks /\ held' = held
               \/ /\ Listed' = Listed /\ q = {} /\ blocks' = blocks
                  /\ \E d : p = {d} /\ held' = held \cup {d}
<1> DEFINE p == PrivateItem(t)
           q == PrivateItem(t)'
<1>0. /\ TypeOK /\ Chained /\ Places /\ CallFits(t) /\ CallFits(t)'
      /\ tail \in Nodes \ Listed /\ Private(t) \subseteq Nodes
  BY OwnFits, InUse DEF IInv, CallsFit
<1>1. \A x, y : Goto(t, x, y) => pc[t] = x /\ pc'[t] = y
  BY <1>0, Goes
<1>2. CASE BackTail(t)
  <2>0. LinksBack(t)
    BY <1>2, Effect
  <2>1. p = {val'[tail]} /\ q = {}
    BY <2>0, PrivateItemAt DEF LinksBack
  <2>2. Listed' = Listed \cup {tail} /\ blocks' = blocks /\ held' = held
    BY <2>0, StepListed DEF LinksBack
  <2>. QED
    BY <1>0, <2>1, <2>2
<1>3. CASE FrontHead(t)
  <2>0. LinksFront(t)
    BY <1>3, Effect
  <2>1. p = {val'[ptr[t]]} /\ q = {}
    BY <2>0, PrivateItemAt DEF LinksFront
  <2>2. Listed' = Listed \cup {ptr[t]} /\ blocks' = blocks /\ held' = held
    BY <2>0, StepListed DEF LinksFront
  <2>3. ptr[t] \in Nodes \ Listed
    BY <1>0, <2>0, StepList DEF LinksFront
  <2>. QED
    BY <2>1, <2>2, <2>3
<1>4. CASE PopHead(t)
  <2>0. Unlinks(t)
    BY <1>4, Effect
  <2>1. p = {} /\ q = {val[head]}
    BY <2>0, PrivateItemAt DEF Unlinks
  <2>2. Listed' = Listed \ {head} /\ head \in Listed /\ blocks' = blocks /\ held' = held
    BY <2>0, StepListed DEF Unlinks
  <2>. QED
    BY <2>1, <2>2
<1>5. CASE PopFree(t)
  <2>0. Frees(t)
    BY <1>5, Effect
  <2>1. p = {item[t]} /\ q = {}
    BY <2>0, PrivateItemAt DEF Frees
  <2>2. Listed' = Listed /\ blocks' = blocks /\ held' = held \cup {item[t]}
    BY <2>0, StepListed DEF Frees
  <2>. QED
    BY <2>1, <2>2
<1>6. CASE ~ (BackTail(t) \/ FrontHead(t) \/ PopHead(t) \/ PopFree(t))
  <2>0. Listed' = Listed
    BY <1>6, Effect, StepListed
  <2>1. CASE \E n \in Nodes, d \in Items : PushBackCall(t, n, d) \/ PushFrontCall(t, n, d)
    <3>1. PICK n \in Nodes, d \in Items : PushBackCall(t, n, d) \/ PushFrontCall(t, n, d)
      BY <2>1
    <3>2. /\ pc[t] = "idle" /\ pc'[t] \in {"b_lock", "f_lock"} /\ item'[t] = d
          /\ d \notin blocks /\ blocks' = blocks \cup {d} /\ held' = held
      BY <1>0, <1>1, <3>1 DEF PushBackCall, PushFrontCall, DataAlloc!Allocate, TypeOK
    <3>3. p = {} /\ q = {d}
      BY <3>2, PrivateItemAt
    <3>. QED
      BY <2>0, <3>2, <3>3
  <2>2. CASE BackLock(t) \/ BackVal(t) \/ BackNext(t) \/ FrontLock(t) \/ FrontNext(t)
    <3>1. /\ pc[t] \in {"b_lock", "b_val", "b_next", "f_lock", "f_next"}
          /\ pc'[t] \in {"b_val", "b_next", "b_tail", "f_next", "f_head"}
          /\ item' = item /\ blocks' = blocks /\ held' = held
      BY <1>1, <2>2 DEF BackLock, BackVal, BackNext, FrontLock, FrontNext, memory, local
    <3>2. q = p
      BY <3>1, PrivateItemAt
    <3>. QED
      BY <2>0, <3>1, <3>2
  <2>3. CASE PopUnlock(t) \/ PopVal(t)
    <3>1. /\ pc[t] \in {"o_unlock", "o_val"} /\ ptr' = ptr /\ val' = val
          /\ pc'[t] \in {"o_val", "o_free"} /\ blocks' = blocks /\ held' = held
      BY <1>1, <2>3 DEF PopUnlock, PopVal, list, memory, local
    <3>2. pc'[t] = "o_free" => item'[t] = val'[ptr'[t]]
      BY <1>0 DEF CallFits
    <3>3. p = {val[ptr[t]]}
      BY <3>1, PrivateItemAt
    <3>4. q = {val[ptr[t]]}
      BY <3>1, <3>2, PrivateItemAt
    <3>. QED
      BY <2>0, <3>1, <3>3, <3>4
  <2>4. CASE \/ PopCall(t) \/ BackUnlock(t) \/ FrontUnlock(t) \/ PushCount(t)
             \/ PopUndo(t) \/ PopLock(t) \/ PopRead(t)
    <3>1. /\ pc[t] \in {"idle", "b_unlock", "f_unlock", "count", "o_undo", "o_lock", "o_read"}
          /\ pc'[t] \in {"o_take", "count", "idle", "o_read", "o_head"}
          /\ blocks' = blocks /\ held' = held
      BY <1>1, <2>4 DEF PopCall, BackUnlock, FrontUnlock, PushCount, PopUndo, PopLock, PopRead, memory
    <3>2. q = {} /\ p = {}
      BY <3>1, PrivateItemAt
    <3>. QED
      BY <2>0, <3>1, <3>2
  <2>5. CASE PopTake(t)
    <3>1. /\ pc[t] = "o_take" /\ pc'[t] \in {"o_undo", "o_lock"} /\ blocks' = blocks /\ held' = held
      BY <1>1, <2>5 DEF PopTake, memory
    <3>2. q = {} /\ p = {}
      BY <3>1, PrivateItemAt
    <3>. QED
      BY <2>0, <3>1, <3>2
  <2>. QED
    BY <1>6, <2>1, <2>2, <2>3, <2>4, <2>5 DEF Acts, Call, Step
<1>. QED
  BY <1>2, <1>3, <1>4, <1>5, <1>6

\* The items: each stays with one node, one call or one caller.
LEMMA StepItems ==
    ASSUME IInv, NEW t \in Threads, Acts(t)
    PROVE  ItemsKept' /\ blocks' \subseteq Items /\ held' \subseteq Items
<1> DEFINE V == ListedItems
           W == ListedItems'
           T == PrivateItem(t)
           U == PrivateItem(t)'
           O == OtherItems(t)
<1>0. /\ TypeOK /\ Chained /\ Places /\ ItemsKept
      /\ held \subseteq Items /\ blocks \subseteq Items
  BY DEF IInv, TypeOK
<1>1. \A u \in Threads \ {t} : PrivateItem(u)' = PrivateItem(u) /\ PrivateItem(u) \subseteq O
  BY OthersFit DEF OtherItems
<1>2. \A n \in Listed : val'[n] = val[n]
  <2>1. \A n \in Listed : n \in nodes /\ n # tail /\ n \notin Private(t)
    BY <1>0, InUse DEF Places
  <2>. QED
    BY <1>0, <2>1, WritesOwn
<1>3. Parts(blocks, held, V, T, O) /\ T \subseteq Items /\ O \subseteq Items
  <2>1. UNION {PrivateItem(u) : u \in Threads} = T \cup O
    BY DEF OtherItems
  <2>2. V \cap held = {}
    BY <1>0 DEF ItemsKept, ListedItems
  <2>3. O \cap (held \cup V) = {} /\ O \cap T = {} /\ O \subseteq Items
    BY <1>0 DEF ItemsKept, OtherItems
  <2>4. T \cap (held \cup V) = {} /\ T \subseteq Items
    BY <1>0 DEF ItemsKept
  <2>5. blocks = held \cup V \cup (T \cup O)
    BY <1>0, <2>1 DEF ItemsKept
  <2>. HIDE DEF V, T, O
  <2>. QED
    BY <2>2, <2>3, <2>4, <2>5 DEF Parts
<1>4. (\A n \in Listed : val[n] \in Items) /\ \A m, n \in Listed : val[m] = val[n] => m = n
  BY <1>0 DEF ItemsKept
<1>5. V = {val[n] : n \in Listed} /\ W = {val'[n] : n \in Listed'}
  BY DEF ListedItems
<1>6. \/ Listed' = Listed /\ U = T /\ blocks' = blocks /\ held' = held
      \/ /\ Listed' = Listed /\ T = {} /\ held' = held
         /\ \E d \in Items \ blocks : U = {d} /\ blocks' = blocks \cup {d}
      \/ /\ \E n \in Nodes \ Listed : Listed' = Listed \cup {n} /\ T = {val'[n]}
         /\ U = {} /\ blocks' = blocks /\ held' = held
      \/ /\ \E n \in Listed : Listed' = Listed \ {n} /\ U = {val[n]}
         /\ T = {} /\ blocks' = blocks /\ held' = held
      \/ /\ Listed' = Listed /\ U = {} /\ blocks' = blocks
         /\ \E d : T = {d} /\ held' = held \cup {d}
  BY ItemMoves
<1>. HIDE DEF V, W, T, U, O
<1>7. ASSUME Listed' = Listed
      PROVE  /\ W = V
             /\ \A n \in Listed' : val'[n] \in Items
             /\ \A m, n \in Listed' : val'[m] = val'[n] => m = n
  BY <1>2, <1>4, <1>5, <1>7
<1>8. /\ Parts(blocks', held', W, U, O) /\ U \subseteq Items /\ held' \subseteq Items
      /\ \A n \in Listed' : val'[n] \in Items
      /\ \A m, n \in Listed' : val'[m] = val'[n] => m = n
  <2>1. CASE Listed' = Listed /\ U = T /\ blocks' = blocks /\ held' = held
    BY <1>0, <1>3, <1>7, <2>1
  <2>2. CASE /\ Listed' = Listed /\ T = {} /\ held' = held
             /\ \E d \in Items \ blocks : U = {d} /\ blocks' = blocks \cup {d}
    <3>1. W = V
      BY <1>7, <2>2
    <3>2. Parts(blocks', held', W, U, O)
      BY <1>3, <2>2, <3>1 DEF Parts
    <3>. QED
      BY <1>0, <1>7, <2>2, <3>2
  <2>3. CASE /\ \E n \in Nodes \ Listed : Listed' = Listed \cup {n} /\ T = {val'[n]}
             /\ U = {} /\ blocks' = blocks /\ held' = held
    <3>1. PICK n \in Nodes \ Listed : Listed' = Listed \cup {n} /\ T = {val'[n]}
      BY <2>3
    <3>2. W = V \cup T
      BY <1>2, <1>5, <3>1
    <3>3. val'[n] \notin V /\ val'[n] \in Items
      BY <1>3, <3>1 DEF Parts
    <3>4. \A m \in Listed' : (m \in Listed /\ val'[m] = val[m] /\ val[m] \in V) \/ m = n
      BY <1>2, <1>5, <3>1
    <3>5. Parts(blocks', held', W, U, O)
      BY <1>3, <2>3, <3>2 DEF Parts
    <3>. QED
      BY <1>0, <1>4, <2>3, <3>3, <3>4, <3>5
  <2>4. CASE /\ \E n \in Listed : Listed' = Listed \ {n} /\ U = {val[n]}
             /\ T = {} /\ blocks' = blocks /\ held' = held
    <3>1. PICK n \in Listed : Listed' = Listed \ {n} /\ U = {val[n]}
      BY <2>4
    <3>2. V = W \cup U /\ W \cap U = {}
      BY <1>2, <1>4, <1>5, <3>1
    <3>3. Parts(blocks', held', W, U, O)
      BY <1>3, <2>4, <3>2 DEF Parts
    <3>. QED
      BY <1>0, <1>2, <1>4, <2>4, <3>1, <3>3
  <2>5. CASE /\ Listed' = Listed /\ U = {} /\ blocks' = blocks
             /\ \E d : T = {d} /\ held' = held \cup {d}
    <3>1. W = V
      BY <1>7, <2>5
    <3>2. Parts(blocks', held', W, U, O)
      BY <1>3, <2>5, <3>1 DEF Parts
    <3>. QED
      BY <1>0, <1>3, <1>7, <2>5, <3>2
  <2>. QED
    BY <1>6, <2>1, <2>2, <2>3, <2>4, <2>5
<1>9. W \subseteq Items
  BY <1>5, <1>8
<1>10. blocks' \subseteq Items
  BY <1>3, <1>8, <1>9 DEF Parts
<1>11. \A n \in Listed' : val'[n] \in Items \ held'
  <2>1. \A n \in Listed' : val'[n] \in W
    BY <1>5
  <2>. QED
    BY <1>8, <2>1 DEF Parts
<1>12. \A u \in Threads : PrivateItem(u)' \subseteq Items \ (held' \cup W)
  <2>1. U \cap (held' \cup W) = {} /\ O \cap (held' \cup W) = {}
    BY <1>8 DEF Parts
  <2>2. U \subseteq Items \ (held' \cup W)
    BY <1>8, <2>1
  <2>3. \A u \in Threads \ {t} : PrivateItem(u)' \subseteq Items \ (held' \cup W)
    BY <1>1, <1>3, <2>1
  <2>. QED
    BY <2>2, <2>3 DEF U
<1>13. \A u, v \in Threads : u # v => PrivateItem(u)' \cap PrivateItem(v)' = {}
  <2>1. \A u \in Threads \ {t} : PrivateItem(u)' \cap U = {}
    BY <1>1, <1>8 DEF Parts
  <2>2. \A u, v \in Threads \ {t} : u # v => PrivateItem(u)' \cap PrivateItem(v)' = {}
    BY <1>0, <1>1 DEF ItemsKept
  <2>. QED
    BY <2>1, <2>2 DEF U
<1>14. UNION {PrivateItem(u)' : u \in Threads} = U \cup O
  BY <1>1 DEF U, O, OtherItems
<1>15. blocks' = held' \cup W \cup UNION {PrivateItem(u)' : u \in Threads}
  BY <1>8, <1>14 DEF Parts
<1>16. ItemsKept'
  BY <1>8, <1>11, <1>12, <1>13, <1>15 DEF ItemsKept, W
<1>. QED
  BY <1>8, <1>10, <1>16

-----------------------------------------------------------------------------
(* jque is the deque with permits *)

\* What a push at the front makes of the items of a sequence of nodes.
LEMMA ItemsOfPush ==
    ASSUME NEW v \in [Nodes -> Items \cup {Junk}], NEW s \in Seq(Nodes), NEW n \in Nodes
    PROVE  ItemsOf(v, <<n>> \o s) = <<v[n]>> \o ItemsOf(v, s)
<1> DEFINE D == Items \cup {Junk}
           q == <<n>> \o s
           r == <<v[n]>> \o ItemsOf(v, s)
<1>1. /\ q \in Seq(Nodes) /\ Len(q) = 1 + Len(s) /\ Len(s) \in Nat
      /\ \A i \in 1 .. 1 + Len(s) : q[i] = IF i <= 1 THEN <<n>>[i] ELSE s[i - 1]
  <2>1. <<n>> \in Seq(Nodes) /\ Len(<<n>>) = 1
    OBVIOUS
  <2>. QED
    BY <2>1, ConcatProperties
<1>2. ItemsOf(v, s) \in Seq(D) /\ Len(ItemsOf(v, s)) = Len(s)
      /\ \A i \in 1 .. Len(s) : ItemsOf(v, s)[i] = v[s[i]]
  BY DEF ItemsOf
<1>3. /\ r \in Seq(D) /\ Len(r) = 1 + Len(s)
      /\ \A i \in 1 .. 1 + Len(s) : r[i] = IF i <= 1 THEN <<v[n]>>[i] ELSE ItemsOf(v, s)[i - 1]
  <2>1. <<v[n]>> \in Seq(D) /\ Len(<<v[n]>>) = 1
    OBVIOUS
  <2>. QED
    BY <1>2, <2>1, ConcatProperties
<1>. HIDE DEF q, r
<1>4. /\ ItemsOf(v, q) \in Seq(D) /\ Len(ItemsOf(v, q)) = Len(q)
      /\ \A i \in 1 .. Len(q) : ItemsOf(v, q)[i] = v[q[i]]
  BY <1>1 DEF ItemsOf
<1>5. ASSUME NEW i \in 1 .. 1 + Len(s) PROVE v[q[i]] = r[i]
  <2>1. CASE i = 1
    BY <1>1, <1>3, <2>1
  <2>2. CASE i # 1
    <3>1. i - 1 \in 1 .. Len(s) /\ ~ (i <= 1)
      BY <1>1, <2>2
    <3>2. q[i] = s[i - 1] /\ r[i] = ItemsOf(v, s)[i - 1]
      BY <1>1, <1>3, <3>1
    <3>. QED
      BY <1>2, <3>1, <3>2
  <2>. QED
    BY <2>1, <2>2
<1>6. ItemsOf(v, q) = r
  BY <1>1, <1>3, <1>4, <1>5, SeqEqual
<1>. QED
  BY <1>6 DEF q, r

\* A pop takes off the first item.
LEMMA ItemsOfPop ==
    ASSUME NEW v \in [Nodes -> Items \cup {Junk}], NEW s \in Seq(Nodes), s # <<>>
    PROVE  /\ ItemsOf(v, s) # <<>> /\ Head(ItemsOf(v, s)) = v[Head(s)]
           /\ ItemsOf(v, Tail(s)) = Tail(ItemsOf(v, s))
<1> DEFINE D == Items \cup {Junk}
           r == ItemsOf(v, s)
<1>1. /\ Len(s) \in Nat /\ Len(s) > 0 /\ Head(s) = s[1]
      /\ Tail(s) \in Seq(Nodes) /\ Len(Tail(s)) = Len(s) - 1
      /\ \A i \in 1 .. Len(Tail(s)) : Tail(s)[i] = s[i + 1]
  BY HeadTailProperties
<1>2. /\ r \in Seq(D) /\ Len(r) = Len(s)
      /\ \A i \in 1 .. Len(s) : r[i] = v[s[i]]
  BY DEF ItemsOf
<1>. HIDE DEF r
<1>3. r # <<>> /\ Head(r) = r[1]
  BY <1>1, <1>2
<1>4. /\ Tail(r) \in Seq(D) /\ Len(Tail(r)) = Len(s) - 1
      /\ \A i \in 1 .. Len(Tail(r)) : Tail(r)[i] = r[i + 1]
  BY <1>2, <1>3, HeadTailProperties
<1>5. /\ ItemsOf(v, Tail(s)) \in Seq(D) /\ Len(ItemsOf(v, Tail(s))) = Len(s) - 1
      /\ \A i \in 1 .. Len(s) - 1 : ItemsOf(v, Tail(s))[i] = v[Tail(s)[i]]
  <2> DEFINE q == Tail(s)
  <2>1. q \in Seq(Nodes) /\ Len(q) = Len(s) - 1
    BY <1>1
  <2>. HIDE DEF q
  <2>2. /\ ItemsOf(v, q) \in Seq(D) /\ Len(ItemsOf(v, q)) = Len(s) - 1
        /\ \A i \in 1 .. Len(s) - 1 : ItemsOf(v, q)[i] = v[q[i]]
    BY <2>1 DEF ItemsOf
  <2>. QED
    BY <2>2 DEF q
<1>6. \A i \in 1 .. Len(s) - 1 : ItemsOf(v, Tail(s))[i] = Tail(r)[i]
  <2> TAKE i \in 1 .. Len(s) - 1
  <2>1. i + 1 \in 1 .. Len(s) /\ i \in 1 .. Len(Tail(r)) /\ i \in 1 .. Len(Tail(s))
    BY <1>1, <1>4
  <2>. QED
    BY <1>1, <1>2, <1>4, <1>5, <2>1
<1>7. ItemsOf(v, Tail(s)) = Tail(r)
  BY <1>4, <1>5, <1>6, SeqEqual
<1>. QED
  BY <1>1, <1>2, <1>3, <1>7 DEF r

\* And what a push at the back makes of them.
LEMMA ItemsOfAppend ==
    ASSUME NEW v \in [Nodes -> Items \cup {Junk}], NEW s \in Seq(Nodes), NEW n \in Nodes
    PROVE  ItemsOf(v, Append(s, n)) = Append(ItemsOf(v, s), v[n])
<1> DEFINE D == Items \cup {Junk}
           q == Append(s, n)
           r == ItemsOf(v, s)
           a == Append(r, v[n])
<1>1. /\ q \in Seq(Nodes) /\ Len(q) = Len(s) + 1 /\ Len(s) \in Nat
      /\ \A i \in 1 .. Len(s) : q[i] = s[i]
      /\ q[Len(s) + 1] = n
  OBVIOUS
<1>2. r \in Seq(D) /\ Len(r) = Len(s) /\ \A i \in 1 .. Len(s) : r[i] = v[s[i]]
  BY DEF ItemsOf
<1>. HIDE DEF q, r
<1>3. /\ a \in Seq(D) /\ Len(a) = Len(s) + 1
      /\ \A i \in 1 .. Len(s) : a[i] = r[i]
      /\ a[Len(s) + 1] = v[n]
  BY <1>2
<1>4. /\ ItemsOf(v, q) \in Seq(D) /\ Len(ItemsOf(v, q)) = Len(s) + 1
      /\ \A i \in 1 .. Len(s) + 1 : ItemsOf(v, q)[i] = v[q[i]]
  BY <1>1 DEF ItemsOf
<1>. HIDE DEF a
<1>5. ASSUME NEW i \in 1 .. Len(s) + 1 PROVE ItemsOf(v, q)[i] = a[i]
  <2>1. CASE i = Len(s) + 1
    BY <1>1, <1>3, <1>4, <2>1
  <2>2. CASE i # Len(s) + 1
    <3>1. i \in 1 .. Len(s)
      BY <1>1, <2>2
    <3>. QED
      BY <1>1, <1>2, <1>3, <1>4, <3>1
  <2>. QED
    BY <2>1, <2>2
<1>6. ItemsOf(v, q) = a
  BY <1>3, <1>4, <1>5, SeqEqual
<1>. QED
  BY <1>6 DEF q, r, a

\* The step that leaves the call and the items as they are.
LEMMA Stutters ==
    ASSUME Content' = Content, CallsOf' = CallsOf, size' = size
    PROVE  UNCHANGED Permits!vars
BY DEF Permits!vars

\* Every step of jque is a step of the deque with permits or none.
LEMMA StepRefines ==
    ASSUME IInv, NEW t \in Threads, Acts(t)
    PROVE  Permits!Next \/ UNCHANGED Permits!vars
<1>0. TypeOK /\ Chained /\ Places /\ CallFits(t) /\ val \in [Nodes -> Items \cup {Junk}]
  BY DEF IInv, CallsFit, TypeOK
<1>1. \A x, y : Goto(t, x, y) => pc[t] = x /\ pc'[t] = y
  BY <1>0, Goes
<1>2. CallsOf' = [CallsOf EXCEPT ![t] = CallsOf'[t]]
  <2>1. \A u \in Threads \ {t} : CallsOf'[u] = CallsOf[u]
    BY OthersFit
  <2>2. CallsOf = [u \in Threads |-> CallsOf[u]] /\ CallsOf' = [u \in Threads |-> CallsOf'[u]]
    BY DEF CallsOf
  <2>. HIDE DEF CallsOf
  <2>. QED
    BY <2>1, <2>2
<1>3. Content = ItemsOf(val, List) /\ Content' = ItemsOf(val', List')
  BY DEF Content, ItemsOf
<1>4. /\ List \in Seq(Nodes) /\ tail \in Nodes
      /\ \A i \in DOMAIN List : List[i] \in Listed
      /\ \A n \in Listed : val'[n] = val[n]
  <2>1. List \in Seq(Nodes) /\ tail \in Nodes /\ \A i \in DOMAIN List : List[i] \in Listed
    BY <1>0, ListLinks DEF Chained, Listed
  <2>2. \A n \in Listed : n \in nodes /\ n # tail /\ n \notin Private(t)
    BY <1>0, InUse DEF Places
  <2>. QED
    BY <1>0, <2>1, <2>2, WritesOwn
<1>5. ASSUME pc[t] \notin {"b_tail", "f_head", "o_head"}
      PROVE  Content' = Content
  <2>1. ~ (BackTail(t) \/ FrontHead(t) \/ PopHead(t))
    BY <1>1, <1>5 DEF BackTail, FrontHead, PopHead
  <2>2. List' = List
    BY <2>1, Effect, StepList
  <2>. QED
    BY <1>3, <1>4, <2>2 DEF ItemsOf
<1>6. ASSUME CallsOf'[t] = CallsOf[t] PROVE CallsOf' = CallsOf
  <2>1. CallsOf = [CallsOf EXCEPT ![t] = CallsOf[t]]
    BY DEF CallsOf
  <2>. QED
    BY <1>2, <1>6, <2>1
<1>7. \A op, c : CallsOf[t].op = op /\ CallsOf'[t] = c => Permits!Becomes(t, op, c)
  BY <1>2 DEF Permits!Becomes
<1>8. \A op : Permits!At(op) = [op |-> op, item |-> NoItem]
  BY DEF Permits!At
<1>9. Permits!Idle = [op |-> "idle", item |-> NoItem]
  BY DEF Permits!Idle, Permits!At
<1>. HIDE DEF CallsOf, Content
<1>10. CASE \E n \in Nodes, d \in Items : PushBackCall(t, n, d) \/ PushFrontCall(t, n, d)
  <2>1. PICK n \in Nodes, d \in Items : PushBackCall(t, n, d) \/ PushFrontCall(t, n, d)
    BY <1>10
  <2>2. /\ pc[t] = "idle" /\ item'[t] = d /\ size' = size
        /\ pc'[t] \in {"b_lock", "f_lock"}
    BY <1>0, <1>1, <2>1 DEF PushBackCall, PushFrontCall, TypeOK
  <2>3. PICK op \in Permits!Pushes : CallsOf'[t] = [op |-> op, item |-> d]
    BY <2>2, CallNext DEF Permits!Pushes
  <2>4. CallsOf[t] = [op |-> "idle", item |-> NoItem]
    BY <2>2, CallAt
  <2>5. Content' = Content
    BY <1>5, <2>2
  <2>6. Permits!Becomes(t, "idle", [op |-> op, item |-> d])
    BY <1>7, <2>3, <2>4
  <2>7. Permits!Push(t, op, d)
    BY <2>2, <2>3, <2>5, <2>6 DEF Permits!Push
  <2>. QED
    BY <2>7 DEF Permits!Next
<1>11. CASE PopCall(t)
  <2>1. pc[t] = "idle" /\ pc'[t] = "o_take" /\ size' = size
    BY <1>1, <1>11 DEF PopCall
  <2>2. CallsOf'[t] = [op |-> "pop_front", item |-> NoItem]
    BY <2>1, CallNext
  <2>3. CallsOf[t] = [op |-> "idle", item |-> NoItem]
    BY <2>1, CallAt
  <2>4. Content' = Content
    BY <1>5, <2>1
  <2>5. Permits!Becomes(t, "idle", Permits!At("pop_front"))
    BY <1>7, <1>8, <2>2, <2>3
  <2>6. Permits!Pop(t)
    BY <2>1, <2>4, <2>5 DEF Permits!Pop
  <2>. QED
    BY <2>6 DEF Permits!Next
<1>12. CASE BackTail(t)
  <2>1. LinksBack(t) /\ size' = size
    BY <1>12, Effect DEF BackTail
  <2>2. CallsOf[t] = [op |-> "push_back", item |-> item[t]]
    BY <2>1, CallAt DEF LinksBack
  <2>3. CallsOf'[t] = [op |-> "linked", item |-> NoItem]
    BY <2>1, CallNext DEF LinksBack
  <2>4. Content' = Append(Content, item[t])
    <3>1. List' = Append(List, tail) /\ val' = val /\ val[tail] = item[t]
      BY <2>1, StepList DEF LinksBack
    <3>2. ItemsOf(val, Append(List, tail)) = Append(ItemsOf(val, List), val[tail])
      BY <1>0, <1>4, ItemsOfAppend
    <3>. QED
      BY <1>3, <3>1, <3>2
  <2>5. Permits!Becomes(t, "push_back", Permits!At("linked"))
    BY <1>7, <1>8, <2>2, <2>3
  <2>6. Permits!LinkBack(t)
    BY <2>1, <2>2, <2>4, <2>5 DEF Permits!LinkBack
  <2>. QED
    BY <2>6 DEF Permits!Next, Permits!Step
<1>13. CASE FrontHead(t)
  <2>1. LinksFront(t) /\ size' = size
    BY <1>13, Effect DEF FrontHead
  <2>2. CallsOf[t] = [op |-> "push_front", item |-> item[t]]
    BY <2>1, CallAt DEF LinksFront
  <2>3. CallsOf'[t] = [op |-> "linked", item |-> NoItem]
    BY <2>1, CallNext DEF LinksFront
  <2>4. Content' = <<item[t]>> \o Content
    <3>1. List' = <<ptr[t]>> \o List /\ val' = val /\ val[ptr[t]] = item[t]
      BY <2>1, StepList DEF LinksFront
    <3>2. ptr[t] \in Nodes
      BY <1>0, <2>1, InUse DEF LinksFront
    <3>3. ItemsOf(val, <<ptr[t]>> \o List) = <<val[ptr[t]]>> \o ItemsOf(val, List)
      BY <1>0, <1>4, <3>2, ItemsOfPush
    <3>. QED
      BY <1>3, <3>1, <3>3
  <2>5. Permits!Becomes(t, "push_front", Permits!At("linked"))
    BY <1>7, <1>8, <2>2, <2>3
  <2>6. Permits!LinkFront(t)
    BY <2>1, <2>2, <2>4, <2>5 DEF Permits!LinkFront
  <2>. QED
    BY <2>6 DEF Permits!Next, Permits!Step
<1>14. CASE PushCount(t)
  <2>1. pc[t] = "count" /\ pc'[t] = "idle" /\ size' = size + 1
    BY <1>1, <1>14 DEF PushCount
  <2>2. CallsOf[t] = [op |-> "linked", item |-> NoItem]
    BY <2>1, CallAt
  <2>3. CallsOf'[t] = [op |-> "idle", item |-> NoItem]
    BY <2>1, CallNext
  <2>4. Content' = Content
    BY <1>5, <2>1
  <2>5. Permits!Becomes(t, "linked", Permits!Idle)
    BY <1>7, <1>9, <2>2, <2>3
  <2>6. Permits!Count(t)
    BY <2>1, <2>4, <2>5 DEF Permits!Count
  <2>. QED
    BY <2>6 DEF Permits!Next, Permits!Step
<1>15. CASE PopTake(t)
  <2>1. /\ pc[t] = "o_take" /\ size' = size - 1
        /\ pc'[t] = IF size <= 0 THEN "o_undo" ELSE "o_lock"
    BY <1>1, <1>15 DEF PopTake
  <2>2. CallsOf[t] = [op |-> "pop_front", item |-> NoItem]
    BY <2>1, CallAt
  <2>3. CallsOf'[t] = [op |-> IF size <= 0 THEN "refused" ELSE "entitled", item |-> NoItem]
    <3>1. CASE size <= 0
      BY <2>1, <3>1, CallNext
    <3>2. CASE ~ size <= 0
      BY <2>1, <3>2, CallNext
    <3>. QED
      BY <3>1, <3>2
  <2>4. Content' = Content
    BY <1>5, <2>1
  <2>5. Permits!Becomes(t, "pop_front", Permits!At(IF size <= 0 THEN "refused" ELSE "entitled"))
    BY <1>7, <1>8, <2>2, <2>3
  <2>6. Permits!Take(t)
    BY <2>1, <2>4, <2>5 DEF Permits!Take
  <2>. QED
    BY <2>6 DEF Permits!Next, Permits!Step
<1>16. CASE PopUndo(t)
  <2>1. pc[t] = "o_undo" /\ pc'[t] = "idle" /\ size' = size + 1
    BY <1>1, <1>16 DEF PopUndo
  <2>2. CallsOf[t] = [op |-> "refused", item |-> NoItem]
    BY <2>1, CallAt
  <2>3. CallsOf'[t] = [op |-> "idle", item |-> NoItem]
    BY <2>1, CallNext
  <2>4. Content' = Content
    BY <1>5, <2>1
  <2>5. Permits!Becomes(t, "refused", Permits!Idle)
    BY <1>7, <1>9, <2>2, <2>3
  <2>6. Permits!Undo(t)
    BY <2>1, <2>4, <2>5 DEF Permits!Undo
  <2>. QED
    BY <2>6 DEF Permits!Next, Permits!Step
<1>17. CASE PopHead(t)
  <2>1. Unlinks(t) /\ size' = size
    BY <1>17, Effect DEF PopHead
  <2>2. CallsOf[t] = [op |-> "entitled", item |-> NoItem]
    BY <2>1, CallAt DEF Unlinks
  <2>3. CallsOf'[t] = [op |-> "done", item |-> val[head]]
    BY <2>1, CallNext DEF Unlinks
  <2>4. Content' = Tail(Content) /\ Head(Content) = val[head]
    <3>1. List' = Tail(List) /\ val' = val
      BY <2>1, StepList DEF Unlinks
    <3>2. List # <<>> /\ Head(List) = head
      BY <1>0, <2>1, ListPop DEF Chained, Unlinks
    <3>3. /\ ItemsOf(val, Tail(List)) = Tail(ItemsOf(val, List))
          /\ Head(ItemsOf(val, List)) = val[Head(List)]
      BY <1>0, <1>4, <3>2, ItemsOfPop
    <3>. QED
      BY <1>3, <3>1, <3>2, <3>3
  <2>5. Permits!Becomes(t, "entitled", [op |-> "done", item |-> Head(Content)])
    BY <1>7, <2>2, <2>3, <2>4
  <2>6. Permits!Remove(t)
    BY <2>1, <2>4, <2>5 DEF Permits!Remove
  <2>. QED
    BY <2>6 DEF Permits!Next, Permits!Step
<1>18. CASE PopFree(t)
  <2>1. pc[t] = "o_free" /\ pc'[t] = "idle" /\ size' = size
    BY <1>1, <1>18 DEF PopFree
  <2>2. CallsOf[t] = [op |-> "done", item |-> item[t]]
    BY <2>1, CallAt
  <2>3. CallsOf'[t] = [op |-> "idle", item |-> NoItem]
    BY <2>1, CallNext
  <2>4. Content' = Content
    BY <1>5, <2>1
  <2>5. Permits!Becomes(t, "done", Permits!Idle)
    BY <1>7, <1>9, <2>2, <2>3
  <2>6. Permits!Return(t)
    BY <2>1, <2>4, <2>5 DEF Permits!Return
  <2>. QED
    BY <2>6 DEF Permits!Next, Permits!Step
<1>19. CASE BackLock(t) \/ BackVal(t) \/ BackNext(t) \/ FrontLock(t) \/ FrontNext(t)
  <2>1. /\ size' = size /\ item'[t] = item[t]
        /\ \/ /\ pc[t] \in {"b_lock", "b_val", "b_next"} /\ pc'[t] \in {"b_val", "b_next", "b_tail"}
           \/ /\ pc[t] \in {"f_lock", "f_next"} /\ pc'[t] \in {"f_next", "f_head"}
    BY <1>1, <1>19 DEF BackLock, BackVal, BackNext, FrontLock, FrontNext, local
  <2>2. CallsOf'[t] = CallsOf[t]
    BY <2>1, CallAt, CallNext
  <2>3. Content' = Content
    BY <1>5, <2>1
  <2>. QED
    BY <1>6, <2>1, <2>2, <2>3, Stutters
<1>20. CASE BackUnlock(t) \/ FrontUnlock(t) \/ PopLock(t) \/ PopRead(t)
  <2>1. /\ size' = size
        /\ \/ pc[t] \in {"b_unlock", "f_unlock"} /\ pc'[t] = "count"
           \/ pc[t] \in {"o_lock", "o_read"} /\ pc'[t] \in {"o_read", "o_head"}
    BY <1>1, <1>20 DEF BackUnlock, FrontUnlock, PopLock, PopRead
  <2>2. CallsOf'[t] = CallsOf[t]
    BY <2>1, CallAt, CallNext
  <2>3. Content' = Content
    BY <1>5, <2>1
  <2>. QED
    BY <1>6, <2>1, <2>2, <2>3, Stutters
<1>21. CASE PopUnlock(t) \/ PopVal(t)
  <2>1. /\ size' = size /\ val' = val /\ ptr'[t] = ptr[t]
        /\ \/ pc[t] = "o_unlock" /\ pc'[t] = "o_val"
           \/ pc[t] = "o_val" /\ pc'[t] = "o_free"
    BY <1>1, <1>21 DEF PopUnlock, PopVal, list, local
  <2>2. pc'[t] = "o_free" => item'[t] = val'[ptr'[t]]
    <3>1. CallFits(t)'
      BY OwnFits
    <3>. QED
      BY <3>1 DEF CallFits
  <2>3. CallsOf'[t] = CallsOf[t]
    <3>1. CallsOf[t] = [op |-> "done", item |-> val[ptr[t]]]
      BY <2>1, CallAt
    <3>2. CASE pc'[t] = "o_val"
      BY <2>1, <3>1, <3>2, CallNext
    <3>3. CASE pc'[t] = "o_free"
      <4>1. CallsOf'[t] = [op |-> "done", item |-> item'[t]]
        BY <3>3, CallNext
      <4>. QED
        BY <2>1, <2>2, <3>1, <3>3, <4>1
    <3>. QED
      BY <2>1, <3>2, <3>3
  <2>4. Content' = Content
    BY <1>5, <2>1
  <2>. QED
    BY <1>6, <2>1, <2>3, <2>4, Stutters
<1>. QED
  BY <1>10, <1>11, <1>12, <1>13, <1>14, <1>15, <1>16, <1>17, <1>18, <1>19, <1>20, <1>21
     DEF Acts, Call, Step

\* So what is proved of the deque with permits holds of jque.
LEMMA StepPermits ==
    ASSUME P!IInv, Permits!Next \/ UNCHANGED Permits!vars
    PROVE  P!IInv'
<1>1. P!IsFiniteSet(Threads)
  BY NamesAssumption DEF IsFiniteSet, P!IsFiniteSet
<1>2. P!Next \/ UNCHANGED P!vars
  <2>1. CASE \E t \in Threads : Permits!Step(t)
    <3>1. PICK t \in Threads : Permits!Step(t)
      BY <2>1
    <3>2. P!Step(t)
      BY <3>1 DEF Permits!Step, Permits!LinkBack, Permits!LinkFront, Permits!Count, Permits!Take,
         Permits!Undo, Permits!Remove, Permits!Return, Permits!Becomes, Permits!At, Permits!Idle,
         P!Step, P!LinkBack, P!LinkFront, P!Count, P!Take, P!Undo, P!Remove, P!Return,
         P!Becomes, P!At, P!Idle
    <3>. QED
      BY <3>2 DEF P!Next
  <2>2. CASE \E t \in Threads : Permits!Pop(t)
    <3>1. PICK t \in Threads : Permits!Pop(t)
      BY <2>2
    <3>2. P!Pop(t)
      BY <3>1 DEF Permits!Pop, Permits!Becomes, Permits!At, P!Pop, P!Becomes, P!At
    <3>. QED
      BY <3>2 DEF P!Next
  <2>3. CASE \E t \in Threads : \E d \in Items, op \in Permits!Pushes : Permits!Push(t, op, d)
    <3>1. PICK t \in Threads, d \in Items, op \in Permits!Pushes : Permits!Push(t, op, d)
      BY <2>3
    <3>2. P!Push(t, op, d) /\ op \in P!Pushes
      BY <3>1 DEF Permits!Push, Permits!Becomes, Permits!Pushes, P!Push, P!Becomes, P!Pushes
    <3>. QED
      BY <3>2 DEF P!Next
  <2>4. CASE UNCHANGED Permits!vars
    BY <2>4 DEF Permits!vars, P!vars
  <2>. QED
    BY <2>1, <2>2, <2>3, <2>4 DEF Permits!Next
<1>. QED
  BY <1>1, <1>2, P!StepIInv

\* The types.
LEMMA StepType ==
    ASSUME IInv, NEW t \in Threads, Acts(t)
    PROVE  TypeOK'
<1>0. TypeOK /\ Chained /\ Places /\ CallFits(t) /\ ItemsKept
  BY DEF IInv, CallsFit
<1>1. \A x, y : Goto(t, x, y) => pc[t] = x /\ pc'[t] = y
  BY <1>0, Goes
<1>2. head' \in nodes' /\ tail' \in nodes'
  <2>1. IsList(head', tail', next', List') /\ Listed' = Members(List')
    BY StepList DEF Chained, Listed, Members
  <2>2. head' \in Members(List') \cup {tail'}
    BY <2>1, ListLinks
  <2>3. {tail'} \cup Listed' \subseteq nodes'
    BY StepPlaces DEF Places
  <2>. QED
    BY <2>1, <2>2, <2>3
<1>3. next' \in [Nodes -> Nodes \cup {Null, Junk}]
  <2>1. \A m, x : x \in Nodes \cup {Null, Junk} =>
                      [next EXCEPT ![m] = x] \in [Nodes -> Nodes \cup {Null, Junk}]
    BY <1>0 DEF TypeOK
  <2>2. CASE BackNext(t)
    <3>1. pc[t] = "b_next"
      BY <1>1, <2>2 DEF BackNext
    <3>2. Private(t) = {ptr[t]}
      BY <3>1, PrivateAt
    <3>3. ptr[t] \in Nodes
      BY <1>0, <3>2, InUse
    <3>. QED
      BY <2>1, <2>2, <3>3 DEF BackNext
  <2>3. CASE FrontNext(t) \/ PopFree(t)
    BY <1>0, <2>1, <2>3 DEF FrontNext, PopFree, TypeOK
  <2>4. CASE Call(t)
    BY <1>0, <2>1, <2>4 DEF Call, PopCall, PushBackCall, PushFrontCall, list, TypeOK
  <2>5. CASE Step(t) /\ ~ (BackNext(t) \/ FrontNext(t) \/ PopFree(t))
    <3>1. next' = next
      BY <2>5 DEF Step, BackLock, BackVal, BackTail, BackUnlock, FrontLock, FrontHead, FrontUnlock,
         PushCount, PopTake, PopUndo, PopLock, PopRead, PopHead, PopUnlock, PopVal, list
    <3>. QED
      BY <1>0, <3>1 DEF TypeOK
  <2>. QED
    BY <2>2, <2>3, <2>4, <2>5 DEF Acts
<1>4. val' \in [Nodes -> Items \cup {Junk}]
  <2>1. \A m, x : x \in Items \cup {Junk} =>
                      [val EXCEPT ![m] = x] \in [Nodes -> Items \cup {Junk}]
    BY <1>0 DEF TypeOK
  <2>2. CASE BackVal(t)
    <3>1. pc[t] = "b_val"
      BY <1>1, <2>2 DEF BackVal
    <3>2. item[t] \in Items
      BY <1>0, <3>1 DEF CallFits
    <3>. QED
      BY <2>1, <2>2, <3>2 DEF BackVal
  <2>3. CASE PopFree(t)
    BY <2>1, <2>3 DEF PopFree
  <2>4. CASE Call(t)
    BY <1>0, <2>1, <2>4 DEF Call, PopCall, PushBackCall, PushFrontCall, list, TypeOK
  <2>5. CASE Step(t) /\ ~ (BackVal(t) \/ PopFree(t))
    <3>1. val' = val
      BY <2>5 DEF Step, BackLock, BackNext, BackTail, BackUnlock, FrontLock, FrontNext, FrontHead,
         FrontUnlock, PushCount, PopTake, PopUndo, PopLock, PopRead, PopHead, PopUnlock, PopVal, list
    <3>. QED
      BY <1>0, <3>1 DEF TypeOK
  <2>. QED
    BY <2>2, <2>3, <2>4, <2>5 DEF Acts
<1>5. size' \in Int
  BY <1>0 DEF Acts, Call, Step, PopCall, PushBackCall, PushFrontCall, BackLock, BackVal, BackNext,
     BackTail, BackUnlock, FrontLock, FrontNext, FrontHead, FrontUnlock, PushCount, PopTake,
     PopUndo, PopLock, PopRead, PopHead, PopUnlock, PopVal, PopFree, TypeOK
<1>6. nodes' \subseteq Nodes
  BY <1>0, Effect DEF Stays, Gets, LinksBack, LinksFront, Unlinks, Frees, TypeOK
<1>7. item' \in [Threads -> Items \cup {NoItem}]
  <2>1. \A x : x \in Items \cup {NoItem} => [item EXCEPT ![t] = x] \in [Threads -> Items \cup {NoItem}]
    BY <1>0 DEF TypeOK
  <2>2. CASE PopVal(t)
    <3>1. pc[t] = "o_val"
      BY <1>1, <2>2 DEF PopVal
    <3>2. PrivateItem(t) = {val[ptr[t]]}
      BY <3>1, PrivateItemAt
    <3>3. val[ptr[t]] \in Items
      BY <1>0, <3>2 DEF ItemsKept
    <3>. QED
      BY <2>1, <2>2, <3>3 DEF PopVal
  <2>3. CASE PushCount(t) \/ PopFree(t)
    BY <2>1, <2>3 DEF PushCount, PopFree
  <2>4. CASE Call(t)
    BY <1>0, <2>1, <2>4 DEF Call, PopCall, PushBackCall, PushFrontCall, local, TypeOK
  <2>5. CASE Step(t) /\ ~ (PopVal(t) \/ PushCount(t) \/ PopFree(t))
    <3>1. item' = item
      BY <2>5 DEF Step, BackLock, BackVal, BackNext, BackTail, BackUnlock, FrontLock, FrontNext,
         FrontHead, FrontUnlock, PopTake, PopUndo, PopLock, PopRead, PopHead, PopUnlock, local
    <3>. QED
      BY <1>0, <3>1 DEF TypeOK
  <2>. QED
    BY <2>2, <2>3, <2>4, <2>5 DEF Acts
<1>. QED
  BY <1>0, <1>2, <1>3, <1>4, <1>5, <1>6, <1>7, StepLocked, StepItems, OthersStay DEF TypeOK

\* The return of a data block touches the callers' items only.
LEMMA StepReturn ==
    ASSUME IInv, NEW d \in Items, ReturnData(d)
    PROVE  IInv' /\ UNCHANGED Permits!vars
<1>0. TypeOK /\ Chained /\ Places /\ Locked /\ CallsFit /\ ItemsKept /\ P!IInv
  BY DEF IInv
<1>1. /\ d \in held /\ held' = held \ {d} /\ blocks' = blocks \ {d}
      /\ UNCHANGED <<head, tail, next, val, muh, mut, size, nodes, pc, ptr, item>>
  BY DEF ReturnData, DataAlloc!Deallocate, list, locks, local
<1>2. TypeOK'
  BY <1>0, <1>1 DEF TypeOK
<1>3. List' = List
  <2>1. (\A s : IsList(head, tail, next, s) => List = s)'
    BY ListIs, PTL
  <2>. QED
    BY <1>0, <1>1, <2>1 DEF Chained
<1>4. Listed' = Listed /\ Content' = Content
  BY <1>1, <1>3 DEF Listed, Content
<1>5. \A t : Private(t)' = Private(t) /\ PrivateItem(t)' = PrivateItem(t)
  BY <1>1 DEF Private, PrivateItem
<1>6. Chained' /\ Places'
  BY <1>0, <1>1, <1>3, <1>4, <1>5 DEF Chained, Places, Owned
<1>7. Locked' /\ CallsFit'
  BY <1>0, <1>1 DEF Locked, CallsFit, CallFits
<1>8. CallsOf' = CallsOf
  BY <1>1 DEF CallsOf, ItemOf
<1>9. UNCHANGED Permits!vars
  BY <1>1, <1>4, <1>8, Stutters
<1>10. P!IInv'
  BY <1>0, <1>9, StepPermits
<1>11. ItemsKept'
  <2>1. ListedItems' = ListedItems
    BY <1>1, <1>4 DEF ListedItems
  <2>2. d \notin ListedItems /\ \A t \in Threads : d \notin PrivateItem(t)
    BY <1>0, <1>1 DEF ItemsKept, ListedItems
  <2>3. UNION {PrivateItem(t)' : t \in Threads} = UNION {PrivateItem(t) : t \in Threads}
    BY <1>5
  <2>4. blocks' = held' \cup ListedItems' \cup UNION {PrivateItem(t)' : t \in Threads}
    BY <1>0, <1>1, <2>1, <2>2, <2>3 DEF ItemsKept
  <2>5. \A t \in Threads : PrivateItem(t)' \subseteq Items \ (held' \cup ListedItems')
    BY <1>0, <1>1, <1>5, <2>1 DEF ItemsKept
  <2>6. \A n \in Listed' : val'[n] \in Items \ held'
    BY <1>0, <1>1, <1>4 DEF ItemsKept
  <2>7. \A t, u \in Threads : t # u => PrivateItem(t)' \cap PrivateItem(u)' = {}
    BY <1>0, <1>5 DEF ItemsKept
  <2>. QED
    BY <1>0, <1>1, <1>4, <2>4, <2>5, <2>6, <2>7 DEF ItemsKept
<1>. QED
  BY <1>2, <1>6, <1>7, <1>9, <1>10, <1>11 DEF IInv

\* The invariant holds of the empty deque.
LEMMA InitIInv == Init => IInv /\ Permits!Init
<1> SUFFICES ASSUME Init PROVE IInv /\ Permits!Init
  OBVIOUS
<1>1. TypeOK
  BY DEF Init, TypeOK, Labels
<1>2. IsList(head, tail, next, <<>>)
  BY DEF Init, IsList
<1>3. List = <<>>
  BY <1>2, ListIs
<1>4. Chained /\ Listed = {} /\ Content = <<>>
  BY <1>2, <1>3 DEF Chained, Listed, Content
<1>5. \A t \in Threads : Private(t) = {} /\ PrivateItem(t) = {}
  BY DEF Init, Private, PrivateItem
<1>6. Places
  BY <1>4, <1>5 DEF Places, Owned, Init
<1>7. Locked
  BY NamesAssumption DEF Locked, Backs, Fronts, Init
<1>8. CallsFit
  BY DEF CallsFit, CallFits, Init
<1>9. ItemsKept
  BY <1>4, <1>5 DEF ItemsKept, ListedItems, Init
<1>10. CallsOf = [t \in Threads |-> [op |-> "idle", item |-> NoItem]]
  <2>1. \A t \in Threads : OpOf(pc[t]) = "idle" /\ ItemOf(t) = NoItem
    BY DEF Init, OpOf, ItemOf
  <2>. QED
    BY <2>1 DEF CallsOf
<1>11. Permits!Init
  BY <1>4, <1>10 DEF Permits!Init, Permits!Idle, Permits!At, Init
<1>12. P!Init
  BY <1>4, <1>10 DEF P!Init, P!Idle, P!At, Init
<1>13. P!IInv
  BY <1>12, P!InitIInv
<1>. QED
  BY <1>1, <1>4, <1>6, <1>7, <1>8, <1>9, <1>11, <1>13 DEF IInv

\* Every step keeps the invariant, and is one of the deque with permits.
LEMMA StepIInv == IInv /\ [Next]_vars => IInv' /\ (Permits!Next \/ UNCHANGED Permits!vars)
<1> SUFFICES ASSUME IInv, [Next]_vars
             PROVE  IInv' /\ (Permits!Next \/ UNCHANGED Permits!vars)
  OBVIOUS
<1>1. ASSUME NEW t \in Threads, Acts(t)
      PROVE  IInv' /\ (Permits!Next \/ UNCHANGED Permits!vars)
  <2>1. Permits!Next \/ UNCHANGED Permits!vars
    BY <1>1, StepRefines
  <2>2. P!IInv'
    BY <2>1, StepPermits DEF IInv
  <2>3. CallsFit'
    BY <1>1, OthersFit, OwnFits DEF CallsFit
  <2>4. TypeOK' /\ Chained' /\ Places' /\ Locked' /\ ItemsKept'
    BY <1>1, StepType, StepList, StepPlaces, StepLocked, StepItems
  <2>. QED
    BY <2>1, <2>2, <2>3, <2>4 DEF IInv
<1>2. CASE \E d \in Items : ReturnData(d)
  BY <1>2, StepReturn
<1>3. CASE UNCHANGED vars
  <2>1. UNCHANGED <<head, tail, next, val, muh, mut, size, nodes, blocks, held, pc, ptr, item>>
    BY <1>3 DEF vars, list, locks, memory, local
  <2>2. List' = List
    <3>1. (\A s : IsList(head, tail, next, s) => List = s)'
      BY ListIs, PTL
    <3>. QED
      BY <2>1, <3>1 DEF IInv, Chained
  <2>3. /\ Listed' = Listed /\ Content' = Content
        /\ \A t : Private(t)' = Private(t) /\ PrivateItem(t)' = PrivateItem(t)
    BY <2>1, <2>2 DEF Listed, Content, Private, PrivateItem
  <2>4. CallsOf' = CallsOf
    BY <2>1 DEF CallsOf, ItemOf
  <2>5. UNCHANGED Permits!vars
    BY <2>1, <2>3, <2>4, Stutters
  <2>6. P!IInv'
    BY <2>5, StepPermits DEF IInv
  <2>7. TypeOK' /\ Chained' /\ Places' /\ Locked' /\ CallsFit'
    BY <2>1, <2>2, <2>3 DEF IInv, TypeOK, Chained, Places, Owned, Locked, CallsFit, CallFits
  <2>8. ItemsKept'
    BY <2>1, <2>3 DEF IInv, ItemsKept, ListedItems
  <2>. QED
    BY <2>5, <2>6, <2>7, <2>8 DEF IInv
<1>. QED
  BY <1>1, <1>2, <1>3 DEF Next, Acts

\* The invariant of jque.
THEOREM Sound == Spec => []IInv
BY InitIInv, StepIInv, PTL DEF Spec

\* jque is the deque with permits: every push and pop takes effect at one moment of
\* its call, under one of the two mutexes, and _size is the count of permits.
THEOREM Refinement == Spec => ImplementsPermitDeque
<1>1. Init => Permits!Init
  BY InitIInv
<1>2. IInv /\ [Next]_vars => [Permits!Next]_(Permits!vars)
  BY StepIInv
<1>. QED
  BY Sound, <1>1, <1>2, PTL DEF Spec, ImplementsPermitDeque, Permits!Spec

\* The node that a pop works on is never the empty one that a push at the back fills.
THEOREM NeverMeet == Spec => []EndsApart
<1>1. IInv => EndsApart
  <2> SUFFICES ASSUME IInv, NEW t \in At({"o_head", "o_unlock", "o_val", "o_free"})
               PROVE  ptr[t] # tail
    BY DEF EndsApart
  <2>0. t \in Threads /\ pc[t] \in {"o_head", "o_unlock", "o_val", "o_free"}
    BY DEF At
  <2>1. CASE pc[t] = "o_head"
    BY <2>0, <2>1, EntitledFinds DEF IInv, CallsFit, CallFits
  <2>2. CASE pc[t] # "o_head"
    <3>1. Private(t) = {ptr[t]}
      BY <2>0, <2>2, PrivateAt
    <3>. QED
      BY <2>0, <3>1, InUse DEF IInv
  <2>. QED
    BY <2>1, <2>2
<1>. QED
  BY Sound, <1>1, PTL

\* A set has as many elements as there are in its image, if no two share a value.
LEMMA OneEach ==
    ASSUME NEW S, IsFiniteSet(S), NEW f, \A x, y \in S : f[x] = f[y] => x = y
    PROVE  LET image == {f[x] : x \in S}
           IN  IsFiniteSet(image) /\ Cardinality(image) = Cardinality(S)
<1> DEFINE T == {f[x] : x \in S}
           g == [x \in S |-> f[x]]
<1>1. g \in Bijection(S, T)
  BY DEF Bijection, Injection, Surjection, IsInjective
<1>. HIDE DEF g, T
<1>2. IsFiniteSet(T) /\ Cardinality(T) = Cardinality(S)
  BY <1>1, FS_Bijection DEF ExistsBijection
<1>. QED
  BY <1>2 DEF T

\* The nodes on the list are as many as the list is long.
LEMMA ListCounted ==
    ASSUME Chained
    PROVE  IsFiniteSet(Listed) /\ Cardinality(Listed) = Len(List) /\ Len(List) \in Nat
<1>1. Len(List) \in Nat /\ DOMAIN List = 1 .. Len(List)
  BY ListLinks DEF Chained
<1>2. IsFiniteSet(1 .. Len(List)) /\ Cardinality(1 .. Len(List)) = Len(List)
  <2>1. \A n \in Nat : IsFiniteSet(1 .. n) /\ Cardinality(1 .. n) = n
    BY FS_Interval
  <2>. QED
    BY <1>1, <2>1
<1>3. \A i, j \in 1 .. Len(List) : List[i] = List[j] => i = j
  BY <1>1 DEF Chained, IsList
<1>4. Listed = {List[i] : i \in 1 .. Len(List)}
  BY <1>1 DEF Listed
<1>. QED
  BY <1>1, <1>2, <1>3, <1>4, OneEach

\* Beside the tail and the list, the nodes in use are as many as the calls that
\* have one.
LEMMA NodesCounted ==
    ASSUME IInv
    PROVE  Cardinality(nodes) = 1 + Len(List) + Cardinality(Privates)
<1>0. TypeOK /\ Chained /\ Places /\ IsList(head, tail, next, List)
  BY DEF IInv, Chained
<1>1. IsFiniteSet(Listed) /\ Cardinality(Listed) = Len(List) /\ Len(List) \in Nat
  BY <1>0, ListCounted
<1>2. IsFiniteSet(Privates) /\ Privates \subseteq Threads
  BY NamesAssumption, FS_Subset DEF Privates
<1>3. \A t \in Privates : t \in Threads /\ Private(t) = {ptr[t]}
  BY PrivateAt DEF Privates
<1>4. Owned = {ptr[t] : t \in Privates}
  <2>1. \A t \in Threads : t \notin Privates => Private(t) = {}
    BY DEF Privates
  <2>. QED
    BY <1>2, <1>3, <2>1 DEF Owned
<1>5. \A t, u \in Privates : ptr[t] = ptr[u] => t = u
  BY <1>0, <1>3 DEF Places
<1>6. IsFiniteSet(Owned) /\ Cardinality(Owned) = Cardinality(Privates)
  BY <1>2, <1>4, <1>5, OneEach
<1>7. Listed \cap Owned = {} /\ tail \notin Owned
  BY <1>0 DEF Places, Owned
<1>8. tail \notin Listed
  <2>1. Listed = Members(List)
    BY DEF Listed, Members
  <2>. QED
    BY <1>0, <2>1, ListLinks
<1> DEFINE U == Listed \cup Owned
<1>9. IsFiniteSet(U) /\ Cardinality(U) = Len(List) + Cardinality(Privates) - Cardinality({})
  BY <1>1, <1>6, <1>7, FS_Union
<1>10. nodes = U \cup {tail} /\ tail \notin U
  BY <1>0, <1>7, <1>8 DEF Places
<1>. HIDE DEF U
<1>11. Cardinality(nodes) = Cardinality(U) + 1
  BY <1>9, <1>10, FS_AddElement
<1>12. Cardinality({}) = 0 /\ Cardinality(Privates) \in Nat
  BY <1>2, FS_EmptySet, FS_CardinalityType
<1>. QED
  BY <1>1, <1>9, <1>11, <1>12

\* Beside those with callers, the items in use are one of each node on the list and
\* one of each call that has a node.
LEMMA BlocksCounted ==
    ASSUME IInv
    PROVE  Cardinality(blocks) = Cardinality(held) + Len(List) + Cardinality(Privates)
<1>0. TypeOK /\ Chained /\ ItemsKept
  BY DEF IInv
<1>1. IsFiniteSet(Listed) /\ Cardinality(Listed) = Len(List) /\ Len(List) \in Nat
  BY <1>0, ListCounted
<1>2. IsFiniteSet(Privates) /\ Privates \subseteq Threads
  BY NamesAssumption, FS_Subset DEF Privates
<1>3. IsFiniteSet(held)
  BY <1>0, NamesAssumption, FS_Subset DEF TypeOK
<1>4. IsFiniteSet(ListedItems) /\ Cardinality(ListedItems) = Len(List)
  <2>1. \A m, n \in Listed : val[m] = val[n] => m = n
    BY <1>0 DEF ItemsKept
  <2>. QED
    BY <1>1, <2>1, OneEach DEF ListedItems
<1> DEFINE f == [t \in Privates |-> IF pc[t] \in {"o_unlock", "o_val"} THEN val[ptr[t]] ELSE item[t]]
           Q == UNION {PrivateItem(t) : t \in Threads}
<1>5. \A t \in Privates : t \in Threads /\ PrivateItem(t) = {f[t]}
  BY PrivateAt, PrivateItemAt DEF Privates
<1>6. \A t \in Threads : t \notin Privates => PrivateItem(t) = {}
  BY PrivateAt, PrivateItemAt DEF Privates
<1>. HIDE DEF f
<1>7. Q = {f[t] : t \in Privates}
  BY <1>2, <1>5, <1>6
<1>8. \A t, u \in Privates : f[t] = f[u] => t = u
  BY <1>0, <1>5 DEF ItemsKept
<1>9. IsFiniteSet(Q) /\ Cardinality(Q) = Cardinality(Privates)
  BY <1>2, <1>7, <1>8, OneEach
<1>10. blocks = (held \cup ListedItems) \cup Q
  BY <1>0 DEF ItemsKept
<1>11. held \cap ListedItems = {} /\ (held \cup ListedItems) \cap Q = {}
  BY <1>0 DEF ItemsKept, ListedItems
<1>. HIDE DEF Q
<1> DEFINE U == held \cup ListedItems
<1>12. IsFiniteSet(U) /\ Cardinality(U) = Cardinality(held) + Len(List) - Cardinality({})
  BY <1>3, <1>4, <1>11, FS_Union
<1>13. blocks = U \cup Q /\ U \cap Q = {}
  BY <1>10, <1>11
<1>. HIDE DEF U
<1>14. Cardinality(blocks) = Cardinality(U) + Cardinality(Q) - Cardinality({})
  BY <1>9, <1>12, <1>13, FS_Union
<1>15. /\ Cardinality({}) = 0 /\ Cardinality(Privates) \in Nat /\ Cardinality(held) \in Nat
       /\ Cardinality(U) \in Nat
  BY <1>2, <1>3, <1>12, FS_EmptySet, FS_CardinalityType
<1>. QED
  BY <1>1, <1>9, <1>12, <1>14, <1>15

\* Nothing leaks and nothing is in two places, whatever the threads do between the
\* two critical sections.
THEOREM Conserved == Spec => []Conservation
<1>1. IInv => Conservation
  <2> SUFFICES ASSUME IInv PROVE Conservation
    OBVIOUS
  <2>1. TypeOK /\ Places /\ ItemsKept
    BY DEF IInv
  <2>. QED
    BY <2>1, NodesCounted, BlocksCounted DEF Places, Owned, ItemsKept, ListedItems, Conservation
<1>. QED
  BY Sound, <1>1, PTL

=============================================================================
