---------------------------- MODULE JQueueProofs ----------------------------
(***************************************************************************)
(* jqueue, from an empty deque whose node a push_back() has made: for any  *)
(* finite set of threads and any memory it is the deque with permits that  *)
(* jque is, and a deque whose pops may fail; when a pop has seen a value,  *)
(* the writes to its node are done; no node or item is lost or in two      *)
(* places.                                                                 *)
(***************************************************************************)
EXTENDS JQueue, FiniteSetTheorems, SequenceTheorems, WellFoundedInduction, TLAPS

(* The list as a sequence *)

\* s holds the nodes that the links in nx lead through from node h up to the
\* end e, which is not one of them, and no node twice.
IsList(h, e, nx, s) ==
    /\ s \in Seq(Nodes) /\ e \in Nodes
    /\ h = IF s = <<>> THEN e ELSE s[1]
    /\ \A i \in DOMAIN s : s[i] # e /\ nx[s[i]] = IF i = Len(s) THEN e ELSE s[i + 1]
    /\ \A i, j \in DOMAIN s : s[i] = s[j] => i = j

\* Every non-empty set of natural numbers has a least element.
LEMMA Least ==
    ASSUME NEW T \in SUBSET Nat, T # {}
    PROVE  \E x \in T : \A y \in T : x <= y
<1> DEFINE R == OpToRel(<, Nat)
<1>1. IsWellFoundedOn(R, Nat)
  BY NatLessThanWellFounded
<1>2. \A x, y \in Nat : <<x, y>> \in R <=> x < y
  BY DEF OpToRel
<1> HIDE DEF R
<1>3. PICK x \in T : \A y \in T : <<y, x>> \notin R
  BY <1>1, WFMin
<1>4. \A y \in T : x \in Nat /\ y \in Nat /\ ~(y < x)
  BY <1>2, <1>3
<1>. QED
  BY <1>3, <1>4

\* The set of numbers that a property holds for is all of them, if it holds for
\* 0 and for every number after one that it holds for.
LEMMA Induction ==
    ASSUME NEW N \in Nat, NEW P \in SUBSET (0 .. N), 0 \in P,
           \A k \in P : k < N => k + 1 \in P
    PROVE  P = 0 .. N
<1> SUFFICES ASSUME (0 .. N) \ P # {} PROVE FALSE
  OBVIOUS
<1>1. (0 .. N) \ P \in SUBSET Nat
  OBVIOUS
<1>2. PICK k \in (0 .. N) \ P : \A j \in (0 .. N) \ P : k <= j
  BY <1>1, Least
<1>3. k # 0 /\ k - 1 \in 0 .. N /\ k - 1 < N
  OBVIOUS
<1>4. k - 1 \in P
  BY <1>2, <1>3
<1>5. (k - 1) + 1 \in P
  BY <1>3, <1>4
<1>. QED
  BY <1>2, <1>5

\* The links and the values as they will be when every push_back has filled its node.
Links == [n \in Nodes |-> FinalNext(n)]
Values == [n \in Nodes |-> FinalVal(n)]

\* From is the function that its recursive definition says it is.
Ends == Nodes \cup {Null, Junk}
Longer(f, k) ==
    [n \in Ends |-> IF k = 0 \/ n \notin Nodes \ {tail} THEN <<>> ELSE <<n>> \o f[k - 1][FinalNext(n)]]
FromEquation(N, f) == f = [k \in 0 .. N |-> Longer(f, k)]

LEMMA FromExists ==
    ASSUME NEW N \in Nat
    PROVE  \E f : FromEquation(N, f)
<1> DEFINE P == {k \in 0 .. N : \E f : FromEquation(k, f)}
<1>1. 0 \in P
  <2> DEFINE f == [k \in 0 .. 0 |-> [n \in Ends |-> <<>>]]
  <2>1. \A k \in 0 .. 0 : Longer(f, k) = [n \in Ends |-> <<>>]
    BY DEF Longer
  <2>2. FromEquation(0, f)
    BY <2>1 DEF FromEquation
  <2>. QED
    BY <2>2
<1>2. ASSUME NEW k \in P, k < N PROVE k + 1 \in P
  <2>1. PICK f : FromEquation(k, f)
    OBVIOUS
  <2> DEFINE g == [i \in 0 .. k + 1 |-> Longer(f, i)]
  <2>2. \A i \in 0 .. k : g[i] = f[i]
    BY <2>1 DEF FromEquation
  <2>3. ASSUME NEW i \in 0 .. k + 1 PROVE Longer(g, i) = Longer(f, i)
    <3>1. CASE i = 0
      BY <3>1 DEF Longer
    <3>2. CASE i # 0
      <4>1. g[i - 1] = f[i - 1]
        BY <2>2, <3>2
      <4>. HIDE DEF g
      <4>. QED
        BY <4>1 DEF Longer
    <3>. QED
      BY <3>1, <3>2
  <2>4. [i \in 0 .. k + 1 |-> Longer(g, i)] = [i \in 0 .. k + 1 |-> Longer(f, i)]
    BY <2>3
  <2>5. FromEquation(k + 1, g)
    BY <2>4 DEF FromEquation
  <2>6. k + 1 \in 0 .. N
    BY <1>2
  <2>. HIDE DEF g
  <2>. QED
    BY <2>5, <2>6
<1>. HIDE DEF P
<1>3. P \in SUBSET (0 .. N)
  BY DEF P
<1>4. P = 0 .. N
  BY <1>1, <1>2, <1>3, Induction
<1>. QED
  BY <1>4 DEF P

LEMMA FromUnfolds ==
    \A k \in 0 .. Cardinality(Nodes), n \in Ends :
        From[k][n] = IF k = 0 \/ n \notin Nodes \ {tail} THEN <<>> ELSE <<n>> \o From[k - 1][FinalNext(n)]
<1>1. Cardinality(Nodes) \in Nat
  BY NamesAssumption, FS_CardinalityType
<1>2. From = CHOOSE f : FromEquation(Cardinality(Nodes), f)
  BY DEF From, FromEquation, Longer, Ends
<1>3. FromEquation(Cardinality(Nodes), From)
  BY <1>1, <1>2, FromExists
<1>4. \A k \in 0 .. Cardinality(Nodes) : From[k] = Longer(From, k)
  BY <1>3 DEF FromEquation
<1>. QED
  BY <1>4 DEF Longer

\* No sequence without repetition is longer than there are nodes.
LEMMA ListFits ==
    ASSUME NEW h, NEW e, NEW nx, NEW s, IsList(h, e, nx, s)
    PROVE  Len(s) <= Cardinality(Nodes)
<1>1. s \in [1 .. Len(s) -> Nodes] /\ Len(s) \in Nat
  BY DEF IsList
<1>2. s \in Injection(1 .. Len(s), Nodes)
  BY <1>1 DEF IsList, Injection, IsInjective
<1>3. Cardinality(1 .. Len(s)) = Len(s) /\ IsFiniteSet(Nodes)
  <2>1. \A n \in Nat : Cardinality(1 .. n) = n
    BY FS_Interval
  <2>. QED
    BY <1>1, <2>1, NamesAssumption
<1>. QED
  BY <1>2, <1>3, NamesAssumption, FS_Injection

\* The list that the model computes by following the links is the one that the
\* links describe.
LEMMA ListIs == \A s : IsList(head, tail, Links, s) => List = s
<1> SUFFICES ASSUME NEW s, IsList(head, tail, Links, s) PROVE List = s
  OBVIOUS
<1> DEFINE N == Cardinality(Nodes)
           L == Len(s)
           Rest(i) == SubSeq(s, i, L)
           P == {k \in 0 .. N : \A i \in 1 .. L + 1 :
                     L + 1 - i <= k => /\ i <= L => From[k][s[i]] = Rest(i)
                                       /\ From[k][tail] = <<>>}
<1>0. /\ N \in Nat /\ L \in Nat /\ L <= N /\ s \in Seq(Nodes)
      /\ tail \in Nodes /\ tail \in Ends /\ tail \notin Nodes \ {tail}
  <2>1. L <= N
    BY ListFits
  <2>2. N \in Nat
    BY NamesAssumption, FS_CardinalityType
  <2>3. s \in Seq(Nodes) /\ tail \in Nodes
    BY DEF IsList
  <2>. QED
    BY <2>1, <2>2, <2>3 DEF Ends
<1>1. \A k \in 0 .. N : From[k][tail] = <<>>
  BY <1>0, FromUnfolds
<1>2. \A i \in 1 .. L : s[i] \in Nodes \ {tail} /\ s[i] \in Ends
  BY <1>0 DEF Ends, IsList
<1>3. \A i \in 1 .. L : FinalNext(s[i]) = IF i = L THEN tail ELSE s[i + 1]
  <2>1. \A i \in 1 .. L : Links[s[i]] = IF i = L THEN tail ELSE s[i + 1]
    BY <1>0 DEF IsList
  <2>2. \A n \in Nodes : Links[n] = FinalNext(n)
    BY DEF Links
  <2>. QED
    BY <1>2, <2>1, <2>2
<1>4. 0 \in P
  BY <1>0, <1>1
<1>5. ASSUME NEW k \in P, k < N PROVE k + 1 \in P
  <2>1. k + 1 \in 0 .. N /\ k \in 0 .. N /\ (k + 1) - 1 = k /\ k + 1 # 0
    BY <1>0, <1>5
  <2>2. ASSUME NEW i \in 1 .. L, L + 1 - i <= k + 1
        PROVE  From[k + 1][s[i]] = Rest(i)
    <3>1. From[k + 1][s[i]] = <<s[i]>> \o From[k][FinalNext(s[i])]
      <4>1. s[i] \in Ends /\ ~ (k + 1 = 0 \/ s[i] \notin Nodes \ {tail})
        BY <1>2, <2>1
      <4>2. From[k + 1][s[i]] = <<s[i]>> \o From[(k + 1) - 1][FinalNext(s[i])]
        BY <2>1, <4>1, FromUnfolds
      <4>. QED
        BY <2>1, <4>2
    <3>2. From[k][FinalNext(s[i])] = Rest(i + 1)
      <4>1. CASE i = L
        <5>1. From[k][FinalNext(s[i])] = <<>>
          BY <1>1, <1>3, <2>1, <4>1
        <5>2. Rest(i + 1) = <<>>
          BY <1>0, <4>1, SubSeqEmpty
        <5>. QED
          BY <5>1, <5>2
      <4>2. CASE i # L
        <5>1. i + 1 \in 1 .. L /\ L + 1 - (i + 1) <= k
          BY <1>0, <2>2, <4>2
        <5>2. From[k][s[i + 1]] = Rest(i + 1)
          BY <5>1, <1>0
        <5>. QED
          BY <1>3, <4>2, <5>2
      <4>. QED
        BY <4>1, <4>2
    <3>3. Rest(i) = <<s[i]>> \o Rest(i + 1)
      BY <1>0, SubSeqRecursiveFirst
    <3>. QED
      BY <3>1, <3>2, <3>3
  <2>. QED
    BY <1>1, <2>1, <2>2
<1>. HIDE DEF P
<1>6. P \in SUBSET (0 .. N)
  BY DEF P
<1>7. N \in P
  BY <1>0, <1>4, <1>5, <1>6, Induction
<1>8. CASE s = <<>>
  BY <1>0, <1>1, <1>8 DEF List, IsList
<1>9. CASE s # <<>>
  <2>1. 1 \in 1 .. L /\ L + 1 - 1 <= N /\ head = s[1]
    BY <1>0, <1>9 DEF IsList
  <2>2. From[N][s[1]] = Rest(1)
    BY <1>7, <1>0, <2>1 DEF P
  <2>3. Rest(1) = s
    BY <1>0, SubSeqFull
  <2>. QED
    BY <2>1, <2>2, <2>3 DEF List
<1>. QED
  BY <1>8, <1>9

Members(s) == {s[i] : i \in DOMAIN s}

\* A list stays one as long as the links of its nodes stay.
LEMMA ListFrame ==
    ASSUME NEW h, NEW e, NEW nx, NEW ny, NEW s, IsList(h, e, nx, s), \A n \in Members(s) : ny[n] = nx[n]
    PROVE  IsList(h, e, ny, s)
BY DEF IsList, Members

\* A node linked to the head makes a list with the list it is put before.
LEMMA ListPush ==
    ASSUME NEW h, NEW e, NEW nx, NEW s, IsList(h, e, nx, s),
           NEW n \in Nodes, n \notin Members(s), n # e, nx[n] = h
    PROVE  /\ IsList(n, e, nx, <<n>> \o s)
           /\ Len(<<n>> \o s) = Len(s) + 1
           /\ Members(<<n>> \o s) = Members(s) \cup {n}
<1> DEFINE q == <<n>> \o s
<1>0. s \in Seq(Nodes) /\ <<n>> \in Seq(Nodes) /\ Len(<<n>>) = 1 /\ <<n>>[1] = n
      /\ Len(s) \in Nat /\ DOMAIN s = 1 .. Len(s)
  BY DEF IsList
<1>1. /\ q \in Seq(Nodes) /\ Len(q) = Len(s) + 1 /\ DOMAIN q = 1 .. Len(s) + 1
      /\ \A i \in 1 .. Len(s) + 1 : q[i] = IF i <= 1 THEN <<n>>[i] ELSE s[i - 1]
  <2>1. /\ q \in Seq(Nodes) /\ Len(q) = 1 + Len(s)
        /\ \A i \in 1 .. 1 + Len(s) : q[i] = IF i <= 1 THEN <<n>>[i] ELSE s[i - 1]
    BY <1>0, ConcatProperties
  <2>2. 1 + Len(s) = Len(s) + 1
    BY <1>0
  <2>. QED
    BY <2>1, <2>2
<1>. HIDE DEF q
<1>2. q[1] = n /\ \A i \in 1 .. Len(s) : q[i + 1] = s[i]
  BY <1>0, <1>1
<1>3. \A i \in DOMAIN q : i = 1 \/ (i # 1 /\ i - 1 \in DOMAIN s /\ q[i] = s[i - 1])
  BY <1>0, <1>1
<1>4. ASSUME NEW i \in DOMAIN q
      PROVE  q[i] # e /\ nx[q[i]] = IF i = Len(q) THEN e ELSE q[i + 1]
  <2>1. CASE i = 1
    <3>1. CASE s = <<>>
      <4>1. h = e /\ Len(s) = 0
        BY <3>1 DEF IsList
      <4>. QED
        BY <1>1, <1>2, <2>1, <4>1
    <3>2. CASE s # <<>>
      <4>1. h = s[1] /\ Len(s) > 0
        BY <1>0, <3>2 DEF IsList
      <4>. QED
        BY <1>0, <1>1, <1>2, <2>1, <4>1
    <3>. QED
      BY <3>1, <3>2
  <2>2. CASE i # 1
    <3>1. i - 1 \in DOMAIN s /\ q[i] = s[i - 1]
      BY <1>3, <2>2
    <3>2. s[i - 1] # e /\ nx[s[i - 1]] = IF i - 1 = Len(s) THEN e ELSE s[(i - 1) + 1]
      BY <3>1 DEF IsList
    <3>3. i - 1 # Len(s) => q[i + 1] = s[(i - 1) + 1]
      BY <1>0, <1>1, <1>2, <3>1
    <3>. QED
      BY <1>0, <1>1, <3>1, <3>2, <3>3
  <2>. QED
    BY <2>1, <2>2
<1>5. ASSUME NEW i \in DOMAIN q, NEW j \in DOMAIN q, q[i] = q[j]
      PROVE  i = j
  <2>1. \A k \in DOMAIN s : s[k] # n
    BY DEF Members
  <2>2. \A k, l \in DOMAIN s : s[k] = s[l] => k = l
    BY DEF IsList
  <2>. QED
    BY <1>1, <1>2, <1>3, <1>5, <2>1, <2>2
<1>6. Members(q) = Members(s) \cup {n}
  <2>1. \A i \in DOMAIN s : i + 1 \in DOMAIN q /\ q[i + 1] = s[i]
    BY <1>0, <1>1, <1>2
  <2>2. 1 \in DOMAIN q
    BY <1>0, <1>1
  <2>. QED
    BY <1>2, <1>3, <2>1, <2>2 DEF Members
<1>7. n = IF q = <<>> THEN e ELSE q[1]
  BY <1>0, <1>1, <1>2
<1>8. IsList(n, e, nx, q)
  <2>1. e \in Nodes
    BY DEF IsList
  <2>. QED
    BY <2>1, <1>1, <1>4, <1>5, <1>7 DEF IsList
<1>. QED
  BY <1>1, <1>6, <1>8 DEF q

\* Without its head a list is the list from the second node on.
LEMMA ListPop ==
    ASSUME NEW h, NEW e, NEW nx, NEW s, IsList(h, e, nx, s), h # e
    PROVE  /\ s # <<>> /\ Head(s) = h /\ Len(s) > 0
           /\ IsList(nx[h], e, nx, Tail(s))
           /\ Len(Tail(s)) = Len(s) - 1
           /\ Members(s) = Members(Tail(s)) \cup {h} /\ h \notin Members(Tail(s))
<1> DEFINE q == Tail(s)
<1>0. /\ s \in Seq(Nodes) /\ s # <<>> /\ h = s[1] /\ Head(s) = h
      /\ Len(s) \in Nat /\ Len(s) > 0 /\ DOMAIN s = 1 .. Len(s)
  BY DEF IsList
<1>1. /\ q \in Seq(Nodes) /\ Len(q) = Len(s) - 1 /\ DOMAIN q = 1 .. Len(s) - 1
      /\ \A i \in 1 .. Len(s) - 1 : q[i] = s[i + 1]
  <2>1. /\ q \in Seq(Nodes) /\ Len(q) = Len(s) - 1
        /\ \A i \in 1 .. Len(q) : q[i] = s[i + 1]
    BY <1>0, HeadTailProperties
  <2>. QED
    BY <2>1
<1>. HIDE DEF q
<1>2. \A i \in DOMAIN q : i + 1 \in DOMAIN s /\ i + 1 # 1 /\ q[i] = s[i + 1]
  BY <1>0, <1>1
<1>3. \A i \in DOMAIN s : i # 1 => i - 1 \in DOMAIN q /\ q[i - 1] = s[i]
  BY <1>0, <1>1
<1>4. 1 \in DOMAIN s
  BY <1>0
<1>5. \A i \in DOMAIN s : s[i] # e /\ nx[s[i]] = IF i = Len(s) THEN e ELSE s[i + 1]
  BY DEF IsList
<1>6. \A k, l \in DOMAIN s : s[k] = s[l] => k = l
  BY DEF IsList
<1>7. nx[h] = IF q = <<>> THEN e ELSE q[1]
  <2>1. CASE Len(s) = 1
    <3>1. q = <<>>
      BY <1>1, <2>1
    <3>. QED
      BY <1>0, <1>4, <1>5, <2>1, <3>1
  <2>2. CASE Len(s) # 1
    <3>1. q # <<>> /\ 1 \in DOMAIN q
      BY <1>0, <1>1, <2>2
    <3>. QED
      BY <1>0, <1>2, <1>4, <1>5, <2>2, <3>1
  <2>. QED
    BY <2>1, <2>2
<1>8. ASSUME NEW i \in DOMAIN q PROVE q[i] # e /\ nx[q[i]] = IF i = Len(q) THEN e ELSE q[i + 1]
  <2>1. s[i + 1] # e /\ nx[s[i + 1]] = IF i + 1 = Len(s) THEN e ELSE s[(i + 1) + 1]
    BY <1>2, <1>5
  <2>2. i # Len(q) => i + 1 \in DOMAIN q
    BY <1>1
  <2>. QED
    BY <1>0, <1>1, <1>2, <2>1, <2>2
<1>9. \A i, j \in DOMAIN q : q[i] = q[j] => i = j
  <2> TAKE i, j \in DOMAIN q
  <2>1. q[i] = q[j] => i + 1 = j + 1
    BY <1>2, <1>6
  <2>. QED
    BY <1>1, <2>1
<1>10. Members(s) = Members(q) \cup {h}
  BY <1>0, <1>2, <1>3, <1>4 DEF Members
<1>11. h \notin Members(q)
  BY <1>0, <1>2, <1>4, <1>6 DEF Members
<1>12. IsList(nx[h], e, nx, q)
  <2>1. e \in Nodes
    BY DEF IsList
  <2>. QED
    BY <2>1, <1>1, <1>7, <1>8, <1>9 DEF IsList
<1>. QED
  BY <1>0, <1>1, <1>10, <1>11, <1>12 DEF q

\* An end linked to a new one becomes the last node of the list.
LEMMA ListAppend ==
    ASSUME NEW h, NEW e, NEW nx, NEW s, IsList(h, e, nx, s),
           NEW n \in Nodes, n \notin Members(s), n # e, nx[e] = n
    PROVE  /\ IsList(h, n, nx, Append(s, e))
           /\ Members(Append(s, e)) = Members(s) \cup {e} /\ e \notin Members(s)
<1> DEFINE q == Append(s, e)
<1>0. s \in Seq(Nodes) /\ e \in Nodes /\ Len(s) \in Nat /\ DOMAIN s = 1 .. Len(s)
  BY DEF IsList
<1>1. /\ q \in Seq(Nodes) /\ Len(q) = Len(s) + 1 /\ DOMAIN q = 1 .. Len(s) + 1
      /\ \A i \in 1 .. Len(s) : q[i] = s[i]
      /\ q[Len(s) + 1] = e
  BY <1>0
<1>. HIDE DEF q
<1>2. \A i \in DOMAIN q : (i \in DOMAIN s /\ q[i] = s[i]) \/ (i = Len(s) + 1 /\ q[i] = e)
  BY <1>0, <1>1
<1>3. /\ \A i \in DOMAIN s : s[i] # e /\ nx[s[i]] = IF i = Len(s) THEN e ELSE s[i + 1]
      /\ \A i, j \in DOMAIN s : s[i] = s[j] => i = j
  BY DEF IsList
<1>4. ASSUME NEW i \in DOMAIN q
      PROVE  q[i] # n /\ nx[q[i]] = IF i = Len(q) THEN n ELSE q[i + 1]
  <2>1. CASE i \in DOMAIN s
    <3>1. q[i] = s[i] /\ q[i] # n /\ i # Len(q)
      BY <1>0, <1>1, <2>1 DEF Members
    <3>2. nx[s[i]] = q[i + 1]
      BY <1>0, <1>1, <1>3, <2>1
    <3>. QED
      BY <3>1, <3>2
  <2>2. CASE i = Len(s) + 1
    BY <1>1, <2>2
  <2>. QED
    BY <1>2, <2>1, <2>2
<1>5. \A i, j \in DOMAIN q : q[i] = q[j] => i = j
  BY <1>2, <1>3
<1>6. h = IF q = <<>> THEN n ELSE q[1]
  <2>1. q # <<>>
    BY <1>0, <1>1
  <2>2. CASE s = <<>>
    <3>1. h = e /\ Len(s) = 0
      BY <2>2 DEF IsList
    <3>. QED
      BY <1>1, <2>1, <3>1
  <2>3. CASE s # <<>>
    <3>1. h = s[1] /\ 1 \in 1 .. Len(s)
      BY <1>0, <2>3 DEF IsList
    <3>. QED
      BY <1>1, <2>1, <3>1
  <2>. QED
    BY <2>2, <2>3
<1>7. IsList(h, n, nx, q)
  BY <1>1, <1>4, <1>5, <1>6 DEF IsList
<1>8. Members(q) = Members(s) \cup {e}
  <2>1. \A i \in DOMAIN s : i \in DOMAIN q /\ q[i] = s[i]
    BY <1>0, <1>1
  <2>2. Len(s) + 1 \in DOMAIN q /\ q[Len(s) + 1] = e
    BY <1>0, <1>1
  <2>. QED
    BY <1>2, <2>1, <2>2 DEF Members
<1>9. e \notin Members(s)
  BY <1>3 DEF Members
<1>. QED
  BY <1>7, <1>8, <1>9 DEF q

\* The links of a list's nodes lead to nodes of the list or to its end.
LEMMA ListLinks ==
    ASSUME NEW h, NEW e, NEW nx, NEW s, IsList(h, e, nx, s)
    PROVE  /\ Members(s) \subseteq Nodes /\ e \in Nodes \ Members(s) /\ h \in Members(s) \cup {e}
           /\ \A n \in Members(s) : nx[n] \in Members(s) \cup {e}
           /\ h = e <=> s = <<>>
           /\ Len(s) \in Nat /\ DOMAIN s = 1 .. Len(s) /\ s \in Seq(Nodes)
<1>1. s \in Seq(Nodes) /\ Len(s) \in Nat /\ DOMAIN s = 1 .. Len(s) /\ e \in Nodes
  BY DEF IsList
<1>2. \A i \in DOMAIN s : s[i] \in Nodes \ {e} /\ (i # Len(s) => i + 1 \in DOMAIN s)
  BY <1>1 DEF IsList
<1>3. s # <<>> => 1 \in DOMAIN s
  BY <1>1
<1>4. \A i \in DOMAIN s : nx[s[i]] = e \/ \E j \in DOMAIN s : nx[s[i]] = s[j]
  BY <1>2 DEF IsList
<1>5. h = IF s = <<>> THEN e ELSE s[1]
  BY DEF IsList
<1>. QED
  BY <1>1, <1>2, <1>3, <1>4, <1>5 DEF Members

\* The members of a sequence with one more at its end or at its front.
LEMMA MembersOfAppend ==
    ASSUME NEW s \in Seq(Nodes), NEW n
    PROVE  Members(Append(s, n)) = Members(s) \cup {n}
<1>1. /\ Len(s) \in Nat /\ DOMAIN s = 1 .. Len(s) /\ DOMAIN Append(s, n) = 1 .. Len(s) + 1
      /\ \A i \in 1 .. Len(s) : Append(s, n)[i] = s[i]
      /\ Append(s, n)[Len(s) + 1] = n
  OBVIOUS
<1> DEFINE q == Append(s, n)
<1>. HIDE DEF q
<1>2. /\ \A i \in DOMAIN s : i \in DOMAIN q /\ q[i] = s[i]
      /\ Len(s) + 1 \in DOMAIN q /\ q[Len(s) + 1] = n
      /\ \A i \in DOMAIN q : (i \in DOMAIN s /\ q[i] = s[i]) \/ q[i] = n
  BY <1>1 DEF q
<1>3. Members(q) = Members(s) \cup {n}
  BY <1>2 DEF Members
<1>. QED
  BY <1>3 DEF q

LEMMA MembersOfPush ==
    ASSUME NEW s \in Seq(Nodes), NEW n \in Nodes
    PROVE  Members(<<n>> \o s) = Members(s) \cup {n}
<1> DEFINE q == <<n>> \o s
<1>1. <<n>> \in Seq(Nodes) /\ Len(<<n>>) = 1 /\ <<n>>[1] = n /\ Len(s) \in Nat /\ DOMAIN s = 1 .. Len(s)
  OBVIOUS
<1>2. /\ q \in Seq(Nodes) /\ Len(q) = 1 + Len(s)
      /\ \A i \in 1 .. 1 + Len(s) : q[i] = IF i <= 1 THEN <<n>>[i] ELSE s[i - 1]
  BY <1>1, ConcatProperties
<1>. HIDE DEF q
<1>3. DOMAIN q = 1 .. 1 + Len(s)
  BY <1>2
<1>4. /\ \A i \in DOMAIN s : i + 1 \in DOMAIN q /\ q[i + 1] = s[i]
      /\ 1 \in DOMAIN q /\ q[1] = n
      /\ \A i \in DOMAIN q : (i - 1 \in DOMAIN s /\ q[i] = s[i - 1]) \/ q[i] = n
  BY <1>1, <1>2, <1>3
<1>5. Members(q) = Members(s) \cup {n}
  BY <1>4 DEF Members
<1>. QED
  BY <1>5 DEF q

-----------------------------------------------------------------------------
(* The inductive invariant *)

\* How far the call of thread t is on the deque with permits.
OpOf(label) ==
    CASE label \in {"b_load", "b_cas"} -> "push_back"
      [] label \in {"f_load", "f_cas"} -> "push_front"
      [] label \in {"b_next", "b_val", "count"} -> "linked"
      [] label = "o_take" -> "pop_front"
      [] label = "o_undo" -> "refused"
      [] label \in {"o_enter", "o_load", "o_test", "o_next", "o_cas"} -> "entitled"
      [] label \in {"o_read", "o_exit", "o_wait"} -> "done"
      [] OTHER -> "idle"

ItemOf(t) ==
    CASE pc[t] \in {"b_load", "b_cas", "f_load", "f_cas", "o_exit", "o_wait"} -> item[t]
      [] pc[t] = "o_read" -> val[old[t]]
      [] OTHER -> NoItem

Content == LET listed == List IN [i \in DOMAIN listed |-> FinalVal(listed[i])]
CallsOf == [t \in Threads |-> [op |-> OpOf(pc[t]), item |-> ItemOf(t)]]

P == INSTANCE PermitDequeProofs WITH content <- Content, call <- CallsOf

Chained == IsList(head, tail, Links, List)

\* A node in use is the tail, on the list or with one thread, and only one of these.
Owned == UNION {Private(t) : t \in Threads}

Places ==
    /\ nodes = {tail} \cup Listed \cup Owned
    /\ \A t \in Threads : Private(t) \cap ({tail} \cup Listed) = {}
    /\ \A t, u \in Threads : t # u => Private(t) \cap Private(u) = {}

\* A node that is still to be filled is on the list, has no value yet, and one
\* thread owes it; so it is when it becomes the tail and before.
Fills(t) ==
    /\ pc[t] \in {"b_next", "b_val"} =>
          old[t] \in Listed /\ item[t] \in Items /\ val[old[t]] = NoItem
    /\ pc[t] = "b_val" => next[old[t]] = new[t]
    /\ pc[t] \in {"b_load", "b_cas"} => val[new[t]] = NoItem
    /\ pc[t] \in {"f_load", "f_cas"} => val[new[t]] = item[t]

Single == \A t, u \in Threads : \A n : Owes(t, n) /\ Owes(u, n) => t = u

Filling == val[tail] = NoItem /\ Single /\ \A t \in Threads : Fills(t)

\* Where head_thread counts a pop, and the nodes taken off the list that are not
\* freed yet.
Loop == {"o_load", "o_test", "o_next", "o_cas", "o_read", "o_exit"}
Popped == {old[t] : t \in At({"o_read", "o_exit", "o_wait"})}

\* What a pop has seen in its loop is on the list or taken off it by another pop
\* that has not freed it; it is filled, and its link has not changed since.
Snapshots ==
    /\ \A n \in Popped : next[n] \in Nodes /\ val[n] \in Items
    /\ \A t \in At({"o_test", "o_next", "o_cas"}) : old[t] \in Listed \cup Popped
    /\ \A t \in At({"o_next", "o_cas"}) : val[old[t]] \in Items
    /\ \A t \in At({"o_cas"}) : nxt[t] = next[old[t]]

Counted == head_thread = Cardinality(At(Loop))

\* Each node on the list has or will have an item of its own, and so has each
\* running call that has one; callers hold none of these.
ListedItems == {FinalVal(n) : n \in Listed}

ItemsKept ==
    /\ \A n \in Listed : FinalVal(n) \in Items \ held
    /\ \A m, n \in Listed : FinalVal(m) = FinalVal(n) => m = n
    /\ \A t \in Threads : PrivateItem(t) \subseteq Items \ (held \cup ListedItems)
    /\ \A t, u \in Threads : t # u => PrivateItem(t) \cap PrivateItem(u) = {}
    /\ blocks = held \cup ListedItems \cup UNION {PrivateItem(t) : t \in Threads}

\* P!IInv is what keeps pops off the tail: a pop that has its permit finds an item.
IInv == /\ TypeOK /\ Chained /\ Places /\ Filling
        /\ Snapshots /\ Counted /\ ItemsKept /\ P!IInv

-----------------------------------------------------------------------------
(* What a step of one thread leaves alone *)

Acts(t) == Call(t) \/ Step(t)

\* Where a step goes from and to.
LEMMA Goes ==
    ASSUME TypeOK, NEW t \in Threads
    PROVE  \A x, y : Goto(t, x, y) => pc[t] = x /\ pc'[t] = y /\ pc' = [pc EXCEPT ![t] = y]
BY DEF Goto, TypeOK

\* A step is one thread's: it changes that thread's part of the call only.
LEMMA OthersStay ==
    ASSUME TypeOK, NEW t \in Threads, Acts(t)
    PROVE  /\ pc' \in [Threads -> Labels]
           /\ new' \in [Threads -> Nodes \cup {Null}] /\ old' \in [Threads -> Nodes \cup {Null}]
           /\ \A u \in Threads \ {t} :
                  /\ pc'[u] = pc[u] /\ new'[u] = new[u] /\ old'[u] = old[u]
                  /\ nxt'[u] = nxt[u] /\ item'[u] = item[u]
                  /\ Private(u)' = Private(u)
                  /\ \A n : Owes(u, n)' <=> Owes(u, n)
<1>1. \E y \in Labels : pc' = [pc EXCEPT ![t] = y]
  <2>1. \A x, y : Goto(t, x, y) => pc' = [pc EXCEPT ![t] = y]
    BY DEF Goto
  <2>2. CASE Call(t)
    BY <2>1, <2>2 DEF Call, PopCall, PushBackCall, PushFrontCall, Labels
  <2>3. CASE BackLoad(t) \/ BackNext(t) \/ BackVal(t) \/ FrontLoad(t) \/ PushCount(t)
    BY <2>1, <2>3 DEF BackLoad, BackNext, BackVal, FrontLoad, PushCount, Labels
  <2>4. CASE BackCas(t) \/ PopCas(t) \/ PopTake(t)
    BY <2>1, <2>4 DEF BackCas, PopCas, PopTake, Labels
  <2>5. CASE FrontCas(t)
    <3>1. CASE pc' = pc
      <4>1. pc' = [pc EXCEPT ![t] = pc[t]] /\ pc[t] \in Labels
        BY <3>1 DEF TypeOK
      <4>. QED
        BY <4>1
    <3>2. CASE Goto(t, "f_cas", "count")
      BY <2>1, <3>2 DEF Labels
    <3>. QED
      BY <2>5, <3>1, <3>2 DEF FrontCas
  <2>6. CASE \/ PopUndo(t) \/ PopEnter(t) \/ PopLoad(t) \/ PopTest(t) \/ PopNext(t)
             \/ PopRead(t) \/ PopExit(t) \/ PopReturn(t)
    BY <2>1, <2>6 DEF PopUndo, PopEnter, PopLoad, PopTest, PopNext, PopRead, PopExit, PopReturn, Labels
  <2>. QED
    BY <2>2, <2>3, <2>4, <2>5, <2>6 DEF Acts, Step
<1>2. new' = new \/ \E n \in Nodes \cup {Null} : new' = [new EXCEPT ![t] = n]
  BY DEF Acts, Call, Step, PopCall, PushBackCall, PushFrontCall, BackLoad, BackCas, BackNext, BackVal,
     FrontLoad, FrontCas, PushCount, PopTake, PopUndo, PopEnter, PopLoad, PopTest, PopNext, PopCas,
     PopRead, PopExit, PopReturn, local, TypeOK
<1>3. old' = old \/ \E n \in Nodes \cup {Null} : old' = [old EXCEPT ![t] = n]
  BY DEF Acts, Call, Step, PopCall, PushBackCall, PushFrontCall, BackLoad, BackCas, BackNext, BackVal,
     FrontLoad, FrontCas, PushCount, PopTake, PopUndo, PopEnter, PopLoad, PopTest, PopNext, PopCas,
     PopRead, PopExit, PopReturn, local, TypeOK
<1>4. nxt' = nxt \/ \E x : nxt' = [nxt EXCEPT ![t] = x]
  BY DEF Acts, Call, Step, PopCall, PushBackCall, PushFrontCall, BackLoad, BackCas, BackNext, BackVal,
     FrontLoad, FrontCas, PushCount, PopTake, PopUndo, PopEnter, PopLoad, PopTest, PopNext, PopCas,
     PopRead, PopExit, PopReturn, local
<1>5. item' = item \/ \E x : item' = [item EXCEPT ![t] = x]
  BY DEF Acts, Call, Step, PopCall, PushBackCall, PushFrontCall, BackLoad, BackCas, BackNext, BackVal,
     FrontLoad, FrontCas, PushCount, PopTake, PopUndo, PopEnter, PopLoad, PopTest, PopNext, PopCas,
     PopRead, PopExit, PopReturn, local
<1>6. ASSUME NEW u \in Threads \ {t}
      PROVE  /\ pc'[u] = pc[u] /\ new'[u] = new[u] /\ old'[u] = old[u]
             /\ nxt'[u] = nxt[u] /\ item'[u] = item[u]
  BY <1>1, <1>2, <1>3, <1>4, <1>5 DEF TypeOK
<1>7. \A u \in Threads \ {t} : Private(u)' = Private(u)
  BY <1>6 DEF Private
<1>8. \A u \in Threads \ {t} : \A n : Owes(u, n)' <=> Owes(u, n)
  BY <1>6 DEF Owes
<1>9. pc' \in [Threads -> Labels]
  BY <1>1 DEF TypeOK
<1>10. new' \in [Threads -> Nodes \cup {Null}] /\ old' \in [Threads -> Nodes \cup {Null}]
  BY <1>2, <1>3 DEF TypeOK
<1>. QED
  BY <1>6, <1>7, <1>8, <1>9, <1>10

\* At these labels a thread has a node, at the others it has none.
LEMMA PrivateAt ==
    ASSUME NEW t
    PROVE  LET made == {"b_load", "b_cas", "f_load", "f_cas"}
               taken == {"o_read", "o_exit", "o_wait"}
           IN  /\ pc[t] \in made => Private(t) = {new[t]}
               /\ pc[t] \in taken => Private(t) = {old[t]}
               /\ pc[t] \notin made \cup taken => Private(t) = {}
               /\ pc'[t] \in made => Private(t)' = {new'[t]}
               /\ pc'[t] \in taken => Private(t)' = {old'[t]}
               /\ pc'[t] \notin made \cup taken => Private(t)' = {}
BY DEF Private

\* A thread writes to a node of its own, to one not in use, or to the one it owes.
LEMMA WritesOwn ==
    ASSUME TypeOK, NEW t \in Threads, Acts(t), NEW n \in nodes, n \notin Private(t), ~ Owes(t, n)
    PROVE  next'[n] = next[n] /\ val'[n] = val[n]
<1>1. n \in Nodes
  BY DEF TypeOK
<1>2. next \in [Nodes -> Nodes \cup {Null, Junk}] /\ val \in [Nodes -> Items \cup {NoItem, Raw, Junk}]
  BY DEF TypeOK
<1>3. CASE PopCall(t)
  BY <1>3 DEF PopCall, list
<1>4. CASE \E m \in Nodes, d \in Items : PushBackCall(t, m, d) \/ PushFrontCall(t, m, d)
  <2>1. PICK m \in Nodes, d \in Items : PushBackCall(t, m, d) \/ PushFrontCall(t, m, d)
    BY <1>4
  <2>2. m # n
    BY <2>1 DEF PushBackCall, PushFrontCall, NodeAlloc!Allocate
  <2>3. next' = next /\ \E x : val' = [val EXCEPT ![m] = x]
    BY <2>1 DEF PushBackCall, PushFrontCall
  <2>. QED
    BY <1>1, <1>2, <2>2, <2>3
<1>5. CASE BackVal(t) \/ BackNext(t)
  <2>1. pc[t] \in {"b_next", "b_val"}
    BY <1>5 DEF BackVal, BackNext, Goto
  <2>2. old[t] # n
    BY <2>1 DEF Owes
  <2>3. \/ val' = [val EXCEPT ![old[t]] = item[t]] /\ next' = next
        \/ next' = [next EXCEPT ![old[t]] = new[t]] /\ val' = val
    BY <1>5 DEF BackVal, BackNext
  <2>. QED
    BY <1>1, <1>2, <2>2, <2>3
<1>6. CASE FrontLoad(t) \/ FrontCas(t)
  <2>1. pc[t] \in {"f_load", "f_cas"}
    BY <1>6 DEF FrontLoad, FrontCas, Goto
  <2>2. n # new[t]
    BY <2>1, PrivateAt
  <2>3. val' = val /\ (next' = next \/ next' = [next EXCEPT ![new[t]] = head])
    BY <1>6 DEF FrontLoad, FrontCas
  <2>. QED
    BY <1>1, <1>2, <2>2, <2>3
<1>7. CASE PopReturn(t)
  <2>1. pc[t] = "o_wait"
    BY <1>7 DEF PopReturn, Goto
  <2>2. n # old[t]
    BY <2>1, PrivateAt
  <2>3. next' = [next EXCEPT ![old[t]] = Junk] /\ val' = [val EXCEPT ![old[t]] = Junk]
    BY <1>7 DEF PopReturn
  <2>. QED
    BY <1>1, <1>2, <2>2, <2>3
<1>8. CASE Step(t) /\ ~ (BackVal(t) \/ BackNext(t) \/ FrontLoad(t) \/ FrontCas(t) \/ PopReturn(t))
  BY <1>8 DEF Step, BackLoad, BackCas, PushCount, PopTake, PopUndo, PopEnter, PopLoad, PopTest,
     PopNext, PopCas, PopRead, PopExit, list
<1>. QED
  BY <1>3, <1>4, <1>5, <1>6, <1>7, <1>8 DEF Acts, Call

\* The fields of a node are as its owing push_back will make them, or as they are
\* when nobody owes it.
Finally ==
    \A n : /\ \A t \in Threads : Owes(t, n) => FinalNext(n) = new[t] /\ FinalVal(n) = item[t]
           /\ (\A t \in Threads : ~ Owes(t, n)) => FinalNext(n) = next[n] /\ FinalVal(n) = val[n]

LEMMA FinalAt == Single => Finally
<1> SUFFICES ASSUME Single, NEW n
             PROVE  /\ \A t \in Threads : Owes(t, n) => FinalNext(n) = new[t] /\ FinalVal(n) = item[t]
                    /\ (\A t \in Threads : ~ Owes(t, n)) => FinalNext(n) = next[n] /\ FinalVal(n) = val[n]
  BY DEF Finally
<1>1. ASSUME NEW t \in Threads, Owes(t, n)
      PROVE  FinalNext(n) = new[t] /\ FinalVal(n) = item[t]
  <2>1. Filler(n) \in Threads /\ Owes(Filler(n), n)
    BY <1>1 DEF Filler
  <2>2. Filler(n) = t
    BY <1>1, <2>1 DEF Single
  <2>. QED
    BY <1>1, <2>2 DEF FinalNext, FinalVal
<1>2. ASSUME \A t \in Threads : ~ Owes(t, n)
      PROVE  FinalNext(n) = next[n] /\ FinalVal(n) = val[n]
  BY <1>2 DEF FinalNext, FinalVal
<1>. QED
  BY <1>1, <1>2

\* Only the compare-and-swap of tail makes a thread owe a node, the old tail, and
\* only its write of the value frees it from that.
LEMMA OwesNext ==
    ASSUME TypeOK, NEW t \in Threads, Acts(t)
    PROVE  /\ pc'[t] = "b_next" /\ pc[t] = "b_cas" => \A n : Owes(t, n)' <=> n = old[t]
           /\ pc[t] = "b_val" => \A n : ~ Owes(t, n)'
           /\ pc[t] = "b_next" => \A n : Owes(t, n)' <=> Owes(t, n)
           /\ pc'[t] # "b_next" /\ pc[t] # "b_next" => \A n : ~ Owes(t, n)'
           /\ pc'[t] = "b_next" => pc[t] = "b_cas" /\ tail = old[t]
<1>1. \A x, y : Goto(t, x, y) => pc[t] = x /\ pc'[t] = y
  BY Goes
<1>2. pc[t] = "b_cas" => BackCas(t)
  BY DEF Acts, Call, Step, PopCall, PushBackCall, PushFrontCall, BackLoad, BackNext, BackVal,
     FrontLoad, FrontCas, PushCount, PopTake, PopUndo, PopEnter, PopLoad, PopTest, PopNext, PopCas,
     PopRead, PopExit, PopReturn, Goto
<1>3. pc[t] = "b_next" => BackNext(t)
  BY DEF Acts, Call, Step, PopCall, PushBackCall, PushFrontCall, BackLoad, BackCas, BackVal,
     FrontLoad, FrontCas, PushCount, PopTake, PopUndo, PopEnter, PopLoad, PopTest, PopNext, PopCas,
     PopRead, PopExit, PopReturn, Goto
<1>4. pc[t] = "b_val" => BackVal(t)
  BY DEF Acts, Call, Step, PopCall, PushBackCall, PushFrontCall, BackLoad, BackCas, BackNext,
     FrontLoad, FrontCas, PushCount, PopTake, PopUndo, PopEnter, PopLoad, PopTest, PopNext, PopCas,
     PopRead, PopExit, PopReturn, Goto
<1>5. pc[t] \notin {"b_cas", "b_next", "b_val"} => pc'[t] \notin {"b_next", "b_val"}
  <2>1. CASE BackCas(t) \/ BackNext(t) \/ BackVal(t)
    BY <1>1, <2>1 DEF BackCas, BackNext, BackVal
  <2>2. CASE PopTake(t) \/ PopCas(t)
    BY <1>1, <2>2 DEF PopTake, PopCas
  <2>3. CASE FrontCas(t)
    BY <1>1, <2>3 DEF FrontCas
  <2>4. CASE Call(t) \/ (Step(t) /\ ~ (BackCas(t) \/ BackNext(t) \/ BackVal(t) \/ PopTake(t)
                                       \/ PopCas(t) \/ FrontCas(t)))
    BY <1>1, <2>4 DEF Call, Step, PopCall, PushBackCall, PushFrontCall, BackLoad, FrontLoad, PushCount,
       PopUndo, PopEnter, PopLoad, PopTest, PopNext, PopRead, PopExit, PopReturn
  <2>. QED
    BY <2>1, <2>2, <2>3, <2>4 DEF Acts
<1>6. pc[t] = "b_cas" => \/ tail = old[t] /\ pc'[t] = "b_next" /\ old' = old
                         \/ pc'[t] = "b_cas"
  BY <1>1, <1>2 DEF BackCas
<1>7. pc[t] = "b_next" => pc'[t] = "b_val" /\ old' = old
  BY <1>1, <1>3 DEF BackNext, local
<1>8. pc[t] = "b_val" => pc'[t] = "count"
  BY <1>1, <1>4 DEF BackVal
<1>. QED
  BY <1>5, <1>6, <1>7, <1>8 DEF Owes

-----------------------------------------------------------------------------
(* How far a call is *)

\* What the call of thread t looks like.
LEMMA CallAt ==
    ASSUME NEW t \in Threads
    PROVE  LET at(op, it) == [op |-> op, item |-> it]
           IN  /\ pc[t] = "idle" => CallsOf[t] = at("idle", NoItem)
               /\ pc[t] \in {"b_load", "b_cas"} => CallsOf[t] = at("push_back", item[t])
               /\ pc[t] \in {"f_load", "f_cas"} => CallsOf[t] = at("push_front", item[t])
               /\ pc[t] \in {"b_next", "b_val", "count"} => CallsOf[t] = at("linked", NoItem)
               /\ pc[t] = "o_take" => CallsOf[t] = at("pop_front", NoItem)
               /\ pc[t] = "o_undo" => CallsOf[t] = at("refused", NoItem)
               /\ pc[t] \in {"o_enter", "o_load", "o_test", "o_next", "o_cas"} =>
                      CallsOf[t] = at("entitled", NoItem)
               /\ pc[t] = "o_read" => CallsOf[t] = at("done", val[old[t]])
               /\ pc[t] \in {"o_exit", "o_wait"} => CallsOf[t] = at("done", item[t])
BY DEF CallsOf, OpOf, ItemOf

\* What it looks like after a step.
LEMMA CallNext ==
    ASSUME NEW t \in Threads
    PROVE  LET at(op, it) == [op |-> op, item |-> it]
           IN  /\ pc'[t] = "idle" => CallsOf'[t] = at("idle", NoItem)
               /\ pc'[t] \in {"b_load", "b_cas"} => CallsOf'[t] = at("push_back", item'[t])
               /\ pc'[t] \in {"f_load", "f_cas"} => CallsOf'[t] = at("push_front", item'[t])
               /\ pc'[t] \in {"b_next", "b_val", "count"} => CallsOf'[t] = at("linked", NoItem)
               /\ pc'[t] = "o_take" => CallsOf'[t] = at("pop_front", NoItem)
               /\ pc'[t] = "o_undo" => CallsOf'[t] = at("refused", NoItem)
               /\ pc'[t] \in {"o_enter", "o_load", "o_test", "o_next", "o_cas"} =>
                      CallsOf'[t] = at("entitled", NoItem)
               /\ pc'[t] = "o_read" => CallsOf'[t] = at("done", val'[old'[t]])
               /\ pc'[t] \in {"o_exit", "o_wait"} => CallsOf'[t] = at("done", item'[t])
BY DEF CallsOf, OpOf, ItemOf

\* The items of a sequence of nodes.
ItemsOf(v, s) == [i \in DOMAIN s |-> v[s[i]]]

\* A pop that has its permit finds a node before the tail.
LEMMA EntitledFinds ==
    ASSUME IInv, NEW t \in Threads, pc[t] \in {"o_enter", "o_load", "o_test", "o_next", "o_cas"}
    PROVE  Content # <<>> /\ List # <<>> /\ head # tail
<1>1. CallsOf[t].op = "entitled" /\ P!IInv
  <2>1. CallsOf[t] = [op |-> "entitled", item |-> NoItem]
    BY CallAt
  <2>. QED
    BY <2>1 DEF IInv
<1>2. P!IsFiniteSet(Threads)
  BY NamesAssumption DEF IsFiniteSet, P!IsFiniteSet
<1>3. Content # <<>>
  BY <1>1, <1>2, P!EntitledFinds
<1>4. List = <<>> => Content = <<>>
  BY DEF Content
<1>5. head = tail => List = <<>>
  BY ListLinks DEF IInv, Chained
<1>. QED
  BY <1>3, <1>4, <1>5

\* The nodes in use.
LEMMA InUse ==
    ASSUME TypeOK, Chained, Places
    PROVE  /\ Listed = Members(List) /\ Listed \subseteq nodes /\ tail \notin Listed
           /\ tail \in nodes /\ nodes \subseteq Nodes
           /\ head \in Listed \cup {tail}
           /\ \A n \in Listed : Links[n] \in Listed \cup {tail}
           /\ \A t \in Threads : /\ Private(t) \subseteq nodes /\ tail \notin Private(t)
                                 /\ Private(t) \cap Listed = {}
           /\ Popped \subseteq Owned
<1>1. Listed = Members(List)
  BY DEF Listed, Members
<1>2. /\ tail \notin Members(List) /\ head \in Members(List) \cup {tail}
      /\ \A n \in Members(List) : Links[n] \in Members(List) \cup {tail}
  BY ListLinks DEF Chained
<1>3. \A t \in Threads : /\ Private(t) \subseteq nodes /\ tail \notin Private(t)
                         /\ Private(t) \cap Listed = {}
  BY DEF Places, Owned
<1>4. Popped \subseteq Owned
  BY PrivateAt DEF Popped, At, Owned
<1>. QED
  BY <1>1, <1>2, <1>3, <1>4 DEF Places, TypeOK

\* A node that is owed is on the list and has no value: neither the tail, nor a
\* node with a value, nor one that a call has to itself.
LEMMA NotOwed ==
    ASSUME IInv, NEW n, \/ n \notin Listed
                        \/ n = tail
                        \/ val[n] # NoItem
                        \/ \E t \in Threads : n \in Private(t)
    PROVE  /\ \A t \in Threads : ~ Owes(t, n)
           /\ FinalNext(n) = next[n] /\ FinalVal(n) = val[n]
<1>1. \A t \in Threads : ~ Owes(t, n)
  <2> SUFFICES ASSUME NEW t \in Threads, Owes(t, n) PROVE FALSE
    OBVIOUS
  <2>1. n \in Listed /\ val[n] = NoItem
    BY DEF IInv, Filling, Fills, Owes
  <2>2. n # tail /\ \A u \in Threads : n \notin Private(u)
    BY <2>1, InUse DEF IInv
  <2>. QED
    BY <2>1, <2>2
<1>. QED
  BY <1>1, FinalAt DEF Finally, IInv, Filling

\* What a pop may read without its node changing under it: a node on the list or
\* taken off it, with a value in it.
LEMMA Readable ==
    ASSUME IInv, NEW n \in Listed \cup Popped, val[n] \in Items
    PROVE  /\ next[n] \in Nodes /\ n \in nodes
           /\ \A t \in Threads : ~ Owes(t, n)
           /\ FinalNext(n) = next[n] /\ FinalVal(n) = val[n]
<1>0. TypeOK /\ Chained /\ Places /\ Snapshots
  BY DEF IInv
<1>1. val[n] # NoItem
  BY NamesAssumption
<1>2. n \in nodes
  BY <1>0, InUse DEF Places
<1>3. n \in Nodes
  BY <1>0, <1>2, InUse
<1>4. /\ \A t \in Threads : ~ Owes(t, n)
      /\ FinalNext(n) = next[n] /\ FinalVal(n) = val[n]
  BY <1>1, NotOwed
<1>5. next[n] \in Nodes
  <2>1. CASE n \in Popped
    BY <1>0, <2>1 DEF Snapshots
  <2>2. CASE n \in Listed
    <3>1. Links[n] \in Nodes
      BY <1>0, <2>2, InUse
    <3>2. Links[n] = FinalNext(n)
      BY <1>3 DEF Links
    <3>. QED
      BY <1>4, <3>1, <3>2
  <2>. QED
    BY <2>1, <2>2
<1>. QED
  BY <1>2, <1>4, <1>5

-----------------------------------------------------------------------------
(* What a step does to the places of the nodes *)

Stays(t) ==
    /\ Private(t)' = Private(t)
    /\ UNCHANGED <<head, tail, nodes>>

\* a push gets a node
Gets(t, n) ==
    /\ pc[t] = "idle" /\ new'[t] = n
    /\ Private(t) = {} /\ Private(t)' = {n}
    /\ n \in Nodes \ nodes /\ nodes' = nodes \cup {n}
    /\ UNCHANGED <<head, tail>>

\* the tail becomes the last node of the list, and the thread owes it
LinksBack(t) ==
    /\ pc[t] = "b_cas" /\ pc'[t] = "b_next"
    /\ Private(t) = {new[t]} /\ Private(t)' = {}
    /\ old[t] = tail /\ tail' = new[t]
    /\ UNCHANGED <<head, next, val, nodes, blocks, held, new, old, item>>

\* a node becomes the first of the list
LinksFront(t) ==
    /\ pc[t] = "f_cas" /\ pc'[t] = "count"
    /\ Private(t) = {new[t]} /\ Private(t)' = {}
    /\ next[new[t]] = head /\ val[new[t]] = item[t] /\ head' = new[t]
    /\ UNCHANGED <<tail, next, val, nodes, blocks, held>>

\* the first node is taken off the list
Unlinks(t) ==
    /\ pc[t] = "o_cas" /\ pc'[t] = "o_read" /\ old[t] = head /\ old'[t] = head
    /\ Private(t) = {} /\ Private(t)' = {head}
    /\ head # tail /\ head' = next[head] /\ val[head] \in Items
    /\ UNCHANGED <<tail, next, val, nodes, blocks, held>>

\* a pop frees a node
Frees(t) ==
    /\ pc[t] = "o_wait" /\ pc'[t] = "idle"
    /\ Private(t) = {old[t]} /\ Private(t)' = {}
    /\ head_thread = 0 /\ nodes' = nodes \ {old[t]}
    /\ held' = held \cup {item[t]} /\ UNCHANGED <<head, tail, blocks>>

\* Every step is of one of these kinds.
LEMMA Effect ==
    ASSUME IInv, NEW t \in Threads, Acts(t)
    PROVE  /\ BackCas(t) => LinksBack(t) \/ (Stays(t) /\ pc'[t] = "b_cas")
           /\ FrontCas(t) => LinksFront(t) \/ (Stays(t) /\ pc'[t] = "f_cas")
           /\ PopCas(t) => Unlinks(t) \/ (Stays(t) /\ pc'[t] = "o_test")
           /\ PopReturn(t) => Frees(t)
           /\ \/ BackCas(t) \/ FrontCas(t) \/ PopCas(t) \/ PopReturn(t)
              \/ Stays(t) \/ \E n \in Nodes : Gets(t, n)
<1>0. TypeOK /\ Fills(t) /\ Snapshots /\ old[t] \in Nodes \cup {Null}
  BY DEF IInv, Filling, TypeOK
<1>1. \A x, y : Goto(t, x, y) => pc[t] = x /\ pc'[t] = y
  BY <1>0, Goes
<1>2. ASSUME \E n \in Nodes, d \in Items : PushBackCall(t, n, d) \/ PushFrontCall(t, n, d)
      PROVE  \E n \in Nodes : Gets(t, n)
  <2>1. PICK n \in Nodes, d \in Items : PushBackCall(t, n, d) \/ PushFrontCall(t, n, d)
    BY <1>2
  <2>2. /\ pc[t] = "idle" /\ pc'[t] \in {"b_load", "f_load"} /\ new'[t] = n
        /\ n \in Nodes \ nodes /\ nodes' = nodes \cup {n} /\ UNCHANGED <<head, tail>>
    BY <1>0, <1>1, <2>1 DEF PushBackCall, PushFrontCall, NodeAlloc!Allocate, TypeOK
  <2>3. Private(t) = {} /\ Private(t)' = {n}
    BY <2>2, PrivateAt
  <2>. QED
    BY <2>2, <2>3 DEF Gets
<1>3. ASSUME BackLoad(t) \/ FrontLoad(t)
      PROVE  Stays(t)
  <2>1. /\ UNCHANGED <<head, tail, nodes>> /\ new' = new
        /\ pc[t] \in {"b_load", "f_load"} /\ pc'[t] \in {"b_cas", "f_cas"}
    BY <1>1, <1>3 DEF BackLoad, FrontLoad, list, memory, local
  <2>2. Private(t)' = Private(t)
    BY <2>1, PrivateAt
  <2>. QED
    BY <2>1, <2>2 DEF Stays
<1>4. ASSUME PopRead(t) \/ PopExit(t)
      PROVE  Stays(t)
  <2>1. /\ UNCHANGED <<head, tail, nodes>> /\ old' = old
        /\ pc[t] \in {"o_read", "o_exit"} /\ pc'[t] \in {"o_exit", "o_wait"}
    BY <1>1, <1>4 DEF PopRead, PopExit, list, memory, local
  <2>2. Private(t)' = Private(t)
    BY <2>1, PrivateAt
  <2>. QED
    BY <2>1, <2>2 DEF Stays
<1>5. ASSUME \/ PopCall(t) \/ BackNext(t) \/ BackVal(t) \/ PushCount(t)
             \/ PopUndo(t) \/ PopEnter(t) \/ PopLoad(t) \/ PopTest(t) \/ PopNext(t)
      PROVE  Stays(t)
  <2>1. /\ UNCHANGED <<head, tail, nodes>>
        /\ pc[t] \in {"idle", "b_next", "b_val", "count", "o_undo", "o_enter", "o_load", "o_test", "o_next"}
        /\ pc'[t] \in {"o_take", "b_val", "count", "idle", "o_load", "o_test", "o_next", "o_cas"}
    BY <1>1, <1>5 DEF PopCall, BackNext, BackVal, PushCount, PopUndo, PopEnter, PopLoad, PopTest,
       PopNext, list, memory
  <2>2. Private(t)' = {} /\ Private(t) = {}
    BY <2>1, PrivateAt
  <2>. QED
    BY <2>1, <2>2 DEF Stays
<1>6. ASSUME PopTake(t) PROVE Stays(t)
  <2>1. /\ UNCHANGED <<head, tail, nodes>> /\ pc[t] = "o_take"
        /\ pc'[t] \in {"o_undo", "o_enter"}
    BY <1>1, <1>6 DEF PopTake, list, memory
  <2>2. Private(t)' = {} /\ Private(t) = {}
    BY <2>1, PrivateAt
  <2>. QED
    BY <2>1, <2>2 DEF Stays
<1>7. ASSUME BackCas(t) PROVE LinksBack(t) \/ (Stays(t) /\ pc'[t] = "b_cas")
  <2>1. pc[t] = "b_cas" /\ UNCHANGED <<head, next, val, nodes, blocks, held, new, item>>
    BY <1>1, <1>7 DEF BackCas, memory
  <2>2. CASE tail = old[t]
    <3>1. pc'[t] = "b_next" /\ tail' = new[t] /\ old' = old
      BY <1>1, <1>7, <2>2 DEF BackCas
    <3>2. Private(t)' = {} /\ Private(t) = {new[t]}
      BY <2>1, <3>1, PrivateAt
    <3>. QED
      BY <2>1, <2>2, <3>1, <3>2 DEF LinksBack
  <2>3. CASE tail # old[t]
    <3>1. pc'[t] = "b_cas" /\ tail' = tail
      BY <1>1, <1>7, <2>3 DEF BackCas
    <3>2. Private(t)' = Private(t)
      BY <2>1, <3>1, PrivateAt
    <3>. QED
      BY <2>1, <3>1, <3>2 DEF Stays
  <2>. QED
    BY <2>2, <2>3
<1>8. ASSUME FrontCas(t) PROVE LinksFront(t) \/ (Stays(t) /\ pc'[t] = "f_cas")
  <2>1. pc[t] = "f_cas" /\ UNCHANGED <<tail, val, nodes, blocks, held, new>>
    BY <1>8 DEF FrontCas, memory, local
  <2>2. CASE next[new[t]] = head
    <3>1. pc'[t] = "count" /\ head' = new[t] /\ next' = next
      BY <1>1, <1>8, <2>2 DEF FrontCas
    <3>2. Private(t)' = {} /\ Private(t) = {new[t]}
      BY <2>1, <3>1, PrivateAt
    <3>. QED
      BY <1>0, <2>1, <2>2, <3>1, <3>2 DEF LinksFront, Fills
  <2>3. CASE next[new[t]] # head
    <3>1. pc'[t] = "f_cas" /\ head' = head
      BY <1>8, <2>1, <2>3 DEF FrontCas
    <3>2. Private(t)' = Private(t)
      BY <2>1, <3>1, PrivateAt
    <3>. QED
      BY <2>1, <3>1, <3>2 DEF Stays
  <2>. QED
    BY <2>2, <2>3
<1>9. ASSUME PopCas(t) PROVE Unlinks(t) \/ (Stays(t) /\ pc'[t] = "o_test")
  <2>1. pc[t] = "o_cas" /\ UNCHANGED <<tail, next, val, nodes, blocks, held>>
    BY <1>1, <1>9 DEF PopCas, memory
  <2>2. CASE head = old[t]
    <3>1. pc'[t] = "o_read" /\ head' = nxt[t] /\ old' = old
      BY <1>1, <1>9, <2>2 DEF PopCas
    <3>2. Private(t)' = {old[t]} /\ Private(t) = {}
      BY <2>1, <3>1, PrivateAt
    <3>3. nxt[t] = next[old[t]] /\ val[old[t]] \in Items
      BY <1>0, <2>1 DEF Snapshots, At
    <3>4. head # tail
      BY <2>1, EntitledFinds
    <3>. QED
      BY <2>1, <2>2, <3>1, <3>2, <3>3, <3>4 DEF Unlinks
  <2>3. CASE head # old[t]
    <3>1. pc'[t] = "o_test" /\ head' = head
      BY <1>1, <1>9, <2>3 DEF PopCas
    <3>2. Private(t)' = {} /\ Private(t) = {}
      BY <2>1, <3>1, PrivateAt
    <3>. QED
      BY <2>1, <3>1, <3>2 DEF Stays
  <2>. QED
    BY <2>2, <2>3
<1>10. ASSUME PopReturn(t) PROVE Frees(t)
  <2>1. /\ UNCHANGED <<head, tail, blocks>> /\ pc[t] = "o_wait" /\ pc'[t] = "idle"
        /\ head_thread = 0 /\ nodes' = nodes \ {old[t]} /\ held' = held \cup {item[t]}
    BY <1>1, <1>10 DEF PopReturn, NodeAlloc!Deallocate
  <2>2. Private(t)' = {} /\ Private(t) = {old[t]}
    BY <2>1, PrivateAt
  <2>. QED
    BY <2>1, <2>2 DEF Frees
<1>. QED
  BY <1>2, <1>3, <1>4, <1>5, <1>6, <1>7, <1>8, <1>9, <1>10 DEF Acts, Call, Step

\* The kinds alone.
LEMMA Kinds ==
    ASSUME IInv, NEW t \in Threads, Acts(t)
    PROVE  \/ Stays(t) \/ (\E n \in Nodes : Gets(t, n))
           \/ LinksBack(t) \/ LinksFront(t) \/ Unlinks(t) \/ Frees(t)
BY Effect

\* A thread owes a new node exactly when it has moved tail away from it.
LEMMA StepOwes ==
    ASSUME IInv, NEW t \in Threads, Acts(t)
    PROVE  /\ Single'
           /\ LinksBack(t) => \A n : Owes(t, n)' <=> n = tail
           /\ \A n : n # tail => \A u \in Threads : Owes(u, n)' => Owes(u, n)
           /\ ~ LinksBack(t) => \A n : \A u \in Threads : Owes(u, n)' => Owes(u, n)
           /\ pc[t] # "b_val" => \A n : \A u \in Threads : Owes(u, n) => Owes(u, n)'
<1>0. TypeOK /\ Single
  BY DEF IInv, Filling
<1>1. \A u \in Threads \ {t} : \A n : Owes(u, n)' <=> Owes(u, n)
  BY <1>0, OthersStay
<1>2. LinksBack(t) => \A n : Owes(t, n)' <=> n = tail
  BY <1>0, OwesNext DEF LinksBack
<1>3. ~ LinksBack(t) => \A n : Owes(t, n)' => Owes(t, n)
  <2>1. CASE pc'[t] = "b_next"
    <3>1. BackCas(t)
      <4>1. pc[t] = "b_cas"
        BY <1>0, <2>1, OwesNext
      <4>. QED
        BY <4>1 DEF Acts, Call, Step, PopCall, PushBackCall, PushFrontCall, BackLoad, BackNext, BackVal,
           FrontLoad, FrontCas, PushCount, PopTake, PopUndo, PopEnter, PopLoad, PopTest, PopNext, PopCas,
           PopRead, PopExit, PopReturn, Goto
    <3>. QED
      BY <2>1, <3>1, Effect
  <2>2. CASE pc'[t] # "b_next"
    BY <1>0, <2>2, OwesNext
  <2>. QED
    BY <2>1, <2>2
<1>4. \A u \in Threads : ~ Owes(u, tail)
  BY NotOwed
<1>5. pc[t] # "b_val" => \A n : Owes(t, n) => Owes(t, n)'
  BY <1>0, OwesNext DEF Owes
<1>6. \A n : n # tail => (Owes(t, n)' => Owes(t, n))
  BY <1>2, <1>3
<1>7. Single'
  <2> SUFFICES ASSUME NEW u \in Threads, NEW v \in Threads, NEW n, Owes(u, n)', Owes(v, n)'
               PROVE  u = v
    BY DEF Single
  <2>1. CASE n = tail
    <3>1. \A w \in Threads \ {t} : ~ Owes(w, n)'
      BY <1>1, <1>4, <2>1
    <3>. QED
      BY <3>1
  <2>2. CASE n # tail
    <3>1. \A w \in Threads : Owes(w, n)' => Owes(w, n)
      BY <1>1, <1>6, <2>2
    <3>. QED
      BY <1>0, <3>1 DEF Single
  <2>. QED
    BY <2>1, <2>2
<1>. QED
  BY <1>1, <1>2, <1>3, <1>5, <1>6, <1>7

-----------------------------------------------------------------------------
(* A step keeps the parts of the invariant *)

\* So are they after a step.
LEMMA FinallyNext ==
    ASSUME IInv, NEW t \in Threads, Acts(t)
    PROVE  \A n : /\ \A u \in Threads : Owes(u, n)' => FinalNext(n)' = new'[u] /\ FinalVal(n)' = item'[u]
                  /\ (\A u \in Threads : ~ Owes(u, n)') => FinalNext(n)' = next'[n] /\ FinalVal(n)' = val'[n]
<1>1. (Single => Finally)'
  BY FinalAt, PTL
<1>2. Finally'
  BY <1>1, StepOwes
<1>. QED
  BY <1>2 DEF Finally

\* The nodes on the list stay what they are or will be, whoever fills them.
LEMMA LinksStay ==
    ASSUME IInv, NEW t \in Threads, Acts(t), NEW n \in Listed
    PROVE  /\ FinalNext(n)' = FinalNext(n) /\ FinalVal(n)' = FinalVal(n)
           /\ Links'[n] = Links[n] /\ Values'[n] = Values[n]
<1>0. TypeOK /\ Chained /\ Places /\ Single /\ Fills(t)
  BY DEF IInv, Filling
<1>1. n \in nodes /\ n \in Nodes /\ n # tail /\ n \notin Private(t)
  BY <1>0, InUse
<1>2. /\ \A u \in Threads : Owes(u, n)' => FinalNext(n)' = new'[u] /\ FinalVal(n)' = item'[u]
      /\ (\A u \in Threads : ~ Owes(u, n)') => FinalNext(n)' = next'[n] /\ FinalVal(n)' = val'[n]
  BY FinallyNext
<1>3. \A u \in Threads : Owes(u, n)' => Owes(u, n)
  BY <1>1, StepOwes
<1>4. FinalNext(n)' = FinalNext(n) /\ FinalVal(n)' = FinalVal(n)
  <2>1. CASE \E u \in Threads \ {t} : Owes(u, n)
    <3>1. PICK u \in Threads \ {t} : Owes(u, n)
      BY <2>1
    <3>2. Owes(u, n)' /\ new'[u] = new[u] /\ item'[u] = item[u]
      BY <1>0, <3>1, OthersStay
    <3>. QED
      BY <1>0, <1>2, <3>1, <3>2, FinalAt DEF Finally
  <2>2. CASE Owes(t, n)
    <3>1. FinalNext(n) = new[t] /\ FinalVal(n) = item[t]
      BY <1>0, <2>2, FinalAt DEF Finally
    <3>2. CASE pc[t] = "b_val"
      <4>1. BackVal(t)
        BY <3>2 DEF Acts, Call, Step, PopCall, PushBackCall, PushFrontCall, BackLoad, BackCas, BackNext,
           FrontLoad, FrontCas, PushCount, PopTake, PopUndo, PopEnter, PopLoad, PopTest, PopNext, PopCas,
           PopRead, PopExit, PopReturn, Goto
      <4>2. next'[n] = new[t] /\ val'[n] = item[t]
        BY <1>0, <1>1, <2>2, <3>2, <4>1 DEF BackVal, Fills, Owes, TypeOK
      <4>3. \A u \in Threads : ~ Owes(u, n)'
        BY <1>0, <1>3, <2>2, <3>2, OwesNext DEF Single
      <4>. QED
        BY <1>2, <3>1, <4>2, <4>3
    <3>3. CASE pc[t] = "b_next"
      <4>1. BackNext(t)
        BY <3>3 DEF Acts, Call, Step, PopCall, PushBackCall, PushFrontCall, BackLoad, BackCas, BackVal,
           FrontLoad, FrontCas, PushCount, PopTake, PopUndo, PopEnter, PopLoad, PopTest, PopNext, PopCas,
           PopRead, PopExit, PopReturn, Goto
      <4>2. new'[t] = new[t] /\ item'[t] = item[t]
        BY <4>1 DEF BackNext, local
      <4>3. Owes(t, n)'
        BY <1>0, <2>2, <3>3, OwesNext
      <4>. QED
        BY <1>2, <3>1, <4>2, <4>3
    <3>. QED
      BY <2>2, <3>2, <3>3 DEF Owes
  <2>3. CASE \A u \in Threads : ~ Owes(u, n)
    <3>1. next'[n] = next[n] /\ val'[n] = val[n]
      BY <1>0, <1>1, <2>3, WritesOwn
    <3>2. FinalNext(n) = next[n] /\ FinalVal(n) = val[n]
      BY <1>0, <2>3, FinalAt DEF Finally
    <3>3. \A u \in Threads : ~ Owes(u, n)'
      BY <1>3, <2>3
    <3>. QED
      BY <1>2, <3>1, <3>2, <3>3
  <2>. QED
    BY <2>1, <2>2, <2>3
<1>5. Links[n] = FinalNext(n) /\ Values[n] = FinalVal(n)
  BY <1>1 DEF Links, Values
<1>6. Links'[n] = FinalNext(n)' /\ Values'[n] = FinalVal(n)'
  BY <1>1 DEF Links, Values
<1>. QED
  BY <1>4, <1>5, <1>6

\* What a node that becomes the last or the first of the list is and will be.
LEMMA LinksNew ==
    ASSUME IInv, NEW t \in Threads, Acts(t)
    PROVE  /\ LinksBack(t) => /\ Links'[tail] = new[t] /\ Values'[tail] = item[t]
                              /\ new[t] \in Nodes \ (Listed \cup {tail})
           /\ LinksFront(t) => /\ Links'[new[t]] = head /\ Values'[new[t]] = item[t]
                               /\ new[t] \in Nodes \ (Listed \cup {tail})
           /\ Unlinks(t) => Links[head] = next[head] /\ Values[head] = val[head]
<1>0. TypeOK /\ Chained /\ Places
  BY DEF IInv
<1>1. \A n : /\ \A u \in Threads : Owes(u, n)' => FinalNext(n)' = new'[u] /\ FinalVal(n)' = item'[u]
             /\ (\A u \in Threads : ~ Owes(u, n)') => FinalNext(n)' = next'[n] /\ FinalVal(n)' = val'[n]
  BY FinallyNext
<1>2. \A n \in Nodes : Links[n] = FinalNext(n) /\ Values[n] = FinalVal(n)
  BY DEF Links, Values
<1>3. \A n \in Nodes : Links'[n] = FinalNext(n)' /\ Values'[n] = FinalVal(n)'
  BY DEF Links, Values
<1>4. /\ tail \in Nodes /\ Private(t) \subseteq Nodes /\ tail \notin Private(t)
      /\ Private(t) \cap Listed = {} /\ head \in Nodes
  BY <1>0, InUse
<1>5. ASSUME LinksBack(t)
      PROVE  /\ Links'[tail] = new[t] /\ Values'[tail] = item[t]
             /\ new[t] \in Nodes \ (Listed \cup {tail})
  <2>1. \A n : n = tail => Owes(t, n)'
    BY <1>5, StepOwes
  <2>2. new'[t] = new[t] /\ item'[t] = item[t] /\ Private(t) = {new[t]}
    BY <1>5 DEF LinksBack
  <2>3. \A n \in Nodes : n = tail => Links'[n] = new[t] /\ Values'[n] = item[t]
    BY <1>1, <1>3, <2>1, <2>2
  <2>. QED
    BY <1>4, <2>2, <2>3
<1>6. ASSUME LinksFront(t)
      PROVE  /\ Links'[new[t]] = head /\ Values'[new[t]] = item[t]
             /\ new[t] \in Nodes \ (Listed \cup {tail})
  <2>1. /\ new[t] \in Private(t) /\ next'[new[t]] = head /\ val'[new[t]] = item[t]
        /\ ~ LinksBack(t) /\ new[t] \in Nodes
    BY <1>4, <1>6 DEF LinksFront, LinksBack
  <2>2. \A n : n = new[t] => \A u \in Threads : ~ Owes(u, n)
    BY <2>1, NotOwed
  <2>3. \A n : n = new[t] => \A u \in Threads : ~ Owes(u, n)'
    BY <2>1, <2>2, StepOwes
  <2>4. \A n \in Nodes : n = new[t] => Links'[n] = next'[n] /\ Values'[n] = val'[n]
    BY <1>1, <1>3, <2>3
  <2>. QED
    BY <1>4, <2>1, <2>4
<1>7. ASSUME Unlinks(t)
      PROVE  Links[head] = next[head] /\ Values[head] = val[head]
  <2>1. val[head] # NoItem
    BY <1>7, NamesAssumption DEF Unlinks
  <2>. QED
    BY <1>2, <1>4, <2>1, NotOwed
<1>. QED
  BY <1>5, <1>6, <1>7

\* The list: it stays, grows at either end or loses its first node.
LEMMA StepList ==
    ASSUME IInv, NEW t \in Threads, Acts(t)
    PROVE  /\ Chained'
           /\ Stays(t) \/ (\E n \in Nodes : Gets(t, n)) \/ Frees(t) => List' = List
           /\ LinksBack(t) => List' = Append(List, tail)
           /\ LinksFront(t) => List' = <<new[t]>> \o List
           /\ Unlinks(t) => List' = Tail(List)
<1>0. TypeOK /\ Chained /\ Places
  BY DEF IInv
<1>1. \A s : IsList(head', tail', Links', s) => List' = s /\ Chained'
  <2>1. (\A s : IsList(head, tail, Links, s) => List = s)'
    BY ListIs, PTL
  <2>. QED
    BY <2>1 DEF Chained
<1>2. IsList(head, tail, Links', List) /\ Listed = Members(List)
  <2>1. Listed = Members(List)
    BY <1>0, InUse
  <2>2. \A n \in Members(List) : Links'[n] = Links[n]
    BY <2>1, LinksStay
  <2>. HIDE DEF Links
  <2>. QED
    BY <1>0, <2>1, <2>2, ListFrame DEF Chained
<1> DEFINE nx == Links'
<1>. HIDE DEF nx
<1>3. IsList(head, tail, nx, List)
  BY <1>2 DEF nx
<1>4. ASSUME Stays(t) \/ (\E n \in Nodes : Gets(t, n)) \/ Frees(t)
      PROVE  List' = List /\ Chained'
  <2>1. head' = head /\ tail' = tail
    BY <1>4 DEF Stays, Gets, Frees
  <2>. QED
    BY <1>1, <1>2, <2>1
<1>5. ASSUME LinksBack(t)
      PROVE  List' = Append(List, tail) /\ Chained'
  <2>1. new[t] \in Nodes /\ new[t] \notin Members(List) /\ new[t] # tail /\ nx[tail] = new[t]
    BY <1>2, <1>5, LinksNew DEF nx
  <2>2. IsList(head, new[t], nx, Append(List, tail))
    BY <1>3, <2>1, ListAppend
  <2>3. IsList(head', tail', Links', Append(List, tail))
    BY <1>5, <2>2 DEF LinksBack, nx
  <2>. QED
    BY <1>1, <2>3
<1>6. ASSUME LinksFront(t)
      PROVE  List' = <<new[t]>> \o List /\ Chained'
  <2>1. new[t] \in Nodes /\ new[t] \notin Members(List) /\ new[t] # tail /\ nx[new[t]] = head
    BY <1>2, <1>6, LinksNew DEF nx
  <2>2. IsList(new[t], tail, nx, <<new[t]>> \o List)
    BY <1>3, <2>1, ListPush
  <2>3. IsList(head', tail', Links', <<new[t]>> \o List)
    BY <1>6, <2>2 DEF LinksFront, nx
  <2>. QED
    BY <1>1, <2>3
<1>7. ASSUME Unlinks(t)
      PROVE  List' = Tail(List) /\ Chained'
  <2>1. nx[head] = next[head]
    <3>1. head \in Listed
      BY <1>0, <1>7, InUse DEF Unlinks
    <3>. QED
      BY <1>7, <3>1, LinksStay, LinksNew DEF nx
  <2>2. IsList(nx[head], tail, nx, Tail(List))
    BY <1>3, <1>7, ListPop DEF Unlinks
  <2>3. IsList(head', tail', Links', Tail(List))
    BY <1>7, <2>1, <2>2 DEF Unlinks, nx
  <2>. QED
    BY <1>1, <2>3
<1>. QED
  BY <1>4, <1>5, <1>6, <1>7, Kinds

\* The nodes on the list after a step.
LEMMA StepListed ==
    ASSUME IInv, NEW t \in Threads, Acts(t)
    PROVE  /\ Stays(t) \/ (\E n \in Nodes : Gets(t, n)) \/ Frees(t) => Listed' = Listed
           /\ LinksBack(t) => Listed' = Listed \cup {tail}
           /\ LinksFront(t) => Listed' = Listed \cup {new[t]}
           /\ Unlinks(t) => Listed' = Listed \ {head} /\ head \in Listed
<1>0. TypeOK /\ Chained /\ Places /\ tail \in Nodes
  BY InUse DEF IInv
<1>1. Listed = Members(List) /\ Listed' = Members(List')
  BY DEF Listed, Members
<1>2. Stays(t) \/ (\E n \in Nodes : Gets(t, n)) \/ Frees(t) => Listed' = Listed
  BY <1>1, StepList
<1>3. \E nx : IsList(head, tail, nx, List)
  BY <1>0 DEF Chained
<1>4. ASSUME LinksBack(t) PROVE Listed' = Listed \cup {tail}
  <2>1. PICK nx : IsList(head, tail, nx, List)
    BY <1>3
  <2>2. List \in Seq(Nodes)
    BY <2>1, ListLinks
  <2>3. Members(Append(List, tail)) = Members(List) \cup {tail}
    BY <1>0, <2>2, MembersOfAppend
  <2>. QED
    BY <1>1, <1>4, <2>3, StepList
<1>5. ASSUME LinksFront(t) PROVE Listed' = Listed \cup {new[t]}
  <2>1. PICK nx : IsList(head, tail, nx, List)
    BY <1>3
  <2>2. new[t] \in Nodes
    BY <1>5, LinksNew
  <2>3. List \in Seq(Nodes)
    BY <2>1, ListLinks
  <2>4. Members(<<new[t]>> \o List) = Members(List) \cup {new[t]}
    BY <2>2, <2>3, MembersOfPush
  <2>. QED
    BY <1>1, <1>5, <2>4, StepList
<1>6. ASSUME Unlinks(t) PROVE Listed' = Listed \ {head} /\ head \in Listed
  <2>1. PICK nx : IsList(head, tail, nx, List)
    BY <1>3
  <2>2. Members(List) = Members(Tail(List)) \cup {head} /\ head \notin Members(Tail(List))
    BY <1>6, <2>1, ListPop DEF Unlinks
  <2>. QED
    BY <1>1, <1>6, <2>2, StepList
<1>. QED
  BY <1>2, <1>4, <1>5, <1>6

\* Places: what a node leaves and what it gets to.
LEMMA StepPlaces ==
    ASSUME IInv, NEW t \in Threads, Acts(t)
    PROVE  Places'
<1> DEFINE Others == UNION {Private(u) : u \in Threads \ {t}}
           L == {tail} \cup Listed
<1>0. TypeOK /\ Chained /\ Places /\ tail \notin Listed
  BY InUse DEF IInv
<1>1. \A u \in Threads \ {t} : Private(u)' = Private(u)
  BY <1>0, OthersStay
<1>2. Owned = Private(t) \cup Others
  BY DEF Owned
<1>3. Owned' = Private(t)' \cup Others
  <2>1. Owned' = UNION {Private(u)' : u \in Threads}
    BY DEF Owned
  <2>2. UNION {Private(u)' : u \in Threads} = Private(t)' \cup Others
    BY <1>1
  <2>. QED
    BY <2>1, <2>2
<1>4. /\ nodes = L \cup Private(t) \cup Others
      /\ L \cap Private(t) = {} /\ L \cap Others = {} /\ Private(t) \cap Others = {}
  BY <1>0, <1>2 DEF Places
<1>5. \A u \in Threads \ {t} : Private(u) \subseteq Others
  OBVIOUS
<1>6. L' = {tail'} \cup Listed'
  OBVIOUS
<1>7. /\ nodes' = L' \cup Private(t)' \cup Others
      /\ L' \cap Private(t)' = {} /\ L' \cap Others = {} /\ Private(t)' \cap Others = {}
  <2>1. L = {tail} \cup Listed
    OBVIOUS
  <2>. HIDE DEF L, Others
  <2>2. CASE Stays(t)
    BY <1>4, <1>6, <2>1, <2>2, StepListed DEF Stays
  <2>3. CASE \E m \in Nodes : Gets(t, m)
    BY <1>4, <1>6, <2>1, <2>3, StepListed DEF Gets
  <2>4. CASE LinksBack(t)
    BY <1>4, <1>6, <2>1, <2>4, StepListed DEF LinksBack
  <2>5. CASE LinksFront(t)
    BY <1>4, <1>6, <2>1, <2>5, StepListed DEF LinksFront
  <2>6. CASE Unlinks(t)
    BY <1>4, <1>6, <2>1, <2>6, StepListed DEF Unlinks
  <2>7. CASE Frees(t)
    BY <1>4, <1>6, <2>1, <2>7, StepListed DEF Frees
  <2>. QED
    BY <2>2, <2>3, <2>4, <2>5, <2>6, <2>7, Kinds
<1>8. nodes' = {tail'} \cup Listed' \cup Owned'
  BY <1>3, <1>6, <1>7
<1>. HIDE DEF L, Others
<1>9. \A u \in Threads : Private(u)' \cap ({tail'} \cup Listed') = {}
  <2> TAKE u \in Threads
  <2>1. CASE u = t
    BY <1>6, <1>7, <2>1
  <2>2. CASE u # t
    BY <1>1, <1>5, <1>6, <1>7, <2>2
  <2>. QED
    BY <2>1, <2>2
<1>10. \A u, v \in Threads : u # v => Private(u)' \cap Private(v)' = {}
  <2>1. \A u \in Threads \ {t} : Private(u)' \cap Private(t)' = {}
    BY <1>1, <1>5, <1>7
  <2>2. \A u, v \in Threads \ {t} : u # v => Private(u)' \cap Private(v)' = {}
    BY <1>0, <1>1 DEF Places
  <2>. QED
    BY <2>1, <2>2
<1>. QED
  BY <1>8, <1>9, <1>10 DEF Places

\* The other calls: what they have read and written is theirs or owed by them.
LEMMA OthersFit ==
    ASSUME IInv, NEW t \in Threads, Acts(t), NEW u \in Threads, u # t
    PROVE  /\ Fills(u)'
           /\ PrivateItem(u)' = PrivateItem(u) /\ CallsOf'[u] = CallsOf[u]
<1>0. TypeOK /\ Chained /\ Places /\ Single /\ Fills(u) /\ u \in Threads \ {t}
  BY DEF IInv, Filling
<1>1. pc'[u] = pc[u] /\ new'[u] = new[u] /\ old'[u] = old[u] /\ item'[u] = item[u]
  BY <1>0, OthersStay
<1>2. ASSUME pc[u] \in {"b_next", "b_val"}
      PROVE  old[u] \in Listed' /\ next'[old[u]] = next[old[u]] /\ val'[old[u]] = val[old[u]]
  <2>1. old[u] \in Listed /\ val[old[u]] = NoItem /\ Owes(u, old[u])
    BY <1>0, <1>2 DEF Fills, Owes
  <2>2. ~ Owes(t, old[u])
    BY <1>0, <2>1 DEF Single
  <2>3. old[u] \in nodes /\ old[u] \notin Private(t)
    BY <1>0, <2>1, InUse
  <2>4. Unlinks(t) => old[u] # head
    BY <2>1, NamesAssumption DEF Unlinks
  <2>5. old[u] \in Listed'
    BY <2>1, <2>4, Kinds, StepListed
  <2>. QED
    BY <1>0, <2>2, <2>3, <2>5, WritesOwn
<1>3. ASSUME NEW n \in Private(u)
      PROVE  next'[n] = next[n] /\ val'[n] = val[n]
  <2>1. n \in nodes /\ n \notin Private(t)
    BY <1>0, InUse DEF Places
  <2>2. ~ Owes(t, n)
    BY NotOwed
  <2>. QED
    BY <1>0, <2>1, <2>2, WritesOwn
<1>4. /\ pc[u] \in {"b_load", "b_cas", "f_load", "f_cas"} => new[u] \in Private(u)
      /\ pc[u] = "o_read" => old[u] \in Private(u)
  BY PrivateAt
<1>5. Fills(u)'
  <2>1. /\ pc[u] \in {"b_next", "b_val"} =>
               old[u] \in Listed' /\ item[u] \in Items /\ val'[old[u]] = NoItem
        /\ pc[u] = "b_val" => next'[old[u]] = new[u]
    BY <1>0, <1>2 DEF Fills
  <2>2. /\ pc[u] \in {"b_load", "b_cas"} => val'[new[u]] = NoItem
        /\ pc[u] \in {"f_load", "f_cas"} => val'[new[u]] = item[u]
    BY <1>0, <1>3, <1>4 DEF Fills
  <2>. QED
    BY <1>1, <2>1, <2>2 DEF Fills
<1>6. pc[u] = "o_read" => val'[old[u]] = val[old[u]]
  BY <1>3, <1>4
<1>7. PrivateItem(u)' = PrivateItem(u)
  BY <1>1, <1>6 DEF PrivateItem
<1>8. CallsOf'[u] = CallsOf[u]
  <2>1. ItemOf(u)' = ItemOf(u)
    BY <1>1, <1>6 DEF ItemOf
  <2>2. CallsOf'[u] = [op |-> OpOf(pc'[u]), item |-> ItemOf(u)']
    BY DEF CallsOf
  <2>3. CallsOf[u] = [op |-> OpOf(pc[u]), item |-> ItemOf(u)]
    BY DEF CallsOf
  <2>. QED
    BY <1>1, <2>1, <2>2, <2>3
<1>. QED
  BY <1>5, <1>7, <1>8

\* At these labels a call has an item, at the others it has none.
LEMMA PrivateItemAt ==
    ASSUME NEW t
    PROVE  LET given == {"b_load", "b_cas", "f_load", "f_cas", "o_exit", "o_wait"}
           IN  /\ pc[t] \in given => PrivateItem(t) = {item[t]}
               /\ pc[t] = "o_read" => PrivateItem(t) = {val[old[t]]}
               /\ pc[t] \notin given \cup {"o_read"} => PrivateItem(t) = {}
               /\ pc'[t] \in given => PrivateItem(t)' = {item'[t]}
               /\ pc'[t] = "o_read" => PrivateItem(t)' = {val'[old'[t]]}
               /\ pc'[t] \notin given \cup {"o_read"} => PrivateItem(t)' = {}
BY DEF PrivateItem

\* The call of the thread that makes the step.
LEMMA OwnFits ==
    ASSUME IInv, NEW t \in Threads, Acts(t)
    PROVE  Fills(t)'
<1>0. TypeOK /\ Fills(t) /\ Filling /\ ItemsKept
  BY DEF IInv, Filling
<1>1. \A x, y : Goto(t, x, y) => pc[t] = x /\ pc'[t] = y
  BY <1>0, Goes
<1>2. CASE \E n \in Nodes, d \in Items : PushBackCall(t, n, d)
  <2>1. pc'[t] = "b_load" /\ val'[new'[t]] = NoItem
    BY <1>0, <1>1, <1>2 DEF PushBackCall, TypeOK
  <2>. QED
    BY <2>1 DEF Fills
<1>3. CASE \E n \in Nodes, d \in Items : PushFrontCall(t, n, d)
  <2>1. pc'[t] = "f_load" /\ val'[new'[t]] = item'[t]
    BY <1>0, <1>1, <1>3 DEF PushFrontCall, TypeOK
  <2>. QED
    BY <2>1 DEF Fills
<1>4. CASE BackLoad(t)
  <2>1. pc[t] = "b_load" /\ pc'[t] = "b_cas" /\ UNCHANGED <<new, val>>
    BY <1>1, <1>4 DEF BackLoad, list
  <2>. QED
    BY <1>0, <2>1 DEF Fills
<1>5. CASE BackCas(t)
  <2>1. pc[t] = "b_cas" /\ UNCHANGED <<new, val, item>>
    BY <1>1, <1>5 DEF BackCas
  <2>2. CASE LinksBack(t)
    <3>1. /\ pc'[t] = "b_next" /\ old'[t] = tail /\ tail \in Listed'
          /\ val'[tail] = NoItem
      BY <1>0, <2>2, StepListed DEF LinksBack, Filling
    <3>2. item'[t] \in Items
      <4>1. PrivateItem(t) = {item[t]}
        BY <2>1, PrivateItemAt
      <4>. QED
        BY <1>0, <2>1, <4>1 DEF ItemsKept
    <3>. QED
      BY <3>1, <3>2 DEF Fills
  <2>3. CASE pc'[t] = "b_cas"
    BY <1>0, <2>1, <2>3 DEF Fills
  <2>. QED
    BY <1>5, <2>2, <2>3, Effect
<1>6. CASE BackNext(t)
  <2>1. pc[t] = "b_next" /\ pc'[t] = "b_val" /\ UNCHANGED <<head, tail, new, val, item, old>>
    BY <1>1, <1>6 DEF BackNext, local
  <2>2. old[t] \in Listed /\ item[t] \in Items /\ val[old[t]] = NoItem
    BY <1>0, <2>1 DEF Fills
  <2>3. old[t] \in Listed'
    <3>1. ~ Unlinks(t)
      BY <2>1 DEF Unlinks
    <3>. QED
      BY <2>2, <3>1, Kinds, StepListed
  <2>4. next'[old[t]] = new[t]
    <3>1. old[t] \in Nodes
      BY <2>2, InUse DEF IInv
    <3>. QED
      BY <1>0, <1>6, <3>1 DEF BackNext, TypeOK
  <2>. QED
    BY <2>1, <2>2, <2>3, <2>4 DEF Fills
<1>7. CASE FrontLoad(t) \/ FrontCas(t)
  <2>1. pc[t] \in {"f_load", "f_cas"} /\ pc'[t] \in {"f_cas", "count"} /\ UNCHANGED <<new, val, item>>
    BY <1>1, <1>7 DEF FrontLoad, FrontCas, local
  <2>. QED
    BY <1>0, <2>1 DEF Fills
<1>8. CASE \/ PopCall(t) \/ BackVal(t) \/ PushCount(t) \/ PopUndo(t) \/ PopEnter(t) \/ PopLoad(t)
           \/ PopTest(t) \/ PopNext(t) \/ PopRead(t) \/ PopExit(t) \/ PopReturn(t)
  <2>1. pc'[t] \in {"o_take", "count", "idle", "o_load", "o_test", "o_next", "o_cas", "o_exit", "o_wait"}
    BY <1>1, <1>8 DEF PopCall, BackVal, PushCount, PopUndo, PopEnter, PopLoad, PopTest, PopNext,
       PopRead, PopExit, PopReturn
  <2>. QED
    BY <2>1 DEF Fills
<1>9. CASE PopTake(t) \/ PopCas(t)
  <2>1. pc'[t] \in {"o_undo", "o_enter", "o_read", "o_test"}
    BY <1>1, <1>9 DEF PopTake, PopCas
  <2>. QED
    BY <2>1 DEF Fills
<1>. QED
  BY <1>2, <1>3, <1>4, <1>5, <1>6, <1>7, <1>8, <1>9 DEF Acts, Call, Step

\* Who owes what, and that the tail has no value.
LEMMA StepFilling ==
    ASSUME IInv, NEW t \in Threads, Acts(t)
    PROVE  Filling'
<1>0. TypeOK /\ Chained /\ Places /\ Filling /\ Fills(t)
  BY DEF IInv, Filling
<1>1. val'[tail'] = NoItem
  <2>1. CASE LinksBack(t)
    BY <1>0, <2>1 DEF LinksBack, Fills
  <2>2. CASE ~ LinksBack(t)
    <3>1. tail' = tail
      BY <2>2, Kinds DEF Stays, Gets, LinksFront, Unlinks, Frees
    <3>2. tail \in nodes /\ tail \notin Private(t) /\ ~ Owes(t, tail)
      BY <1>0, InUse, NotOwed
    <3>. QED
      BY <1>0, <3>1, <3>2, WritesOwn DEF Filling
  <2>. QED
    BY <2>1, <2>2
<1>2. \A u \in Threads : Fills(u)'
  BY OthersFit, OwnFits
<1>3. Single'
  BY StepOwes
<1>. QED
  BY <1>1, <1>2, <1>3 DEF Filling

\* A set of threads that only thread t can have entered or left.
LEMMA CountMoves ==
    ASSUME NEW A \in SUBSET Threads, NEW B \in SUBSET Threads, NEW t \in Threads,
           A \ {t} = B \ {t}
    PROVE  /\ Cardinality(A) \in Nat /\ Cardinality(B) \in Nat
           /\ Cardinality(B) <= Cardinality(Threads) /\ Cardinality(Threads) \in Nat
           /\ t \notin A /\ t \in B => Cardinality(B) = Cardinality(A) + 1
           /\ t \in A /\ t \notin B => Cardinality(B) = Cardinality(A) - 1
           /\ (t \in A <=> t \in B) => B = A
<1>1. /\ IsFiniteSet(A) /\ IsFiniteSet(B) /\ Cardinality(A) \in Nat /\ Cardinality(B) \in Nat
      /\ Cardinality(B) <= Cardinality(Threads) /\ Cardinality(Threads) \in Nat
  BY NamesAssumption, FS_Subset, FS_CardinalityType
<1>2. ASSUME t \notin A, t \in B PROVE Cardinality(B) = Cardinality(A) + 1
  <2>1. B = A \cup {t}
    BY <1>2
  <2>. QED
    BY <1>1, <1>2, <2>1, FS_AddElement
<1>3. ASSUME t \in A, t \notin B PROVE Cardinality(B) = Cardinality(A) - 1
  <2>1. B = A \ {t}
    BY <1>3
  <2>. QED
    BY <1>1, <1>3, <2>1, FS_RemoveElement
<1>4. (t \in A <=> t \in B) => B = A
  OBVIOUS
<1>. QED
  BY <1>1, <1>2, <1>3, <1>4

\* head_thread counts the pops between its two changes.
LEMMA StepCounted ==
    ASSUME IInv, NEW t \in Threads, Acts(t)
    PROVE  Counted' /\ head_thread' \in Nat
<1>0. TypeOK /\ Counted
  BY DEF IInv
<1>1. \A x, y : Goto(t, x, y) => pc[t] = x /\ pc'[t] = y
  BY <1>0, Goes
<1>2. \A u \in Threads \ {t} : pc'[u] = pc[u]
  BY <1>0, OthersStay
<1> DEFINE A == At(Loop)
           B == At(Loop)'
<1>3. /\ A \in SUBSET Threads /\ B \in SUBSET Threads /\ A \ {t} = B \ {t}
      /\ t \in A <=> pc[t] \in Loop
      /\ t \in B <=> pc'[t] \in Loop
  BY <1>2 DEF At
<1>. HIDE DEF A, B
<1>4. /\ Cardinality(A) \in Nat /\ Cardinality(B) \in Nat
      /\ pc[t] \notin Loop /\ pc'[t] \in Loop => Cardinality(B) = Cardinality(A) + 1
      /\ pc[t] \in Loop /\ pc'[t] \notin Loop => Cardinality(B) = Cardinality(A) - 1
      /\ (pc[t] \in Loop <=> pc'[t] \in Loop) => B = A
  <2>1. /\ Cardinality(A) \in Nat /\ Cardinality(B) \in Nat
        /\ t \notin A /\ t \in B => Cardinality(B) = Cardinality(A) + 1
        /\ t \in A /\ t \notin B => Cardinality(B) = Cardinality(A) - 1
        /\ (t \in A <=> t \in B) => B = A
    <3>1. A \in SUBSET Threads /\ B \in SUBSET Threads /\ A \ {t} = B \ {t}
      BY <1>3
    <3>. QED
      BY <3>1, CountMoves
  <2>. QED
    BY <1>3, <2>1
<1>5. head_thread = Cardinality(A)
  BY <1>0 DEF Counted, A
<1>6. head_thread' = Cardinality(B)
  <2>1. CASE PopEnter(t)
    <3>1. pc[t] \notin Loop /\ pc'[t] \in Loop /\ head_thread' = head_thread + 1
      BY <1>1, <2>1 DEF PopEnter, Loop
    <3>. QED
      BY <1>4, <1>5, <3>1
  <2>2. CASE PopExit(t)
    <3>1. pc[t] \in Loop /\ pc'[t] \notin Loop /\ head_thread' = head_thread - 1
      BY <1>1, <2>2 DEF PopExit, Loop
    <3>. QED
      BY <1>4, <1>5, <3>1
  <2>3. CASE PopLoad(t) \/ PopTest(t) \/ PopNext(t) \/ PopCas(t) \/ PopRead(t)
    <3>1. pc[t] \in Loop /\ pc'[t] \in Loop /\ head_thread' = head_thread
      BY <1>1, <2>3 DEF PopLoad, PopTest, PopNext, PopCas, PopRead, counters, Loop
    <3>. QED
      BY <1>4, <1>5, <3>1
  <2>4. CASE Call(t) \/ BackLoad(t) \/ BackNext(t) \/ BackVal(t) \/ FrontLoad(t) \/ PushCount(t)
    <3>1. pc[t] \notin Loop /\ pc'[t] \notin Loop /\ head_thread' = head_thread
      BY <1>1, <2>4 DEF Call, PopCall, PushBackCall, PushFrontCall, BackLoad, BackNext, BackVal,
         FrontLoad, PushCount, counters, Loop
    <3>. QED
      BY <1>4, <1>5, <3>1
  <2>5. CASE BackCas(t) \/ FrontCas(t) \/ PopTake(t) \/ PopUndo(t) \/ PopReturn(t)
    <3>1. pc[t] \notin Loop /\ pc'[t] \notin Loop /\ head_thread' = head_thread
      BY <1>1, <2>5 DEF BackCas, FrontCas, PopTake, PopUndo, PopReturn, counters, Loop
    <3>. QED
      BY <1>4, <1>5, <3>1
  <2>. QED
    BY <2>1, <2>2, <2>3, <2>4, <2>5 DEF Acts, Step
<1>. QED
  BY <1>4, <1>6 DEF Counted, B

\* Nobody is between the two changes while a pop frees its node.
LEMMA AloneToFree ==
    ASSUME IInv, NEW t \in Threads, Frees(t)
    PROVE  \A u \in Threads : pc[u] \notin Loop
<1>1. IsFiniteSet(At(Loop)) /\ Cardinality(At(Loop)) = 0
  <2>1. At(Loop) \in SUBSET Threads
    BY DEF At
  <2>. QED
    BY <2>1, NamesAssumption, FS_Subset DEF IInv, Counted, Frees
<1>2. At(Loop) = {}
  BY <1>1, FS_EmptySet
<1>. QED
  BY <1>2 DEF At

\* A filled node that a pop may have read is so after any step but the freeing of
\* a node, and its fields are what they were.
LEMMA StaysReadable ==
    ASSUME IInv, NEW t \in Threads, Acts(t), ~ Frees(t), NEW n \in Listed \cup Popped
    PROVE  /\ n \in Listed' \cup Popped'
           /\ val[n] \in Items => next'[n] = next[n] /\ val'[n] = val[n]
<1>0. TypeOK /\ Chained /\ Places
  BY DEF IInv
<1>1. /\ \A u \in Threads \ {t} : pc'[u] = pc[u] /\ old'[u] = old[u]
      /\ \A x, y : Goto(t, x, y) => pc[t] = x /\ pc'[t] = y
  BY <1>0, OthersStay, Goes
<1>2. Popped' = {old'[u] : u \in {v \in Threads : pc'[v] \in {"o_read", "o_exit", "o_wait"}}}
  BY DEF Popped, At
<1>3. pc[t] \in {"o_read", "o_exit", "o_wait"} =>
          pc'[t] \in {"o_exit", "o_wait"} /\ UNCHANGED <<next, val, old>>
  <2>1. pc[t] \in {"o_read", "o_exit", "o_wait"} => PopRead(t) \/ PopExit(t) \/ PopReturn(t)
    BY DEF Acts, Call, Step, PopCall, PushBackCall, PushFrontCall, BackLoad, BackCas, BackNext, BackVal,
       FrontLoad, FrontCas, PushCount, PopTake, PopUndo, PopEnter, PopLoad, PopTest, PopNext, PopCas, Goto
  <2>2. ~ PopReturn(t)
    BY Effect
  <2>. QED
    BY <1>1, <2>1, <2>2 DEF PopRead, PopExit, list, local
<1>4. n \in Listed' \cup Popped'
  <2>1. CASE n \in Listed
    <3>1. n \in Listed' \/ (Unlinks(t) /\ n = head)
      BY <2>1, Kinds, StepListed
    <3>2. Unlinks(t) => head \in Popped'
      BY <1>2 DEF Unlinks
    <3>. QED
      BY <3>1, <3>2
  <2>2. CASE n \in Popped
    <3>1. PICK u \in Threads : pc[u] \in {"o_read", "o_exit", "o_wait"} /\ n = old[u]
      BY <2>2 DEF Popped, At
    <3>. QED
      BY <1>1, <1>2, <1>3, <3>1
  <2>. QED
    BY <2>1, <2>2
<1>5. ASSUME val[n] \in Items PROVE next'[n] = next[n] /\ val'[n] = val[n]
  <2>1. n \in nodes /\ ~ Owes(t, n)
    BY <1>5, Readable
  <2>2. CASE n \notin Private(t)
    BY <1>0, <2>1, <2>2, WritesOwn
  <2>3. CASE n \in Private(t)
    <3>1. n \in Popped
      BY <1>0, <2>3, InUse
    <3>2. PICK u \in Threads : pc[u] \in {"o_read", "o_exit", "o_wait"} /\ n = old[u]
      BY <3>1 DEF Popped, At
    <3>3. n \in Private(u)
      BY <3>2, PrivateAt
    <3>4. u = t
      BY <1>0, <2>3, <3>3 DEF Places
    <3>. QED
      BY <1>3, <3>2, <3>4
  <2>. QED
    BY <2>2, <2>3
<1>. QED
  BY <1>4, <1>5

\* Snapshots: no pop acts on a link that has changed or on a node without a value.
LEMMA StepSnapshots ==
    ASSUME IInv, NEW t \in Threads, Acts(t)
    PROVE  Snapshots'
<1>0. /\ TypeOK /\ Chained /\ Places /\ Snapshots /\ ItemsKept
      /\ old \in [Threads -> Nodes \cup {Null}]
  BY DEF IInv, TypeOK
<1>1. /\ \A u \in Threads \ {t} : pc'[u] = pc[u] /\ old'[u] = old[u] /\ nxt'[u] = nxt[u]
      /\ \A x, y : Goto(t, x, y) => pc[t] = x /\ pc'[t] = y
  BY <1>0, OthersStay, Goes
<1>2. ASSUME NEW n \in Popped' PROVE next'[n] \in Nodes /\ val'[n] \in Items
  <2>1. PICK u \in Threads : pc'[u] \in {"o_read", "o_exit", "o_wait"} /\ n = old'[u]
    BY <1>2 DEF Popped, At
  <2>2. CASE u # t
    <3>1. pc[u] \in {"o_read", "o_exit", "o_wait"} /\ n = old[u] /\ n \in Popped
      BY <1>1, <2>1, <2>2 DEF Popped, At
    <3>2. next[n] \in Nodes /\ val[n] \in Items
      BY <1>0, <3>1 DEF Snapshots
    <3>3. n \in Private(u)
      BY <3>1, PrivateAt
    <3>4. n \in nodes /\ n \notin Private(t) /\ ~ Owes(t, n)
      BY <1>0, <2>2, <3>3, InUse, NotOwed DEF Places
    <3>. QED
      BY <1>0, <3>2, <3>4, WritesOwn
  <2>3. CASE u = t /\ Unlinks(t)
    <3>1. n = head /\ next' = next /\ val' = val /\ val[head] \in Items
      BY <2>1, <2>3 DEF Unlinks
    <3>2. head \in Listed
      BY <2>3, StepListed
    <3>. QED
      BY <3>1, <3>2, Readable
  <2>4. CASE u = t /\ (PopRead(t) \/ PopExit(t))
    <3>1. pc[t] \in {"o_read", "o_exit"} /\ UNCHANGED <<next, val, old>>
      BY <1>1, <2>4 DEF PopRead, PopExit, list, local
    <3>2. n \in Popped
      BY <2>1, <2>4, <3>1 DEF Popped, At
    <3>. QED
      BY <1>0, <3>1, <3>2 DEF Snapshots
  <2>5. CASE u = t /\ ~ Unlinks(t) /\ ~ (PopRead(t) \/ PopExit(t))
    <3>1. pc'[t] \in {"o_read", "o_exit", "o_wait"}
      BY <2>1, <2>5
    <3>2. ~ PopCas(t)
      BY <2>5, <3>1, Effect
    <3>3. CASE Call(t) \/ BackLoad(t) \/ BackNext(t) \/ BackVal(t) \/ FrontLoad(t) \/ PushCount(t)
      BY <1>1, <3>1, <3>3 DEF Call, PopCall, PushBackCall, PushFrontCall, BackLoad, BackNext, BackVal,
         FrontLoad, PushCount
    <3>4. CASE BackCas(t) \/ FrontCas(t) \/ PopTake(t)
      BY <1>1, <3>1, <3>4 DEF BackCas, FrontCas, PopTake
    <3>5. CASE PopUndo(t) \/ PopEnter(t) \/ PopLoad(t) \/ PopTest(t) \/ PopNext(t) \/ PopReturn(t)
      BY <1>1, <3>1, <3>5 DEF PopUndo, PopEnter, PopLoad, PopTest, PopNext, PopReturn
    <3>. QED
      BY <2>5, <3>2, <3>3, <3>4, <3>5 DEF Acts, Step
  <2>. QED
    BY <2>2, <2>3, <2>4, <2>5
<1>3. ASSUME NEW u \in Threads, pc'[u] \in {"o_test", "o_next", "o_cas"}
      PROVE  /\ old'[u] \in Listed' \cup Popped'
             /\ pc'[u] \in {"o_next", "o_cas"} => val'[old'[u]] \in Items
             /\ pc'[u] = "o_cas" => nxt'[u] = next'[old'[u]]
  <2>1. CASE u # t
    <3>1. /\ pc[u] \in {"o_test", "o_next", "o_cas"}
          /\ old[u] \in Listed \cup Popped
          /\ pc[u] \in {"o_next", "o_cas"} => val[old[u]] \in Items
          /\ pc[u] = "o_cas" => nxt[u] = next[old[u]]
      BY <1>0, <1>1, <1>3, <2>1 DEF Snapshots, At
    <3>2. ~ Frees(t)
      BY <3>1, AloneToFree DEF Loop
    <3>3. /\ old[u] \in Listed' \cup Popped'
          /\ val[old[u]] \in Items => next'[old[u]] = next[old[u]] /\ val'[old[u]] = val[old[u]]
      BY <3>1, <3>2, StaysReadable
    <3>. QED
      BY <1>1, <2>1, <3>1, <3>3
  <2>2. CASE u = t /\ PopLoad(t)
    <3>1. pc[t] = "o_load" /\ pc'[t] = "o_test" /\ old'[t] = head
      BY <1>0, <1>1, <2>2 DEF PopLoad
    <3>2. head \in Listed
      BY <1>0, <3>1, EntitledFinds, InUse
    <3>3. ~ Frees(t)
      BY <3>1 DEF Frees
    <3>. QED
      BY <2>2, <3>1, <3>2, <3>3, StaysReadable
  <2>3. CASE u = t /\ PopCas(t)
    <3>1. pc[t] = "o_cas" /\ pc'[t] = "o_test" /\ old'[t] = head
      BY <1>0, <1>1, <1>3, <2>3 DEF PopCas
    <3>2. head \in Listed
      BY <1>0, <3>1, EntitledFinds, InUse
    <3>3. ~ Frees(t)
      BY <3>1 DEF Frees
    <3>. QED
      BY <2>3, <3>1, <3>2, <3>3, StaysReadable
  <2>4. CASE u = t /\ PopTest(t)
    <3>1. /\ pc[t] = "o_test" /\ pc'[t] = "o_next" /\ val[old[t]] # NoItem
          /\ UNCHANGED <<next, val, old>>
      BY <1>1, <2>4 DEF PopTest, list, local
    <3>2. old[t] \in Listed \cup Popped
      BY <1>0, <3>1 DEF Snapshots, At
    <3>3. val[old[t]] \in Items
      <4>1. CASE old[t] \in Popped
        BY <1>0, <4>1 DEF Snapshots
      <4>2. CASE old[t] \in Listed
        <5>1. FinalVal(old[t]) = val[old[t]]
          BY <3>1, NotOwed
        <5>. QED
          BY <1>0, <4>2, <5>1 DEF ItemsKept
      <4>. QED
        BY <3>2, <4>1, <4>2
    <3>4. ~ Frees(t)
      BY <3>1 DEF Frees
    <3>. QED
      BY <2>4, <3>1, <3>2, <3>3, <3>4, StaysReadable
  <2>5. CASE u = t /\ PopNext(t)
    <3>1. /\ pc[t] = "o_next" /\ pc'[t] = "o_cas" /\ UNCHANGED <<next, val, old>>
      BY <1>1, <2>5 DEF PopNext, list
    <3>2. nxt'[t] = next[old[t]]
      BY <1>0, <2>5 DEF PopNext, TypeOK
    <3>3. old[t] \in Listed \cup Popped /\ val[old[t]] \in Items
      BY <1>0, <3>1 DEF Snapshots, At
    <3>4. ~ Frees(t)
      BY <3>1 DEF Frees
    <3>. QED
      BY <2>5, <3>1, <3>2, <3>3, <3>4, StaysReadable
  <2>6. CASE u = t /\ ~ (PopLoad(t) \/ PopCas(t) \/ PopTest(t) \/ PopNext(t))
    <3>1. pc'[t] \in {"o_test", "o_next", "o_cas"}
      BY <1>3, <2>6
    <3>3. CASE Call(t) \/ BackLoad(t) \/ BackNext(t) \/ BackVal(t) \/ FrontLoad(t) \/ PushCount(t)
      BY <1>1, <3>1, <3>3 DEF Call, PopCall, PushBackCall, PushFrontCall, BackLoad, BackNext, BackVal,
         FrontLoad, PushCount
    <3>4. CASE BackCas(t) \/ FrontCas(t) \/ PopTake(t)
      BY <1>1, <3>1, <3>4 DEF BackCas, FrontCas, PopTake
    <3>5. CASE PopUndo(t) \/ PopEnter(t) \/ PopRead(t) \/ PopExit(t) \/ PopReturn(t)
      BY <1>1, <3>1, <3>5 DEF PopUndo, PopEnter, PopRead, PopExit, PopReturn
    <3>. QED
      BY <2>6, <3>3, <3>4, <3>5 DEF Acts, Step
  <2>. QED
    BY <2>1, <2>2, <2>3, <2>4, <2>5, <2>6
<1>. QED
  BY <1>2, <1>3 DEF Snapshots, At

\* b is made of h, v, p and o, and these have nothing in common.
Parts(b, h, v, p, o) ==
    /\ b = h \cup v \cup p \cup o
    /\ h \cap v = {} /\ h \cap p = {} /\ h \cap o = {}
    /\ v \cap p = {} /\ v \cap o = {} /\ p \cap o = {}

OtherItems(t) == UNION {PrivateItem(u) : u \in Threads \ {t}}

\* What happens to the item of the call that makes a step: it stays, the call gets
\* it, puts it on the list, takes it off the list or gives it to its caller.
LEMMA ItemMoves ==
    ASSUME IInv, NEW t \in Threads, Acts(t)
    PROVE  LET p == PrivateItem(t)
               q == PrivateItem(t)'
           IN  \/ Listed' = Listed /\ q = p /\ blocks' = blocks /\ held' = held
               \/ /\ Listed' = Listed /\ p = {} /\ held' = held
                  /\ \E d \in Items \ blocks : q = {d} /\ blocks' = blocks \cup {d}
               \/ /\ \E n \in Nodes \ Listed : Listed' = Listed \cup {n} /\ p = {Values'[n]}
                  /\ q = {} /\ blocks' = blocks /\ held' = held
               \/ /\ \E n \in Listed : Listed' = Listed \ {n} /\ q = {Values[n]}
                  /\ p = {} /\ blocks' = blocks /\ held' = held
               \/ /\ Listed' = Listed /\ q = {} /\ blocks' = blocks
                  /\ \E d : p = {d} /\ held' = held \cup {d}
<1> DEFINE p == PrivateItem(t)
           q == PrivateItem(t)'
<1>0. TypeOK /\ Chained /\ Places /\ tail \in Nodes \ Listed
  BY InUse DEF IInv
<1>1. \A x, y : Goto(t, x, y) => pc[t] = x /\ pc'[t] = y
  BY <1>0, Goes
<1>2. CASE LinksBack(t)
  <2>1. p = {Values'[tail]} /\ q = {}
    BY <1>2, PrivateItemAt, LinksNew DEF LinksBack
  <2>2. Listed' = Listed \cup {tail} /\ blocks' = blocks /\ held' = held
    BY <1>2, StepListed DEF LinksBack
  <2>. QED
    BY <1>0, <2>1, <2>2
<1>3. CASE LinksFront(t)
  <2>1. p = {Values'[new[t]]} /\ q = {} /\ new[t] \in Nodes \ Listed
    BY <1>3, PrivateItemAt, LinksNew DEF LinksFront
  <2>2. Listed' = Listed \cup {new[t]} /\ blocks' = blocks /\ held' = held
    BY <1>3, StepListed DEF LinksFront
  <2>. QED
    BY <2>1, <2>2
<1>4. CASE Unlinks(t)
  <2>1. p = {} /\ q = {val[head]}
    BY <1>4, PrivateItemAt DEF Unlinks
  <2>2. Values[head] = val[head]
    BY <1>4, LinksNew
  <2>3. Listed' = Listed \ {head} /\ head \in Listed /\ blocks' = blocks /\ held' = held
    BY <1>4, StepListed DEF Unlinks
  <2>. QED
    BY <2>1, <2>2, <2>3
<1>5. CASE Frees(t)
  <2>1. p = {item[t]} /\ q = {}
    BY <1>5, PrivateItemAt DEF Frees
  <2>2. Listed' = Listed /\ blocks' = blocks /\ held' = held \cup {item[t]}
    BY <1>5, StepListed DEF Frees
  <2>. QED
    BY <2>1, <2>2
<1>6. CASE ~ (LinksBack(t) \/ LinksFront(t) \/ Unlinks(t) \/ Frees(t))
  <2>0. Listed' = Listed
    BY <1>6, Kinds, StepListed
  <2>1. CASE \E n \in Nodes, d \in Items : PushBackCall(t, n, d) \/ PushFrontCall(t, n, d)
    <3>1. PICK n \in Nodes, d \in Items : PushBackCall(t, n, d) \/ PushFrontCall(t, n, d)
      BY <2>1
    <3>2. /\ pc[t] = "idle" /\ pc'[t] \in {"b_load", "f_load"} /\ item'[t] = d
          /\ d \notin blocks /\ blocks' = blocks \cup {d} /\ held' = held
      BY <1>0, <1>1, <3>1 DEF PushBackCall, PushFrontCall, DataAlloc!Allocate, TypeOK
    <3>3. p = {} /\ q = {d}
      BY <3>2, PrivateItemAt
    <3>. QED
      BY <2>0, <3>2, <3>3
  <2>2. CASE BackLoad(t) \/ FrontLoad(t) \/ PopExit(t)
    <3>1. /\ pc[t] \in {"b_load", "f_load", "o_exit"}
          /\ pc'[t] \in {"b_cas", "f_cas", "o_wait"}
          /\ item' = item /\ blocks' = blocks /\ held' = held
      BY <1>1, <2>2 DEF BackLoad, FrontLoad, PopExit, memory, local
    <3>2. q = p
      BY <3>1, PrivateItemAt
    <3>. QED
      BY <2>0, <3>1, <3>2
  <2>3. CASE BackCas(t) \/ FrontCas(t)
    <3>1. /\ pc[t] \in {"b_cas", "f_cas"} /\ pc'[t] \in {"b_cas", "f_cas"}
          /\ item' = item /\ blocks' = blocks /\ held' = held
      BY <1>1, <1>6, <2>3, Effect DEF BackCas, FrontCas, memory, local
    <3>2. q = p
      BY <3>1, PrivateItemAt
    <3>. QED
      BY <2>0, <3>1, <3>2
  <2>4. CASE PopRead(t)
    <3>1. /\ pc[t] = "o_read" /\ pc'[t] = "o_exit" /\ blocks' = blocks /\ held' = held
          /\ item'[t] = val[old[t]]
      BY <1>0, <1>1, <2>4 DEF PopRead, memory, TypeOK
    <3>2. q = p
      BY <3>1, PrivateItemAt
    <3>. QED
      BY <2>0, <3>1, <3>2
  <2>5. CASE \/ PopCall(t) \/ BackNext(t) \/ BackVal(t) \/ PushCount(t)
             \/ PopUndo(t) \/ PopEnter(t) \/ PopLoad(t) \/ PopTest(t) \/ PopNext(t)
    <3>1. /\ pc[t] \in {"idle", "b_next", "b_val", "count", "o_undo", "o_enter", "o_load", "o_test", "o_next"}
          /\ pc'[t] \in {"o_take", "b_val", "count", "idle", "o_load", "o_test", "o_next", "o_cas"}
          /\ blocks' = blocks /\ held' = held
      BY <1>1, <2>5 DEF PopCall, BackNext, BackVal, PushCount, PopUndo, PopEnter, PopLoad, PopTest,
         PopNext, memory
    <3>2. q = {} /\ p = {}
      BY <3>1, PrivateItemAt
    <3>. QED
      BY <2>0, <3>1, <3>2
  <2>6. CASE PopTake(t)
    <3>1. /\ pc[t] = "o_take" /\ pc'[t] \in {"o_undo", "o_enter"} /\ blocks' = blocks /\ held' = held
      BY <1>1, <2>6 DEF PopTake, memory
    <3>2. q = {} /\ p = {}
      BY <3>1, PrivateItemAt
    <3>. QED
      BY <2>0, <3>1, <3>2
  <2>7. CASE PopCas(t)
    <3>1. /\ pc[t] = "o_cas" /\ pc'[t] = "o_test" /\ blocks' = blocks /\ held' = held
      BY <1>1, <1>6, <2>7, Effect DEF PopCas, memory
    <3>2. q = {} /\ p = {}
      BY <3>1, PrivateItemAt
    <3>. QED
      BY <2>0, <3>1, <3>2
  <2>8. CASE PopReturn(t)
    BY <1>6, <2>8, Effect
  <2>. QED
    BY <2>1, <2>2, <2>3, <2>4, <2>5, <2>6, <2>7, <2>8 DEF Acts, Call, Step
<1>. QED
  BY <1>2, <1>3, <1>4, <1>5, <1>6

\* The items: each stays with one node, one call or one caller.
LEMMA StepItems ==
    ASSUME IInv, NEW t \in Threads, Acts(t)
    PROVE  ItemsKept' /\ blocks' \subseteq Items /\ held' \subseteq Items
<1> DEFINE V == ListedItems
           W == ListedItems'
           T == PrivateItem(t)
           U == PrivateItem(t)'
           O == OtherItems(t)
<1>0. /\ TypeOK /\ Chained /\ Places /\ ItemsKept
      /\ held \subseteq Items /\ blocks \subseteq Items
  BY DEF IInv, TypeOK
<1>1. \A u \in Threads \ {t} : PrivateItem(u)' = PrivateItem(u) /\ PrivateItem(u) \subseteq O
  BY OthersFit DEF OtherItems
<1>2. \A n \in Listed : Values'[n] = Values[n]
  BY LinksStay
<1>v. /\ \A n \in Nodes : Values[n] = FinalVal(n)
      /\ \A n \in Nodes : Values'[n] = FinalVal(n)'
      /\ Listed \subseteq Nodes /\ Listed' \subseteq Nodes
  <2>1. Listed' \subseteq Nodes
    <3>1. \E e, nx : IsList(head', e, nx, List') /\ Listed' = Members(List')
      BY StepList DEF Chained, Listed, Members
    <3>. QED
      BY <3>1, ListLinks
  <2>. QED
    BY <1>0, <2>1, InUse DEF Values
<1>3. Parts(blocks, held, V, T, O) /\ T \subseteq Items /\ O \subseteq Items
  <2>1. UNION {PrivateItem(u) : u \in Threads} = T \cup O
    BY DEF OtherItems
  <2>2. V \cap held = {}
    BY <1>0 DEF ItemsKept, ListedItems
  <2>3. O \cap (held \cup V) = {} /\ O \cap T = {} /\ O \subseteq Items
    BY <1>0 DEF ItemsKept, OtherItems
  <2>4. T \cap (held \cup V) = {} /\ T \subseteq Items
    BY <1>0 DEF ItemsKept
  <2>5. blocks = held \cup V \cup (T \cup O)
    BY <1>0, <2>1 DEF ItemsKept
  <2>. HIDE DEF V, T, O
  <2>. QED
    BY <2>2, <2>3, <2>4, <2>5 DEF Parts
<1>4. (\A n \in Listed : Values[n] \in Items) /\ \A m, n \in Listed : Values[m] = Values[n] => m = n
  BY <1>0, <1>v DEF ItemsKept
<1>5. V = {Values[n] : n \in Listed} /\ W = {Values'[n] : n \in Listed'}
  BY <1>v DEF ListedItems
<1>6. \/ Listed' = Listed /\ U = T /\ blocks' = blocks /\ held' = held
      \/ /\ Listed' = Listed /\ T = {} /\ held' = held
         /\ \E d \in Items \ blocks : U = {d} /\ blocks' = blocks \cup {d}
      \/ /\ \E n \in Nodes \ Listed : Listed' = Listed \cup {n} /\ T = {Values'[n]}
         /\ U = {} /\ blocks' = blocks /\ held' = held
      \/ /\ \E n \in Listed : Listed' = Listed \ {n} /\ U = {Values[n]}
         /\ T = {} /\ blocks' = blocks /\ held' = held
      \/ /\ Listed' = Listed /\ U = {} /\ blocks' = blocks
         /\ \E d : T = {d} /\ held' = held \cup {d}
  BY ItemMoves
<1>. HIDE DEF V, W, T, U, O
<1>7. ASSUME Listed' = Listed
      PROVE  /\ W = V
             /\ \A n \in Listed' : Values'[n] \in Items
             /\ \A m, n \in Listed' : Values'[m] = Values'[n] => m = n
  BY <1>2, <1>4, <1>5, <1>7
<1>8. /\ Parts(blocks', held', W, U, O) /\ U \subseteq Items /\ held' \subseteq Items
      /\ \A n \in Listed' : Values'[n] \in Items
      /\ \A m, n \in Listed' : Values'[m] = Values'[n] => m = n
  <2>1. CASE Listed' = Listed /\ U = T /\ blocks' = blocks /\ held' = held
    BY <1>0, <1>3, <1>7, <2>1
  <2>2. CASE /\ Listed' = Listed /\ T = {} /\ held' = held
             /\ \E d \in Items \ blocks : U = {d} /\ blocks' = blocks \cup {d}
    <3>1. W = V
      BY <1>7, <2>2
    <3>2. Parts(blocks', held', W, U, O)
      BY <1>3, <2>2, <3>1 DEF Parts
    <3>. QED
      BY <1>0, <1>7, <2>2, <3>2
  <2>3. CASE /\ \E n \in Nodes \ Listed : Listed' = Listed \cup {n} /\ T = {Values'[n]}
             /\ U = {} /\ blocks' = blocks /\ held' = held
    <3>1. PICK n \in Nodes \ Listed : Listed' = Listed \cup {n} /\ T = {Values'[n]}
      BY <2>3
    <3>2. W = V \cup T
      BY <1>2, <1>5, <3>1
    <3>3. Values'[n] \notin V /\ Values'[n] \in Items
      BY <1>3, <3>1 DEF Parts
    <3>4. \A m \in Listed' : (m \in Listed /\ Values'[m] = Values[m] /\ Values[m] \in V) \/ m = n
      BY <1>2, <1>5, <3>1
    <3>5. Parts(blocks', held', W, U, O)
      BY <1>3, <2>3, <3>2 DEF Parts
    <3>. QED
      BY <1>0, <1>4, <2>3, <3>3, <3>4, <3>5
  <2>4. CASE /\ \E n \in Listed : Listed' = Listed \ {n} /\ U = {Values[n]}
             /\ T = {} /\ blocks' = blocks /\ held' = held
    <3>1. PICK n \in Listed : Listed' = Listed \ {n} /\ U = {Values[n]}
      BY <2>4
    <3>2. V = W \cup U /\ W \cap U = {}
      BY <1>2, <1>4, <1>5, <3>1
    <3>3. Parts(blocks', held', W, U, O)
      BY <1>3, <2>4, <3>2 DEF Parts
    <3>. QED
      BY <1>0, <1>2, <1>4, <2>4, <3>1, <3>3
  <2>5. CASE /\ Listed' = Listed /\ U = {} /\ blocks' = blocks
             /\ \E d : T = {d} /\ held' = held \cup {d}
    <3>1. W = V
      BY <1>7, <2>5
    <3>2. Parts(blocks', held', W, U, O)
      BY <1>3, <2>5, <3>1 DEF Parts
    <3>. QED
      BY <1>0, <1>3, <1>7, <2>5, <3>2
  <2>. QED
    BY <1>6, <2>1, <2>2, <2>3, <2>4, <2>5
<1>9. W \subseteq Items
  BY <1>5, <1>8
<1>10. blocks' \subseteq Items
  BY <1>3, <1>8, <1>9 DEF Parts
<1>11. \A n \in Listed' : Values'[n] \in Items \ held'
  <2>1. \A n \in Listed' : Values'[n] \in W
    BY <1>5
  <2>. QED
    BY <1>8, <2>1 DEF Parts
<1>12. \A u \in Threads : PrivateItem(u)' \subseteq Items \ (held' \cup W)
  <2>1. U \cap (held' \cup W) = {} /\ O \cap (held' \cup W) = {}
    BY <1>8 DEF Parts
  <2>2. U \subseteq Items \ (held' \cup W)
    BY <1>8, <2>1
  <2>3. \A u \in Threads \ {t} : PrivateItem(u)' \subseteq Items \ (held' \cup W)
    BY <1>1, <1>3, <2>1
  <2>. QED
    BY <2>2, <2>3 DEF U
<1>13. \A u, v \in Threads : u # v => PrivateItem(u)' \cap PrivateItem(v)' = {}
  <2>1. \A u \in Threads \ {t} : PrivateItem(u)' \cap U = {}
    BY <1>1, <1>8 DEF Parts
  <2>2. \A u, v \in Threads \ {t} : u # v => PrivateItem(u)' \cap PrivateItem(v)' = {}
    BY <1>0, <1>1 DEF ItemsKept
  <2>. QED
    BY <2>1, <2>2 DEF U
<1>14. UNION {PrivateItem(u)' : u \in Threads} = U \cup O
  BY <1>1 DEF U, O, OtherItems
<1>15. blocks' = held' \cup W \cup UNION {PrivateItem(u)' : u \in Threads}
  BY <1>8, <1>14 DEF Parts
<1>16. ItemsKept'
  BY <1>v, <1>8, <1>11, <1>12, <1>13, <1>15 DEF ItemsKept, W
<1>. QED
  BY <1>8, <1>10, <1>16

-----------------------------------------------------------------------------
(* jqueue is the deque with permits *)

\* What a node can hold.
Contents == Items \cup {NoItem, Raw, Junk}

\* What a push at the front makes of the items of a sequence of nodes.
LEMMA ItemsOfPush ==
    ASSUME NEW v \in [Nodes -> Contents], NEW s \in Seq(Nodes), NEW n \in Nodes
    PROVE  ItemsOf(v, <<n>> \o s) = <<v[n]>> \o ItemsOf(v, s)
<1> DEFINE D == Contents
           q == <<n>> \o s
           r == <<v[n]>> \o ItemsOf(v, s)
<1>1. /\ q \in Seq(Nodes) /\ Len(q) = 1 + Len(s) /\ Len(s) \in Nat
      /\ \A i \in 1 .. 1 + Len(s) : q[i] = IF i <= 1 THEN <<n>>[i] ELSE s[i - 1]
  <2>1. <<n>> \in Seq(Nodes) /\ Len(<<n>>) = 1
    OBVIOUS
  <2>. QED
    BY <2>1, ConcatProperties
<1>2. ItemsOf(v, s) \in Seq(D) /\ Len(ItemsOf(v, s)) = Len(s)
      /\ \A i \in 1 .. Len(s) : ItemsOf(v, s)[i] = v[s[i]]
  BY DEF ItemsOf
<1>3. /\ r \in Seq(D) /\ Len(r) = 1 + Len(s)
      /\ \A i \in 1 .. 1 + Len(s) : r[i] = IF i <= 1 THEN <<v[n]>>[i] ELSE ItemsOf(v, s)[i - 1]
  <2>1. <<v[n]>> \in Seq(D) /\ Len(<<v[n]>>) = 1
    OBVIOUS
  <2>. QED
    BY <1>2, <2>1, ConcatProperties
<1>. HIDE DEF q, r
<1>4. /\ ItemsOf(v, q) \in Seq(D) /\ Len(ItemsOf(v, q)) = Len(q)
      /\ \A i \in 1 .. Len(q) : ItemsOf(v, q)[i] = v[q[i]]
  BY <1>1 DEF ItemsOf
<1>5. ASSUME NEW i \in 1 .. 1 + Len(s) PROVE v[q[i]] = r[i]
  <2>1. CASE i = 1
    BY <1>1, <1>3, <2>1
  <2>2. CASE i # 1
    <3>1. i - 1 \in 1 .. Len(s) /\ ~ (i <= 1)
      BY <1>1, <2>2
    <3>2. q[i] = s[i - 1] /\ r[i] = ItemsOf(v, s)[i - 1]
      BY <1>1, <1>3, <3>1
    <3>. QED
      BY <1>2, <3>1, <3>2
  <2>. QED
    BY <2>1, <2>2
<1>6. ItemsOf(v, q) = r
  BY <1>1, <1>3, <1>4, <1>5, SeqEqual
<1>. QED
  BY <1>6 DEF q, r

\* A pop takes off the first item.
LEMMA ItemsOfPop ==
    ASSUME NEW v \in [Nodes -> Contents], NEW s \in Seq(Nodes), s # <<>>
    PROVE  /\ ItemsOf(v, s) # <<>> /\ Head(ItemsOf(v, s)) = v[Head(s)]
           /\ ItemsOf(v, Tail(s)) = Tail(ItemsOf(v, s))
<1> DEFINE D == Contents
           r == ItemsOf(v, s)
<1>1. /\ Len(s) \in Nat /\ Len(s) > 0 /\ Head(s) = s[1]
      /\ Tail(s) \in Seq(Nodes) /\ Len(Tail(s)) = Len(s) - 1
      /\ \A i \in 1 .. Len(Tail(s)) : Tail(s)[i] = s[i + 1]
  BY HeadTailProperties
<1>2. /\ r \in Seq(D) /\ Len(r) = Len(s)
      /\ \A i \in 1 .. Len(s) : r[i] = v[s[i]]
  BY DEF ItemsOf
<1>. HIDE DEF r
<1>3. r # <<>> /\ Head(r) = r[1]
  BY <1>1, <1>2
<1>4. /\ Tail(r) \in Seq(D) /\ Len(Tail(r)) = Len(s) - 1
      /\ \A i \in 1 .. Len(Tail(r)) : Tail(r)[i] = r[i + 1]
  BY <1>2, <1>3, HeadTailProperties
<1>5. /\ ItemsOf(v, Tail(s)) \in Seq(D) /\ Len(ItemsOf(v, Tail(s))) = Len(s) - 1
      /\ \A i \in 1 .. Len(s) - 1 : ItemsOf(v, Tail(s))[i] = v[Tail(s)[i]]
  <2> DEFINE q == Tail(s)
  <2>1. q \in Seq(Nodes) /\ Len(q) = Len(s) - 1
    BY <1>1
  <2>. HIDE DEF q
  <2>2. /\ ItemsOf(v, q) \in Seq(D) /\ Len(ItemsOf(v, q)) = Len(s) - 1
        /\ \A i \in 1 .. Len(s) - 1 : ItemsOf(v, q)[i] = v[q[i]]
    BY <2>1 DEF ItemsOf
  <2>. QED
    BY <2>2 DEF q
<1>6. \A i \in 1 .. Len(s) - 1 : ItemsOf(v, Tail(s))[i] = Tail(r)[i]
  <2> TAKE i \in 1 .. Len(s) - 1
  <2>1. i + 1 \in 1 .. Len(s) /\ i \in 1 .. Len(Tail(r)) /\ i \in 1 .. Len(Tail(s))
    BY <1>1, <1>4
  <2>. QED
    BY <1>1, <1>2, <1>4, <1>5, <2>1
<1>7. ItemsOf(v, Tail(s)) = Tail(r)
  BY <1>4, <1>5, <1>6, SeqEqual
<1>. QED
  BY <1>1, <1>2, <1>3, <1>7 DEF r

\* And what a push at the back makes of them.
LEMMA ItemsOfAppend ==
    ASSUME NEW v \in [Nodes -> Contents], NEW s \in Seq(Nodes), NEW n \in Nodes
    PROVE  ItemsOf(v, Append(s, n)) = Append(ItemsOf(v, s), v[n])
<1> DEFINE D == Contents
           q == Append(s, n)
           r == ItemsOf(v, s)
           a == Append(r, v[n])
<1>1. /\ q \in Seq(Nodes) /\ Len(q) = Len(s) + 1 /\ Len(s) \in Nat
      /\ \A i \in 1 .. Len(s) : q[i] = s[i]
      /\ q[Len(s) + 1] = n
  OBVIOUS
<1>2. r \in Seq(D) /\ Len(r) = Len(s) /\ \A i \in 1 .. Len(s) : r[i] = v[s[i]]
  BY DEF ItemsOf
<1>. HIDE DEF q, r
<1>3. /\ a \in Seq(D) /\ Len(a) = Len(s) + 1
      /\ \A i \in 1 .. Len(s) : a[i] = r[i]
      /\ a[Len(s) + 1] = v[n]
  BY <1>2
<1>4. /\ ItemsOf(v, q) \in Seq(D) /\ Len(ItemsOf(v, q)) = Len(s) + 1
      /\ \A i \in 1 .. Len(s) + 1 : ItemsOf(v, q)[i] = v[q[i]]
  BY <1>1 DEF ItemsOf
<1>. HIDE DEF a
<1>5. ASSUME NEW i \in 1 .. Len(s) + 1 PROVE ItemsOf(v, q)[i] = a[i]
  <2>1. CASE i = Len(s) + 1
    BY <1>1, <1>3, <1>4, <2>1
  <2>2. CASE i # Len(s) + 1
    <3>1. i \in 1 .. Len(s)
      BY <1>1, <2>2
    <3>. QED
      BY <1>1, <1>2, <1>3, <1>4, <3>1
  <2>. QED
    BY <2>1, <2>2
<1>6. ItemsOf(v, q) = a
  BY <1>3, <1>4, <1>5, SeqEqual
<1>. QED
  BY <1>6 DEF q, r, a

-----------------------------------------------------------------------------
(* The types *)

LEMMA StepType ==
    ASSUME IInv, NEW t \in Threads, Acts(t)
    PROVE  TypeOK'
<1>0. TypeOK /\ Chained /\ Places /\ Snapshots /\ ItemsKept
  BY DEF IInv
<1>1. \A x, y : Goto(t, x, y) => pc[t] = x /\ pc'[t] = y
  BY <1>0, Goes
<1>2. head' \in nodes' /\ tail' \in nodes'
  <2>1. IsList(head', tail', Links', List') /\ Listed' = Members(List')
    BY StepList DEF Chained, Listed, Members
  <2>2. head' \in Members(List') \cup {tail'}
    BY <2>1, ListLinks
  <2>3. {tail'} \cup Listed' \subseteq nodes'
    BY StepPlaces DEF Places
  <2>. QED
    BY <2>1, <2>2, <2>3
<1>3. next' \in [Nodes -> Nodes \cup {Null, Junk}]
  <2>1. \A m, x : x \in Nodes \cup {Null, Junk} =>
                      [next EXCEPT ![m] = x] \in [Nodes -> Nodes \cup {Null, Junk}]
    BY <1>0 DEF TypeOK
  <2>2. CASE BackNext(t)
    BY <1>0, <2>1, <2>2 DEF BackNext, TypeOK
  <2>3. CASE FrontLoad(t) \/ FrontCas(t) \/ PopReturn(t)
    BY <1>0, <2>1, <2>3 DEF FrontLoad, FrontCas, PopReturn, TypeOK
  <2>4. CASE Call(t)
    BY <1>0, <2>4 DEF Call, PopCall, PushBackCall, PushFrontCall, list, TypeOK
  <2>5. CASE Step(t) /\ ~ (BackNext(t) \/ FrontLoad(t) \/ FrontCas(t) \/ PopReturn(t))
    <3>1. next' = next
      BY <2>5 DEF Step, BackLoad, BackCas, BackVal, PushCount, PopTake, PopUndo, PopEnter, PopLoad,
         PopTest, PopNext, PopCas, PopRead, PopExit, list
    <3>. QED
      BY <1>0, <3>1 DEF TypeOK
  <2>. QED
    BY <2>2, <2>3, <2>4, <2>5 DEF Acts
<1>4. val' \in [Nodes -> Items \cup {NoItem, Raw, Junk}]
  <2>1. \A m, x : x \in Items \cup {NoItem, Raw, Junk} =>
                      [val EXCEPT ![m] = x] \in [Nodes -> Items \cup {NoItem, Raw, Junk}]
    BY <1>0 DEF TypeOK
  <2>2. CASE BackVal(t)
    BY <1>0, <2>1, <2>2 DEF BackVal, TypeOK
  <2>3. CASE PopReturn(t)
    BY <2>1, <2>3 DEF PopReturn
  <2>4. CASE Call(t)
    BY <1>0, <2>1, <2>4 DEF Call, PopCall, PushBackCall, PushFrontCall, list, TypeOK
  <2>5. CASE Step(t) /\ ~ (BackVal(t) \/ PopReturn(t))
    <3>1. val' = val
      BY <2>5 DEF Step, BackLoad, BackCas, BackNext, FrontLoad, FrontCas, PushCount, PopTake, PopUndo,
         PopEnter, PopLoad, PopTest, PopNext, PopCas, PopRead, PopExit, list
    <3>. QED
      BY <1>0, <3>1 DEF TypeOK
  <2>. QED
    BY <2>2, <2>3, <2>4, <2>5 DEF Acts
<1>5. size' \in Int
  BY <1>0 DEF Acts, Call, Step, PopCall, PushBackCall, PushFrontCall, BackLoad, BackCas, BackNext,
     BackVal, FrontLoad, FrontCas, PushCount, PopTake, PopUndo, PopEnter, PopLoad, PopTest, PopNext,
     PopCas, PopRead, PopExit, PopReturn, counters, TypeOK
<1>6. nodes' \subseteq Nodes
  BY <1>0, Kinds DEF Stays, Gets, LinksBack, LinksFront, Unlinks, Frees, TypeOK
<1>7. nxt' \in [Threads -> Nodes \cup {Null}]
  <2>1. \A x : x \in Nodes \cup {Null} => [nxt EXCEPT ![t] = x] \in [Threads -> Nodes \cup {Null}]
    BY <1>0 DEF TypeOK
  <2>2. CASE PopNext(t)
    <3>1. pc[t] = "o_next"
      BY <1>1, <2>2 DEF PopNext
    <3>2. old[t] \in Listed \cup Popped /\ val[old[t]] \in Items
      BY <1>0, <3>1 DEF Snapshots, At
    <3>3. next[old[t]] \in Nodes
      BY <3>2, Readable
    <3>. QED
      BY <2>1, <2>2, <3>3 DEF PopNext
  <2>3. CASE PopCas(t)
    BY <2>1, <2>3 DEF PopCas
  <2>4. CASE Acts(t) /\ ~ (PopNext(t) \/ PopCas(t))
    <3>1. nxt' = nxt
      BY <2>4 DEF Acts, Call, Step, PopCall, PushBackCall, PushFrontCall, BackLoad, BackCas, BackNext,
         BackVal, FrontLoad, FrontCas, PushCount, PopTake, PopUndo, PopEnter, PopLoad, PopTest, PopRead,
         PopExit, PopReturn, local
    <3>. QED
      BY <1>0, <3>1 DEF TypeOK
  <2>. QED
    BY <2>2, <2>3, <2>4
<1>8. item' \in [Threads -> Items \cup {NoItem}]
  <2>1. \A x : x \in Items \cup {NoItem} => [item EXCEPT ![t] = x] \in [Threads -> Items \cup {NoItem}]
    BY <1>0 DEF TypeOK
  <2>2. CASE PopRead(t)
    <3>1. pc[t] = "o_read"
      BY <1>1, <2>2 DEF PopRead
    <3>2. PrivateItem(t) = {val[old[t]]}
      BY <3>1, PrivateItemAt
    <3>3. val[old[t]] \in Items
      BY <1>0, <3>2 DEF ItemsKept
    <3>. QED
      BY <2>1, <2>2, <3>3 DEF PopRead
  <2>3. CASE PushCount(t) \/ PopReturn(t)
    BY <2>1, <2>3 DEF PushCount, PopReturn
  <2>4. CASE Call(t)
    BY <1>0, <2>1, <2>4 DEF Call, PopCall, PushBackCall, PushFrontCall, local, TypeOK
  <2>5. CASE Step(t) /\ ~ (PopRead(t) \/ PushCount(t) \/ PopReturn(t))
    <3>1. item' = item
      BY <2>5 DEF Step, BackLoad, BackCas, BackNext, BackVal, FrontLoad, FrontCas, PopTake, PopUndo,
         PopEnter, PopLoad, PopTest, PopNext, PopCas, PopExit, local
    <3>. QED
      BY <1>0, <3>1 DEF TypeOK
  <2>. QED
    BY <2>2, <2>3, <2>4, <2>5 DEF Acts
<1>. QED
  BY <1>0, <1>2, <1>3, <1>4, <1>5, <1>6, <1>7, <1>8, StepCounted, StepItems, OthersStay DEF TypeOK

-----------------------------------------------------------------------------
(* What is on the deque *)

\* The items on the deque are the values, final ones, of the nodes on the list.
ContentIs ==
    /\ Content = ItemsOf(Values, List)
    /\ Values \in [Nodes -> Contents] /\ List \in Seq(Nodes)
    /\ \A i \in DOMAIN List : List[i] \in Listed

LEMMA ContentOf == TypeOK /\ Chained => ContentIs
<1> SUFFICES ASSUME TypeOK, Chained PROVE ContentIs
  OBVIOUS
<1>1. List \in Seq(Nodes) /\ \A i \in DOMAIN List : List[i] \in Listed /\ List[i] \in Nodes
  BY ListLinks DEF Chained, IsList, Listed
<1>2. Values \in [Nodes -> Contents]
  <2>1. \A n \in Nodes : val[n] \in Contents /\ \A t \in Threads : item[t] \in Contents
    BY DEF TypeOK, Contents
  <2>2. \A n \in Nodes : (\E t \in Threads : Owes(t, n)) => Filler(n) \in Threads
    BY DEF Filler
  <2>3. \A n \in Nodes : FinalVal(n) \in Contents
    BY <2>1, <2>2 DEF FinalVal
  <2>. QED
    BY <2>3 DEF Values
<1>3. \A i \in DOMAIN List : FinalVal(List[i]) = Values[List[i]]
  BY <1>1 DEF Values
<1>4. Content = ItemsOf(Values, List)
  BY <1>3 DEF Content, ItemsOf
<1>. QED
  BY <1>1, <1>2, <1>4 DEF ContentIs

LEMMA StepContent ==
    ASSUME IInv, NEW t \in Threads, Acts(t)
    PROVE  /\ Stays(t) \/ (\E n \in Nodes : Gets(t, n)) \/ Frees(t) => Content' = Content
           /\ LinksBack(t) => Content' = Append(Content, item[t])
           /\ LinksFront(t) => Content' = <<item[t]>> \o Content
           /\ Unlinks(t) => Content' = Tail(Content) /\ Head(Content) = val[head]
<1>1. ContentIs /\ tail \in Nodes
  BY ContentOf, InUse DEF IInv
<1>2. ContentIs'
  <2>1. (TypeOK /\ Chained => ContentIs)'
    BY ContentOf, PTL
  <2>. QED
    BY <2>1, StepType, StepList
<1> DEFINE V == Values'
<1>3. Content' = ItemsOf(V, List') /\ V \in [Nodes -> Contents]
  BY <1>2 DEF ContentIs
<1>4. Content = ItemsOf(V, List) /\ List \in Seq(Nodes)
  <2>1. \A i \in DOMAIN List : V[List[i]] = Values[List[i]]
    BY <1>1, LinksStay DEF ContentIs
  <2>2. ItemsOf(V, List) = ItemsOf(Values, List)
    BY <2>1 DEF ItemsOf
  <2>. QED
    BY <1>1, <2>2 DEF ContentIs
<1>5. /\ LinksBack(t) => V[tail] = item[t]
      /\ LinksFront(t) => V[new[t]] = item[t] /\ new[t] \in Nodes
      /\ Unlinks(t) => Values[head] = val[head]
  BY LinksNew
<1>. HIDE DEF V
<1>6. LinksBack(t) => Content' = Append(Content, item[t])
  BY <1>1, <1>3, <1>4, <1>5, StepList, ItemsOfAppend
<1>7. LinksFront(t) => Content' = <<item[t]>> \o Content
  BY <1>3, <1>4, <1>5, StepList, ItemsOfPush
<1>8. ASSUME Unlinks(t)
      PROVE  Content' = Tail(Content) /\ Head(Content) = val[head]
  <2>1. List # <<>> /\ Head(List) = head
    <3>1. List # <<>>
      BY <1>8, EntitledFinds DEF Unlinks
    <3>. QED
      BY <1>4, <3>1 DEF IInv, Chained, IsList
  <2>2. List' = Tail(List)
    BY <1>8, StepList
  <2>3. ItemsOf(V, Tail(List)) = Tail(ItemsOf(V, List))
    BY <1>3, <1>4, <2>1, ItemsOfPop
  <2>4. Head(ItemsOf(Values, List)) = Values[Head(List)]
    BY <1>1, <1>4, <2>1, ItemsOfPop DEF ContentIs
  <2>. QED
    BY <1>1, <1>3, <1>4, <1>5, <1>8, <2>1, <2>2, <2>3, <2>4 DEF ContentIs
<1>9. Stays(t) \/ (\E n \in Nodes : Gets(t, n)) \/ Frees(t) => Content' = Content
  BY <1>3, <1>4, StepList
<1>. QED
  BY <1>6, <1>7, <1>8, <1>9

-----------------------------------------------------------------------------
(* Every step is one of the deque with permits *)

\* The step that leaves the call and the items as they are.
LEMMA Stutters ==
    ASSUME Content' = Content, CallsOf' = CallsOf, size' = size
    PROVE  UNCHANGED P!vars
BY DEF P!vars

\* Every step of jqueue is a step of the deque with permits or none.
LEMMA StepRefines ==
    ASSUME IInv, NEW t \in Threads, Acts(t)
    PROVE  P!Next \/ UNCHANGED P!vars
<1>0. TypeOK /\ Chained /\ Places
  BY DEF IInv
<1>1. \A x, y : Goto(t, x, y) => pc[t] = x /\ pc'[t] = y
  BY <1>0, Goes
<1>2. CallsOf' = [CallsOf EXCEPT ![t] = CallsOf'[t]]
  <2>1. \A u \in Threads \ {t} : CallsOf'[u] = CallsOf[u]
    BY OthersFit
  <2>2. CallsOf = [u \in Threads |-> CallsOf[u]] /\ CallsOf' = [u \in Threads |-> CallsOf'[u]]
    BY DEF CallsOf
  <2>. HIDE DEF CallsOf
  <2>. QED
    BY <2>1, <2>2
<1>3. /\ Stays(t) \/ (\E n \in Nodes : Gets(t, n)) \/ Frees(t) => Content' = Content
      /\ LinksBack(t) => Content' = Append(Content, item[t])
      /\ LinksFront(t) => Content' = <<item[t]>> \o Content
      /\ Unlinks(t) => Content' = Tail(Content) /\ Head(Content) = val[head]
  BY StepContent
<1>4. pc[t] \notin {"b_cas", "f_cas", "o_cas"} => Content' = Content
  BY <1>3, Kinds DEF LinksBack, LinksFront, Unlinks
<1>5. ASSUME CallsOf'[t] = CallsOf[t] PROVE CallsOf' = CallsOf
  <2>1. CallsOf = [CallsOf EXCEPT ![t] = CallsOf[t]]
    BY DEF CallsOf
  <2>. QED
    BY <1>2, <1>5, <2>1
<1>6. \A op, c : CallsOf[t].op = op /\ CallsOf'[t] = c => P!Becomes(t, op, c)
  BY <1>2 DEF P!Becomes
<1>7. \A op : P!At(op) = [op |-> op, item |-> NoItem]
  BY DEF P!At
<1>8. P!Idle = [op |-> "idle", item |-> NoItem]
  BY DEF P!Idle, P!At
<1>. HIDE DEF CallsOf, Content
<1>10. CASE \E n \in Nodes, d \in Items : PushBackCall(t, n, d) \/ PushFrontCall(t, n, d)
  <2>1. PICK n \in Nodes, d \in Items : PushBackCall(t, n, d) \/ PushFrontCall(t, n, d)
    BY <1>10
  <2>2. /\ pc[t] = "idle" /\ item'[t] = d /\ size' = size
        /\ pc'[t] \in {"b_load", "f_load"}
    BY <1>0, <1>1, <2>1 DEF PushBackCall, PushFrontCall, counters, TypeOK
  <2>3. PICK op \in P!Pushes : CallsOf'[t] = [op |-> op, item |-> d]
    BY <2>2, CallNext DEF P!Pushes
  <2>4. CallsOf[t] = [op |-> "idle", item |-> NoItem]
    BY <2>2, CallAt
  <2>5. Content' = Content
    BY <1>4, <2>2
  <2>6. P!Becomes(t, "idle", [op |-> op, item |-> d])
    BY <1>6, <2>3, <2>4
  <2>7. P!Push(t, op, d)
    BY <2>2, <2>3, <2>5, <2>6 DEF P!Push
  <2>. QED
    BY <2>7 DEF P!Next
<1>11. CASE PopCall(t)
  <2>1. pc[t] = "idle" /\ pc'[t] = "o_take" /\ size' = size
    BY <1>1, <1>11 DEF PopCall, counters
  <2>2. CallsOf'[t] = [op |-> "pop_front", item |-> NoItem]
    BY <2>1, CallNext
  <2>3. CallsOf[t] = [op |-> "idle", item |-> NoItem]
    BY <2>1, CallAt
  <2>4. Content' = Content
    BY <1>4, <2>1
  <2>5. P!Becomes(t, "idle", P!At("pop_front"))
    BY <1>6, <1>7, <2>2, <2>3
  <2>6. P!Pop(t)
    BY <2>1, <2>4, <2>5 DEF P!Pop
  <2>. QED
    BY <2>6 DEF P!Next
<1>12. CASE BackCas(t)
  <2>0. pc[t] = "b_cas" /\ size' = size /\ item' = item
    BY <1>1, <1>12 DEF BackCas, counters
  <2>1. CallsOf[t] = [op |-> "push_back", item |-> item[t]]
    BY <2>0, CallAt
  <2>2. CASE LinksBack(t)
    <3>1. CallsOf'[t] = [op |-> "linked", item |-> NoItem]
      BY <2>2, CallNext DEF LinksBack
    <3>2. P!Becomes(t, "push_back", P!At("linked"))
      BY <1>6, <1>7, <2>1, <3>1
    <3>3. P!LinkBack(t)
      BY <1>3, <2>0, <2>1, <2>2, <3>2 DEF P!LinkBack
    <3>. QED
      BY <3>3 DEF P!Next, P!Step
  <2>3. CASE Stays(t) /\ pc'[t] = "b_cas"
    <3>1. CallsOf'[t] = CallsOf[t]
      BY <2>0, <2>1, <2>3, CallNext
    <3>. QED
      BY <1>3, <1>5, <2>0, <2>3, <3>1, Stutters
  <2>. QED
    BY <1>12, <2>2, <2>3, Effect
<1>13. CASE FrontCas(t)
  <2>0. pc[t] = "f_cas" /\ size' = size /\ item' = item
    BY <1>13 DEF FrontCas, counters, local
  <2>1. CallsOf[t] = [op |-> "push_front", item |-> item[t]]
    BY <2>0, CallAt
  <2>2. CASE LinksFront(t)
    <3>1. CallsOf'[t] = [op |-> "linked", item |-> NoItem]
      BY <2>2, CallNext DEF LinksFront
    <3>2. P!Becomes(t, "push_front", P!At("linked"))
      BY <1>6, <1>7, <2>1, <3>1
    <3>3. P!LinkFront(t)
      BY <1>3, <2>0, <2>1, <2>2, <3>2 DEF P!LinkFront
    <3>. QED
      BY <3>3 DEF P!Next, P!Step
  <2>3. CASE Stays(t) /\ pc'[t] = "f_cas"
    <3>1. CallsOf'[t] = CallsOf[t]
      BY <2>0, <2>1, <2>3, CallNext
    <3>. QED
      BY <1>3, <1>5, <2>0, <2>3, <3>1, Stutters
  <2>. QED
    BY <1>13, <2>2, <2>3, Effect
<1>14. CASE PushCount(t)
  <2>1. pc[t] = "count" /\ pc'[t] = "idle" /\ size' = size + 1
    BY <1>1, <1>14 DEF PushCount
  <2>2. CallsOf[t] = [op |-> "linked", item |-> NoItem]
    BY <2>1, CallAt
  <2>3. CallsOf'[t] = [op |-> "idle", item |-> NoItem]
    BY <2>1, CallNext
  <2>4. Content' = Content
    BY <1>4, <2>1
  <2>5. P!Becomes(t, "linked", P!Idle)
    BY <1>6, <1>8, <2>2, <2>3
  <2>6. P!Count(t)
    BY <2>1, <2>4, <2>5 DEF P!Count
  <2>. QED
    BY <2>6 DEF P!Next, P!Step
<1>15. CASE PopTake(t)
  <2>1. /\ pc[t] = "o_take" /\ size' = size - 1
        /\ pc'[t] = IF size <= 0 THEN "o_undo" ELSE "o_enter"
    BY <1>1, <1>15 DEF PopTake
  <2>2. CallsOf[t] = [op |-> "pop_front", item |-> NoItem]
    BY <2>1, CallAt
  <2>3. CallsOf'[t] = [op |-> IF size <= 0 THEN "refused" ELSE "entitled", item |-> NoItem]
    <3>1. CASE size <= 0
      BY <2>1, <3>1, CallNext
    <3>2. CASE ~ size <= 0
      BY <2>1, <3>2, CallNext
    <3>. QED
      BY <3>1, <3>2
  <2>4. Content' = Content
    BY <1>4, <2>1
  <2>5. P!Becomes(t, "pop_front", P!At(IF size <= 0 THEN "refused" ELSE "entitled"))
    BY <1>6, <1>7, <2>2, <2>3
  <2>6. P!Take(t)
    BY <2>1, <2>4, <2>5 DEF P!Take
  <2>. QED
    BY <2>6 DEF P!Next, P!Step
<1>16. CASE PopUndo(t)
  <2>1. pc[t] = "o_undo" /\ pc'[t] = "idle" /\ size' = size + 1
    BY <1>1, <1>16 DEF PopUndo
  <2>2. CallsOf[t] = [op |-> "refused", item |-> NoItem]
    BY <2>1, CallAt
  <2>3. CallsOf'[t] = [op |-> "idle", item |-> NoItem]
    BY <2>1, CallNext
  <2>4. Content' = Content
    BY <1>4, <2>1
  <2>5. P!Becomes(t, "refused", P!Idle)
    BY <1>6, <1>8, <2>2, <2>3
  <2>6. P!Undo(t)
    BY <2>1, <2>4, <2>5 DEF P!Undo
  <2>. QED
    BY <2>6 DEF P!Next, P!Step
<1>17. CASE PopCas(t)
  <2>0. pc[t] = "o_cas" /\ size' = size
    BY <1>1, <1>17 DEF PopCas, counters
  <2>1. CallsOf[t] = [op |-> "entitled", item |-> NoItem]
    BY <2>0, CallAt
  <2>2. CASE Unlinks(t)
    <3>1. CallsOf'[t] = [op |-> "done", item |-> val[head]]
      BY <2>2, CallNext DEF Unlinks
    <3>2. Content' = Tail(Content) /\ Head(Content) = val[head]
      BY <1>3, <2>2
    <3>3. P!Becomes(t, "entitled", [op |-> "done", item |-> Head(Content)])
      BY <1>6, <2>1, <3>1, <3>2
    <3>4. P!Remove(t)
      BY <2>0, <3>2, <3>3 DEF P!Remove
    <3>. QED
      BY <3>4 DEF P!Next, P!Step
  <2>3. CASE Stays(t) /\ pc'[t] = "o_test"
    <3>1. CallsOf'[t] = CallsOf[t]
      BY <2>1, <2>3, CallNext
    <3>. QED
      BY <1>3, <1>5, <2>0, <2>3, <3>1, Stutters
  <2>. QED
    BY <1>17, <2>2, <2>3, Effect
<1>18. CASE PopReturn(t)
  <2>1. pc[t] = "o_wait" /\ pc'[t] = "idle" /\ size' = size
    BY <1>1, <1>18 DEF PopReturn, counters
  <2>2. CallsOf[t] = [op |-> "done", item |-> item[t]]
    BY <2>1, CallAt
  <2>3. CallsOf'[t] = [op |-> "idle", item |-> NoItem]
    BY <2>1, CallNext
  <2>4. Content' = Content
    BY <1>4, <2>1
  <2>5. P!Becomes(t, "done", P!Idle)
    BY <1>6, <1>8, <2>2, <2>3
  <2>6. P!Return(t)
    BY <2>1, <2>4, <2>5 DEF P!Return
  <2>. QED
    BY <2>6 DEF P!Next, P!Step
<1>19. CASE BackLoad(t) \/ FrontLoad(t)
  <2>1. /\ size' = size /\ item'[t] = item[t]
        /\ \/ pc[t] = "b_load" /\ pc'[t] = "b_cas"
           \/ pc[t] = "f_load" /\ pc'[t] = "f_cas"
    BY <1>1, <1>19 DEF BackLoad, FrontLoad, counters, local
  <2>2. CallsOf'[t] = CallsOf[t]
    <3>1. CASE pc[t] = "b_load"
      <4>1. CallsOf[t] = [op |-> "push_back", item |-> item[t]]
        BY <3>1, CallAt
      <4>2. CallsOf'[t] = [op |-> "push_back", item |-> item'[t]]
        BY <2>1, <3>1, CallNext
      <4>. QED
        BY <2>1, <4>1, <4>2
    <3>2. CASE pc[t] = "f_load"
      <4>1. CallsOf[t] = [op |-> "push_front", item |-> item[t]]
        BY <3>2, CallAt
      <4>2. CallsOf'[t] = [op |-> "push_front", item |-> item'[t]]
        BY <2>1, <3>2, CallNext
      <4>. QED
        BY <2>1, <4>1, <4>2
    <3>. QED
      BY <2>1, <3>1, <3>2
  <2>3. Content' = Content
    BY <1>4, <2>1
  <2>. QED
    BY <1>5, <2>1, <2>2, <2>3, Stutters
<1>20. CASE \/ BackNext(t) \/ BackVal(t)
            \/ PopEnter(t) \/ PopLoad(t) \/ PopTest(t) \/ PopNext(t)
  <2>1. /\ size' = size
        /\ \/ pc[t] \in {"b_next", "b_val"} /\ pc'[t] \in {"b_val", "count"}
           \/ /\ pc[t] \in {"o_enter", "o_load", "o_test", "o_next"}
              /\ pc'[t] \in {"o_load", "o_test", "o_next", "o_cas"}
    BY <1>1, <1>20 DEF BackNext, BackVal, PopEnter, PopLoad, PopTest, PopNext, counters
  <2>2. CallsOf'[t] = CallsOf[t]
    <3>1. CASE pc[t] \in {"b_next", "b_val"}
      BY <2>1, <3>1, CallAt, CallNext
    <3>2. CASE pc[t] \in {"o_enter", "o_load", "o_test", "o_next"}
      BY <2>1, <3>2, CallAt, CallNext
    <3>. QED
      BY <2>1, <3>1, <3>2
  <2>3. Content' = Content
    BY <1>4, <2>1
  <2>. QED
    BY <1>5, <2>1, <2>2, <2>3, Stutters
<1>21. CASE PopRead(t)
  <2>1. pc[t] = "o_read" /\ pc'[t] = "o_exit" /\ size' = size /\ item'[t] = val[old[t]]
    BY <1>0, <1>1, <1>21 DEF PopRead, counters, TypeOK
  <2>2. CallsOf'[t] = CallsOf[t]
    <3>1. CallsOf[t] = [op |-> "done", item |-> val[old[t]]]
      BY <2>1, CallAt
    <3>2. CallsOf'[t] = [op |-> "done", item |-> item'[t]]
      BY <2>1, CallNext
    <3>. QED
      BY <2>1, <3>1, <3>2
  <2>3. Content' = Content
    BY <1>4, <2>1
  <2>. QED
    BY <1>5, <2>1, <2>2, <2>3, Stutters
<1>22. CASE PopExit(t)
  <2>1. pc[t] = "o_exit" /\ pc'[t] = "o_wait" /\ size' = size /\ item'[t] = item[t]
    BY <1>1, <1>22 DEF PopExit, local
  <2>2. CallsOf'[t] = CallsOf[t]
    <3>1. CallsOf[t] = [op |-> "done", item |-> item[t]]
      BY <2>1, CallAt
    <3>2. CallsOf'[t] = [op |-> "done", item |-> item'[t]]
      BY <2>1, CallNext
    <3>. QED
      BY <2>1, <3>1, <3>2
  <2>3. Content' = Content
    BY <1>4, <2>1
  <2>. QED
    BY <1>5, <2>1, <2>2, <2>3, Stutters
<1>. QED
  BY <1>10, <1>11, <1>12, <1>13, <1>14, <1>15, <1>16, <1>17, <1>18, <1>19, <1>20, <1>21, <1>22
     DEF Acts, Call, Step

-----------------------------------------------------------------------------
(* The invariant *)

\* What leaves the list, the counters and the calls alone.
Quiet == UNCHANGED <<list, counters, nodes, pc, local>>

LEMMA QuietKeeps ==
    ASSUME IInv, Quiet
    PROVE  /\ Chained' /\ Places' /\ Filling' /\ Snapshots' /\ Counted' /\ P!IInv'
           /\ UNCHANGED P!vars
           /\ Listed' = Listed
           /\ \A n : FinalVal(n)' = FinalVal(n)
           /\ \A t : PrivateItem(t)' = PrivateItem(t)
<1>0. /\ TypeOK /\ Chained /\ Places /\ Filling /\ Single /\ Snapshots /\ Counted /\ P!IInv
      /\ UNCHANGED <<head, tail, next, val, size, head_thread, nodes, pc, new, old, nxt, item>>
  BY DEF IInv, Filling, Quiet, list, counters, local
<1>1. \A t, n : Owes(t, n)' <=> Owes(t, n)
  BY <1>0 DEF Owes
<1>2. Single'
  BY <1>0, <1>1 DEF Single
<1>3. \A n : FinalNext(n)' = FinalNext(n) /\ FinalVal(n)' = FinalVal(n)
  <2>1. (Single => Finally)'
    BY FinalAt, PTL
  <2>2. Finally /\ Finally'
    BY <1>0, <1>2, <2>1, FinalAt
  <2>3. \A n : /\ \A t \in Threads : Owes(t, n) => FinalNext(n) = new[t] /\ FinalVal(n) = item[t]
               /\ (\A t \in Threads : ~ Owes(t, n)) => FinalNext(n) = next[n] /\ FinalVal(n) = val[n]
    BY <2>2 DEF Finally
  <2>4. \A n : /\ \A t \in Threads : Owes(t, n)' => FinalNext(n)' = new'[t] /\ FinalVal(n)' = item'[t]
               /\ (\A t \in Threads : ~ Owes(t, n)') => FinalNext(n)' = next'[n] /\ FinalVal(n)' = val'[n]
    BY <2>2 DEF Finally
  <2> TAKE n
  <2>5. CASE \E t \in Threads : Owes(t, n)
    BY <1>0, <1>1, <2>3, <2>4, <2>5
  <2>6. CASE \A t \in Threads : ~ Owes(t, n)
    BY <1>0, <1>1, <2>3, <2>4, <2>6
  <2>. QED
    BY <2>5, <2>6
<1>4. Links' = Links /\ Values' = Values
  BY <1>3 DEF Links, Values
<1>5. List' = List
  <2>1. (\A s : IsList(head, tail, Links, s) => List = s)'
    BY ListIs, PTL
  <2>2. \A s : IsList(head', tail', Links', s) => List' = s
    BY <2>1
  <2>. QED
    BY <1>0, <1>4, <2>2 DEF Chained
<1>6. Listed' = Listed
  BY <1>5 DEF Listed
<1>7. Content' = Content
  BY <1>3, <1>5 DEF Content
<1>8. \A t : Private(t)' = Private(t) /\ PrivateItem(t)' = PrivateItem(t)
  BY <1>0 DEF Private, PrivateItem
<1>9. Chained' /\ Places'
  BY <1>0, <1>4, <1>5, <1>6, <1>8 DEF Chained, Places, Owned
<1>10. Filling' /\ Counted'
  BY <1>0, <1>2, <1>6 DEF Filling, Fills, Counted, At
<1>11. Snapshots'
  <2>1. Popped' = Popped /\ \A labels : At(labels)' = At(labels)
    BY <1>0 DEF Popped, At
  <2>. QED
    BY <1>0, <1>6, <2>1 DEF Snapshots
<1>12. CallsOf' = CallsOf
  BY <1>0 DEF CallsOf, ItemOf
<1>13. UNCHANGED P!vars
  BY <1>0, <1>7, <1>12, Stutters
<1>14. P!IInv'
  <2>1. P!IsFiniteSet(Threads)
    BY NamesAssumption DEF IsFiniteSet, P!IsFiniteSet
  <2>. QED
    BY <1>0, <1>13, <2>1, P!StepIInv
<1>. QED
  BY <1>3, <1>6, <1>8, <1>9, <1>10, <1>11, <1>13, <1>14

\* The caller's return of a data block touches the callers' items only.
LEMMA StepFrees ==
    ASSUME IInv, NEW d \in Items, CallerFrees(d)
    PROVE  IInv' /\ UNCHANGED P!vars
<1>0. TypeOK /\ ItemsKept
  BY DEF IInv
<1>1. /\ d \in held /\ held' = held \ {d} /\ blocks' = blocks \ {d} /\ Quiet
  BY DEF CallerFrees, DataAlloc!Deallocate, Quiet
<1>2. TypeOK'
  BY <1>0, <1>1 DEF TypeOK, Quiet, list, counters, local
<1>3. /\ Chained' /\ Places' /\ Filling' /\ Snapshots' /\ Counted' /\ P!IInv' /\ UNCHANGED P!vars
      /\ Listed' = Listed /\ \A n : FinalVal(n)' = FinalVal(n)
      /\ \A t : PrivateItem(t)' = PrivateItem(t)
  BY <1>1, QuietKeeps
<1>4. ItemsKept'
  <2>1. ListedItems' = ListedItems
    BY <1>3 DEF ListedItems
  <2>2. d \notin ListedItems /\ \A t \in Threads : d \notin PrivateItem(t)
    BY <1>0, <1>1 DEF ItemsKept, ListedItems
  <2>3. UNION {PrivateItem(t)' : t \in Threads} = UNION {PrivateItem(t) : t \in Threads}
    BY <1>3
  <2>4. blocks' = held' \cup ListedItems' \cup UNION {PrivateItem(t)' : t \in Threads}
    BY <1>0, <1>1, <2>1, <2>2, <2>3 DEF ItemsKept
  <2>5. \A t \in Threads : PrivateItem(t)' \subseteq Items \ (held' \cup ListedItems')
    BY <1>0, <1>1, <1>3, <2>1 DEF ItemsKept
  <2>6. \A n \in Listed' : FinalVal(n)' \in Items \ held'
    BY <1>0, <1>1, <1>3 DEF ItemsKept
  <2>7. \A t, u \in Threads : t # u => PrivateItem(t)' \cap PrivateItem(u)' = {}
    BY <1>0, <1>3 DEF ItemsKept
  <2>8. \A m, n \in Listed' : FinalVal(m)' = FinalVal(n)' => m = n
    BY <1>0, <1>3 DEF ItemsKept
  <2>. QED
    BY <2>4, <2>5, <2>6, <2>7, <2>8 DEF ItemsKept
<1>. QED
  BY <1>2, <1>3, <1>4 DEF IInv

\* The invariant holds where one push and one pop have been.
LEMMA InitIInv == WarmInit => IInv /\ P!Init
<1> SUFFICES ASSUME WarmInit PROVE IInv /\ P!Init
  OBVIOUS
<1>0. /\ tail \in Nodes /\ head = tail /\ nodes = {tail} /\ val[tail] = NoItem
      /\ val = [m \in Nodes |-> IF m = tail THEN NoItem ELSE Junk]
      /\ next = [n \in Nodes |-> Junk]
      /\ size = 0 /\ head_thread = 0 /\ blocks = {} /\ held = {}
      /\ pc = [t \in Threads |-> "idle"] /\ new = [t \in Threads |-> Null]
      /\ old = [t \in Threads |-> Null] /\ nxt = [t \in Threads |-> Null]
      /\ item = [t \in Threads |-> NoItem]
  BY DEF WarmInit
<1>1. TypeOK
  BY <1>0 DEF TypeOK, Labels
<1>2. IsList(head, tail, Links, <<>>)
  BY <1>0 DEF IsList
<1>3. List = <<>>
  BY <1>2, ListIs
<1>4. Chained /\ Listed = {} /\ Content = <<>>
  BY <1>2, <1>3 DEF Chained, Listed, Content
<1>5. \A t \in Threads : Private(t) = {} /\ PrivateItem(t) = {}
  BY <1>0 DEF Private, PrivateItem
<1>6. Places
  BY <1>0, <1>4, <1>5 DEF Places, Owned
<1>7. Filling
  BY <1>0 DEF Filling, Single, Fills, Owes
<1>8. Snapshots /\ Counted
  <2>1. \A labels : "idle" \notin labels => At(labels) = {}
    BY <1>0 DEF At
  <2>2. At({"o_test", "o_next", "o_cas"}) = {} /\ At({"o_next", "o_cas"}) = {} /\ At({"o_cas"}) = {}
    BY <2>1
  <2>3. At({"o_read", "o_exit", "o_wait"}) = {}
    BY <2>1
  <2>4. At(Loop) = {}
    BY <2>1 DEF Loop
  <2>5. Popped = {}
    BY <2>3 DEF Popped
  <2>6. Snapshots
    BY <2>2, <2>5 DEF Snapshots
  <2>. QED
    BY <1>0, <2>4, <2>6, FS_EmptySet DEF Counted
<1>9. ItemsKept
  BY <1>0, <1>4, <1>5 DEF ItemsKept, ListedItems
<1>10. CallsOf = [t \in Threads |-> [op |-> "idle", item |-> NoItem]]
  <2>1. \A t \in Threads : OpOf(pc[t]) = "idle" /\ ItemOf(t) = NoItem
    BY <1>0 DEF OpOf, ItemOf
  <2>. QED
    BY <2>1 DEF CallsOf
<1>11. P!Init
  BY <1>0, <1>4, <1>10 DEF P!Init, P!Idle, P!At
<1>12. P!IInv
  BY <1>11, P!InitIInv
<1>. QED
  BY <1>1, <1>4, <1>6, <1>7, <1>8, <1>9, <1>11, <1>12 DEF IInv

\* Every step keeps the invariant, and is one of the deque with permits.
LEMMA StepIInv == IInv /\ [Next]_vars => IInv' /\ (P!Next \/ UNCHANGED P!vars)
<1> SUFFICES ASSUME IInv, [Next]_vars
             PROVE  IInv' /\ (P!Next \/ UNCHANGED P!vars)
  OBVIOUS
<1>1. ASSUME NEW t \in Threads, Acts(t)
      PROVE  IInv' /\ (P!Next \/ UNCHANGED P!vars)
  <2>1. P!Next \/ UNCHANGED P!vars
    BY <1>1, StepRefines
  <2>2. P!IInv'
    <3>1. P!IsFiniteSet(Threads)
      BY NamesAssumption DEF IsFiniteSet, P!IsFiniteSet
    <3>2. P!IInv
      BY DEF IInv
    <3>. QED
      BY <2>1, <3>1, <3>2, P!StepIInv
  <2>3. TypeOK' /\ Chained' /\ Places' /\ Filling' /\ Snapshots' /\ Counted' /\ ItemsKept'
    BY <1>1, StepType, StepList, StepPlaces, StepFilling, StepSnapshots, StepCounted, StepItems
  <2>. QED
    BY <2>1, <2>2, <2>3 DEF IInv
<1>2. CASE \E d \in Items : CallerFrees(d)
  BY <1>2, StepFrees
<1>3. CASE UNCHANGED vars
  <2>1. Quiet /\ UNCHANGED <<blocks, held>>
    BY <1>3 DEF vars, memory, Quiet
  <2>2. /\ Chained' /\ Places' /\ Filling' /\ Snapshots' /\ Counted' /\ P!IInv' /\ UNCHANGED P!vars
        /\ Listed' = Listed /\ \A n : FinalVal(n)' = FinalVal(n)
        /\ \A t : PrivateItem(t)' = PrivateItem(t)
    BY <2>1, QuietKeeps
  <2>3. TypeOK'
    BY <2>1 DEF IInv, TypeOK, Quiet, list, counters, local
  <2>4. ItemsKept'
    BY <2>1, <2>2 DEF IInv, ItemsKept, ListedItems
  <2>. QED
    BY <2>2, <2>3, <2>4 DEF IInv
<1>. QED
  BY <1>1, <1>2, <1>3 DEF Next, Acts

\* The invariant of jqueue, from an empty deque whose node a push_back() has made.
THEOREM Sound == WarmSpec => []IInv
BY InitIInv, StepIInv, PTL DEF WarmSpec

-----------------------------------------------------------------------------
(* What the invariant says of jqueue *)

\* jqueue is the deque with permits that jque is: every push and pop takes effect
\* at one compare-and-swap, and size is the count of permits.
THEOREM Refinement == WarmSpec => P!Spec
<1>1. WarmInit => P!Init
  BY InitIInv
<1>2. IInv /\ [Next]_vars => [P!Next]_(P!vars)
  BY StepIInv
<1>. QED
  BY Sound, <1>1, <1>2, PTL DEF WarmSpec, P!Spec

\* What users see of the calls.
SeenAlike == [t \in Threads |-> Refined(t)] =
                 [t \in Threads |-> [op |-> P!SeenOp(CallsOf[t].op), item |-> CallsOf[t].item]]

LEMMA SeenCalls == TypeOK => SeenAlike
<1> SUFFICES ASSUME TypeOK, NEW t \in Threads
             PROVE  Refined(t) = [op |-> P!SeenOp(CallsOf[t].op), item |-> CallsOf[t].item]
  BY DEF SeenAlike
<1>1. CASE pc[t] \in {"idle", "b_next", "b_val", "count"}
  BY <1>1, CallAt DEF Refined, P!SeenOp
<1>4. CASE pc[t] \in {"b_load", "b_cas"}
  BY <1>4, CallAt DEF Refined, P!SeenOp
<1>5. CASE pc[t] \in {"f_load", "f_cas"}
  <2>1. CallsOf[t] = [op |-> "push_front", item |-> item[t]]
    BY <1>5, CallAt
  <2>2. Refined(t) = [op |-> "push_front", item |-> item[t]]
    BY <1>5 DEF Refined
  <2>3. P!SeenOp("push_front") = "push_front"
    BY DEF P!SeenOp
  <2>. QED
    BY <2>1, <2>2, <2>3
<1>2. CASE pc[t] \in {"o_take", "o_undo", "o_enter", "o_load", "o_test", "o_next", "o_cas"}
  BY <1>2, CallAt DEF Refined, P!SeenOp
<1>3. CASE pc[t] \in {"o_read", "o_exit", "o_wait"}
  BY <1>3, CallAt DEF Refined, P!SeenOp
<1>. QED
  BY <1>1, <1>2, <1>3, <1>4, <1>5 DEF TypeOK, Labels

\* Seen so, a step of the deque with permits is one of the deque.
LEMMA SeenSteps ==
    ASSUME P!IInv, P!Next \/ UNCHANGED P!vars, SeenAlike, SeenAlike'
    PROVE  [Lax!Next]_(Lax!vars)
<1>1. P!IsFiniteSet(Threads)
  BY NamesAssumption DEF IsFiniteSet, P!IsFiniteSet
<1>2. [P!Lax!Next]_(P!Lax!vars)
  BY <1>1, P!StepRefines
<1>3. UNCHANGED P!Lax!vars => UNCHANGED Lax!vars
  BY DEF P!Lax!vars, Lax!vars, SeenAlike, Content
<1>4. ASSUME NEW t \in Threads
      PROVE  /\ P!Lax!Invoke(t) => Lax!Invoke(t)
             /\ P!Lax!Return(t) => Lax!Return(t)
             /\ P!Lax!PushBack(t) => Lax!PushBack(t)
             /\ P!Lax!PushFront(t) => Lax!PushFront(t)
             /\ P!Lax!PopFront(t) => Lax!PopFront(t)
             /\ P!Lax!PopNothing(t) => Lax!PopNothing(t)
  <2> USE DEF P!Lax!Becomes, Lax!Becomes, SeenAlike, Content, P!Lax!Done, Lax!Done, P!Lax!Idle, Lax!Idle
  <2>1. P!Lax!Invoke(t) => Lax!Invoke(t)
    BY DEF P!Lax!Invoke, Lax!Invoke
  <2>2. P!Lax!Return(t) => Lax!Return(t)
    BY DEF P!Lax!Return, Lax!Return
  <2>3. P!Lax!PushBack(t) => Lax!PushBack(t)
    BY DEF P!Lax!PushBack, Lax!PushBack
  <2>4. P!Lax!PushFront(t) => Lax!PushFront(t)
    BY DEF P!Lax!PushFront, Lax!PushFront
  <2>5. P!Lax!PopFront(t) => Lax!PopFront(t)
    BY DEF P!Lax!PopFront, Lax!PopFront
  <2>6. P!Lax!PopNothing(t) => Lax!PopNothing(t)
    BY DEF P!Lax!PopNothing, Lax!PopNothing
  <2>. QED
    BY <2>1, <2>2, <2>3, <2>4, <2>5, <2>6
<1>5. P!Lax!Next => Lax!Next
  BY <1>4 DEF P!Lax!Next, Lax!Next
<1>. QED
  BY <1>2, <1>3, <1>5

\* jqueue implements a deque whose pop_front() may fail although there is an item:
\* the items leave in the order in which push_back moved tail.
THEOREM Linearizable == WarmSpec => ImplementsLaxDeque
<1>1. WarmInit => Lax!Init
  <2> SUFFICES ASSUME WarmInit PROVE Lax!Init
    OBVIOUS
  <2>1. Content = <<>>
    BY InitIInv DEF P!Init
  <2>2. [t \in Threads |-> Refined(t)] = [t \in Threads |-> [op |-> "idle", item |-> NoItem]]
    BY DEF WarmInit, Refined
  <2>. QED
    BY <2>1, <2>2 DEF Lax!Init, Lax!Idle, Content
<1>2. IInv /\ IInv' /\ [Next]_vars => [Lax!Next]_(Lax!vars)
  <2>1. IInv /\ IInv' /\ [Next]_vars => P!IInv /\ (P!Next \/ UNCHANGED P!vars) /\ TypeOK /\ TypeOK'
    BY StepIInv DEF IInv
  <2>2. TypeOK => SeenAlike
    BY SeenCalls
  <2>3. (TypeOK => SeenAlike)'
    BY SeenCalls, PTL
  <2>. QED
    BY <2>1, <2>2, <2>3, SeenSteps
<1>. QED
  BY Sound, <1>1, <1>2, PTL DEF WarmSpec, ImplementsLaxDeque, Lax!Spec

\* When a pop has seen a value in its node, no push_back is still going to write to it.
THEOREM Written == WarmSpec => []ValMeansWritten
<1>1. IInv => ValMeansWritten
  <2> SUFFICES ASSUME IInv, NEW t \in Threads, NEW u \in Threads, pc[t] \in {"o_next", "o_cas"}
               PROVE  ~ Owes(u, old[t])
    BY DEF ValMeansWritten
  <2>1. val[old[t]] \in Items
    BY DEF IInv, Snapshots, At
  <2>2. val[old[t]] # NoItem
    BY <2>1, NamesAssumption
  <2>. QED
    BY <2>2, NotOwed
<1>. QED
  BY Sound, <1>1, PTL

\* A set has as many elements as there are in its image, if no two share a value.
LEMMA OneEach ==
    ASSUME NEW S, IsFiniteSet(S), NEW f, \A x, y \in S : f[x] = f[y] => x = y
    PROVE  LET image == {f[x] : x \in S}
           IN  IsFiniteSet(image) /\ Cardinality(image) = Cardinality(S)
<1> DEFINE T == {f[x] : x \in S}
           g == [x \in S |-> f[x]]
<1>1. g \in Bijection(S, T)
  BY DEF Bijection, Injection, Surjection, IsInjective
<1>. HIDE DEF g, T
<1>2. IsFiniteSet(T) /\ Cardinality(T) = Cardinality(S)
  BY <1>1, FS_Bijection DEF ExistsBijection
<1>. QED
  BY <1>2 DEF T

\* The nodes on the list are as many as the list is long.
LEMMA ListCounted ==
    ASSUME Chained
    PROVE  IsFiniteSet(Listed) /\ Cardinality(Listed) = Len(List) /\ Len(List) \in Nat
<1>1. Len(List) \in Nat /\ DOMAIN List = 1 .. Len(List)
  BY ListLinks DEF Chained
<1>2. IsFiniteSet(1 .. Len(List)) /\ Cardinality(1 .. Len(List)) = Len(List)
  <2>1. \A n \in Nat : IsFiniteSet(1 .. n) /\ Cardinality(1 .. n) = n
    BY FS_Interval
  <2>. QED
    BY <1>1, <2>1
<1>3. \A i, j \in 1 .. Len(List) : List[i] = List[j] => i = j
  BY <1>1 DEF Chained, IsList
<1>4. Listed = {List[i] : i \in 1 .. Len(List)}
  BY <1>1 DEF Listed
<1>. QED
  BY <1>1, <1>2, <1>3, <1>4, OneEach

\* Beside the tail and the list, the nodes in use are as many as the calls that
\* have one.
LEMMA NodesCounted ==
    ASSUME IInv
    PROVE  Cardinality(nodes) = 1 + Len(List) + Cardinality(Privates)
<1>0. TypeOK /\ Chained /\ Places /\ IsList(head, tail, Links, List)
  BY DEF IInv, Chained
<1>1. IsFiniteSet(Listed) /\ Cardinality(Listed) = Len(List) /\ Len(List) \in Nat
  BY <1>0, ListCounted
<1>2. IsFiniteSet(Privates) /\ Privates \subseteq Threads
  BY NamesAssumption, FS_Subset DEF Privates
<1> DEFINE own == [t \in Privates |-> IF pc[t] \in {"b_load", "b_cas", "f_load", "f_cas"}
                                         THEN new[t] ELSE old[t]]
<1>3. \A t \in Privates : t \in Threads /\ Private(t) = {own[t]}
  BY PrivateAt DEF Privates
<1>. HIDE DEF own
<1>4. Owned = {own[t] : t \in Privates}
  <2>1. \A t \in Threads : t \notin Privates => Private(t) = {}
    BY DEF Privates
  <2>. QED
    BY <1>2, <1>3, <2>1 DEF Owned
<1>5. \A t, u \in Privates : own[t] = own[u] => t = u
  BY <1>0, <1>3 DEF Places
<1>6. IsFiniteSet(Owned) /\ Cardinality(Owned) = Cardinality(Privates)
  BY <1>2, <1>4, <1>5, OneEach
<1>7. Listed \cap Owned = {} /\ tail \notin Owned
  BY <1>0 DEF Places, Owned
<1>8. tail \notin Listed
  <2>1. Listed = Members(List)
    BY DEF Listed, Members
  <2>. QED
    BY <1>0, <2>1, ListLinks
<1> DEFINE U == Listed \cup Owned
<1>9. IsFiniteSet(U) /\ Cardinality(U) = Len(List) + Cardinality(Privates) - Cardinality({})
  BY <1>1, <1>6, <1>7, FS_Union
<1>10. nodes = U \cup {tail} /\ tail \notin U
  BY <1>0, <1>7, <1>8 DEF Places
<1>. HIDE DEF U
<1>11. Cardinality(nodes) = Cardinality(U) + 1
  BY <1>9, <1>10, FS_AddElement
<1>12. Cardinality({}) = 0 /\ Cardinality(Privates) \in Nat
  BY <1>2, FS_EmptySet, FS_CardinalityType
<1>. QED
  BY <1>1, <1>9, <1>11, <1>12

\* Beside those with callers, the items in use are one of each node on the list and
\* one of each call that has a node.
LEMMA BlocksCounted ==
    ASSUME IInv
    PROVE  Cardinality(blocks) = Cardinality(held) + Len(List) + Cardinality(Privates)
<1>0. TypeOK /\ Chained /\ ItemsKept
  BY DEF IInv
<1>1. IsFiniteSet(Listed) /\ Cardinality(Listed) = Len(List) /\ Len(List) \in Nat
  BY <1>0, ListCounted
<1>2. IsFiniteSet(Privates) /\ Privates \subseteq Threads
  BY NamesAssumption, FS_Subset DEF Privates
<1>3. IsFiniteSet(held)
  BY <1>0, NamesAssumption, FS_Subset DEF TypeOK
<1>4. IsFiniteSet(ListedItems) /\ Cardinality(ListedItems) = Len(List)
  <2> DEFINE final == [n \in Listed |-> FinalVal(n)]
  <2>1. \A m, n \in Listed : final[m] = final[n] => m = n
    BY <1>0 DEF ItemsKept
  <2>2. ListedItems = {final[n] : n \in Listed}
    BY DEF ListedItems
  <2>. HIDE DEF final
  <2>. QED
    BY <1>1, <2>1, <2>2, OneEach
<1> DEFINE f == [t \in Privates |-> IF pc[t] = "o_read" THEN val[old[t]] ELSE item[t]]
           Q == UNION {PrivateItem(t) : t \in Threads}
<1>5. \A t \in Privates : t \in Threads /\ PrivateItem(t) = {f[t]}
  BY PrivateAt, PrivateItemAt DEF Privates
<1>6. \A t \in Threads : t \notin Privates => PrivateItem(t) = {}
  BY PrivateAt, PrivateItemAt DEF Privates
<1>. HIDE DEF f
<1>7. Q = {f[t] : t \in Privates}
  BY <1>2, <1>5, <1>6
<1>8. \A t, u \in Privates : f[t] = f[u] => t = u
  BY <1>0, <1>5 DEF ItemsKept
<1>9. IsFiniteSet(Q) /\ Cardinality(Q) = Cardinality(Privates)
  BY <1>2, <1>7, <1>8, OneEach
<1>10. blocks = (held \cup ListedItems) \cup Q
  BY <1>0 DEF ItemsKept
<1>11. held \cap ListedItems = {} /\ (held \cup ListedItems) \cap Q = {}
  BY <1>0 DEF ItemsKept, ListedItems
<1>. HIDE DEF Q
<1> DEFINE U == held \cup ListedItems
<1>12. IsFiniteSet(U) /\ Cardinality(U) = Cardinality(held) + Len(List) - Cardinality({})
  BY <1>3, <1>4, <1>11, FS_Union
<1>13. blocks = U \cup Q /\ U \cap Q = {}
  BY <1>10, <1>11
<1>. HIDE DEF U
<1>14. Cardinality(blocks) = Cardinality(U) + Cardinality(Q) - Cardinality({})
  BY <1>9, <1>12, <1>13, FS_Union
<1>15. /\ Cardinality({}) = 0 /\ Cardinality(Privates) \in Nat /\ Cardinality(held) \in Nat
       /\ Cardinality(U) \in Nat
  BY <1>2, <1>3, <1>12, FS_EmptySet, FS_CardinalityType
<1>. QED
  BY <1>1, <1>9, <1>12, <1>14, <1>15

\* Nothing leaks and nothing is in two places, at any moment of any calls.
THEOREM Conserved == WarmSpec => []Conservation
<1>1. IInv => Conservation
  <2> SUFFICES ASSUME IInv PROVE Conservation
    OBVIOUS
  <2>1. TypeOK /\ Places /\ ItemsKept
    BY DEF IInv
  <2>. QED
    BY <2>1, NodesCounted, BlocksCounted DEF Places, Owned, ItemsKept, ListedItems, Conservation
<1>. QED
  BY Sound, <1>1, PTL
=============================================================================
