---------------------------- MODULE JStackProofs ----------------------------
(***************************************************************************)
(* jstack is a stack, for any finite set of threads and any memory: no     *)
(* node or item is lost or in two places, __size is the length up to the   *)
(* calls in flight, and jstack implements Deque used from one end.         *)
(***************************************************************************)
EXTENDS JStack, FiniteSetTheorems, SequenceTheorems, WellFoundedInduction, TLAPS

(* The list as a sequence *)

\* s holds the nodes that the links in nx lead through from node h on, and no
\* node twice.
IsList(h, nx, s) ==
    /\ s \in Seq(Nodes)
    /\ h = IF s = <<>> THEN Null ELSE s[1]
    /\ \A i \in DOMAIN s : nx[s[i]] = IF i = Len(s) THEN Null ELSE s[i + 1]
    /\ \A i, j \in DOMAIN s : s[i] = s[j] => i = j

\* Every non-empty set of natural numbers has a least element.
LEMMA Least ==
    ASSUME NEW T \in SUBSET Nat, T # {}
    PROVE  \E x \in T : \A y \in T : x <= y
<1> DEFINE R == OpToRel(<, Nat)
<1>1. IsWellFoundedOn(R, Nat)
  BY NatLessThanWellFounded
<1>2. \A x, y \in Nat : <<x, y>> \in R <=> x < y
  BY DEF OpToRel
<1> HIDE DEF R
<1>3. PICK x \in T : \A y \in T : <<y, x>> \notin R
  BY <1>1, WFMin
<1>4. \A y \in T : x \in Nat /\ y \in Nat /\ ~(y < x)
  BY <1>2, <1>3
<1>. QED
  BY <1>3, <1>4

\* The set of numbers that a property holds for is all of them, if it holds for
\* 0 and for every number after one that it holds for.
LEMMA Induction ==
    ASSUME NEW N \in Nat, NEW P \in SUBSET (0 .. N), 0 \in P,
           \A k \in P : k < N => k + 1 \in P
    PROVE  P = 0 .. N
<1> SUFFICES ASSUME (0 .. N) \ P # {} PROVE FALSE
  OBVIOUS
<1>1. (0 .. N) \ P \in SUBSET Nat
  OBVIOUS
<1>2. PICK k \in (0 .. N) \ P : \A j \in (0 .. N) \ P : k <= j
  BY <1>1, Least
<1>3. k # 0 /\ k - 1 \in 0 .. N /\ k - 1 < N
  OBVIOUS
<1>4. k - 1 \in P
  BY <1>2, <1>3
<1>5. (k - 1) + 1 \in P
  BY <1>3, <1>4
<1>. QED
  BY <1>2, <1>5

\* From is the function that its recursive definition says it is.
Links == Nodes \cup {Null, Junk}
Longer(f, k) ==
    [n \in Links |-> IF k = 0 \/ n \notin Nodes THEN <<>> ELSE <<n>> \o f[k - 1][next[n]]]
FromEquation(N, f) == f = [k \in 0 .. N |-> Longer(f, k)]

LEMMA FromExists ==
    ASSUME NEW N \in Nat
    PROVE  \E f : FromEquation(N, f)
<1> DEFINE P == {k \in 0 .. N : \E f : FromEquation(k, f)}
<1>1. 0 \in P
  <2> DEFINE f == [k \in 0 .. 0 |-> [n \in Links |-> <<>>]]
  <2>1. \A k \in 0 .. 0 : Longer(f, k) = [n \in Links |-> <<>>]
    BY DEF Longer
  <2>2. FromEquation(0, f)
    BY <2>1 DEF FromEquation
  <2>. QED
    BY <2>2
<1>2. ASSUME NEW k \in P, k < N PROVE k + 1 \in P
  <2>1. PICK f : FromEquation(k, f)
    OBVIOUS
  <2> DEFINE g == [i \in 0 .. k + 1 |-> Longer(f, i)]
  <2>2. \A i \in 0 .. k : g[i] = f[i]
    BY <2>1 DEF FromEquation
  <2>3. ASSUME NEW i \in 0 .. k + 1 PROVE Longer(g, i) = Longer(f, i)
    <3>1. CASE i = 0
      BY <3>1 DEF Longer
    <3>2. CASE i # 0
      <4>1. g[i - 1] = f[i - 1]
        BY <2>2, <3>2
      <4>. HIDE DEF g
      <4>. QED
        BY <4>1 DEF Longer
    <3>. QED
      BY <3>1, <3>2
  <2>4. [i \in 0 .. k + 1 |-> Longer(g, i)] = [i \in 0 .. k + 1 |-> Longer(f, i)]
    BY <2>3
  <2>5. FromEquation(k + 1, g)
    BY <2>4 DEF FromEquation
  <2>6. k + 1 \in 0 .. N
    BY <1>2
  <2>. HIDE DEF g
  <2>. QED
    BY <2>5, <2>6
<1>. HIDE DEF P
<1>3. P \in SUBSET (0 .. N)
  BY DEF P
<1>4. P = 0 .. N
  BY <1>1, <1>2, <1>3, Induction
<1>. QED
  BY <1>4 DEF P

LEMMA FromUnfolds ==
    \A k \in 0 .. Cardinality(Nodes), n \in Links :
        From[k][n] = IF k = 0 \/ n \notin Nodes THEN <<>> ELSE <<n>> \o From[k - 1][next[n]]
<1>1. Cardinality(Nodes) \in Nat
  BY NamesAssumption, FS_CardinalityType
<1>2. From = CHOOSE f : FromEquation(Cardinality(Nodes), f)
  BY DEF From, FromEquation, Longer, Links
<1>3. FromEquation(Cardinality(Nodes), From)
  BY <1>1, <1>2, FromExists
<1>4. \A k \in 0 .. Cardinality(Nodes) : From[k] = Longer(From, k)
  BY <1>3 DEF FromEquation
<1>. QED
  BY <1>4 DEF Longer

\* No sequence without repetition is longer than there are nodes.
LEMMA ListFits ==
    ASSUME NEW h, NEW nx, NEW s, IsList(h, nx, s)
    PROVE  Len(s) <= Cardinality(Nodes)
<1>1. s \in [1 .. Len(s) -> Nodes] /\ Len(s) \in Nat
  BY DEF IsList
<1>2. s \in Injection(1 .. Len(s), Nodes)
  BY <1>1 DEF IsList, Injection, IsInjective
<1>3. Cardinality(1 .. Len(s)) = Len(s) /\ IsFiniteSet(Nodes)
  <2>1. \A n \in Nat : Cardinality(1 .. n) = n
    BY FS_Interval
  <2>. QED
    BY <1>1, <2>1, NamesAssumption
<1>. QED
  BY <1>2, <1>3, NamesAssumption, FS_Injection

\* The list that the model computes by following the links is the one that the
\* links describe.
LEMMA ListIs == \A s : IsList(head, next, s) => List = s
<1> SUFFICES ASSUME NEW s, IsList(head, next, s) PROVE List = s
  OBVIOUS
<1> DEFINE N == Cardinality(Nodes)
           L == Len(s)
           Rest(i) == SubSeq(s, i, L)
           P == {k \in 0 .. N : \A i \in 1 .. L + 1 :
                     L + 1 - i <= k => /\ i <= L => From[k][s[i]] = Rest(i)
                                       /\ From[k][Null] = <<>>}
<1>0. N \in Nat /\ L \in Nat /\ L <= N /\ s \in Seq(Nodes) /\ Null \in Links /\ Null \notin Nodes
  BY NamesAssumption, FS_CardinalityType, ListFits DEF IsList, Links
<1>1. \A k \in 0 .. N : From[k][Null] = <<>>
  BY <1>0, FromUnfolds
<1>2. \A i \in 1 .. L : s[i] \in Nodes /\ s[i] \in Links
  BY <1>0 DEF Links
<1>3. \A i \in 1 .. L : next[s[i]] = IF i = L THEN Null ELSE s[i + 1]
  BY <1>0 DEF IsList
<1>4. 0 \in P
  BY <1>0, <1>1
<1>5. ASSUME NEW k \in P, k < N PROVE k + 1 \in P
  <2>1. k + 1 \in 0 .. N /\ k \in 0 .. N /\ (k + 1) - 1 = k /\ k + 1 # 0
    BY <1>0, <1>5
  <2>2. ASSUME NEW i \in 1 .. L, L + 1 - i <= k + 1
        PROVE  From[k + 1][s[i]] = Rest(i)
    <3>1. From[k + 1][s[i]] = <<s[i]>> \o From[k][next[s[i]]]
      BY <1>2, <2>1, FromUnfolds
    <3>2. From[k][next[s[i]]] = Rest(i + 1)
      <4>1. CASE i = L
        <5>1. From[k][next[s[i]]] = <<>>
          BY <1>1, <1>3, <2>1, <4>1
        <5>2. Rest(i + 1) = <<>>
          BY <1>0, <4>1, SubSeqEmpty
        <5>. QED
          BY <5>1, <5>2
      <4>2. CASE i # L
        <5>1. i + 1 \in 1 .. L /\ L + 1 - (i + 1) <= k
          BY <1>0, <2>2, <4>2
        <5>2. From[k][s[i + 1]] = Rest(i + 1)
          BY <5>1, <1>0
        <5>. QED
          BY <1>3, <4>2, <5>2
      <4>. QED
        BY <4>1, <4>2
    <3>3. Rest(i) = <<s[i]>> \o Rest(i + 1)
      BY <1>0, SubSeqRecursiveFirst
    <3>. QED
      BY <3>1, <3>2, <3>3
  <2>. QED
    BY <1>1, <2>1, <2>2
<1>. HIDE DEF P
<1>6. P \in SUBSET (0 .. N)
  BY DEF P
<1>7. N \in P
  BY <1>0, <1>4, <1>5, <1>6, Induction
<1>8. CASE s = <<>>
  BY <1>0, <1>1, <1>8 DEF List, IsList
<1>9. CASE s # <<>>
  <2>1. 1 \in 1 .. L /\ L + 1 - 1 <= N /\ head = s[1]
    BY <1>0, <1>9 DEF IsList
  <2>2. From[N][s[1]] = Rest(1)
    BY <1>7, <1>0, <2>1 DEF P
  <2>3. Rest(1) = s
    BY <1>0, SubSeqFull
  <2>. QED
    BY <2>1, <2>2, <2>3 DEF List
<1>. QED
  BY <1>8, <1>9


Members(s) == {s[i] : i \in DOMAIN s}

\* A list stays one as long as the links of its nodes stay.
LEMMA ListFrame ==
    ASSUME NEW h, NEW nx, NEW ny, NEW s, IsList(h, nx, s), \A n \in Members(s) : ny[n] = nx[n]
    PROVE  IsList(h, ny, s)
BY DEF IsList, Members

\* A node linked to the head makes a list with the list it is put before.
LEMMA ListPush ==
    ASSUME NEW h, NEW nx, NEW s, IsList(h, nx, s),
           NEW n \in Nodes, n \notin Members(s), nx[n] = h
    PROVE  /\ IsList(n, nx, <<n>> \o s)
           /\ Len(<<n>> \o s) = Len(s) + 1
           /\ Members(<<n>> \o s) = Members(s) \cup {n}
<1> DEFINE q == <<n>> \o s
<1>0. s \in Seq(Nodes) /\ <<n>> \in Seq(Nodes) /\ Len(<<n>>) = 1 /\ <<n>>[1] = n
      /\ Len(s) \in Nat /\ DOMAIN s = 1 .. Len(s)
  BY DEF IsList
<1>1. /\ q \in Seq(Nodes) /\ Len(q) = Len(s) + 1 /\ DOMAIN q = 1 .. Len(s) + 1
      /\ \A i \in 1 .. Len(s) + 1 : q[i] = IF i <= 1 THEN <<n>>[i] ELSE s[i - 1]
  <2>1. /\ q \in Seq(Nodes) /\ Len(q) = 1 + Len(s)
        /\ \A i \in 1 .. 1 + Len(s) : q[i] = IF i <= 1 THEN <<n>>[i] ELSE s[i - 1]
    BY <1>0, ConcatProperties
  <2>2. 1 + Len(s) = Len(s) + 1
    BY <1>0
  <2>. QED
    BY <2>1, <2>2
<1>. HIDE DEF q
<1>2. q[1] = n /\ \A i \in 1 .. Len(s) : q[i + 1] = s[i]
  BY <1>0, <1>1
<1>3. \A i \in DOMAIN q : i = 1 \/ (i # 1 /\ i - 1 \in DOMAIN s /\ q[i] = s[i - 1])
  BY <1>0, <1>1
<1>4. ASSUME NEW i \in DOMAIN q
      PROVE  nx[q[i]] = IF i = Len(q) THEN Null ELSE q[i + 1]
  <2>1. CASE i = 1
    <3>1. CASE s = <<>>
      <4>1. h = Null /\ Len(s) = 0
        BY <3>1 DEF IsList
      <4>. QED
        BY <1>1, <1>2, <2>1, <4>1
    <3>2. CASE s # <<>>
      <4>1. h = s[1] /\ Len(s) > 0
        BY <1>0, <3>2 DEF IsList
      <4>. QED
        BY <1>0, <1>1, <1>2, <2>1, <4>1
    <3>. QED
      BY <3>1, <3>2
  <2>2. CASE i # 1
    <3>1. i - 1 \in DOMAIN s /\ q[i] = s[i - 1]
      BY <1>3, <2>2
    <3>2. nx[s[i - 1]] = IF i - 1 = Len(s) THEN Null ELSE s[(i - 1) + 1]
      BY <3>1 DEF IsList
    <3>3. i - 1 # Len(s) => q[i + 1] = s[(i - 1) + 1]
      BY <1>0, <1>1, <1>2, <3>1
    <3>. QED
      BY <1>0, <1>1, <3>1, <3>2, <3>3
  <2>. QED
    BY <2>1, <2>2
<1>5. ASSUME NEW i \in DOMAIN q, NEW j \in DOMAIN q, q[i] = q[j]
      PROVE  i = j
  <2>1. \A k \in DOMAIN s : s[k] # n
    BY DEF Members
  <2>2. \A k, l \in DOMAIN s : s[k] = s[l] => k = l
    BY DEF IsList
  <2>. QED
    BY <1>1, <1>2, <1>3, <1>5, <2>1, <2>2
<1>6. Members(q) = Members(s) \cup {n}
  <2>1. \A i \in DOMAIN s : i + 1 \in DOMAIN q /\ q[i + 1] = s[i]
    BY <1>0, <1>1, <1>2
  <2>2. 1 \in DOMAIN q
    BY <1>0, <1>1
  <2>. QED
    BY <1>2, <1>3, <2>1, <2>2 DEF Members
<1>7. n = IF q = <<>> THEN Null ELSE q[1]
  BY <1>0, <1>1, <1>2
<1>8. IsList(n, nx, q)
  BY <1>1, <1>4, <1>5, <1>7 DEF IsList
<1>. QED
  BY <1>1, <1>6, <1>8 DEF q

\* Without its head a list is the list from the second node on.
LEMMA ListPop ==
    ASSUME NEW h, NEW nx, NEW s, IsList(h, nx, s), h # Null
    PROVE  /\ s # <<>> /\ Head(s) = h /\ Len(s) > 0
           /\ IsList(nx[h], nx, Tail(s))
           /\ Len(Tail(s)) = Len(s) - 1
           /\ Members(s) = Members(Tail(s)) \cup {h} /\ h \notin Members(Tail(s))
<1> DEFINE q == Tail(s)
<1>0. /\ s \in Seq(Nodes) /\ s # <<>> /\ h = s[1] /\ Head(s) = h
      /\ Len(s) \in Nat /\ Len(s) > 0 /\ DOMAIN s = 1 .. Len(s)
  BY DEF IsList
<1>1. /\ q \in Seq(Nodes) /\ Len(q) = Len(s) - 1 /\ DOMAIN q = 1 .. Len(s) - 1
      /\ \A i \in 1 .. Len(s) - 1 : q[i] = s[i + 1]
  <2>1. /\ q \in Seq(Nodes) /\ Len(q) = Len(s) - 1
        /\ \A i \in 1 .. Len(q) : q[i] = s[i + 1]
    BY <1>0, HeadTailProperties
  <2>. QED
    BY <2>1
<1>. HIDE DEF q
<1>2. \A i \in DOMAIN q : i + 1 \in DOMAIN s /\ i + 1 # 1 /\ q[i] = s[i + 1]
  BY <1>0, <1>1
<1>3. \A i \in DOMAIN s : i # 1 => i - 1 \in DOMAIN q /\ q[i - 1] = s[i]
  BY <1>0, <1>1
<1>4. 1 \in DOMAIN s
  BY <1>0
<1>5. \A i \in DOMAIN s : nx[s[i]] = IF i = Len(s) THEN Null ELSE s[i + 1]
  BY DEF IsList
<1>6. \A k, l \in DOMAIN s : s[k] = s[l] => k = l
  BY DEF IsList
<1>7. nx[h] = IF q = <<>> THEN Null ELSE q[1]
  <2>1. CASE Len(s) = 1
    <3>1. q = <<>>
      BY <1>1, <2>1
    <3>. QED
      BY <1>0, <1>4, <1>5, <2>1, <3>1
  <2>2. CASE Len(s) # 1
    <3>1. q # <<>> /\ 1 \in DOMAIN q
      BY <1>0, <1>1, <2>2
    <3>. QED
      BY <1>0, <1>2, <1>4, <1>5, <2>2, <3>1
  <2>. QED
    BY <2>1, <2>2
<1>8. ASSUME NEW i \in DOMAIN q PROVE nx[q[i]] = IF i = Len(q) THEN Null ELSE q[i + 1]
  <2>1. nx[s[i + 1]] = IF i + 1 = Len(s) THEN Null ELSE s[(i + 1) + 1]
    BY <1>2, <1>5
  <2>2. i # Len(q) => i + 1 \in DOMAIN q
    BY <1>1
  <2>. QED
    BY <1>0, <1>1, <1>2, <2>1, <2>2
<1>9. \A i, j \in DOMAIN q : q[i] = q[j] => i = j
  <2> TAKE i, j \in DOMAIN q
  <2>1. q[i] = q[j] => i + 1 = j + 1
    BY <1>2, <1>6
  <2>. QED
    BY <1>1, <2>1
<1>10. Members(s) = Members(q) \cup {h}
  BY <1>0, <1>2, <1>3, <1>4 DEF Members
<1>11. h \notin Members(q)
  BY <1>0, <1>2, <1>4, <1>6 DEF Members
<1>12. IsList(nx[h], nx, q)
  BY <1>1, <1>7, <1>8, <1>9 DEF IsList
<1>. QED
  BY <1>0, <1>1, <1>10, <1>11, <1>12 DEF q

\* The links of a list's nodes lead to nodes of the list or to none.
LEMMA ListLinks ==
    ASSUME NEW h, NEW nx, NEW s, IsList(h, nx, s)
    PROVE  /\ Members(s) \subseteq Nodes /\ h \in Members(s) \cup {Null}
           /\ \A n \in Members(s) : nx[n] \in Nodes \cup {Null}
           /\ h = Null <=> s = <<>>
           /\ Len(s) \in Nat /\ DOMAIN s = 1 .. Len(s)
<1>1. s \in Seq(Nodes) /\ Len(s) \in Nat /\ DOMAIN s = 1 .. Len(s)
  BY DEF IsList
<1>2. \A i \in DOMAIN s : s[i] \in Nodes /\ (i # Len(s) => i + 1 \in DOMAIN s)
  BY <1>1
<1>3. s # <<>> => 1 \in DOMAIN s
  BY <1>1
<1>. QED
  BY <1>1, <1>2, <1>3, NamesAssumption DEF IsList, Members

-----------------------------------------------------------------------------
(* The inductive invariant *)

\* Where popingThreads counts a thread.
Loop == {"o_load", "o_next", "o_cas", "o_exit"}

\* The nodes taken off the list whose pop() may not free them yet.
Waiting == {lp[t] : t \in At({"o_exit", "o_wait"})} \ {Null}

Chained == IsList(head, next, List)

\* A node in use is on the list or with one thread, never both.
Places ==
    /\ nodes = Listed \cup Privates
    /\ Listed \cap Privates = {}
    /\ \A t, u \in Threads : t # u => Private(t) \cap Private(u) = {}
    /\ \A t \in At({"p_load", "p_cas", "p_count", "o_count", "o_free"}) : lp[t] # Null

\* What a thread in the loop of pop() has read is on the list or taken off it by
\* a thread that has not freed it, and its link has not changed since.
Snapshots ==
    /\ \A n \in Waiting : next[n] \in Nodes \cup {Null}
    /\ \A t \in At({"o_next", "o_cas"}) :
          /\ lp[t] \in Listed \cup Waiting
          /\ pc[t] = "o_cas" => nxt[t] = next[lp[t]]

Counted == popingThreads = Cardinality(At(Loop))

\* Each node in use has an item of its own, which no caller holds.
ItemsKept ==
    /\ \A n \in nodes : data[n] \in Items \ held
    /\ \A m, n \in nodes : data[m] = data[n] => m = n
    /\ blocks = held \cup {data[n] : n \in nodes}

IInv == /\ TypeOK /\ Chained /\ Places /\ Snapshots
        /\ Counted /\ ItemsKept /\ SizeAccounts

-----------------------------------------------------------------------------
(* What the operators become when one thread moves *)

\* A step is one thread's: its program counter and its node change, no other's.
Moves(t, to, n) == pc' = [pc EXCEPT ![t] = to] /\ lp' = [lp EXCEPT ![t] = n]

Step(t) == Call(t) \/ PushStep(t) \/ PopStep(t)

\* Every step is a move of one thread.
LEMMA StepMoves ==
    ASSUME TypeOK, NEW t \in Threads, Step(t)
    PROVE  \E to \in Labels : \E n \in Nodes \cup {Null} : Moves(t, to, n)
<1>1. lp = [lp EXCEPT ![t] = lp[t]] /\ pc = [pc EXCEPT ![t] = pc[t]]
      /\ lp[t] \in Nodes \cup {Null} /\ pc[t] \in Labels
  BY DEF TypeOK
<1>2. \A to, from : Goto(t, from, to) => pc' = [pc EXCEPT ![t] = to]
  BY DEF Goto
<1>3. CASE \E n \in Nodes, d \in Items : PushCall(t, n, d)
  BY <1>2, <1>3 DEF PushCall, SetLp, Moves, Labels
<1>4. CASE PushLoad(t) \/ PopCall(t) \/ PopEnter(t) \/ PopNext(t) \/ PopExit(t) \/ PopCount(t)
  BY <1>1, <1>2, <1>4 DEF PushLoad, PopCall, PopEnter, PopNext, PopExit, PopCount, Moves, Labels
<1>5. CASE PushCas(t)
  BY <1>1, <1>2, <1>5 DEF PushCas, Moves, Labels
<1>6. CASE PushCount(t) \/ PopFree(t)
  BY <1>2, <1>6 DEF PushCount, PopFree, SetLp, Moves, Labels
<1>7. CASE PopLoad(t)
  BY <1>2, <1>7 DEF PopLoad, SeeHead, SetLp, Moves, Labels, TypeOK
<1>8. CASE PopCas(t)
  BY <1>1, <1>2, <1>8 DEF PopCas, SeeHead, SetLp, Moves, Labels, TypeOK
<1>9. CASE PopWait(t)
  BY <1>1, <1>2, <1>9 DEF PopWait, Moves, Labels
<1>. QED
  BY <1>3, <1>4, <1>5, <1>6, <1>7, <1>8, <1>9 DEF Step, Call, PushStep, PopStep

\* The nodes that the threads other than t alone can reach.
Others(t) == UNION {Private(u) : u \in Threads \ {t}}

\* The others' nodes stay where they are.
LEMMA OthersStay ==
    ASSUME TypeOK, NEW t \in Threads, NEW to, NEW n, Moves(t, to, n)
    PROVE  /\ \A u \in Threads \ {t} :
                  pc'[u] = pc[u] /\ lp'[u] = lp[u] /\ Private(u)' = Private(u)
           /\ pc'[t] = to /\ lp'[t] = n
           /\ Privates = Private(t) \cup Others(t)
           /\ Privates' = Private(t)' \cup Others(t)
<1>1. /\ \A u \in Threads \ {t} : pc'[u] = pc[u] /\ lp'[u] = lp[u]
      /\ pc'[t] = to /\ lp'[t] = n
  BY DEF TypeOK, Moves
<1>2. \A u \in Threads \ {t} : Private(u)' = Private(u)
  BY <1>1 DEF Private
<1>3. Privates = Private(t) \cup Others(t)
  BY DEF Privates, Others
<1>4. Privates' = UNION {Private(u)' : u \in Threads}
  BY DEF Privates
<1>5. UNION {Private(u)' : u \in Threads} = Private(t)' \cup Others(t)
  BY <1>2 DEF Others
<1>. QED
  BY <1>1, <1>2, <1>3, <1>4, <1>5

\* At these labels a thread has a node, at the others it has none.
LEMMA PrivateAt ==
    ASSUME NEW t
    PROVE  LET own == {"p_load", "p_cas", "o_exit", "o_wait", "o_count", "o_free"}
           IN  /\ pc[t] \in own => Private(t) = {lp[t]} \ {Null}
               /\ pc[t] \notin own => Private(t) = {}
               /\ pc'[t] \in own => Private(t)' = {lp'[t]} \ {Null}
               /\ pc'[t] \notin own => Private(t)' = {}
BY DEF Private

\* A thread writes to the link of its own node only.
LEMMA WritesOwn ==
    ASSUME TypeOK, Places, NEW t \in Threads, Step(t), NEW n \in Nodes, n \notin Private(t)
    PROVE  next'[n] = next[n]
<1>1. \A m, x : m # n => [next EXCEPT ![m] = x][n] = next[n]
  BY DEF TypeOK
<1>2. CASE PushLoad(t) \/ PushCas(t) \/ PopFree(t)
  <2>1. pc[t] \in {"p_load", "p_cas", "o_free"}
    BY <1>2 DEF PushLoad, PushCas, PopFree, Goto
  <2>2. Private(t) = {lp[t]}
    BY <2>1, PrivateAt DEF Places, At
  <2>3. n # lp[t]
    BY <2>2
  <2>. QED
    BY <1>1, <1>2, <2>3 DEF PushLoad, PushCas, PopFree
<1>3. CASE ~ (PushLoad(t) \/ PushCas(t) \/ PopFree(t))
  BY <1>3 DEF Step, Call, PushStep, PopStep, PushCall, PushCount, PopCall, PopEnter, PopLoad,
     PopNext, PopCas, PopExit, PopWait, PopCount, shared
<1>. QED
  BY <1>2, <1>3

-----------------------------------------------------------------------------
(* What a step does to the places of the nodes *)

Stays(t) ==
    /\ Private(t)' = Private(t)
    /\ UNCHANGED <<head, nodes>>

\* push() gets a node
Gets(t, n) ==
    /\ Private(t) = {} /\ Private(t)' = {n}
    /\ n \in Nodes \ nodes /\ nodes' = nodes \cup {n}
    /\ UNCHANGED <<head, next>>

\* a node is put before the head
Pushes(t) ==
    /\ pc[t] = "p_cas" /\ pc'[t] = "p_count" /\ lp'[t] = lp[t]
    /\ Private(t) = {lp[t]} /\ Private(t)' = {}
    /\ next[lp[t]] = head /\ head' = lp[t]
    /\ UNCHANGED <<next, data, nodes>>

\* the head is taken off the list
Pops(t) ==
    /\ pc[t] = "o_cas" /\ pc'[t] = "o_exit" /\ lp'[t] = lp[t]
    /\ Private(t) = {} /\ Private(t)' = {lp[t]}
    /\ head = lp[t] /\ head # Null /\ head' = next[head]
    /\ UNCHANGED <<next, data, nodes>>

\* pop() frees a node
Frees(t) ==
    /\ pc[t] = "o_free" /\ pc'[t] = "idle"
    /\ Private(t) = {lp[t]} /\ Private(t)' = {}
    /\ nodes' = nodes \ {lp[t]}
    /\ UNCHANGED <<head, data>>

\* The nodes on the list and those waiting to be freed are nodes in use.
LEMMA ListedAreNodes ==
    ASSUME TypeOK, Chained, Places
    PROVE  /\ Listed = Members(List) /\ Listed \subseteq nodes \cap Nodes
           /\ Waiting \subseteq Privates /\ Waiting \subseteq nodes \cap Nodes
           /\ Null \notin Listed \cup Waiting
           /\ \A t \in Threads : Private(t) \subseteq nodes \cap Nodes
<1>1. Listed = Members(List) /\ Members(List) \subseteq Nodes
  BY ListLinks DEF Chained, Listed, Members
<1>2. \A t \in At({"o_exit", "o_wait"}) : {lp[t]} \ {Null} \subseteq Private(t)
  BY PrivateAt DEF At
<1>3. Waiting \subseteq Privates
  BY <1>2 DEF Waiting, Privates, At
<1>4. \A t \in Threads : Private(t) \subseteq nodes
  BY DEF Places, Privates
<1>. QED
  BY <1>1, <1>3, <1>4, NamesAssumption DEF Places, TypeOK, Waiting

\* The compare-and-swap of push(), when it succeeds.
LEMMA CasPushes ==
    ASSUME TypeOK, Places, NEW t \in Threads, PushCas(t), next[lp[t]] = head
    PROVE  Pushes(t)
<1>1. /\ pc[t] = "p_cas" /\ lp'[t] = lp[t] /\ UNCHANGED <<data, nodes>>
      /\ head' = lp[t] /\ next' = next /\ pc'[t] = "p_count"
  BY DEF PushCas, Goto, memory, TypeOK
<1>2. lp[t] # Null
  BY <1>1 DEF Places, At
<1>3. Private(t)' = {} /\ Private(t) = {lp[t]}
  BY <1>1, <1>2, PrivateAt
<1>. QED
  BY <1>1, <1>3 DEF Pushes

\* The compare-and-swap of pop(), when it succeeds: what it takes for the link
\* of the head is the link of the head.
LEMMA CasPops ==
    ASSUME TypeOK, Chained, Places, Snapshots, NEW t \in Threads, PopCas(t), head = lp[t]
    PROVE  Pops(t)
<1>1. /\ pc[t] = "o_cas" /\ pc'[t] = "o_exit" /\ lp'[t] = lp[t] /\ head' = nxt[t]
      /\ UNCHANGED <<next, data, nodes>>
  BY DEF PopCas, Goto, memory, TypeOK
<1>2. lp[t] \in Listed \cup Waiting /\ nxt[t] = next[lp[t]]
  BY <1>1 DEF Snapshots, At
<1>3. lp[t] # Null
  BY <1>2, ListedAreNodes
<1>4. Private(t) = {} /\ Private(t)' = {lp[t]}
  BY <1>1, <1>3, PrivateAt
<1>. QED
  BY <1>1, <1>2, <1>3, <1>4 DEF Pops

\* Every step is of one of these kinds.
LEMMA Effect ==
    ASSUME IInv, NEW t \in Threads, Step(t)
    PROVE  Stays(t) \/ (\E n \in Nodes : Gets(t, n)) \/ Pushes(t) \/ Pops(t) \/ Frees(t)
<1>0. TypeOK /\ Chained /\ Places /\ Snapshots
  BY DEF IInv
<1>1. \A x, y : Goto(t, x, y) => pc[t] = x /\ pc'[t] = y
  BY <1>0 DEF Goto, TypeOK
<1>2. \A n : SetLp(t, n) => lp'[t] = n
  BY <1>0 DEF SetLp, TypeOK
<1>3. lp[t] \in Nodes \cup {Null} /\ Null \notin Nodes
  BY <1>0, NamesAssumption DEF TypeOK
<1>4. CASE PushLoad(t) \/ PopExit(t) \/ PopCount(t)
  <2>1. /\ UNCHANGED <<head, nodes>> /\ lp'[t] = lp[t]
        /\ \/ pc[t] = "p_load" /\ pc'[t] = "p_cas"
           \/ pc[t] = "o_exit" /\ pc'[t] = "o_wait"
           \/ pc[t] = "o_count" /\ pc'[t] = "o_free"
    BY <1>1, <1>4 DEF PushLoad, PopExit, PopCount, memory
  <2>2. Private(t)' = Private(t)
    BY <2>1, PrivateAt
  <2>. QED
    BY <2>1, <2>2 DEF Stays
<1>5. CASE PushCount(t) \/ PopCall(t) \/ PopEnter(t) \/ PopNext(t)
  <2>1. /\ UNCHANGED <<head, nodes>>
        /\ \/ pc[t] = "p_count" /\ pc'[t] = "idle"
           \/ pc[t] = "idle" /\ pc'[t] = "o_enter"
           \/ pc[t] = "o_enter" /\ pc'[t] = "o_load"
           \/ pc[t] = "o_next" /\ pc'[t] = "o_cas"
    BY <1>1, <1>5 DEF PushCount, PopCall, PopEnter, PopNext, shared, memory
  <2>2. Private(t)' = {} /\ Private(t) = {}
    BY <2>1, PrivateAt
  <2>. QED
    BY <2>1, <2>2 DEF Stays
<1>6. CASE PopLoad(t) \/ (PopCas(t) /\ head # lp[t])
  <2>1. UNCHANGED <<head, nodes>>
    BY <1>6 DEF PopLoad, PopCas, shared, memory
  <2>2. /\ pc[t] \in {"o_load", "o_cas"} /\ lp'[t] = head
        /\ pc'[t] = IF head = Null THEN "o_exit" ELSE "o_next"
    BY <1>1, <1>2, <1>6 DEF PopLoad, PopCas, SeeHead
  <2>3. Private(t)' = {} /\ Private(t) = {}
    BY <2>2, PrivateAt
  <2>. QED
    BY <2>1, <2>3 DEF Stays
<1>7. CASE PopCas(t) /\ head = lp[t]
  BY <1>0, <1>7, CasPops
<1>8. CASE PopWait(t)
  <2>1. /\ UNCHANGED <<head, nodes, lp>> /\ pc[t] = "o_wait"
        /\ pc'[t] = IF lp[t] = Null THEN "idle" ELSE "o_count"
    BY <1>1, <1>8 DEF PopWait, shared, memory
  <2>2. Private(t)' = Private(t)
    BY <2>1, PrivateAt
  <2>. QED
    BY <2>1, <2>2 DEF Stays
<1>9. CASE PopFree(t)
  <2>1. /\ UNCHANGED <<head, data>> /\ pc[t] = "o_free" /\ pc'[t] = "idle"
        /\ nodes' = nodes \ {lp[t]}
    BY <1>1, <1>9 DEF PopFree, NodeAlloc!Deallocate
  <2>2. lp[t] # Null
    BY <1>0, <2>1 DEF Places, At
  <2>3. Private(t)' = {} /\ Private(t) = {lp[t]}
    BY <2>1, <2>2, PrivateAt
  <2>. QED
    BY <2>1, <2>3 DEF Frees
<1>10. CASE PushCas(t)
  <2>1. CASE next[lp[t]] = head
    BY <1>0, <1>10, <2>1, CasPushes
  <2>2. CASE next[lp[t]] # head
    <3>1. pc' = pc /\ lp' = lp /\ head' = head /\ nodes' = nodes
      BY <1>10, <2>2 DEF PushCas, memory
    <3>2. Private(t)' = Private(t)
      BY <3>1 DEF Private
    <3>. QED
      BY <3>1, <3>2 DEF Stays
  <2>. QED
    BY <2>1, <2>2
<1>11. CASE \E n \in Nodes, d \in Items : PushCall(t, n, d)
  <2>1. PICK n \in Nodes, d \in Items : PushCall(t, n, d)
    BY <1>11
  <2>2. /\ pc[t] = "idle" /\ pc'[t] = "p_load" /\ lp'[t] = n
        /\ n \in Nodes \ nodes /\ nodes' = nodes \cup {n} /\ UNCHANGED <<head, next>>
    BY <1>1, <1>2, <2>1 DEF PushCall, NodeAlloc!Allocate
  <2>3. Private(t) = {} /\ Private(t)' = {n}
    BY <1>3, <2>2, PrivateAt
  <2>. QED
    BY <2>2, <2>3 DEF Gets
<1>. QED
  BY <1>4, <1>5, <1>6, <1>7, <1>8, <1>9, <1>10, <1>11 DEF Step, Call, PushStep, PopStep

-----------------------------------------------------------------------------
(* A step keeps the parts of the invariant *)

\* The list: frames, pushes and pops.
LEMMA StepList ==
    ASSUME IInv, NEW t \in Threads, Step(t)
    PROVE  /\ Chained'
           /\ Stays(t) \/ (\E n \in Nodes : Gets(t, n)) \/ Frees(t) => List' = List
           /\ Pushes(t) => List' = <<lp[t]>> \o List
           /\ Pops(t) => List' = Tail(List)
<1>0. TypeOK /\ Chained /\ Places
  BY DEF IInv
<1>1. \A s : IsList(head', next', s) => List' = s /\ Chained'
  <2>1. (\A s : IsList(head, next, s) => List = s)'
    BY ListIs, PTL
  <2>. QED
    BY <2>1 DEF Chained
<1>2. Listed = Members(List) /\ Listed \subseteq Nodes /\ Listed \cap Private(t) = {}
  <2>1. Private(t) \subseteq Privates
    BY DEF Privates
  <2>. QED
    BY <1>0, <2>1, ListedAreNodes DEF Places
<1>3. \A n \in Members(List) : next'[n] = next[n]
  BY <1>0, <1>2, WritesOwn
<1>4. ASSUME Stays(t) \/ (\E n \in Nodes : Gets(t, n)) \/ Frees(t)
      PROVE  List' = List /\ Chained'
  <2>1. head' = head
    BY <1>4 DEF Stays, Gets, Frees
  <2>2. IsList(head, next', List)
    BY <1>0, <1>3, ListFrame DEF Chained
  <2>. QED
    BY <1>1, <2>1, <2>2
<1>5. ASSUME Pushes(t)
      PROVE  List' = <<lp[t]>> \o List /\ Chained'
  <2>1. lp[t] \in Nodes /\ lp[t] \notin Members(List) /\ next[lp[t]] = head
    BY <1>0, <1>2, <1>5, ListedAreNodes DEF Pushes
  <2>2. IsList(lp[t], next, <<lp[t]>> \o List)
    BY <1>0, <2>1, ListPush DEF Chained
  <2>3. IsList(head', next', <<lp[t]>> \o List)
    BY <1>5, <2>2 DEF Pushes
  <2>. QED
    BY <1>1, <2>3
<1>6. ASSUME Pops(t)
      PROVE  List' = Tail(List) /\ Chained'
  <2>1. IsList(next[head], next, Tail(List))
    BY <1>0, <1>6, ListPop DEF Chained, Pops
  <2>2. IsList(head', next', Tail(List))
    BY <1>6, <2>1 DEF Pops
  <2>. QED
    BY <1>1, <2>2
<1>. QED
  BY <1>4, <1>5, <1>6, Effect

\* Places: what a node leaves and what it gets to.
LEMMA StepPlaces ==
    ASSUME IInv, NEW t \in Threads, Step(t)
    PROVE  /\ Places'
           /\ Stays(t) \/ (\E n \in Nodes : Gets(t, n)) \/ Frees(t) => Listed' = Listed
           /\ Pushes(t) => Listed' = Listed \cup {lp[t]}
           /\ Pops(t) => Listed' = Listed \ {lp[t]} /\ lp[t] \in Listed
<1>0. TypeOK /\ Chained /\ Places
  BY DEF IInv
<1>1. PICK to \in Labels : \E n \in Nodes \cup {Null} : Moves(t, to, n)
  BY <1>0, StepMoves
<1>2. PICK n \in Nodes \cup {Null} : Moves(t, to, n)
  BY <1>1
<1>3. /\ \A u \in Threads \ {t} :
             pc'[u] = pc[u] /\ lp'[u] = lp[u] /\ Private(u)' = Private(u)
      /\ Privates = Private(t) \cup Others(t)
      /\ Privates' = Private(t)' \cup Others(t)
      /\ pc'[t] = to /\ lp'[t] = n
  BY <1>0, <1>2, OthersStay
<1>4. /\ nodes = Listed \cup Private(t) \cup Others(t)
      /\ Listed \cap Private(t) = {} /\ Listed \cap Others(t) = {}
      /\ Private(t) \cap Others(t) = {}
  BY <1>0, <1>3 DEF Places, Others
<1>5. Listed = Members(List) /\ Listed' = Members(List') /\ Null \notin Listed
  <2>1. Listed' = Members(List')
    BY DEF Listed, Members
  <2>. QED
    BY <1>0, <2>1, ListedAreNodes
<1>6. Stays(t) \/ (\E m \in Nodes : Gets(t, m)) \/ Frees(t) => Listed' = Listed
  BY <1>5, StepList
<1>7. ASSUME Pushes(t) PROVE Listed' = Listed \cup {lp[t]}
  <2>1. lp[t] \in Nodes /\ lp[t] \notin Members(List) /\ next[lp[t]] = head
    BY <1>0, <1>4, <1>5, <1>7, ListedAreNodes DEF Pushes
  <2>2. Members(<<lp[t]>> \o List) = Members(List) \cup {lp[t]}
    BY <1>0, <2>1, ListPush DEF Chained
  <2>. QED
    BY <1>5, <1>7, <2>2, StepList
<1>8. ASSUME Pops(t) PROVE Listed' = Listed \ {lp[t]} /\ lp[t] \in Listed
  <2>1. head # Null /\ head = lp[t]
    BY <1>8 DEF Pops
  <2>2. Members(List) = Members(Tail(List)) \cup {lp[t]} /\ lp[t] \notin Members(Tail(List))
    BY <1>0, <2>1, ListPop DEF Chained
  <2>. QED
    BY <1>5, <1>8, <2>2, StepList
<1>9. ASSUME /\ nodes' = Listed' \cup Private(t)' \cup Others(t)
             /\ Listed' \cap Private(t)' = {} /\ Listed' \cap Others(t) = {}
             /\ Private(t)' \cap Others(t) = {}
      PROVE  /\ nodes' = Listed' \cup Privates' /\ Listed' \cap Privates' = {}
             /\ \A u, v \in Threads : u # v => Private(u)' \cap Private(v)' = {}
  <2>1. \A u \in Threads \ {t} : Private(u)' = Private(u) /\ Private(u) \subseteq Others(t)
    BY <1>3 DEF Others
  <2>2. \A u \in Threads \ {t} : Private(u)' \cap Private(t)' = {}
    BY <1>9, <2>1
  <2>3. \A u, v \in Threads \ {t} : u # v => Private(u)' \cap Private(v)' = {}
    BY <1>0, <2>1 DEF Places
  <2>. QED
    BY <1>3, <1>9, <2>2, <2>3
<1>10. /\ nodes' = Listed' \cup Private(t)' \cup Others(t)
       /\ Listed' \cap Private(t)' = {} /\ Listed' \cap Others(t) = {}
       /\ Private(t)' \cap Others(t) = {}
  <2>1. CASE Stays(t)
    BY <1>4, <1>6, <2>1 DEF Stays
  <2>2. CASE \E m \in Nodes : Gets(t, m)
    BY <1>4, <1>6, <2>2 DEF Gets
  <2>3. CASE Pushes(t)
    BY <1>4, <1>7, <2>3 DEF Pushes
  <2>4. CASE Pops(t)
    BY <1>4, <1>8, <2>4 DEF Pops
  <2>5. CASE Frees(t)
    BY <1>4, <1>6, <2>5 DEF Frees
  <2>. QED
    BY <2>1, <2>2, <2>3, <2>4, <2>5, Effect
<1>11. ASSUME NEW u \in At({"p_load", "p_cas", "p_count", "o_count", "o_free"})'
       PROVE  lp'[u] # Null
  <2>1. CASE u # t
    BY <1>0, <1>3, <2>1 DEF Places, At
  <2>2. CASE u = t
    <3>1. pc'[t] \in {"p_load", "p_cas", "p_count", "o_count", "o_free"}
      BY <2>2 DEF At
    <3>2. \A x, y : Goto(t, x, y) => pc[t] = x /\ pc'[t] = y
      BY <1>0 DEF Goto, TypeOK
    <3>3. CASE \E m \in Nodes, d \in Items : PushCall(t, m, d)
      BY <1>0, <2>2, <3>3, NamesAssumption DEF PushCall, SetLp, TypeOK
    <3>4. CASE PushLoad(t) \/ PushCas(t) \/ PopCount(t)
      BY <1>0, <2>2, <3>2, <3>4 DEF PushLoad, PushCas, PopCount, Places, At
    <3>5. CASE PopWait(t)
      BY <2>2, <3>1, <3>2, <3>5 DEF PopWait
    <3>6. CASE ~ (\/ \E m \in Nodes, d \in Items : PushCall(t, m, d)
                  \/ PushLoad(t) \/ PushCas(t) \/ PopCount(t) \/ PopWait(t))
      BY <3>1, <3>2, <3>6 DEF Step, Call, PushStep, PopStep, PushCount, PopCall, PopEnter,
         PopLoad, PopNext, PopCas, PopExit, PopFree, SeeHead
    <3>. QED
      BY <3>3, <3>4, <3>5, <3>6
  <2>. QED
    BY <2>1, <2>2
<1>12. Places'
  BY <1>9, <1>10, <1>11 DEF Places
<1>. QED
  BY <1>6, <1>7, <1>8, <1>12

\* A set of threads that only thread t can have entered or left.
LEMMA CountMoves ==
    ASSUME NEW A \in SUBSET Threads, NEW B \in SUBSET Threads, NEW t \in Threads,
           A \ {t} = B \ {t}
    PROVE  /\ Cardinality(A) \in Nat /\ Cardinality(B) \in Nat
           /\ Cardinality(B) <= Cardinality(Threads) /\ Cardinality(Threads) \in Nat
           /\ t \notin A /\ t \in B => Cardinality(B) = Cardinality(A) + 1
           /\ t \in A /\ t \notin B => Cardinality(B) = Cardinality(A) - 1
           /\ (t \in A <=> t \in B) => B = A
<1>1. /\ IsFiniteSet(A) /\ IsFiniteSet(B) /\ Cardinality(A) \in Nat /\ Cardinality(B) \in Nat
      /\ Cardinality(B) <= Cardinality(Threads) /\ Cardinality(Threads) \in Nat
  BY NamesAssumption, FS_Subset, FS_CardinalityType
<1>2. ASSUME t \notin A, t \in B PROVE Cardinality(B) = Cardinality(A) + 1
  <2>1. B = A \cup {t}
    BY <1>2
  <2>. QED
    BY <1>1, <1>2, <2>1, FS_AddElement
<1>3. ASSUME t \in A, t \notin B PROVE Cardinality(B) = Cardinality(A) - 1
  <2>1. B = A \ {t}
    BY <1>3
  <2>. QED
    BY <1>1, <1>3, <2>1, FS_RemoveElement
<1>4. (t \in A <=> t \in B) => B = A
  OBVIOUS
<1>. QED
  BY <1>1, <1>2, <1>3, <1>4

\* The threads that have unlinked a node and not counted it.
Unlinked == {t \in At({"o_exit", "o_wait", "o_count"}) : lp[t] # Null}

\* When thread t moves, the counts of threads change by t only.
LEMMA CountsMove ==
    ASSUME TypeOK, NEW t \in Threads, Step(t)
    PROVE  /\ \A S : /\ At(S) \in SUBSET Threads /\ At(S)' \in SUBSET Threads
                     /\ At(S) \ {t} = At(S)' \ {t}
                     /\ t \in At(S) <=> pc[t] \in S
                     /\ t \in At(S)' <=> pc'[t] \in S
           /\ Unlinked \in SUBSET Threads /\ Unlinked' \in SUBSET Threads
           /\ Unlinked \ {t} = Unlinked' \ {t}
           /\ t \in Unlinked <=> pc[t] \in {"o_exit", "o_wait", "o_count"} /\ lp[t] # Null
           /\ t \in Unlinked' <=> pc'[t] \in {"o_exit", "o_wait", "o_count"} /\ lp'[t] # Null
<1>1. PICK to \in Labels : \E n \in Nodes \cup {Null} : Moves(t, to, n)
  BY StepMoves
<1>2. PICK n \in Nodes \cup {Null} : Moves(t, to, n)
  BY <1>1
<1>3. \A u \in Threads \ {t} : pc'[u] = pc[u] /\ lp'[u] = lp[u]
  BY <1>2, OthersStay
<1>4. /\ Unlinked = {u \in Threads : pc[u] \in {"o_exit", "o_wait", "o_count"} /\ lp[u] # Null}
      /\ Unlinked' = {u \in Threads : pc'[u] \in {"o_exit", "o_wait", "o_count"} /\ lp'[u] # Null}
  BY DEF Unlinked, At
<1>5. ASSUME NEW S
      PROVE  /\ At(S) \in SUBSET Threads /\ At(S)' \in SUBSET Threads
             /\ At(S) \ {t} = At(S)' \ {t}
             /\ t \in At(S) <=> pc[t] \in S
             /\ t \in At(S)' <=> pc'[t] \in S
  BY <1>3 DEF At
<1>. HIDE DEF Unlinked
<1>. QED
  BY <1>3, <1>4, <1>5

\* popingThreads counts the threads in the loop.
LEMMA StepCounted ==
    ASSUME IInv, NEW t \in Threads, Step(t)
    PROVE  Counted' /\ popingThreads' \in 0 .. Cardinality(Threads)
<1>0. TypeOK /\ Counted
  BY DEF IInv
<1>1. /\ At(Loop) \in SUBSET Threads /\ At(Loop)' \in SUBSET Threads
      /\ At(Loop) \ {t} = At(Loop)' \ {t}
      /\ t \in At(Loop) <=> pc[t] \in Loop
      /\ t \in At(Loop)' <=> pc'[t] \in Loop
  BY <1>0, CountsMove
<1>2. /\ Cardinality(At(Loop)) \in Nat /\ Cardinality(At(Loop)') \in Nat
      /\ Cardinality(At(Loop)') <= Cardinality(Threads) /\ Cardinality(Threads) \in Nat
      /\ pc[t] \notin Loop /\ pc'[t] \in Loop => Cardinality(At(Loop)') = Cardinality(At(Loop)) + 1
      /\ pc[t] \in Loop /\ pc'[t] \notin Loop => Cardinality(At(Loop)') = Cardinality(At(Loop)) - 1
      /\ (pc[t] \in Loop <=> pc'[t] \in Loop) => At(Loop)' = At(Loop)
  <2> DEFINE A == At(Loop)
             B == At(Loop)'
  <2>1. /\ A \in SUBSET Threads /\ B \in SUBSET Threads /\ A \ {t} = B \ {t}
        /\ t \in A <=> pc[t] \in Loop
        /\ t \in B <=> pc'[t] \in Loop
    BY <1>1
  <2>. HIDE DEF A, B
  <2>2. /\ Cardinality(A) \in Nat /\ Cardinality(B) \in Nat
        /\ Cardinality(B) <= Cardinality(Threads) /\ Cardinality(Threads) \in Nat
        /\ t \notin A /\ t \in B => Cardinality(B) = Cardinality(A) + 1
        /\ t \in A /\ t \notin B => Cardinality(B) = Cardinality(A) - 1
        /\ (t \in A <=> t \in B) => B = A
    BY <2>1, CountMoves
  <2>. QED
    BY <2>1, <2>2 DEF A, B
<1>3. \A x, y : Goto(t, x, y) => pc[t] = x /\ pc'[t] = y
  BY <1>0 DEF Goto, TypeOK
<1>4. popingThreads' = Cardinality(At(Loop)')
  <2>1. CASE PopEnter(t)
    <3>1. pc[t] \notin Loop /\ pc'[t] \in Loop /\ popingThreads' = popingThreads + 1
      BY <1>3, <2>1 DEF PopEnter, Loop
    <3>. QED
      BY <1>0, <1>2, <3>1 DEF Counted
  <2>2. CASE PopExit(t)
    <3>1. pc[t] \in Loop /\ pc'[t] \notin Loop /\ popingThreads' = popingThreads - 1
      BY <1>3, <2>2 DEF PopExit, Loop
    <3>. QED
      BY <1>0, <1>2, <3>1 DEF Counted
  <2>3. CASE PopLoad(t) \/ PopNext(t) \/ PopCas(t)
    <3>1. pc[t] \in Loop /\ pc'[t] \in Loop /\ popingThreads' = popingThreads
      BY <1>3, <2>3 DEF PopLoad, PopNext, PopCas, SeeHead, shared, Loop
    <3>. QED
      BY <1>0, <1>2, <3>1 DEF Counted
  <2>4. CASE \/ \E n \in Nodes, d \in Items : PushCall(t, n, d)
             \/ PushLoad(t) \/ PushCount(t) \/ PopCall(t) \/ PopWait(t)
             \/ PopCount(t) \/ PopFree(t)
    <3>1. pc[t] \notin Loop /\ pc'[t] \notin Loop /\ popingThreads' = popingThreads
      BY <1>3, <2>4 DEF PushCall, PushLoad, PushCount, PopCall, PopWait, PopCount, PopFree,
         shared, Loop
    <3>. QED
      BY <1>0, <1>2, <3>1 DEF Counted
  <2>5. CASE PushCas(t)
    <3>1. pc[t] \notin Loop /\ pc'[t] \notin Loop /\ popingThreads' = popingThreads
      BY <1>3, <2>5 DEF PushCas, Loop
    <3>. QED
      BY <1>0, <1>2, <3>1 DEF Counted
  <2>. QED
    BY <2>1, <2>2, <2>3, <2>4, <2>5 DEF Step, Call, PushStep, PopStep
<1>. QED
  BY <1>2, <1>4 DEF Counted

\* A node that a thread in the loop has read is still on the list or waiting
\* after any step, and its link is what it was.
LEMMA StaysReadable ==
    ASSUME IInv, NEW t \in Threads, Step(t), ~ PopWait(t), NEW n \in Listed \cup Waiting
    PROVE  n \in Listed' \cup Waiting' /\ next'[n] = next[n]
<1>0. TypeOK /\ Chained /\ Places
  BY DEF IInv
<1>1. PICK to \in Labels : \E m \in Nodes \cup {Null} : Moves(t, to, m)
  BY <1>0, StepMoves
<1>2. PICK m \in Nodes \cup {Null} : Moves(t, to, m)
  BY <1>1
<1>3. \A u \in Threads \ {t} : pc'[u] = pc[u] /\ lp'[u] = lp[u] /\ Private(u)' = Private(u)
  BY <1>0, <1>2, OthersStay
<1>4. n \in Nodes /\ n # Null
  BY <1>0, ListedAreNodes
<1>5. Waiting' = {lp'[u] : u \in {v \in Threads : pc'[v] \in {"o_exit", "o_wait"}}} \ {Null}
  BY DEF Waiting, At
<1>6. CASE n \in Listed
  <2>1. n \notin Private(t)
    BY <1>0, <1>6 DEF Places, Privates
  <2>2. next'[n] = next[n]
    BY <1>0, <1>4, <2>1, WritesOwn
  <2>3. n \in Listed' \/ (Pops(t) /\ n = lp[t])
    BY <1>6, StepPlaces, Effect
  <2>4. Pops(t) /\ n = lp[t] => n \in Waiting'
    BY <1>4, <1>5 DEF Pops
  <2>. QED
    BY <2>2, <2>3, <2>4
<1>7. CASE n \in Waiting
  <2>1. PICK u \in Threads : pc[u] \in {"o_exit", "o_wait"} /\ n = lp[u]
    BY <1>7 DEF Waiting, At
  <2>2. n \in Private(u)
    BY <1>4, <2>1, PrivateAt
  <2>3. CASE u # t
    <3>1. n \notin Private(t)
      BY <1>0, <2>2, <2>3 DEF Places
    <3>2. next'[n] = next[n]
      BY <1>0, <1>4, <3>1, WritesOwn
    <3>. QED
      BY <1>3, <1>4, <1>5, <2>1, <2>3, <3>2
  <2>4. CASE u = t
    <3>1. \A x, y : Goto(t, x, y) => pc[t] = x /\ pc'[t] = y
      BY <1>0 DEF Goto, TypeOK
    <3>2. pc[t] \in {"o_exit", "o_wait"}
      BY <2>1, <2>4
    <3>3. PopExit(t)
      BY <3>1, <3>2 DEF Step, Call, PushStep, PopStep, PushCall, PushLoad, PushCas, PushCount,
         PopCall, PopEnter, PopLoad, PopNext, PopCas, PopWait, PopCount, PopFree, SeeHead
    <3>4. pc'[t] = "o_wait" /\ lp' = lp /\ next' = next
      BY <3>1, <3>3 DEF PopExit
    <3>. QED
      BY <1>4, <1>5, <2>1, <2>4, <3>4
  <2>. QED
    BY <2>3, <2>4
<1>. QED
  BY <1>6, <1>7

\* Snapshots: no pop acts on a link that has changed.
LEMMA StepSnapshots ==
    ASSUME IInv, NEW t \in Threads, Step(t)
    PROVE  Snapshots'
<1>0. TypeOK /\ Chained /\ Places /\ Snapshots /\ Counted
  BY DEF IInv
<1>1. PICK to \in Labels : \E n \in Nodes \cup {Null} : Moves(t, to, n)
  BY <1>0, StepMoves
<1>2. PICK n \in Nodes \cup {Null} : Moves(t, to, n)
  BY <1>1
<1>3. \A u \in Threads \ {t} : pc'[u] = pc[u] /\ lp'[u] = lp[u]
  BY <1>0, <1>2, OthersStay
<1>4. \A x, y : Goto(t, x, y) => pc[t] = x /\ pc'[t] = y
  BY <1>0 DEF Goto, TypeOK
<1>5. \A m \in Listed : next[m] \in Nodes \cup {Null}
  BY <1>0, ListedAreNodes, ListLinks DEF Chained
<1>6. head # Null => head \in Listed
  BY <1>0, ListedAreNodes, ListLinks DEF Chained
<1>7. ASSUME NEW m \in Waiting'
      PROVE  next'[m] \in Nodes \cup {Null}
  <2>1. PICK u \in Threads : pc'[u] \in {"o_exit", "o_wait"} /\ m = lp'[u] /\ m # Null
    BY <1>7 DEF Waiting, At
  <2>2. CASE u # t
    <3>1. pc[u] \in {"o_exit", "o_wait"} /\ m = lp[u] /\ m \in Waiting
      BY <1>3, <2>1, <2>2 DEF Waiting, At
    <3>2. m \in Private(u)
      BY <2>1, <3>1, PrivateAt
    <3>3. m \notin Private(t) /\ m \in Nodes
      BY <1>0, <2>2, <3>1, <3>2, ListedAreNodes DEF Places
    <3>4. next'[m] = next[m]
      BY <1>0, <3>3, WritesOwn
    <3>. QED
      BY <1>0, <3>1, <3>4 DEF Snapshots
  <2>3. CASE u = t /\ PopExit(t)
    <3>1. pc[t] = "o_exit" /\ lp'[t] = lp[t] /\ next' = next
      BY <1>4, <2>3 DEF PopExit
    <3>2. m \in Waiting
      BY <2>1, <2>3, <3>1 DEF Waiting, At
    <3>. QED
      BY <1>0, <3>1, <3>2 DEF Snapshots
  <2>4. CASE u = t /\ PopCas(t) /\ head = lp[t]
    <3>1. pc[t] = "o_cas" /\ lp'[t] = lp[t] /\ next' = next
      BY <1>4, <2>4 DEF PopCas
    <3>2. m \in Listed \cup Waiting
      BY <1>0, <2>1, <2>4, <3>1 DEF Snapshots, At
    <3>. QED
      BY <1>0, <1>5, <3>1, <3>2 DEF Snapshots
  <2>5. CASE u = t /\ (PopLoad(t) \/ (PopCas(t) /\ head # lp[t]))
    <3>1. lp'[t] = head /\ pc'[t] = IF head = Null THEN "o_exit" ELSE "o_next"
      BY <1>0, <1>4, <2>5 DEF PopLoad, PopCas, SeeHead, SetLp, TypeOK
    <3>. QED
      BY <2>1, <2>5, <3>1
  <2>6. CASE u = t /\ ~ (PopExit(t) \/ PopCas(t) \/ PopLoad(t))
    <3>1. pc'[t] \in {"o_exit", "o_wait"}
      BY <2>1, <2>6
    <3>. QED
      BY <1>0, <1>4, <2>6, <3>1 DEF Step, Call, PushStep, PopStep, PushCall, PushLoad, PushCas,
         PushCount, PopCall, PopEnter, PopNext, PopWait, PopCount, PopFree
  <2>. QED
    BY <2>2, <2>3, <2>4, <2>5, <2>6
<1>8. ASSUME NEW u \in At({"o_next", "o_cas"})'
      PROVE  /\ lp'[u] \in Listed' \cup Waiting'
             /\ pc'[u] = "o_cas" => nxt'[u] = next'[lp'[u]]
  <2>0. u \in Threads /\ pc'[u] \in {"o_next", "o_cas"}
    BY DEF At
  <2>1. CASE u # t
    <3>1. /\ pc[u] \in {"o_next", "o_cas"} /\ lp[u] \in Listed \cup Waiting
          /\ pc[u] = "o_cas" => nxt[u] = next[lp[u]]
      BY <1>0, <1>3, <2>0, <2>1 DEF Snapshots, At
    <3>2. ~ PopWait(t)
      <4>1. u \in At(Loop) /\ IsFiniteSet(At(Loop))
        BY <2>0, <3>1, NamesAssumption, FS_Subset DEF At, Loop
      <4>2. popingThreads # 0
        BY <1>0, <4>1, FS_EmptySet DEF Counted
      <4>. QED
        BY <4>2 DEF PopWait
    <3>3. lp[u] \in Listed' \cup Waiting' /\ next'[lp[u]] = next[lp[u]]
      BY <3>1, <3>2, StaysReadable
    <3>4. nxt'[u] = nxt[u]
      <4>1. \A x : [nxt EXCEPT ![t] = x][u] = nxt[u]
        BY <1>0, <2>0, <2>1 DEF TypeOK
      <4>2. CASE PopNext(t) \/ PopCas(t)
        BY <4>1, <4>2 DEF PopNext, PopCas
      <4>3. CASE ~ (PopNext(t) \/ PopCas(t))
        BY <4>3 DEF Step, Call, PushStep, PopStep, PushCall, PushLoad, PushCas, PushCount,
           PopCall, PopEnter, PopLoad, PopExit, PopWait, PopCount, PopFree
      <4>. QED
        BY <4>2, <4>3
    <3>. QED
      BY <1>3, <2>0, <2>1, <3>1, <3>3, <3>4
  <2>2. CASE u = t /\ PopNext(t)
    <3>1. /\ pc[t] = "o_next" /\ lp'[t] = lp[t] /\ nxt'[t] = next[lp[t]] /\ ~ PopWait(t)
      BY <1>0, <1>4, <2>2 DEF PopNext, PopWait, TypeOK
    <3>2. lp[t] \in Listed \cup Waiting
      BY <1>0, <3>1 DEF Snapshots, At
    <3>3. lp[t] \in Listed' \cup Waiting' /\ next'[lp[t]] = next[lp[t]]
      BY <3>1, <3>2, StaysReadable
    <3>. QED
      BY <2>2, <3>1, <3>3
  <2>3. CASE u = t /\ (PopLoad(t) \/ PopCas(t))
    <3>1. /\ lp'[t] = head /\ head # Null /\ pc'[t] = "o_next" /\ ~ PopWait(t)
      BY <1>0, <1>4, <2>0, <2>3 DEF PopLoad, PopCas, SeeHead, SetLp, PopWait, TypeOK
    <3>2. lp'[t] \in Listed' \cup Waiting'
      BY <1>6, <3>1, StaysReadable
    <3>. QED
      BY <2>3, <3>1, <3>2
  <2>4. CASE u = t /\ ~ (PopNext(t) \/ PopLoad(t) \/ PopCas(t))
    <3>1. pc'[t] \in {"o_next", "o_cas"}
      BY <2>0, <2>4
    <3>. QED
      BY <1>0, <1>4, <2>4, <3>1 DEF Step, Call, PushStep, PopStep, PushCall, PushLoad, PushCas,
         PushCount, PopCall, PopEnter, PopExit, PopWait, PopCount, PopFree
  <2>. QED
    BY <2>1, <2>2, <2>3, <2>4
<1>. QED
  BY <1>7, <1>8 DEF Snapshots

\* The items: push() gets a new one, pop() passes one on to its caller.
LEMMA StepItems ==
    ASSUME IInv, NEW t \in Threads, Step(t)
    PROVE  ItemsKept'
<1>0. TypeOK /\ Places /\ ItemsKept
  BY DEF IInv
<1>1. CASE \E n \in Nodes, d \in Items : PushCall(t, n, d)
  <2>1. PICK n \in Nodes, d \in Items : PushCall(t, n, d)
    BY <1>1
  <2>2. /\ n \notin nodes /\ nodes' = nodes \cup {n}
        /\ d \notin blocks /\ blocks' = blocks \cup {d}
        /\ data' = [data EXCEPT ![n] = d] /\ held' = held
    BY <2>1 DEF PushCall, NodeAlloc!Allocate, DataAlloc!Allocate
  <2>3. data'[n] = d /\ \A m \in nodes : data'[m] = data[m] /\ data[m] # d
    BY <1>0, <2>2 DEF TypeOK, ItemsKept
  <2>4. d \notin held
    BY <1>0, <2>2 DEF ItemsKept
  <2>5. \A m \in nodes' : data'[m] \in Items \ held'
    BY <1>0, <2>2, <2>3, <2>4 DEF ItemsKept
  <2>6. \A m, k \in nodes' : data'[m] = data'[k] => m = k
    BY <1>0, <2>2, <2>3 DEF ItemsKept
  <2>7. blocks' = held' \cup {data'[m] : m \in nodes'}
    <3>1. {data'[m] : m \in nodes'} = {data[m] : m \in nodes} \cup {d}
      BY <2>2, <2>3
    <3>. QED
      BY <1>0, <2>2, <3>1 DEF ItemsKept
  <2>. QED
    BY <2>5, <2>6, <2>7 DEF ItemsKept
<1>2. CASE PopFree(t)
  <2>1. /\ pc[t] = "o_free" /\ nodes' = nodes \ {lp[t]} /\ held' = held \cup {data[lp[t]]}
        /\ UNCHANGED <<data, blocks>>
    BY <1>2 DEF PopFree, Goto, NodeAlloc!Deallocate
  <2>2. lp[t] \in nodes
    <3>1. Private(t) = {lp[t]}
      BY <1>0, <2>1, PrivateAt DEF Places, At
    <3>. QED
      BY <1>0, <3>1 DEF Places, Privates
  <2>3. \A m \in nodes' : data[m] # data[lp[t]]
    BY <1>0, <2>1, <2>2 DEF ItemsKept
  <2>4. {data[m] : m \in nodes} = {data[m] : m \in nodes'} \cup {data[lp[t]]}
    BY <2>1, <2>2
  <2>5. blocks' = held' \cup {data'[m] : m \in nodes'}
    BY <1>0, <2>1, <2>4 DEF ItemsKept
  <2>6. \A m \in nodes' : data'[m] \in Items \ held'
    BY <1>0, <2>1, <2>3 DEF ItemsKept
  <2>. QED
    BY <1>0, <2>1, <2>5, <2>6 DEF ItemsKept
<1>3. CASE ~ (PopFree(t) \/ \E n \in Nodes, d \in Items : PushCall(t, n, d))
  <2>1. UNCHANGED <<nodes, blocks, held, data>>
    BY <1>3 DEF Step, Call, PushStep, PopStep, PushLoad, PushCas, PushCount, PopCall, PopEnter,
       PopLoad, PopNext, PopCas, PopExit, PopWait, PopCount, shared, memory
  <2>. QED
    BY <1>0, <2>1 DEF ItemsKept
<1>. QED
  BY <1>1, <1>2, <1>3

\* __size: what a step does to the list, to the count and to the calls between.
LEMMA StepSize ==
    ASSUME IInv, NEW t \in Threads, Step(t)
    PROVE  SizeAccounts'
<1>0. TypeOK /\ Chained /\ Places /\ Snapshots /\ SizeAccounts /\ size \in Int
  BY DEF IInv, TypeOK
<1> DEFINE p == Cardinality(At({"p_count"}))
           u == Cardinality(Unlinked)
<1>1. /\ p \in Nat /\ p' \in Nat
      /\ pc[t] # "p_count" /\ pc'[t] = "p_count" => p' = p + 1
      /\ pc[t] = "p_count" /\ pc'[t] # "p_count" => p' = p - 1
      /\ (pc[t] = "p_count" <=> pc'[t] = "p_count") => p' = p
  <2> DEFINE A == At({"p_count"})
             B == At({"p_count"})'
  <2>1. /\ A \in SUBSET Threads /\ B \in SUBSET Threads /\ A \ {t} = B \ {t}
        /\ t \in A <=> pc[t] = "p_count"
        /\ t \in B <=> pc'[t] = "p_count"
    BY <1>0, CountsMove
  <2>2. p = Cardinality(A) /\ p' = Cardinality(B)
    OBVIOUS
  <2>. HIDE DEF A, B, p
  <2>3. /\ Cardinality(A) \in Nat /\ Cardinality(B) \in Nat
        /\ t \notin A /\ t \in B => Cardinality(B) = Cardinality(A) + 1
        /\ t \in A /\ t \notin B => Cardinality(B) = Cardinality(A) - 1
        /\ (t \in A <=> t \in B) => B = A
    BY <2>1, CountMoves
  <2>. QED
    BY <2>1, <2>2, <2>3
<1>2. /\ u \in Nat /\ u' \in Nat
      /\ t \notin Unlinked /\ t \in Unlinked' => u' = u + 1
      /\ t \in Unlinked /\ t \notin Unlinked' => u' = u - 1
      /\ (t \in Unlinked <=> t \in Unlinked') => u' = u
  <2> DEFINE A == Unlinked
             B == Unlinked'
  <2>1. A \in SUBSET Threads /\ B \in SUBSET Threads /\ A \ {t} = B \ {t}
    BY <1>0, CountsMove
  <2>2. u = Cardinality(A) /\ u' = Cardinality(B)
    OBVIOUS
  <2>3. (t \in Unlinked <=> t \in A) /\ (t \in Unlinked' <=> t \in B)
    OBVIOUS
  <2>. HIDE DEF A, B, u
  <2>4. /\ Cardinality(A) \in Nat /\ Cardinality(B) \in Nat
        /\ t \notin A /\ t \in B => Cardinality(B) = Cardinality(A) + 1
        /\ t \in A /\ t \notin B => Cardinality(B) = Cardinality(A) - 1
        /\ (t \in A <=> t \in B) => B = A
    BY <2>1, CountMoves
  <2>. QED
    BY <2>2, <2>3, <2>4
<1>3. /\ t \in Unlinked <=> pc[t] \in {"o_exit", "o_wait", "o_count"} /\ lp[t] # Null
      /\ t \in Unlinked' <=> pc'[t] \in {"o_exit", "o_wait", "o_count"} /\ lp'[t] # Null
  BY <1>0, CountsMove
<1>4. (size = Len(List) - p + u) /\ (SizeAccounts' <=> size' = Len(List)' - p' + u')
  BY <1>0 DEF SizeAccounts, Unlinked
<1>5. Len(List) \in Nat
  BY <1>0, ListLinks DEF Chained
<1>6. \A x, y : Goto(t, x, y) => pc[t] = x /\ pc'[t] = y
  BY <1>0 DEF Goto, TypeOK
<1>. HIDE DEF p, u
<1>7. CASE Pushes(t)
  <2>1. PushCas(t)
    BY <1>6, <1>7 DEF Pushes, Step, Call, PushStep, PopStep, PushCall, PushLoad, PushCount, PopCall,
       PopEnter, PopLoad, PopNext, PopCas, PopExit, PopWait, PopCount, PopFree, SeeHead
  <2>2. size' = size /\ pc[t] = "p_cas" /\ pc'[t] = "p_count"
    BY <1>7, <2>1 DEF PushCas, Pushes
  <2>3. lp[t] \in Nodes /\ lp[t] \notin Members(List) /\ next[lp[t]] = head
    <3>1. lp[t] \in Private(t) /\ Private(t) \cap Listed = {}
      BY <1>0, <1>7 DEF Pushes, Places, Privates
    <3>. QED
      BY <1>0, <1>7, <3>1, ListedAreNodes DEF Pushes
  <2>4. Len(<<lp[t]>> \o List) = Len(List) + 1
    BY <1>0, <2>3, ListPush DEF Chained
  <2>5. Len(List)' = Len(List) + 1
    BY <1>7, <2>4, StepList
  <2>. QED
    BY <1>0, <1>1, <1>2, <1>3, <1>4, <1>5, <2>2, <2>5
<1>8. CASE Pops(t)
  <2>1. PopCas(t)
    BY <1>6, <1>8 DEF Pops, Step, Call, PushStep, PopStep, PushCall, PushLoad, PushCas, PushCount,
       PopCall, PopEnter, PopLoad, PopNext, PopExit, PopWait, PopCount, PopFree, SeeHead
  <2>2. /\ size' = size /\ pc[t] = "o_cas" /\ pc'[t] = "o_exit" /\ lp'[t] = lp[t] /\ lp[t] # Null
    BY <1>8, <2>1 DEF PopCas, Pops
  <2>3. Len(Tail(List)) = Len(List) - 1
    BY <1>0, <1>8, ListPop DEF Chained, Pops
  <2>4. Len(List)' = Len(List) - 1
    BY <1>8, <2>3, StepList
  <2>. QED
    BY <1>0, <1>1, <1>2, <1>3, <1>4, <1>5, <2>2, <2>4
<1>9. CASE ~ Pushes(t) /\ ~ Pops(t)
  <2>1. Len(List)' = Len(List)
    BY <1>9, StepList, Effect
  <2>2. CASE PushCount(t)
    <3>1. size' = size + 1 /\ pc[t] = "p_count" /\ pc'[t] = "idle"
      BY <1>6, <2>2 DEF PushCount
    <3>. QED
      BY <1>0, <1>1, <1>2, <1>3, <1>4, <1>5, <2>1, <3>1
  <2>3. CASE PopCount(t)
    <3>1. size' = size - 1 /\ pc[t] = "o_count" /\ pc'[t] = "o_free" /\ lp[t] # Null
      BY <1>0, <1>6, <2>3 DEF PopCount, Places, At
    <3>. QED
      BY <1>0, <1>1, <1>2, <1>3, <1>4, <1>5, <2>1, <3>1
  <2>4. CASE ~ PushCount(t) /\ ~ PopCount(t)
    <3>1. size' = size
      BY <2>4 DEF Step, Call, PushStep, PopStep, PushCall, PushLoad, PushCas, PopCall, PopEnter,
         PopLoad, PopNext, PopCas, PopExit, PopWait, PopFree, shared
    <3>2. (pc[t] = "p_count" <=> pc'[t] = "p_count") /\ (t \in Unlinked <=> t \in Unlinked')
      <4>1. CASE \/ \E n \in Nodes, d \in Items : PushCall(t, n, d)
                 \/ PushLoad(t) \/ PopCall(t) \/ PopEnter(t) \/ PopNext(t) \/ PopFree(t)
        BY <1>3, <1>6, <4>1 DEF PushCall, PushLoad, PopCall, PopEnter, PopNext, PopFree
      <4>2. CASE PushCas(t)
        <5>1. next[lp[t]] # head
          BY <1>0, <1>9, <4>2, CasPushes
        <5>2. pc'[t] = pc[t] /\ pc[t] = "p_cas"
          BY <4>2, <5>1 DEF PushCas
        <5>. QED
          BY <1>3, <5>2
      <4>3. CASE PopCas(t) \/ PopLoad(t)
        <5>1. PopCas(t) => head # lp[t]
          BY <1>0, <1>9, CasPops
        <5>2. /\ pc[t] \in {"o_load", "o_cas"} /\ lp'[t] = head
              /\ pc'[t] = IF head = Null THEN "o_exit" ELSE "o_next"
          BY <1>0, <1>6, <4>3, <5>1 DEF PopCas, PopLoad, SeeHead, SetLp, TypeOK
        <5>. QED
          BY <1>3, <5>2
      <4>4. CASE PopExit(t) \/ PopWait(t)
        BY <1>3, <1>6, <4>4 DEF PopExit, PopWait
      <4>. QED
        BY <2>4, <4>1, <4>2, <4>3, <4>4 DEF Step, Call, PushStep, PopStep
    <3>. QED
      BY <1>0, <1>1, <1>2, <1>4, <1>5, <2>1, <3>1, <3>2
  <2>. QED
    BY <2>2, <2>3, <2>4
<1>. QED
  BY <1>7, <1>8, <1>9

\* The types.
LEMMA StepType ==
    ASSUME IInv, NEW t \in Threads, Step(t)
    PROVE  TypeOK'
<1>0. TypeOK /\ Chained /\ Places /\ Snapshots /\ ItemsKept /\ NoItem \notin Items
  BY NamesAssumption DEF IInv
<1>1. PICK to \in Labels : \E n \in Nodes \cup {Null} : Moves(t, to, n)
  BY <1>0, StepMoves
<1>2. PICK n \in Nodes \cup {Null} : Moves(t, to, n)
  BY <1>1
<1>3. pc' \in [Threads -> Labels] /\ lp' \in [Threads -> Nodes \cup {Null}]
  BY <1>0, <1>2 DEF TypeOK, Moves
<1>4. popingThreads' \in 0 .. Cardinality(Threads)
  BY StepCounted
<1>5. size' \in Int
  BY <1>0 DEF Step, Call, PushStep, PopStep, PushCall, PushLoad, PushCas, PushCount, PopCall,
     PopEnter, PopLoad, PopNext, PopCas, PopExit, PopWait, PopCount, PopFree, shared, TypeOK
<1>6. head' \in Nodes \cup {Null}
  <2>1. \A m \in Members(List) : next[m] \in Nodes \cup {Null}
    BY <1>0, ListLinks DEF Chained
  <2>2. head # Null => head \in Members(List)
    BY <1>0, ListLinks DEF Chained
  <2>. QED
    BY <1>0, <2>1, <2>2, Effect DEF Stays, Gets, Pushes, Pops, Frees, TypeOK
<1>7. nodes' \subseteq Nodes
  BY <1>0, Effect DEF Stays, Gets, Pushes, Pops, Frees, TypeOK
<1>8. nxt' \in [Threads -> Nodes \cup {Null}]
  <2>1. CASE PopNext(t)
    <3>1. pc[t] = "o_next"
      BY <2>1 DEF PopNext, Goto
    <3>2. lp[t] \in Members(List) \cup Waiting
      BY <1>0, <3>1, ListedAreNodes DEF Snapshots, At
    <3>3. next[lp[t]] \in Nodes \cup {Null}
      BY <1>0, <3>2, ListLinks DEF Chained, Snapshots
    <3>. QED
      BY <1>0, <2>1, <3>3 DEF PopNext, TypeOK
  <2>2. CASE PopCas(t)
    BY <1>0, <2>2 DEF PopCas, TypeOK
  <2>3. CASE ~ PopNext(t) /\ ~ PopCas(t)
    BY <1>0, <2>3 DEF Step, Call, PushStep, PopStep, PushCall, PushLoad, PushCas, PushCount,
       PopCall, PopEnter, PopLoad, PopExit, PopWait, PopCount, PopFree, TypeOK
  <2>. QED
    BY <2>1, <2>2, <2>3
<1>9. next' \in [Nodes -> Nodes \cup {Null, Junk}]
  <2>1. \A m, x : x \in Nodes \cup {Null, Junk} =>
                      [next EXCEPT ![m] = x] \in [Nodes -> Nodes \cup {Null, Junk}]
    BY <1>0 DEF TypeOK
  <2>2. CASE PushLoad(t) \/ PushCas(t) \/ PopFree(t)
    BY <1>0, <2>1, <2>2 DEF PushLoad, PushCas, PopFree, TypeOK
  <2>3. CASE ~ (PushLoad(t) \/ PushCas(t) \/ PopFree(t))
    <3>1. next' = next
      BY <2>3 DEF Step, Call, PushStep, PopStep, PushCall, PushCount, PopCall, PopEnter, PopLoad,
         PopNext, PopCas, PopExit, PopWait, PopCount, shared
    <3>. QED
      BY <1>0, <3>1 DEF TypeOK
  <2>. QED
    BY <2>2, <2>3
<1>10. /\ data' \in [Nodes -> Items \cup {NoItem}]
       /\ blocks' \subseteq Items /\ held' \subseteq Items
  <2>1. CASE \E m \in Nodes, d \in Items : PushCall(t, m, d)
    BY <1>0, <2>1 DEF PushCall, DataAlloc!Allocate, TypeOK
  <2>2. CASE PopFree(t)
    <3>1. /\ pc[t] = "o_free" /\ held' = held \cup {data[lp[t]]} /\ UNCHANGED <<data, blocks>>
      BY <2>2 DEF PopFree, Goto
    <3>2. lp[t] \in nodes
      <4>1. Private(t) = {lp[t]}
        BY <1>0, <3>1, PrivateAt DEF Places, At
      <4>. QED
        BY <1>0, <4>1 DEF Places, Privates
    <3>. QED
      BY <1>0, <3>1, <3>2 DEF TypeOK, ItemsKept
  <2>3. CASE ~ (PopFree(t) \/ \E m \in Nodes, d \in Items : PushCall(t, m, d))
    <3>1. UNCHANGED <<blocks, held, data>>
      BY <2>3 DEF Step, Call, PushStep, PopStep, PushLoad, PushCas, PushCount, PopCall, PopEnter,
         PopLoad, PopNext, PopCas, PopExit, PopWait, PopCount, shared, memory
    <3>. QED
      BY <1>0, <3>1 DEF TypeOK
  <2>. QED
    BY <2>1, <2>2, <2>3
<1>. QED
  BY <1>3, <1>4, <1>5, <1>6, <1>7, <1>8, <1>9, <1>10 DEF TypeOK

\* The return of a data block touches the callers' items only.
LEMMA StepReturn ==
    ASSUME IInv, NEW d \in Items, ReturnData(d)
    PROVE  IInv'
<1>0. TypeOK /\ Chained /\ Places /\ Snapshots /\ Counted /\ ItemsKept /\ SizeAccounts
  BY DEF IInv
<1>1. /\ d \in held /\ held' = held \ {d} /\ blocks' = blocks \ {d}
      /\ UNCHANGED <<shared, nodes, pc, lp, nxt>>
  BY DEF ReturnData, DataAlloc!Deallocate
<1>2. UNCHANGED <<head, next, data, popingThreads, size>>
  BY <1>1 DEF shared
<1>3. TypeOK'
  BY <1>0, <1>1, <1>2 DEF TypeOK
<1>4. List' = List
  <2>1. (\A s : IsList(head, next, s) => List = s)'
    BY ListIs, PTL
  <2>. QED
    BY <1>0, <1>2, <2>1 DEF Chained
<1>5. Listed' = Listed
  BY <1>4 DEF Listed
<1>6. Privates' = Privates /\ \A t : Private(t)' = Private(t)
  BY <1>1 DEF Privates, Private
<1>7. Chained' /\ Places'
  BY <1>0, <1>1, <1>2, <1>4, <1>5, <1>6 DEF Chained, Places, At
<1>8. Snapshots' /\ Counted'
  BY <1>0, <1>1, <1>2, <1>5 DEF Snapshots, Waiting, Counted, At
<1>9. SizeAccounts'
  BY <1>0, <1>1, <1>2, <1>4 DEF SizeAccounts, At
<1>10. ItemsKept'
  BY <1>0, <1>1, <1>2 DEF ItemsKept
<1>. QED
  BY <1>3, <1>7, <1>8, <1>9, <1>10 DEF IInv

\* The invariant holds of the empty stack.
LEMMA InitIInv == Init => IInv
<1> SUFFICES ASSUME Init PROVE IInv
  OBVIOUS
<1>1. TypeOK
  BY NamesAssumption, FS_CardinalityType DEF Init, TypeOK, Labels
<1>2. IsList(head, next, <<>>)
  BY DEF Init, IsList
<1>3. List = <<>>
  BY <1>2, ListIs
<1>4. Chained /\ Listed = {}
  BY <1>2, <1>3 DEF Chained, Listed
<1>5. \A t \in Threads : Private(t) = {}
  BY DEF Init, Private
<1>6. \A S : "idle" \notin S => At(S) = {}
  BY DEF Init, At
<1>7. Places
  BY <1>4, <1>5, <1>6 DEF Places, Privates, Init
<1>8. Snapshots
  BY <1>6 DEF Snapshots, Waiting
<1>9. Counted
  BY <1>6, FS_EmptySet DEF Counted, Loop, Init
<1>10. ItemsKept
  BY DEF ItemsKept, Init
<1>11. SizeAccounts
  <2>1. At({"p_count"}) = {} /\ {t \in At({"o_exit", "o_wait", "o_count"}) : lp[t] # Null} = {}
    BY <1>6
  <2>2. /\ Cardinality(At({"p_count"})) = 0
        /\ Cardinality({t \in At({"o_exit", "o_wait", "o_count"}) : lp[t] # Null}) = 0
    BY <2>1, FS_EmptySet
  <2>3. Len(List) = 0 /\ size = 0
    BY <1>3 DEF Init
  <2>. QED
    BY <2>2, <2>3 DEF SizeAccounts
<1>. QED
  BY <1>1, <1>4, <1>7, <1>8, <1>9, <1>10, <1>11 DEF IInv

\* Every step keeps the invariant.
LEMMA StepIInv == IInv /\ [Next]_vars => IInv'
<1> SUFFICES ASSUME IInv, [Next]_vars PROVE IInv'
  OBVIOUS
<1>1. CASE \E t \in Threads : Step(t)
  BY <1>1, StepType, StepList, StepPlaces, StepSnapshots, StepCounted, StepItems, StepSize DEF IInv
<1>2. CASE \E d \in Items : ReturnData(d)
  BY <1>2, StepReturn
<1>3. CASE UNCHANGED vars
  <2>1. UNCHANGED <<head, next, data, popingThreads, size, nodes, blocks, held, pc, lp, nxt>>
    BY <1>3 DEF vars, shared, memory
  <2>2. List' = List
    <3>1. (\A s : IsList(head, next, s) => List = s)'
      BY ListIs, PTL
    <3>. QED
      BY <2>1, <3>1 DEF IInv, Chained
  <2>3. Listed' = Listed /\ Privates' = Privates /\ \A t : Private(t)' = Private(t)
    BY <2>1, <2>2 DEF Listed, Privates, Private
  <2>. QED
    BY <2>1, <2>2, <2>3 DEF IInv, TypeOK, Chained, Places, Snapshots, Waiting, Counted, ItemsKept,
       SizeAccounts, At
<1>. QED
  BY <1>1, <1>2, <1>3 DEF Next, Step

\* The invariant of jstack.
THEOREM Sound == Spec => []IInv
BY InitIInv, StepIInv, PTL DEF Spec

\* The calls that are between the change of the list and that of __size account
\* for the difference between the two.
THEOREM SizeIsRight == Spec => []SizeAccounts
<1>1. IInv => SizeAccounts
  BY DEF IInv
<1>. QED
  BY Sound, <1>1, PTL

\* The list counts each node once, and so do the threads.
LEMMA NodesCounted ==
    ASSUME IInv
    PROVE  Cardinality(nodes) = Len(List) + Cardinality({t \in Threads : Private(t) # {}})
<1>0. TypeOK /\ Chained /\ Places
  BY DEF IInv
<1> DEFINE H == {t \in Threads : Private(t) # {}}
<1>1. IsFiniteSet(Listed) /\ Cardinality(Listed) = Len(List)
  <2>1. List \in Seq(Nodes) /\ Len(List) \in Nat /\ \A i, j \in DOMAIN List : List[i] = List[j] => i = j
    BY <1>0 DEF Chained, IsList
  <2>2. List \in [1 .. Len(List) -> Listed]
    BY <2>1 DEF Listed
  <2>3. List \in Bijection(1 .. Len(List), Listed)
    BY <2>1, <2>2 DEF Bijection, Injection, Surjection, IsInjective, Listed
  <2>4. \A n \in Nat : IsFiniteSet(1 .. n) /\ Cardinality(1 .. n) = n
    BY FS_Interval
  <2>. QED
    BY <2>1, <2>3, <2>4, FS_Bijection DEF ExistsBijection
<1>2. IsFiniteSet(Privates) /\ Cardinality(Privates) = Cardinality(H)
  <2> DEFINE f == [t \in H |-> lp[t]]
  <2>1. \A t \in H : Private(t) = {lp[t]} /\ t \in Threads
    BY DEF Private
  <2>2. Privates = {lp[t] : t \in H}
    BY <2>1 DEF Privates
  <2>3. \A t, v \in H : lp[t] = lp[v] => t = v
    BY <1>0, <2>1 DEF Places
  <2>4. f \in Bijection(H, Privates)
    BY <2>2, <2>3 DEF Bijection, Injection, Surjection, IsInjective
  <2>5. IsFiniteSet(H)
    BY NamesAssumption, FS_Subset
  <2>. HIDE DEF f, H
  <2>. QED
    BY <2>4, <2>5, FS_Bijection DEF ExistsBijection
<1>3. nodes = Listed \cup Privates /\ Listed \cap Privates = {}
  BY <1>0 DEF Places
<1>4. Cardinality(nodes) = Cardinality(Listed) + Cardinality(Privates) - Cardinality({})
  BY <1>1, <1>2, <1>3, FS_Union
<1>5. Cardinality({}) = 0 /\ Cardinality(Listed) \in Nat /\ Cardinality(Privates) \in Nat
  BY <1>1, <1>2, FS_EmptySet, FS_CardinalityType
<1>. HIDE DEF H
<1>6. Cardinality(nodes) = Len(List) + Cardinality(H)
  BY <1>1, <1>2, <1>4, <1>5
<1>. QED
  BY <1>6 DEF H

\* The items of the nodes in use are as many as they are.
LEMMA BlocksCounted ==
    ASSUME IInv
    PROVE  Cardinality(blocks) = Cardinality(held) + Cardinality(nodes)
<1>0. TypeOK /\ ItemsKept
  BY DEF IInv
<1> DEFINE D == {data[n] : n \in nodes}
           f == [n \in nodes |-> data[n]]
<1>1. IsFiniteSet(nodes) /\ IsFiniteSet(held)
  BY <1>0, NamesAssumption, FS_Subset DEF TypeOK
<1>2. f \in Bijection(nodes, D)
  BY <1>0 DEF ItemsKept, Bijection, Injection, Surjection, IsInjective
<1>3. blocks = held \cup D /\ held \cap D = {}
  BY <1>0 DEF ItemsKept
<1>. HIDE DEF f, D
<1>4. IsFiniteSet(D) /\ Cardinality(D) = Cardinality(nodes)
  BY <1>1, <1>2, FS_Bijection DEF ExistsBijection
<1>5. Cardinality(blocks) = Cardinality(held) + Cardinality(D) - Cardinality({})
  BY <1>1, <1>3, <1>4, FS_Union
<1>6. Cardinality({}) = 0 /\ Cardinality(held) \in Nat /\ Cardinality(D) \in Nat
  BY <1>1, <1>4, FS_EmptySet, FS_CardinalityType
<1>. QED
  BY <1>4, <1>5, <1>6

\* Nothing leaks and nothing is in two places.
THEOREM Conserved == Spec => []Conservation
<1>1. IInv => Conservation
  BY NodesCounted, BlocksCounted DEF IInv, Places, ItemsKept, Conservation
<1>. QED
  BY Sound, <1>1, PTL

-----------------------------------------------------------------------------
(* jstack is a stack *)

\* What the call of thread t looks like.
LEMMA RefinedAt ==
    ASSUME NEW t
    PROVE  LET item == IF Private(t) = {} THEN NoItem ELSE data[lp[t]]
           IN  /\ pc[t] = "idle" => Refined(t) = [op |-> "idle", item |-> NoItem]
               /\ pc[t] \in {"p_load", "p_cas"} =>
                      Refined(t) = [op |-> "push_front", item |-> data[lp[t]]]
               /\ pc[t] \in {"o_enter", "o_load", "o_next", "o_cas"} =>
                      Refined(t) = [op |-> "pop_front", item |-> NoItem]
               /\ pc[t] \in {"p_count", "o_exit", "o_wait", "o_count", "o_free"} =>
                      Refined(t) = [op |-> "done", item |-> item]
BY DEF Refined

\* What it looks like after a step.
LEMMA RefinedNext ==
    ASSUME NEW t
    PROVE  LET item == IF Private(t)' = {} THEN NoItem ELSE data'[lp'[t]]
           IN  /\ pc'[t] = "idle" => Refined(t)' = [op |-> "idle", item |-> NoItem]
               /\ pc'[t] \in {"p_load", "p_cas"} =>
                      Refined(t)' = [op |-> "push_front", item |-> data'[lp'[t]]]
               /\ pc'[t] \in {"o_enter", "o_load", "o_next", "o_cas"} =>
                      Refined(t)' = [op |-> "pop_front", item |-> NoItem]
               /\ pc'[t] \in {"p_count", "o_exit", "o_wait", "o_count", "o_free"} =>
                      Refined(t)' = [op |-> "done", item |-> item]
BY DEF Refined

\* The items of a sequence of nodes, and what a push and a pop make of them.
ItemsOf(d, s) == [i \in DOMAIN s |-> d[s[i]]]

LEMMA ItemsOfPush ==
    ASSUME NEW d \in [Nodes -> Items \cup {NoItem}], NEW s \in Seq(Nodes), NEW n \in Nodes
    PROVE  ItemsOf(d, <<n>> \o s) = <<d[n]>> \o ItemsOf(d, s)
<1> DEFINE D == Items \cup {NoItem}
           q == <<n>> \o s
           r == <<d[n]>> \o ItemsOf(d, s)
<1>1. /\ q \in Seq(Nodes) /\ Len(q) = 1 + Len(s) /\ Len(s) \in Nat
      /\ \A i \in 1 .. 1 + Len(s) : q[i] = IF i <= 1 THEN <<n>>[i] ELSE s[i - 1]
  <2>1. <<n>> \in Seq(Nodes) /\ Len(<<n>>) = 1
    OBVIOUS
  <2>. QED
    BY <2>1, ConcatProperties
<1>2. ItemsOf(d, s) \in Seq(D) /\ Len(ItemsOf(d, s)) = Len(s)
      /\ \A i \in 1 .. Len(s) : ItemsOf(d, s)[i] = d[s[i]]
  BY DEF ItemsOf
<1>3. /\ r \in Seq(D) /\ Len(r) = 1 + Len(s)
      /\ \A i \in 1 .. 1 + Len(s) : r[i] = IF i <= 1 THEN <<d[n]>>[i] ELSE ItemsOf(d, s)[i - 1]
  <2>1. <<d[n]>> \in Seq(D) /\ Len(<<d[n]>>) = 1
    OBVIOUS
  <2>. QED
    BY <1>2, <2>1, ConcatProperties
<1>. HIDE DEF q, r
<1>4. /\ ItemsOf(d, q) \in Seq(D) /\ Len(ItemsOf(d, q)) = Len(q)
      /\ \A i \in 1 .. Len(q) : ItemsOf(d, q)[i] = d[q[i]]
  BY <1>1 DEF ItemsOf
<1>5. ASSUME NEW i \in 1 .. 1 + Len(s) PROVE d[q[i]] = r[i]
  <2>1. CASE i = 1
    BY <1>1, <1>3, <2>1
  <2>2. CASE i # 1
    <3>1. i - 1 \in 1 .. Len(s) /\ ~ (i <= 1)
      BY <1>1, <2>2
    <3>2. q[i] = s[i - 1] /\ r[i] = ItemsOf(d, s)[i - 1]
      BY <1>1, <1>3, <3>1
    <3>. QED
      BY <1>2, <3>1, <3>2
  <2>. QED
    BY <2>1, <2>2
<1>6. ItemsOf(d, q) = r
  BY <1>1, <1>3, <1>4, <1>5, SeqEqual
<1>. QED
  BY <1>6 DEF q, r

\* A pop takes off the first item.
LEMMA ItemsOfPop ==
    ASSUME NEW d \in [Nodes -> Items \cup {NoItem}], NEW s \in Seq(Nodes), s # <<>>
    PROVE  /\ ItemsOf(d, s) # <<>> /\ Head(ItemsOf(d, s)) = d[Head(s)]
           /\ ItemsOf(d, Tail(s)) = Tail(ItemsOf(d, s))
<1> DEFINE D == Items \cup {NoItem}
           r == ItemsOf(d, s)
<1>1. /\ Len(s) \in Nat /\ Len(s) > 0 /\ Head(s) = s[1]
      /\ Tail(s) \in Seq(Nodes) /\ Len(Tail(s)) = Len(s) - 1
      /\ \A i \in 1 .. Len(Tail(s)) : Tail(s)[i] = s[i + 1]
  BY HeadTailProperties
<1>2. /\ r \in Seq(D) /\ Len(r) = Len(s)
      /\ \A i \in 1 .. Len(s) : r[i] = d[s[i]]
  BY DEF ItemsOf
<1>. HIDE DEF r
<1>3. r # <<>> /\ Head(r) = r[1]
  BY <1>1, <1>2
<1>4. /\ Tail(r) \in Seq(D) /\ Len(Tail(r)) = Len(s) - 1
      /\ \A i \in 1 .. Len(Tail(r)) : Tail(r)[i] = r[i + 1]
  BY <1>2, <1>3, HeadTailProperties
<1>5. /\ ItemsOf(d, Tail(s)) \in Seq(D) /\ Len(ItemsOf(d, Tail(s))) = Len(s) - 1
      /\ \A i \in 1 .. Len(s) - 1 : ItemsOf(d, Tail(s))[i] = d[Tail(s)[i]]
  <2> DEFINE q == Tail(s)
  <2>1. q \in Seq(Nodes) /\ Len(q) = Len(s) - 1
    BY <1>1
  <2>. HIDE DEF q
  <2>2. /\ ItemsOf(d, q) \in Seq(D) /\ Len(ItemsOf(d, q)) = Len(s) - 1
        /\ \A i \in 1 .. Len(s) - 1 : ItemsOf(d, q)[i] = d[q[i]]
    BY <2>1 DEF ItemsOf
  <2>. QED
    BY <2>2 DEF q
<1>6. \A i \in 1 .. Len(s) - 1 : ItemsOf(d, Tail(s))[i] = Tail(r)[i]
  <2> TAKE i \in 1 .. Len(s) - 1
  <2>1. i + 1 \in 1 .. Len(s) /\ i \in 1 .. Len(Tail(r)) /\ i \in 1 .. Len(Tail(s))
    BY <1>1, <1>4
  <2>. QED
    BY <1>1, <1>2, <1>4, <1>5, <2>1
<1>7. ItemsOf(d, Tail(s)) = Tail(r)
  BY <1>4, <1>5, <1>6, SeqEqual
<1>. QED
  BY <1>1, <1>2, <1>3, <1>7 DEF r

\* The item of a node in use stays.
LEMMA DataStays ==
    ASSUME TypeOK, NEW t \in Threads, Step(t), NEW n \in nodes
    PROVE  data'[n] = data[n]
<1>1. CASE \E m \in Nodes, d \in Items : PushCall(t, m, d)
  <2>1. PICK m \in Nodes, d \in Items : PushCall(t, m, d)
    BY <1>1
  <2>2. m \notin nodes /\ data' = [data EXCEPT ![m] = d]
    BY <2>1 DEF PushCall, NodeAlloc!Allocate
  <2>. QED
    BY <2>2 DEF TypeOK
<1>2. CASE ~ \E m \in Nodes, d \in Items : PushCall(t, m, d)
  BY <1>2 DEF Step, Call, PushStep, PopStep, PushLoad, PushCas, PushCount, PopCall, PopEnter,
     PopLoad, PopNext, PopCas, PopExit, PopWait, PopCount, PopFree, shared
<1>. QED
  BY <1>1, <1>2

\* The calls of the other threads stay as they are.
LEMMA OthersRefined ==
    ASSUME IInv, NEW t \in Threads, Step(t), NEW u \in Threads, u # t
    PROVE  Refined(u)' = Refined(u)
<1>0. TypeOK /\ Chained /\ Places
  BY DEF IInv
<1>1. PICK to \in Labels : \E n \in Nodes \cup {Null} : Moves(t, to, n)
  BY <1>0, StepMoves
<1>2. PICK n \in Nodes \cup {Null} : Moves(t, to, n)
  BY <1>1
<1>3. pc'[u] = pc[u] /\ lp'[u] = lp[u] /\ Private(u)' = Private(u)
  BY <1>0, <1>2, OthersStay
<1>4. pc[u] \in Labels
  BY <1>0 DEF TypeOK
<1>5. Private(u) # {} => data'[lp[u]] = data[lp[u]]
  <2>1. Private(u) # {} => lp[u] \in Private(u)
    BY DEF Private
  <2>. QED
    BY <1>0, <2>1, ListedAreNodes, DataStays
<1>6. pc[u] \in {"p_load", "p_cas"} => Private(u) # {}
  BY <1>0, PrivateAt DEF Places, At
<1>. QED
  BY <1>3, <1>4, <1>5, <1>6, RefinedAt, RefinedNext DEF Labels

\* Every step of jstack is a step of the stack or none.
LEMMA StepRefines ==
    ASSUME IInv, IInv', NEW t \in Threads, Step(t)
    PROVE  Stack!Next \/ UNCHANGED Stack!vars
<1> DEFINE content == ItemsOf(data, List)
           call == [u \in Threads |-> Refined(u)]
<1>0. TypeOK /\ Chained /\ Places /\ Snapshots
  BY DEF IInv
<1>1. \A x, y : Goto(t, x, y) => pc[t] = x /\ pc'[t] = y
  BY <1>0 DEF Goto, TypeOK
<1>2. \A n : SetLp(t, n) => lp'[t] = n
  BY <1>0 DEF SetLp, TypeOK
<1>3. call' = [call EXCEPT ![t] = Refined(t)'] /\ call[t] = Refined(t)
  <2>1. \A u \in Threads \ {t} : Refined(u)' = Refined(u)
    BY OthersRefined
  <2>. QED
    BY <2>1
<1>4. /\ List \in Seq(Nodes) /\ data \in [Nodes -> Items \cup {NoItem}]
      /\ \A i \in DOMAIN List : List[i] \in nodes
      /\ head = Null <=> List = <<>>
  BY <1>0, ListedAreNodes, ListLinks DEF Chained, IsList, TypeOK, Listed
<1>5. content' = ItemsOf(data', List')
  OBVIOUS
<1>6. Stays(t) \/ (\E n \in Nodes : Gets(t, n)) \/ Frees(t) => content' = content
  <2>1. \A i \in DOMAIN List : data'[List[i]] = data[List[i]]
    BY <1>0, <1>4, DataStays
  <2>. QED
    BY <1>5, <2>1, StepList DEF ItemsOf
<1>7. ~ Pushes(t) /\ ~ Pops(t) => content' = content
  BY <1>6, Effect
<1>8. /\ Stack!vars = <<content, call>> /\ Stack!vars' = <<content', call'>>
  BY DEF Stack!vars, ItemsOf
<1>9. ASSUME NEW op, NEW c, Refined(t).op = op, Refined(t)' = c
      PROVE  Stack!Becomes(t, op, c)
  BY <1>3, <1>9 DEF Stack!Becomes
<1>10. ASSUME Refined(t)' = Refined(t), content' = content
       PROVE  UNCHANGED Stack!vars
  BY <1>3, <1>8, <1>10
<1>11. CASE \E n \in Nodes, d \in Items : PushCall(t, n, d)
  <2>1. PICK n \in Nodes, d \in Items : PushCall(t, n, d)
    BY <1>11
  <2>2. pc[t] = "idle" /\ pc'[t] = "p_load" /\ lp'[t] = n /\ data'[n] = d
    BY <1>0, <1>1, <1>2, <2>1 DEF PushCall, TypeOK
  <2>3. Refined(t).op = "idle" /\ Refined(t)' = [op |-> "push_front", item |-> d]
    BY <2>2, RefinedAt, RefinedNext
  <2>4. content' = content
    BY <1>7, <2>2 DEF Pushes, Pops
  <2>5. Stack!Becomes(t, "idle", [op |-> "push_front", item |-> d])
    BY <1>9, <2>3
  <2>6. Stack!Invoke(t)
    BY <2>4, <2>5 DEF Stack!Invoke, ItemsOf
  <2>. QED
    BY <2>6 DEF Stack!Next
<1>12. CASE PopCall(t)
  <2>1. pc[t] = "idle" /\ pc'[t] = "o_enter"
    BY <1>1, <1>12 DEF PopCall
  <2>2. Refined(t).op = "idle" /\ Refined(t)' = [op |-> "pop_front", item |-> NoItem]
    BY <2>1, RefinedAt, RefinedNext
  <2>3. content' = content
    BY <1>7, <2>1 DEF Pushes, Pops
  <2>4. Stack!Becomes(t, "idle", [op |-> "pop_front", item |-> NoItem])
    BY <1>9, <2>2
  <2>5. Stack!Invoke(t)
    BY <2>3, <2>4 DEF Stack!Invoke, ItemsOf
  <2>. QED
    BY <2>5 DEF Stack!Next
<1>13. CASE Pushes(t)
  <2>1. /\ pc[t] = "p_cas" /\ pc'[t] = "p_count" /\ lp'[t] = lp[t] /\ data' = data
        /\ Private(t)' = {} /\ Private(t) = {lp[t]}
    BY <1>13 DEF Pushes
  <2>2. /\ Refined(t) = [op |-> "push_front", item |-> data[lp[t]]]
        /\ Refined(t)' = [op |-> "done", item |-> NoItem]
    BY <2>1, RefinedAt, RefinedNext
  <2>3. lp[t] \in Nodes
    BY <1>0, <2>1, ListedAreNodes
  <2>4. content' = <<data[lp[t]]>> \o content
    BY <1>4, <1>5, <1>13, <2>1, <2>3, StepList, ItemsOfPush
  <2>5. Stack!Becomes(t, "push_front", Stack!Done(NoItem))
    BY <1>9, <2>2 DEF Stack!Done
  <2>6. call[t].item = data[lp[t]]
    BY <1>3, <2>2
  <2>7. Stack!PushFront(t)
    BY <2>4, <2>5, <2>6 DEF Stack!PushFront, ItemsOf
  <2>. QED
    BY <2>7 DEF Stack!Next
<1>14. CASE Pops(t)
  <2>1. /\ pc[t] = "o_cas" /\ pc'[t] = "o_exit" /\ lp'[t] = lp[t] /\ data' = data
        /\ Private(t)' = {lp[t]} /\ head = lp[t] /\ head # Null
    BY <1>14 DEF Pops
  <2>2. /\ Refined(t) = [op |-> "pop_front", item |-> NoItem]
        /\ Refined(t)' = [op |-> "done", item |-> data[lp[t]]]
    BY <2>1, RefinedAt, RefinedNext
  <2>3. List # <<>> /\ Head(List) = lp[t]
    BY <1>0, <2>1, ListPop DEF Chained
  <2>4. content # <<>> /\ Head(content) = data[lp[t]] /\ content' = Tail(content)
    BY <1>4, <1>5, <1>14, <2>1, <2>3, StepList, ItemsOfPop
  <2>5. Stack!Becomes(t, "pop_front", Stack!Done(Head(content)))
    BY <1>9, <2>2, <2>4 DEF Stack!Done
  <2>6. Stack!PopFront(t)
    BY <2>4, <2>5 DEF Stack!PopFront, ItemsOf
  <2>. QED
    BY <2>6 DEF Stack!Next
<1>15. CASE PopLoad(t) \/ (PopCas(t) /\ head # lp[t])
  <2>1. /\ pc[t] \in {"o_load", "o_cas"} /\ lp'[t] = head
        /\ pc'[t] = IF head = Null THEN "o_exit" ELSE "o_next"
    BY <1>1, <1>2, <1>15 DEF PopLoad, PopCas, SeeHead
  <2>2. content' = content
    <3>1. ~ Pops(t)
      <4>1. Pops(t) => pc[t] = "o_cas" /\ head = lp[t]
        BY DEF Pops
      <4>2. PopLoad(t) => pc[t] = "o_load"
        BY <1>1 DEF PopLoad, SeeHead
      <4>. QED
        BY <1>15, <4>1, <4>2
    <3>. QED
      BY <1>7, <2>1, <3>1 DEF Pushes
  <2>3. Refined(t) = [op |-> "pop_front", item |-> NoItem]
    BY <2>1, RefinedAt
  <2>4. CASE head = Null
    <3>1. Private(t)' = {}
      BY <2>1, <2>4, PrivateAt
    <3>2. Refined(t)' = [op |-> "done", item |-> NoItem]
      BY <2>1, <2>4, <3>1, RefinedNext
    <3>3. content = <<>>
      BY <1>4, <2>4 DEF ItemsOf
    <3>4. Stack!Becomes(t, "pop_front", Stack!Done(NoItem))
      BY <1>9, <2>3, <3>2 DEF Stack!Done
    <3>5. Stack!PopNothing(t)
      BY <2>2, <3>3, <3>4 DEF Stack!PopNothing, ItemsOf
    <3>. QED
      BY <3>5 DEF Stack!Next
  <2>5. CASE head # Null
    <3>1. Refined(t)' = Refined(t)
      BY <2>1, <2>3, <2>5, RefinedNext
    <3>. QED
      BY <1>10, <2>2, <3>1
  <2>. QED
    BY <2>4, <2>5
<1>16. CASE PushCount(t) \/ PopFree(t) \/ (PopWait(t) /\ lp[t] = Null)
  <2>1. pc[t] \in {"p_count", "o_free", "o_wait"} /\ pc'[t] = "idle"
    BY <1>1, <1>16 DEF PushCount, PopFree, PopWait
  <2>2. Refined(t).op = "done" /\ Refined(t)' = [op |-> "idle", item |-> NoItem]
    BY <2>1, RefinedAt, RefinedNext
  <2>3. content' = content
    BY <1>7, <2>1 DEF Pushes, Pops
  <2>4. Stack!Becomes(t, "done", Stack!Idle)
    BY <1>9, <2>2 DEF Stack!Idle
  <2>5. Stack!Return(t)
    BY <2>3, <2>4 DEF Stack!Return, ItemsOf
  <2>. QED
    BY <2>5 DEF Stack!Next
<1>17. CASE \/ PushLoad(t) \/ (PushCas(t) /\ next[lp[t]] # head)
  <2>1. /\ pc[t] \in {"p_load", "p_cas"} /\ pc'[t] = "p_cas" /\ lp'[t] = lp[t]
        /\ data' = data
    BY <1>1, <1>17 DEF PushLoad, PushCas
  <2>2. Refined(t)' = Refined(t)
    BY <2>1, RefinedAt, RefinedNext
  <2>3. content' = content
    BY <1>7, <2>1 DEF Pushes, Pops
  <2>. QED
    BY <1>10, <2>2, <2>3
<1>18. CASE PopEnter(t) \/ PopNext(t)
  <2>1. pc[t] \in {"o_enter", "o_next"} /\ pc'[t] \in {"o_load", "o_cas"}
    BY <1>1, <1>18 DEF PopEnter, PopNext
  <2>2. Refined(t)' = Refined(t)
    BY <2>1, RefinedAt, RefinedNext
  <2>3. content' = content
    BY <1>7, <2>1 DEF Pushes, Pops
  <2>. QED
    BY <1>10, <2>2, <2>3
<1>19. CASE PopExit(t) \/ (PopWait(t) /\ lp[t] # Null) \/ PopCount(t)
  <2>1. /\ lp'[t] = lp[t] /\ data' = data
        /\ \/ pc[t] = "o_exit" /\ pc'[t] = "o_wait"
           \/ pc[t] = "o_wait" /\ pc'[t] = "o_count"
           \/ pc[t] = "o_count" /\ pc'[t] = "o_free"
    BY <1>1, <1>19 DEF PopExit, PopWait, PopCount, shared
  <2>2. Private(t)' = Private(t)
    BY <2>1, PrivateAt
  <2>3. Refined(t)' = Refined(t)
    BY <2>1, <2>2, RefinedAt, RefinedNext
  <2>4. content' = content
    BY <1>7, <2>1 DEF Pushes, Pops
  <2>. QED
    BY <1>10, <2>3, <2>4
<1>20. (PushCas(t) /\ next[lp[t]] = head => Pushes(t)) /\ (PopCas(t) /\ head = lp[t] => Pops(t))
  BY <1>0, CasPushes, CasPops
<1>. QED
  BY <1>11, <1>12, <1>13, <1>14, <1>15, <1>16, <1>17, <1>18, <1>19, <1>20
     DEF Step, Call, PushStep, PopStep

\* jstack is a stack: each push and each pop takes effect at one moment of its
\* call, its compare-and-swap, in any interleaving of any number of calls.
THEOREM Linearizable == Spec => ImplementsStack
<1>1. Init => Stack!Init
  <2> SUFFICES ASSUME Init PROVE Stack!Init
    OBVIOUS
  <2>1. IsList(head, next, <<>>)
    BY DEF Init, IsList
  <2>2. List = <<>>
    BY <2>1, ListIs
  <2>3. \A t \in Threads : Refined(t) = [op |-> "idle", item |-> NoItem]
    BY RefinedAt DEF Init
  <2>. QED
    BY <2>2, <2>3 DEF Stack!Init, Stack!Idle
<1>2. IInv /\ IInv' /\ [Next]_vars => [Stack!Next]_(Stack!vars)
  <2> SUFFICES ASSUME IInv, IInv', [Next]_vars
               PROVE  Stack!Next \/ UNCHANGED Stack!vars
    OBVIOUS
  <2>1. CASE \E t \in Threads : Step(t)
    BY <2>1, StepRefines
  <2>2. CASE (\E d \in Items : ReturnData(d)) \/ UNCHANGED vars
    <3>1. UNCHANGED <<head, next, data, pc, lp>>
      BY <2>2 DEF ReturnData, vars, shared
    <3>2. List' = List
      <4>1. (\A s : IsList(head, next, s) => List = s)'
        BY ListIs, PTL
      <4>. QED
        BY <3>1, <4>1 DEF IInv, Chained
    <3>3. \A t \in Threads : Refined(t)' = Refined(t)
      BY <3>1 DEF Refined, Private
    <3>. QED
      BY <3>1, <3>2, <3>3 DEF Stack!vars
  <2>. QED
    BY <2>1, <2>2 DEF Next, Step
<1>. QED
  BY Sound, <1>1, <1>2, PTL DEF Spec, ImplementsStack, Stack!Spec

=============================================================================
