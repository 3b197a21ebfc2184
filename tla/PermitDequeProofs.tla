------------------------- MODULE PermitDequeProofs -------------------------
(***************************************************************************)
(* For any finite set of threads: the count of PermitDeque is exact but    *)
(* for the calls in flight, so that an entitled pop always has an item to  *)
(* remove, and PermitDeque implements Deque with pops that may fail.       *)
(***************************************************************************)
EXTENDS PermitDeque, FiniteSetTheorems, SequenceTheorems, TLAPS

\* Inductive: PermitsCovered needs the account, and Remove needs PermitsCovered.
IInv == TypeOK /\ SizeAccounts /\ PermitsCovered

\* The threads that are in some place of a call are finitely many.
LEMMA InOpIsFinite ==
    ASSUME IsFiniteSet(Threads), NEW o
    PROVE  IsFiniteSet(InOp(o)) /\ Cardinality(InOp(o)) \in Nat
<1>1. InOp(o) \in SUBSET Threads
  BY DEF InOp
<1>2. IsFiniteSet(InOp(o))
  BY <1>1, FS_Subset
<1>. QED
  BY <1>2, FS_CardinalityType

\* A call that goes from one place to another is counted there and no longer here.
LEMMA Moves ==
    ASSUME IsFiniteSet(Threads), TypeOK,
           NEW t \in Threads, NEW op, NEW c \in Calls, Becomes(t, op, c), op # c.op
    PROVE  /\ call' \in [Threads -> Calls]
           /\ \A o : Cardinality(InOp(o)') = IF o = c.op THEN Cardinality(InOp(o)) + 1
                                             ELSE IF o = op THEN Cardinality(InOp(o)) - 1
                                             ELSE Cardinality(InOp(o))
<1>1. call \in [Threads -> Calls] /\ call[t].op = op /\ call' = [call EXCEPT ![t] = c]
  BY DEF TypeOK, Becomes
<1>2. call' \in [Threads -> Calls]
  BY <1>1
<1>3. ASSUME NEW o
      PROVE  Cardinality(InOp(o)') = IF o = c.op THEN Cardinality(InOp(o)) + 1
                                     ELSE IF o = op THEN Cardinality(InOp(o)) - 1
                                     ELSE Cardinality(InOp(o))
  <2>1. CASE o = c.op
    <3>1. InOp(o)' = InOp(o) \cup {t} /\ t \notin InOp(o)
      BY <1>1, <2>1 DEF InOp
    <3>. QED  BY <3>1, <2>1, InOpIsFinite, FS_AddElement
  <2>2. CASE o = op
    <3>1. InOp(o)' = InOp(o) \ {t} /\ t \in InOp(o) /\ o # c.op
      BY <1>1, <2>2 DEF InOp
    <3>. QED  BY <3>1, <2>2, InOpIsFinite, FS_RemoveElement
  <2>3. CASE o # op /\ o # c.op
    <3>1. InOp(o)' = InOp(o)
      BY <1>1, <2>3 DEF InOp
    <3>. QED  BY <3>1, <2>3
  <2>. QED  BY <2>1, <2>2, <2>3
<1>. QED  BY <1>2, <1>3

\* A thread that is somewhere in a call is counted there.
LEMMA CountedThere ==
    ASSUME IsFiniteSet(Threads), NEW t \in Threads, NEW o, call[t].op = o
    PROVE  Cardinality(InOp(o)) >= 1
<1>1. t \in InOp(o)
  BY DEF InOp
<1>2. Cardinality(InOp(o)) # 0
  BY <1>1, InOpIsFinite, FS_EmptySet
<1>. QED  BY <1>2, InOpIsFinite

\* Nobody is in a call at first, and the count is 0.
LEMMA InitIInv == Init => IInv
<1> SUFFICES ASSUME Init PROVE IInv
  OBVIOUS
<1>1. TypeOK
  BY EmptySeq DEF Init, TypeOK, Calls, Ops, Idle, At
<1>2. \A o \in {"entitled", "linked", "refused"} : InOp(o) = {}
  BY DEF Init, InOp, Idle, At
<1>3. Len(content) = 0 /\ size = 0
  BY EmptySeq DEF Init
<1>4. \A o \in {"entitled", "linked", "refused"} : Cardinality(InOp(o)) = 0
  BY <1>2, FS_EmptySet
<1>. QED  BY <1>1, <1>3, <1>4 DEF IInv, SizeAccounts, PermitsCovered

\* The steps that leave content, size and the three counted places alone.
LEMMA QuietStep ==
    ASSUME IsFiniteSet(Threads), IInv, NEW t \in Threads, NEW op, NEW c \in Calls,
           Becomes(t, op, c), op # c.op, UNCHANGED <<content, size>>,
           op \notin {"entitled", "linked", "refused"},
           c.op \notin {"entitled", "linked", "refused"}
    PROVE  IInv'
<1>1. TypeOK
  BY DEF IInv
<1>2. call' \in [Threads -> Calls]
  BY <1>1, Moves
<1>3. \A o \in {"entitled", "linked", "refused"} : Cardinality(InOp(o)') = Cardinality(InOp(o))
  BY <1>1, Moves
<1>. QED  BY <1>1, <1>2, <1>3 DEF IInv, TypeOK, SizeAccounts, PermitsCovered

\* The place of a call with no item.
LEMMA AtCall == \A op \in Ops : At(op) \in Calls /\ At(op).op = op
BY DEF At, Calls

\* A pop that has its permit finds an item.
LEMMA EntitledFinds ==
    ASSUME IsFiniteSet(Threads), IInv, NEW t \in Threads, call[t].op = "entitled"
    PROVE  /\ content # <<>>
           /\ Head(content) \in Items /\ Tail(content) \in Seq(Items)
           /\ Len(Tail(content)) = Len(content) - 1
<1>1. Cardinality(InOp("entitled")) >= 1 /\ Cardinality(InOp("entitled")) \in Nat
  BY CountedThere, InOpIsFinite
<1>2. content \in Seq(Items) /\ Cardinality(InOp("entitled")) <= Len(content)
  BY DEF IInv, TypeOK, PermitsCovered
<1>3. content # <<>>
  BY <1>1, <1>2, EmptySeq
<1>. QED  BY <1>2, <1>3, HeadTailProperties

\* Every step of push and pop moves one thread from one count to another, or the
\* count with it.
LEMMA StepIInv ==
    ASSUME IsFiniteSet(Threads)
    PROVE  IInv /\ [Next]_vars => IInv'
<1> SUFFICES ASSUME IInv, [Next]_vars PROVE IInv'
  OBVIOUS
<1> DEFINE E == Cardinality(InOp("entitled"))
           L == Cardinality(InOp("linked"))
           R == Cardinality(InOp("refused"))
<1>0. /\ TypeOK /\ content \in Seq(Items) /\ size \in Int
      /\ call \in [Threads -> Calls] /\ Len(content) \in Nat
  BY LenProperties DEF IInv, TypeOK
<1>n. E \in Nat /\ L \in Nat /\ R \in Nat
  BY InOpIsFinite
<1>i. size = Len(content) - E - L - R /\ E <= Len(content)
  BY DEF IInv, SizeAccounts, PermitsCovered
<1>g. ASSUME content' \in Seq(Items), size' \in Int, call' \in [Threads -> Calls],
             size' = Len(content') - E' - L' - R', E' <= Len(content')
      PROVE  IInv'
  BY <1>g DEF IInv, TypeOK, SizeAccounts, PermitsCovered
<1>1. ASSUME NEW t \in Threads, Pop(t) PROVE IInv'
  <2>1. At("pop_front") \in Calls /\ At("pop_front").op = "pop_front"
    BY AtCall DEF Ops
  <2>. QED  BY <1>1, <2>1, QuietStep DEF Pop
<1>2. ASSUME NEW t \in Threads, NEW d \in Items, NEW op, Push(t, op, d) PROVE IInv'
  <2> DEFINE c == [op |-> op, item |-> d]
  <2>1. op \in Pushes /\ c \in Calls /\ c.op = op
    BY <1>2 DEF Push, Calls
  <2>2. Becomes(t, "idle", c) /\ UNCHANGED <<content, size>>
    BY <1>2 DEF Push
  <2>3. op \notin {"idle", "entitled", "linked", "refused"}
    BY <2>1 DEF Pushes
  <2> HIDE DEF c
  <2>. QED  BY <2>1, <2>2, <2>3, QuietStep
<1>3. ASSUME NEW t \in Threads, Return(t) PROVE IInv'
  <2>1. Idle \in Calls /\ Idle.op = "idle"
    BY AtCall DEF Idle, Ops
  <2>. QED  BY <1>3, <2>1, QuietStep DEF Return
<1>4. ASSUME NEW t \in Threads, LinkBack(t) \/ LinkFront(t) PROVE IInv'
  <2>1. PICK op \in Pushes : Becomes(t, op, At("linked"))
    BY <1>4 DEF LinkBack, LinkFront, Pushes
  <2>2. At("linked") \in Calls /\ At("linked").op = "linked"
    BY AtCall DEF Ops
  <2>3. call' \in [Threads -> Calls] /\ E' = E /\ L' = L + 1 /\ R' = R
    BY <2>1, <2>2, <1>0, Moves DEF Pushes
  <2>4. call[t] \in Calls /\ call[t].op = op
    BY <2>1, <1>0 DEF Becomes
  <2>5. call[t].item \in Items
    BY <2>4 DEF Calls, Pushes, Ops
  <2>6. content' \in Seq(Items) /\ Len(content') = Len(content) + 1 /\ size' = size
    <3>1. CASE LinkBack(t)
      BY <3>1, <1>0, <2>5 DEF LinkBack
    <3>2. CASE LinkFront(t)
      <4> DEFINE s == <<call[t].item>>
      <4>1. s \in Seq(Items) /\ Len(s) = 1
        BY <2>5
      <4>2. content' = s \o content /\ size' = size
        BY <3>2 DEF LinkFront
      <4> HIDE DEF s
      <4>3. s \o content \in Seq(Items) /\ Len(s \o content) = Len(s) + Len(content)
        BY <4>1, <1>0, ConcatProperties
      <4>. QED  BY <4>1, <4>2, <4>3, <1>0
    <3>. QED  BY <3>1, <3>2, <1>4
  <2>. QED  BY <2>3, <2>6, <1>0, <1>n, <1>i, <1>g
<1>5. ASSUME NEW t \in Threads, Count(t) PROVE IInv'
  <2>1. Idle \in Calls /\ Idle.op = "idle" /\ Becomes(t, "linked", Idle)
    BY <1>5, AtCall DEF Idle, Ops, Count
  <2>2. call' \in [Threads -> Calls] /\ E' = E /\ L' = L - 1 /\ R' = R
    BY <2>1, <1>0, Moves
  <2>. QED  BY <1>5, <2>2, <1>0, <1>n, <1>i, <1>g DEF Count
<1>6. ASSUME NEW t \in Threads, Take(t) PROVE IInv'
  <2> DEFINE to == IF size <= 0 THEN "refused" ELSE "entitled"
  <2>1. At(to) \in Calls /\ At(to).op = to
    BY AtCall DEF Ops
  <2>2. Becomes(t, "pop_front", At(to)) /\ size' = size - 1 /\ content' = content
    BY <1>6 DEF Take
  <2>3. CASE size <= 0
    <3>1. call' \in [Threads -> Calls] /\ E' = E /\ L' = L /\ R' = R + 1
      BY <2>1, <2>2, <2>3, <1>0, Moves
    <3>. QED  BY <2>2, <3>1, <1>0, <1>n, <1>i, <1>g
  <2>4. CASE size > 0
    \* The permit is there, so an item is not yet promised to anybody.
    <3>1. call' \in [Threads -> Calls] /\ E' = E + 1 /\ L' = L /\ R' = R
      BY <2>1, <2>2, <2>4, <1>0, Moves
    <3>. QED  BY <2>2, <2>4, <3>1, <1>0, <1>n, <1>i, <1>g
  <2>. QED  BY <2>3, <2>4, <1>0
<1>7. ASSUME NEW t \in Threads, Undo(t) PROVE IInv'
  <2>1. Idle \in Calls /\ Idle.op = "idle" /\ Becomes(t, "refused", Idle)
    BY <1>7, AtCall DEF Idle, Ops, Undo
  <2>2. call' \in [Threads -> Calls] /\ E' = E /\ L' = L /\ R' = R - 1
    BY <2>1, <1>0, Moves
  <2>. QED  BY <1>7, <2>2, <1>0, <1>n, <1>i, <1>g DEF Undo
<1>8. ASSUME NEW t \in Threads, Remove(t) PROVE IInv'
  <2> DEFINE c == [op |-> "done", item |-> Head(content)]
  <2>1. Becomes(t, "entitled", c) /\ size' = size /\ content' = Tail(content)
    BY <1>8 DEF Remove
  <2>3. /\ Head(content) \in Items /\ content' \in Seq(Items)
        /\ Len(content') = Len(content) - 1
    BY <2>1, EntitledFinds DEF Becomes
  <2>4. c \in Calls /\ c.op = "done"
    BY <2>3 DEF Calls, Ops
  <2> HIDE DEF c
  <2>5. call' \in [Threads -> Calls] /\ E' = E - 1 /\ L' = L /\ R' = R
    BY <2>1, <2>4, <1>0, Moves
  <2>. QED  BY <2>1, <2>3, <2>5, <1>0, <1>n, <1>i, <1>g
<1>9. CASE UNCHANGED vars
  BY <1>9 DEF vars, IInv, TypeOK, SizeAccounts, PermitsCovered, InOp
<1>. QED
  BY <1>1, <1>2, <1>3, <1>4, <1>5, <1>6, <1>7, <1>8, <1>9 DEF Next, Step

-----------------------------------------------------------------------------

\* The types and both accounts hold in every behaviour.
LEMMA Invariance ==
    ASSUME IsFiniteSet(Threads)
    PROVE  Spec => []IInv
<1>1. Init => IInv  BY InitIInv
<1>2. IInv /\ [Next]_vars => IInv'  BY StepIInv
<1>. QED  BY <1>1, <1>2, PTL DEF Spec

\* For any finite set of threads _size of jque is exact but for the calls in
\* flight, and no pop of jque ever gets to the empty last node.
THEOREM Accounting ==
    ASSUME IsFiniteSet(Threads)
    PROVE  Spec => [](TypeOK /\ SizeAccounts /\ PermitsCovered)
BY Invariance, PTL DEF IInv

-----------------------------------------------------------------------------

\* Where a call is seen to be, and that a step which moves it there is seen as one.
LEMMA SeenMoves ==
    ASSUME TypeOK, NEW t \in Threads, NEW op, NEW c \in Calls, Becomes(t, op, c)
    PROVE  Lax!Becomes(t, SeenOp(op), [op |-> SeenOp(c.op), item |-> c.item])
BY DEF TypeOK, Becomes, Lax!Becomes

\* Every step is one of the deque whose pops may fail, or invisible to it: a pop is
\* seen to fail when it is refused, and to succeed when it removes its item.
LEMMA StepRefines ==
    ASSUME IsFiniteSet(Threads)
    PROVE  IInv /\ [Next]_vars => [Lax!Next]_(Lax!vars)
<1> SUFFICES ASSUME IInv, [Next]_vars PROVE [Lax!Next]_(Lax!vars)
  OBVIOUS
<1>0. TypeOK /\ call \in [Threads -> Calls]
  BY DEF IInv, TypeOK
<1> USE DEF SeenOp, Lax!Done, Lax!Idle, At
<1>1. ASSUME NEW t \in Threads, Pop(t) PROVE Lax!Invoke(t)
  <2>1. Becomes(t, "idle", At("pop_front")) /\ At("pop_front") \in Calls /\ content' = content
    BY <1>1, AtCall DEF Pop, Ops
  <2>2. Lax!Becomes(t, "idle", [op |-> "pop_front", item |-> NoItem])
    BY <2>1, <1>0, SeenMoves
  <2>. QED  BY <2>1, <2>2 DEF Lax!Invoke
<1>2. ASSUME NEW t \in Threads, NEW d \in Items, NEW op, Push(t, op, d) PROVE Lax!Invoke(t)
  <2>1. /\ Becomes(t, "idle", [op |-> op, item |-> d]) /\ op \in Pushes /\ content' = content
        /\ [op |-> op, item |-> d] \in Calls
    BY <1>2 DEF Push, Calls
  <2>2. SeenOp(op) = op
    BY <2>1 DEF Pushes
  <2>3. Lax!Becomes(t, "idle", [op |-> op, item |-> d])
    BY <2>1, <2>2, <1>0, SeenMoves
  <2>. QED  BY <2>1, <2>3 DEF Lax!Invoke, Pushes
<1>3. ASSUME NEW t \in Threads, NEW op \in {"done", "linked", "refused"},
             Becomes(t, op, Idle), content' = content
      PROVE  Lax!Return(t)
  <2>1. Idle \in Calls
    BY AtCall DEF Idle, Ops
  <2>2. Lax!Becomes(t, "done", [op |-> "idle", item |-> NoItem])
    BY <2>1, <1>3, <1>0, SeenMoves DEF Idle
  <2>. QED  BY <2>2, <1>3 DEF Lax!Return
<1>4. ASSUME NEW t \in Threads, LinkBack(t) PROVE Lax!PushBack(t)
  <2>1. Becomes(t, "push_back", At("linked")) /\ At("linked") \in Calls
    BY <1>4, AtCall DEF LinkBack, Ops
  <2>2. Lax!Becomes(t, "push_back", [op |-> "done", item |-> NoItem])
    BY <2>1, <1>0, SeenMoves
  <2>. QED  BY <2>2, <1>4 DEF Lax!PushBack, LinkBack
<1>5. ASSUME NEW t \in Threads, LinkFront(t) PROVE Lax!PushFront(t)
  <2>1. Becomes(t, "push_front", At("linked")) /\ At("linked") \in Calls
    BY <1>5, AtCall DEF LinkFront, Ops
  <2>2. Lax!Becomes(t, "push_front", [op |-> "done", item |-> NoItem])
    BY <2>1, <1>0, SeenMoves
  <2>. QED  BY <2>2, <1>5 DEF Lax!PushFront, LinkFront
<1>6. ASSUME NEW t \in Threads, Take(t), size <= 0 PROVE Lax!PopNothing(t)
  <2>1. Becomes(t, "pop_front", At("refused")) /\ At("refused") \in Calls /\ content' = content
    BY <1>6, AtCall DEF Take, Ops
  <2>2. Lax!Becomes(t, "pop_front", [op |-> "done", item |-> NoItem])
    BY <2>1, <1>0, SeenMoves
  <2>. QED  BY <2>1, <2>2 DEF Lax!PopNothing
<1>7. ASSUME NEW t \in Threads, Take(t), ~ size <= 0 PROVE UNCHANGED Lax!vars
  \* The permit is not seen: the pop goes on waiting for its moment.
  <2>1. /\ call[t].op = "pop_front" /\ call' = [call EXCEPT ![t] = At("entitled")]
        /\ content' = content
    BY <1>7 DEF Take, Becomes
  <2>2. call[t] \in Calls
    BY <1>0
  <2>3. call[t].item = NoItem
    BY <2>1, <2>2 DEF Calls, Pushes, Ops
  <2>. QED  BY <2>1, <2>3, <1>0 DEF Lax!vars
<1>8. ASSUME NEW t \in Threads, Remove(t) PROVE Lax!PopFront(t)
  <2> DEFINE c == [op |-> "done", item |-> Head(content)]
  <2>1. Becomes(t, "entitled", c) /\ content' = Tail(content)
    BY <1>8 DEF Remove
  <2>2. content # <<>> /\ c \in Calls
    BY <2>1, EntitledFinds DEF Becomes, Calls
  <2>3. Lax!Becomes(t, "pop_front", c)
    BY <2>1, <2>2, <1>0 DEF Becomes, Lax!Becomes
  <2>. QED  BY <2>1, <2>2, <2>3 DEF Lax!PopFront
<1>9. CASE UNCHANGED vars
  BY <1>9 DEF vars, Lax!vars
<1>. QED
  BY <1>1, <1>2, <1>3, <1>4, <1>5, <1>6, <1>7, <1>8, <1>9
     DEF Next, Step, Lax!Next, Count, Undo, Return


\* jque, as PermitDeque shows it to its users, is a deque whose pops may fail:
\* each call takes effect at one moment, on the item it is about.
THEOREM Refinement ==
    ASSUME IsFiniteSet(Threads)
    PROVE  Spec => ImplementsLaxDeque
<1>1. Init => Lax!Init
  BY DEF Init, Lax!Init, Idle, At, Lax!Idle, SeenOp
<1>2. IInv /\ [Next]_vars => [Lax!Next]_(Lax!vars)
  BY StepRefines
<1>. QED  BY <1>1, <1>2, Invariance, PTL DEF Spec, Lax!Spec, ImplementsLaxDeque

\* A pop misses an item only in the company of another call.
THEOREM Company ==
    ASSUME IsFiniteSet(Threads)
    PROVE  Spec => NullNeedsCompany
<1> DEFINE Alone == \A t \in Threads :
               call[t].op = "pop_front" /\ call'[t].op = "refused" /\ content # <<>>
                   => \E u \in Threads \ {t} : call[u].op # "idle"
<1>1. IInv /\ [Next]_vars => Alone
  <2> SUFFICES ASSUME IInv, [Next]_vars, NEW t \in Threads,
                      call[t].op = "pop_front", call'[t].op = "refused", content # <<>>,
                      \A u \in Threads \ {t} : call[u].op = "idle"
               PROVE  FALSE
    OBVIOUS
  <2>1. InOp("entitled") = {} /\ InOp("linked") = {} /\ InOp("refused") = {}
    BY DEF InOp
  <2>2. size = Len(content) /\ Len(content) \in Nat /\ Len(content) # 0
    <3>1. /\ Cardinality(InOp("entitled")) = 0 /\ Cardinality(InOp("linked")) = 0
          /\ Cardinality(InOp("refused")) = 0
      BY <2>1, FS_EmptySet
    <3>2. content \in Seq(Items) /\ size = Len(content) - 0 - 0 - 0
      BY <3>1 DEF IInv, TypeOK, SizeAccounts
    <3>3. Len(content) \in Nat /\ Len(content) # 0
      BY <3>2, EmptySeq, LenProperties
    <3>. QED  BY <3>2, <3>3
  <2>3. call \in [Threads -> Calls]
    BY DEF IInv, TypeOK
  <2>4. ASSUME NEW u \in Threads, NEW op, NEW c, Becomes(u, op, c)
        PROVE  op = "pop_front" /\ c.op = "refused" /\ u = t
    BY <2>3, <2>4 DEF Becomes
  <2>5. PICK u \in Threads : \/ Step(u) \/ Pop(u)
                             \/ \E d \in Items, op \in Pushes : Push(u, op, d)
    BY DEF Next, vars
  <2>6. Take(u)
    <3>1. \A op, c : op # "pop_front" => ~ Becomes(u, op, c)
      BY <2>4
    <3>2. ~ Pop(u) /\ \A d \in Items, op \in Pushes : ~ Push(u, op, d)
      BY <3>1 DEF Pop, Push
    <3>3. /\ ~ LinkBack(u) /\ ~ LinkFront(u) /\ ~ Count(u) /\ ~ Undo(u)
          /\ ~ Remove(u) /\ ~ Return(u)
      BY <3>1 DEF LinkBack, LinkFront, Count, Undo, Remove, Return
    <3>. QED  BY <2>5, <3>2, <3>3 DEF Step
  <2>7. Becomes(u, "pop_front", At(IF size <= 0 THEN "refused" ELSE "entitled"))
    BY <2>6 DEF Take
  <2>8. size <= 0
    BY <2>4, <2>7 DEF At
  <2>. QED  BY <2>2, <2>8
<1>. QED  BY <1>1, Invariance, PTL DEF Spec, NullNeedsCompany

=============================================================================
