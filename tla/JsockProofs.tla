---------------------------- MODULE JsockProofs ----------------------------
(***************************************************************************)
(* The three parts of jsock.cpp that several threads, or a thread and its  *)
(* messages, work on.                                                      *)
(*                                                                         *)
(* CnctManager, for any finite set of users, any connections and any times *)
(* of the calls: a managed connection has one entry, wherever users and    *)
(* tick() are, and one that was called back or dropped has none; and no    *)
(* connection is called back early.  The first needs the places of the     *)
(* threads and of the entries (IInv), the second also what the entries,    *)
(* the records and the variables of adjust() and tick() say of the         *)
(* deadlines (TInv).                                                       *)
(*                                                                         *)
(* JEpoll, for any finite set of connections that send any number of       *)
(* messages, when users delete between two calls of ep_wait(): the tables  *)
(* agree with the kernel, each number's messages tell whole stories, and   *)
(* collect() closes only what the other end has closed.  All three need    *)
(* who works when, where the tables lag behind by the descriptor in hand,  *)
(* that the rest of a batch stays good, and what the messages say of a     *)
(* number (EpIInv).                                                        *)
(*                                                                         *)
(* JPoll, for any finite set of threads and any descriptors: size() is the *)
(* length of the array less what is under way.  That needs who has the     *)
(* lock, and that no descriptor is in the array twice (PollIInv).          *)
(***************************************************************************)
EXTENDS CnctManager, JEpoll, JPoll, FiniteSetTheorems, SequenceTheorems, WellFoundedInduction, TLAPS


QP == INSTANCE PermitDequeProofs WITH Items <- Entries, NoItem <- Nothing

TypeOK ==
    /\ now \in Times /\ cur \in Times
    /\ reg \in [DOMAIN reg -> Times \cup {Invalid}]
    /\ conn \in [Users -> Conns \cup {Nothing}]
    /\ expire \in [Users -> Times]
    /\ due \in [Conns -> Times] /\ known.due \in Times
    /\ fate \in [Conns -> {"new", "managed", "called", "dropped"}]
    /\ pc \in [Threads -> {"idle", "push", "return", "update", "insert", "pop", "find", "read",
                           "call", "callDel", "drop", "keep", "alarm"}]

\* Where a thread is in its call of the queue fits where it is in the manager's code.
Popping == {"pop_front", "entitled", "refused", "done"}

CallsFit ==
    /\ \A u \in Users :
          /\ call[u].op \in IF pc[u] = "push" THEN {"push_back", "linked"} ELSE {"idle"}
          /\ pc[u] # "idle" => conn[u] \in Conns
    /\ call[Ticker].op \in CASE pc[Ticker] = "pop" -> Popping
                             [] pc[Ticker] = "keep" -> {"push_back", "push_front", "linked"}
                             [] OTHER -> {"idle"}

\* What tick() has in its hands.
HandsFit ==
    /\ IF pc[Ticker] \in {"find", "read", "call", "callDel", "drop"} THEN lp \in Entries
       ELSE pc[Ticker] # "keep" => lp = Nothing
    /\ pc[Ticker] \in {"find", "read", "call", "callDel"} => fate[lp.cnct] = "managed"
    /\ pc[Ticker] = "drop" => fate[lp.cnct] \in {"managed", "called"}
    /\ pc[Ticker] = "read" => Present(lp.cnct) /\ reg[lp.cnct] \in Times
    /\ pc[Ticker] = "keep" /\ call[Ticker].op = "linked" => lp = Nothing

\* The places of OneEntry, apart.
QueuedAt(c) == {j \in DOMAIN content : content[j].cnct = c}
CarriedBy(c) == {u \in Threads : call[u].item # Nothing /\ call[u].item.cnct = c}
InHand(c) == pc[Ticker] # "keep" /\ lp # Nothing /\ lp.cnct = c /\ fate[c] = "managed"

Nowhere(c) == QueuedAt(c) = {} /\ CarriedBy(c) = {} /\ ~InHand(c)

InOnePlace(c) ==
    \/ \E i : QueuedAt(c) = {i} /\ CarriedBy(c) = {} /\ ~InHand(c)
    \/ \E t : QueuedAt(c) = {} /\ CarriedBy(c) = {t} /\ ~InHand(c)
    \/ QueuedAt(c) = {} /\ CarriedBy(c) = {} /\ InHand(c)

Story(c) == IF fate[c] = "managed" THEN InOnePlace(c) ELSE Nowhere(c)

IInv == QP!IInv /\ TypeOK /\ CallsFit /\ HandsFit /\ \A c \in Conns : Story(c)

-----------------------------------------------------------------------------
(* The queue *)

\* The users of the queue are finitely many, for this module and for that of its proofs.
LEMMA ThreadsFinite ==
    ASSUME IsFiniteSet(Users)
    PROVE  IsFiniteSet(Threads) /\ QP!IsFiniteSet(Threads)
<1>1. IsFiniteSet(Threads)
  <2>1. Threads = Users \cup {Ticker}
    BY DEF Threads
  <2>. QED  BY <2>1, FS_AddElement
<1>. QED  BY <1>1 DEF IsFiniteSet, QP!IsFiniteSet

\* A deadline is a time of the model.
LEMMA DeadlineInTime ==
    now \in Times /\ now <= LastCall => Deadline \in Times
BY SecsAssumption DEF Deadline, Times, LastMoment

\* Whatever the manager does, the queue goes on as PermitDeque says.
LEMMA QueueSteps ==
    ASSUME IsFiniteSet(Users), QP!IInv, TypeOK, HandsFit, [Next]_vars
    PROVE  QP!IInv'
<1>0. /\ Ticker \in Threads /\ Users \subseteq Threads
      /\ lp \in Entries => \A e \in Times : [lp EXCEPT !.expire = e] \in Entries
  BY DEF Threads, Entries
<1>1. CASE UNCHANGED jq
  BY <1>1, QP!StepIInv, ThreadsFinite DEF jq, QP!vars
<1>2. ASSUME NEW t \in Threads, NEW d \in Entries,
             Q!Push(t, "push_back", d) \/ Q!Push(t, "push_front", d)
      PROVE  QP!Next
  BY <1>2 DEF Q!Push, Q!Becomes, Q!Pushes, QP!Next, QP!Push, QP!Becomes, QP!Pushes
<1>3. ASSUME NEW t \in Threads,
             \/ Q!LinkBack(t) \/ Q!LinkFront(t) \/ Q!Count(t) \/ Q!Take(t) \/ Q!Remove(t)
             \/ Q!Undo(t) \/ Q!Return(t) \/ Q!Pop(t)
      PROVE  QP!Next
  <2>1. CASE Q!Pop(t)
    BY <2>1 DEF Q!Pop, Q!Becomes, Q!At, QP!Next, QP!Pop, QP!Becomes, QP!At
  <2>2. CASE \/ Q!LinkBack(t) \/ Q!LinkFront(t) \/ Q!Count(t) \/ Q!Take(t) \/ Q!Remove(t)
             \/ Q!Undo(t) \/ Q!Return(t)
    BY <2>2 DEF Q!LinkBack, Q!LinkFront, Q!Count, Q!Take, Q!Remove, Q!Undo, Q!Return, Q!Becomes,
       Q!At, Q!Idle, QP!Next, QP!Step, QP!LinkBack, QP!LinkFront, QP!Count, QP!Take, QP!Remove,
       QP!Undo, QP!Return, QP!Becomes, QP!At, QP!Idle
  <2>. QED  BY <1>3, <2>1, <2>2
<1>4. UNCHANGED jq \/ QP!Next
  <2>1. CASE Clock \/ FindSome \/ CallBackReg \/ Alarm
    BY <2>1 DEF Clock, FindSome, CallBackReg, Alarm
  <2>2. CASE \/ Fire \/ PopGoesOn \/ Popped \/ NothingLeft \/ CallBack \/ Drop \/ KeepLink \/ Keep
    BY <2>2, <1>0, <1>3 DEF Fire, PopGoesOn, Popped, NothingLeft, CallBack, Drop, KeepLink, Keep
  <2>3. CASE FindNone
    BY <2>3, <1>0, <1>2 DEF FindNone, HandsFit
  <2>4. CASE Read
    <3>1. lp \in Entries /\ reg[lp.cnct] \in Times
      BY <2>4 DEF Read, HandsFit
    <3>. QED  BY <2>4, <3>1, <1>0, <1>2 DEF Read
  <2>5. ASSUME NEW u \in Users, UserGoesOn(u) PROVE UNCHANGED jq \/ QP!Next
    BY <2>5, <1>0, <1>3 DEF UserGoesOn, PushLink, PushEnd, AdjustEnd
  <2>6. ASSUME NEW u \in Users, NEW c \in Conns, InvalidCall(u, c) \/ AdjustFind(u, c)
        PROVE  UNCHANGED jq
    BY <2>6 DEF InvalidCall, AdjustFind
  <2>7. ASSUME NEW u \in Users, NEW c \in Conns, PushStart(u, c) PROVE QP!Next
    <3>1. [cnct |-> c, expire |-> Deadline] \in Entries
      BY <2>7, DeadlineInTime DEF PushStart, Begin, TypeOK, Entries
    <3>. QED  BY <2>7, <3>1, <1>0, <1>2 DEF PushStart
  <2>8. CASE UNCHANGED vars
    BY <2>8 DEF vars
  <2>. QED
    BY <2>1, <2>2, <2>3, <2>4, <2>5, <2>6, <2>7, <2>8 DEF Next, Tick
<1>5. QP!Next => QP!IInv'
  BY QP!StepIInv, ThreadsFinite
<1>. QED  BY <1>1, <1>4, <1>5

\* What the queue's invariant says of it, in the manager's terms.
LEMMA QueueFacts ==
    ASSUME QP!IInv
    PROVE  /\ content \in Seq(Entries) /\ call \in [Threads -> QP!Calls]
           /\ \A t \in Threads :
                 /\ call[t].op \in {"push_back", "push_front", "done"} => call[t].item \in Entries
                 /\ call[t].op \notin {"push_back", "push_front", "done"} => call[t].item = Nothing
BY DEF QP!IInv, QP!TypeOK, QP!Calls, QP!Pushes, QP!Ops

-----------------------------------------------------------------------------
(* How an entry moves *)

\* A connection whose entry stays where it is.
LEMMA Stays ==
    ASSUME NEW c \in Conns, Story(c), fate'[c] = fate[c],
           QueuedAt(c)' = QueuedAt(c), CarriedBy(c)' = CarriedBy(c), InHand(c)' = InHand(c)
    PROVE  Story(c)'
BY DEF Story, Nowhere, InOnePlace

\* An entry is never taken for Nothing.
LEMMA EntryFacts ==
    /\ \A e \in Entries : e # Nothing /\ e.cnct \in Conns
    /\ \A t : Q!At(t).item = Nothing
BY NothingAssumption DEF Entries, Q!At

\* An entry with another deadline is an entry of the same connection.
LEMMA NewDeadline ==
    ASSUME NEW e \in Entries, NEW d \in Times
    PROVE  [e EXCEPT !.expire = d] \in Entries /\ [e EXCEPT !.expire = d].cnct = e.cnct
BY DEF Entries

\* A thread's call gets another record, with another entry or none.
LEMMA CallMoves ==
    ASSUME QP!IInv, NEW t \in Threads, NEW x, call' = [call EXCEPT ![t] = x], NEW c
    PROVE  CarriedBy(c)' = IF x.item # Nothing /\ x.item.cnct = c THEN CarriedBy(c) \cup {t}
                           ELSE CarriedBy(c) \ {t}
<1>1. call \in [Threads -> QP!Calls]
  BY QueueFacts
<1>. QED  BY <1>1 DEF CarriedBy

\* A step of a call that has no entry before or after it moves none.
LEMMA EmptyHanded ==
    ASSUME QP!IInv, NEW t \in Threads, call[t].item = Nothing,
           NEW op, call' = [call EXCEPT ![t] = Q!At(op)], NEW c
    PROVE  CarriedBy(c)' = CarriedBy(c)
<1>1. CarriedBy(c)' = CarriedBy(c) \ {t}
  BY CallMoves, EntryFacts
<1>. QED  BY <1>1 DEF CarriedBy

\* A push at the back adds one place; the others stay.
LEMMA AppendMoves ==
    ASSUME content \in Seq(Entries), NEW x \in Entries, content' = Append(content, x), NEW c
    PROVE  QueuedAt(c)' = IF x.cnct = c THEN QueuedAt(c) \cup {Len(content) + 1} ELSE QueuedAt(c)
<1>1. /\ DOMAIN content = 1 .. Len(content) /\ Len(content) \in Nat
      /\ DOMAIN content' = 1 .. Len(content) + 1
      /\ \A i \in 1 .. Len(content) : content'[i] = content[i]
      /\ content'[Len(content) + 1] = x
  BY AppendProperties, LenProperties
<1>. QED  BY <1>1 DEF QueuedAt

\* A push at the front takes the first place; the others move down.
LEMMA ConsMoves ==
    ASSUME content \in Seq(Entries), NEW x \in Entries, content' = <<x>> \o content, NEW c
    PROVE  /\ 1 \in QueuedAt(c)' <=> x.cnct = c
           /\ \A i \in QueuedAt(c) : i \in Nat /\ i # 0
           /\ QueuedAt(c)' \ {1} = {i + 1 : i \in QueuedAt(c)}
<1>1. /\ <<x>> \in Seq(Entries) /\ Len(<<x>>) = 1 /\ <<x>>[1] = x
      /\ content' \in Seq(Entries) /\ Len(content') = 1 + Len(content)
      /\ \A i \in 1 .. 1 + Len(content) :
            content'[i] = IF i <= 1 THEN <<x>>[i] ELSE content[i - 1]
  <2>1. <<x>> \in Seq(Entries) /\ Len(<<x>>) = 1 /\ <<x>>[1] = x
    OBVIOUS
  <2>. QED  BY <2>1, ConcatProperties
<1>2. /\ DOMAIN content = 1 .. Len(content) /\ Len(content) \in Nat
      /\ DOMAIN content' = 1 .. 1 + Len(content)
  BY <1>1, LenProperties
<1>3. content'[1] = x /\ \A i \in 1 .. Len(content) : content'[i + 1] = content[i]
  BY <1>1, <1>2
<1>4. 1 \in QueuedAt(c)' <=> x.cnct = c
  BY <1>2, <1>3 DEF QueuedAt
<1>5. \A i \in QueuedAt(c) : i \in Nat /\ i # 0
  BY <1>2 DEF QueuedAt
<1>6. \A i \in QueuedAt(c) : i + 1 \in QueuedAt(c)' \ {1}
  BY <1>2, <1>3 DEF QueuedAt
<1>7. \A j \in QueuedAt(c)' \ {1} : j - 1 \in QueuedAt(c) /\ j = (j - 1) + 1
  <2> TAKE j \in QueuedAt(c)' \ {1}
  <2>1. j - 1 \in 1 .. Len(content) /\ j = (j - 1) + 1 /\ content'[j].cnct = c
    BY <1>2 DEF QueuedAt
  <2>2. content'[j] = content[j - 1]
    BY <2>1, <1>3
  <2>. QED  BY <2>1, <2>2, <1>2 DEF QueuedAt
<1>. QED  BY <1>4, <1>5, <1>6, <1>7

\* A pop at the front takes the first place away; the others move up.
LEMMA TailMoves ==
    ASSUME content \in Seq(Entries), content # <<>>, content' = Tail(content), NEW c
    PROVE  /\ 1 \in QueuedAt(c) <=> Head(content).cnct = c
           /\ \A i : i \in QueuedAt(c)' <=> (i + 1 \in QueuedAt(c) /\ i \in Nat /\ i # 0)
           /\ \A j \in QueuedAt(c) : j \in Nat /\ j # 0
<1>1. /\ Len(content) \in Nat /\ Len(content) # 0
      /\ DOMAIN content = 1 .. Len(content)
      /\ DOMAIN content' = 1 .. Len(content) - 1
      /\ \A i \in 1 .. Len(content) - 1 : content'[i] = content[i + 1]
      /\ Head(content) = content[1]
  BY HeadTailProperties, LenProperties, EmptySeq
<1>2. \A j \in QueuedAt(c) : j \in Nat /\ j # 0
  BY <1>1 DEF QueuedAt
<1>3. 1 \in QueuedAt(c) <=> Head(content).cnct = c
  BY <1>1 DEF QueuedAt
<1>4. ASSUME NEW i PROVE i \in QueuedAt(c)' <=> (i + 1 \in QueuedAt(c) /\ i \in Nat /\ i # 0)
  <2>1. i \in QueuedAt(c)' => i \in Nat /\ i # 0
    BY <1>1 DEF QueuedAt
  <2>2. CASE i \in Nat /\ i # 0
    BY <1>1, <2>2 DEF QueuedAt
  <2>. QED  BY <2>1, <2>2
<1>. QED  BY <1>2, <1>3, <1>4

\* The step that links an entry or removes one moves it between a call and the queue;
\* the other entries change their places in the queue only.
LEMMA QueueMoves ==
    ASSUME IsFiniteSet(Users), IInv, NEW t \in Threads, NEW c \in Conns,
           Q!LinkBack(t) \/ Q!LinkFront(t) \/ Q!Remove(t),
           fate'[c] = fate[c], InHand(c)' = InHand(c)
    PROVE  Story(c)'
<1>0. /\ QP!IInv /\ Story(c) /\ content \in Seq(Entries) /\ call \in [Threads -> QP!Calls]
  BY QueueFacts DEF IInv
<1>1. ASSUME Q!LinkBack(t) \/ Q!LinkFront(t) PROVE Story(c)'
  <2> DEFINE x == call[t].item
  <2>1. /\ call[t].op \in {"push_back", "push_front"} /\ call' = [call EXCEPT ![t] = Q!At("linked")]
        /\ content' = Append(content, x) \/ content' = <<x>> \o content
    BY <1>1 DEF Q!LinkBack, Q!LinkFront, Q!Becomes
  <2>2. x \in Entries /\ x # Nothing
    BY <2>1, <1>0, QueueFacts, EntryFacts
  <2>3. CarriedBy(c)' = CarriedBy(c) \ {t}
    BY <2>1, <1>0, CallMoves, EntryFacts
  <2>4. CASE x.cnct = c
    <3>1. t \in CarriedBy(c)
      BY <2>2, <2>4 DEF CarriedBy
    <3>2. fate[c] = "managed" /\ QueuedAt(c) = {} /\ CarriedBy(c) = {t} /\ ~InHand(c)
      BY <3>1, <1>0 DEF Story, Nowhere, InOnePlace
    <3>3. \E i : QueuedAt(c)' = {i}
      <4>1. CASE content' = Append(content, x)
        BY <4>1, <3>2, <2>2, <2>4, <1>0, AppendMoves
      <4>2. CASE content' = <<x>> \o content
        <5>1. 1 \in QueuedAt(c)' /\ QueuedAt(c)' \ {1} = {i + 1 : i \in QueuedAt(c)}
          BY <4>2, <2>2, <2>4, <1>0, ConsMoves
        <5>. QED  BY <5>1, <3>2
      <4>. QED  BY <2>1, <4>1, <4>2
    <3>4. InOnePlace(c)'
      BY <3>2, <3>3, <2>3 DEF InOnePlace
    <3>. QED  BY <3>2, <3>4 DEF Story
  <2>5. CASE x.cnct # c
    <3>1. CarriedBy(c)' = CarriedBy(c)
      BY <2>3, <2>5 DEF CarriedBy
    <3>2. CASE content' = Append(content, x)
      <4>1. QueuedAt(c)' = QueuedAt(c)
        BY <3>2, <2>2, <2>5, <1>0, AppendMoves
      <4>. QED  BY <4>1, <3>1, <1>0, Stays
    <3>3. CASE content' = <<x>> \o content
      <4>1. /\ 1 \notin QueuedAt(c)' /\ QueuedAt(c)' \ {1} = {i + 1 : i \in QueuedAt(c)}
        BY <3>3, <2>2, <2>5, <1>0, ConsMoves
      <4>2. CASE QueuedAt(c) = {}
        <5>1. QueuedAt(c)' = QueuedAt(c)
          BY <4>1, <4>2
        <5>. QED  BY <5>1, <3>1, <1>0, Stays
      <4>3. ASSUME NEW i, QueuedAt(c) = {i} PROVE Story(c)'
        <5>1. QueuedAt(c)' = {i + 1}
          BY <4>1, <4>3
        <5>2. fate[c] = "managed" /\ CarriedBy(c) = {} /\ ~InHand(c)
          BY <4>3, <1>0 DEF Story, Nowhere, InOnePlace
        <5>3. InOnePlace(c)'
          BY <5>1, <5>2, <3>1 DEF InOnePlace
        <5>. QED  BY <5>2, <5>3 DEF Story
      <4>. QED  BY <4>2, <4>3, <1>0 DEF Story, Nowhere, InOnePlace
    <3>. QED  BY <2>1, <3>2, <3>3
  <2>. QED  BY <2>4, <2>5
<1>2. ASSUME Q!Remove(t) PROVE Story(c)'
  <2> DEFINE x == Head(content)
             d == [op |-> "done", item |-> x]
  <2>1. /\ call[t].op = "entitled" /\ call' = [call EXCEPT ![t] = d] /\ d.item = x
        /\ content' = Tail(content)
    BY <1>2 DEF Q!Remove, Q!Becomes
  <2>2. call[t].item = Nothing
    BY <2>1, <1>0, QueueFacts
  <2>3. content # <<>> /\ x \in Entries /\ x # Nothing
    BY <2>1, <1>0, QP!EntitledFinds, ThreadsFinite, EntryFacts
  <2>4. CarriedBy(c)' = IF x.cnct = c THEN CarriedBy(c) \cup {t} ELSE CarriedBy(c) \ {t}
    <3> HIDE DEF d, x
    <3>. QED  BY <2>1, <2>3, <1>0, CallMoves
  <2>5. /\ 1 \in QueuedAt(c) <=> x.cnct = c
        /\ \A i : i \in QueuedAt(c)' <=> (i + 1 \in QueuedAt(c) /\ i \in Nat /\ i # 0)
        /\ \A j \in QueuedAt(c) : j \in Nat /\ j # 0
    BY <2>1, <2>3, <1>0, TailMoves
  <2>6. CASE x.cnct = c
    <3>1. 1 \in QueuedAt(c)
      BY <2>5, <2>6
    <3>2. fate[c] = "managed" /\ QueuedAt(c) = {1} /\ CarriedBy(c) = {} /\ ~InHand(c)
      BY <3>1, <1>0 DEF Story, Nowhere, InOnePlace
    <3>3. QueuedAt(c)' = {}
      BY <3>2, <2>5
    <3>4. InOnePlace(c)'
      BY <3>2, <3>3, <2>4, <2>6 DEF InOnePlace
    <3>. QED  BY <3>2, <3>4 DEF Story
  <2>7. CASE x.cnct # c
    <3>1. CarriedBy(c)' = CarriedBy(c)
      BY <2>2, <2>4, <2>7 DEF CarriedBy
    <3>2. CASE QueuedAt(c) = {}
      <4>1. QueuedAt(c)' = QueuedAt(c)
        BY <3>2, <2>5
      <4>. QED  BY <4>1, <3>1, <1>0, Stays
    <3>3. ASSUME NEW i, QueuedAt(c) = {i} PROVE Story(c)'
      <4>1. i \in Nat /\ i # 0 /\ i # 1
        BY <3>3, <2>5, <2>7
      <4>2. QueuedAt(c)' = {i - 1}
        BY <4>1, <3>3, <2>5
      <4>3. fate[c] = "managed" /\ CarriedBy(c) = {} /\ ~InHand(c)
        BY <3>3, <1>0 DEF Story, Nowhere, InOnePlace
      <4>4. InOnePlace(c)'
        BY <4>2, <4>3, <3>1 DEF InOnePlace
      <4>. QED  BY <4>3, <4>4 DEF Story
    <3>. QED  BY <3>2, <3>3, <1>0 DEF Story, Nowhere, InOnePlace
  <2>. QED  BY <2>6, <2>7
<1>. QED  BY <1>1, <1>2

\* tick() takes an entry from its pop, puts it back into a push, or is done with it.
LEMMA HandMoves ==
    ASSUME IInv, NEW c \in Conns, Popped \/ FindNone \/ Read \/ CallBack \/ Drop
    PROVE  Story(c)'
<1>q. content' = content
  BY DEF Popped, FindNone, Read, CallBack, Drop, jq, Q!Return, Q!Push, Q!Pop
<1>0. /\ QP!IInv /\ TypeOK /\ HandsFit /\ Story(c) /\ Ticker \in Threads
      /\ content \in Seq(Entries) /\ call \in [Threads -> QP!Calls]
      /\ QueuedAt(c)' = QueuedAt(c)
  BY <1>q, QueueFacts DEF IInv, Threads, QueuedAt
<1>t. \A to : pc' = [pc EXCEPT ![Ticker] = to] => pc'[Ticker] = to
  BY <1>0 DEF TypeOK
<1>1. CASE Popped
  <2> DEFINE x == call[Ticker].item
  <2>1. /\ call[Ticker].op = "done" /\ call' = [call EXCEPT ![Ticker] = Q!At("idle")]
        /\ pc[Ticker] = "pop" /\ pc' = [pc EXCEPT ![Ticker] = "find"] /\ lp' = x /\ fate' = fate
    BY <1>1 DEF Popped, Goto, Q!Return, Q!Becomes, Q!Idle
  <2>2. x \in Entries /\ x # Nothing
    BY <2>1, <1>0, QueueFacts, EntryFacts
  <2>3. CarriedBy(c)' = CarriedBy(c) \ {Ticker}
    BY <2>1, <1>0, CallMoves, EntryFacts
  <2>4. lp = Nothing
    BY <2>1, <1>0 DEF HandsFit
  <2>5. CASE x.cnct = c
    <3>1. Ticker \in CarriedBy(c)
      BY <2>2, <2>5, <1>0 DEF CarriedBy
    <3>2. fate[c] = "managed" /\ QueuedAt(c) = {} /\ CarriedBy(c) = {Ticker}
      BY <3>1, <1>0 DEF Story, Nowhere, InOnePlace
    <3>3. InHand(c)'
      BY <3>2, <2>1, <2>2, <2>5, <1>t DEF InHand
    <3>4. InOnePlace(c)'
      BY <3>2, <3>3, <2>3, <1>0 DEF InOnePlace
    <3>. QED  BY <3>2, <3>4, <2>1 DEF Story
  <2>6. CASE x.cnct # c
    <3>1. CarriedBy(c)' = CarriedBy(c)
      BY <2>3, <2>6 DEF CarriedBy
    <3>2. InHand(c)' = InHand(c)
      BY <2>1, <2>4, <2>6 DEF InHand
    <3>. QED  BY <3>1, <3>2, <2>1, <1>0, Stays
  <2>. QED  BY <2>5, <2>6
<1>2. ASSUME NEW x \in Entries, x.cnct = lp.cnct, lp \in Entries, NEW op,
             fate[lp.cnct] = "managed", fate' = fate,
             Q!Push(Ticker, op, x), pc[Ticker] # "keep", pc' = [pc EXCEPT ![Ticker] = "keep"]
      PROVE  Story(c)'
  <2> DEFINE d == [op |-> op, item |-> x]
  <2>1. call[Ticker].op = "idle" /\ call' = [call EXCEPT ![Ticker] = d] /\ d.item = x
    BY <1>2 DEF Q!Push, Q!Becomes
  <2>2. call[Ticker].item = Nothing /\ x # Nothing /\ lp # Nothing
    BY <2>1, <1>2, <1>0, QueueFacts, EntryFacts
  <2>3. CarriedBy(c)' = IF x.cnct = c THEN CarriedBy(c) \cup {Ticker} ELSE CarriedBy(c) \ {Ticker}
    <3> HIDE DEF d
    <3>. QED  BY <2>1, <2>2, <1>0, CallMoves
  <2>4. ~InHand(c)'
    BY <1>2, <1>t DEF InHand
  <2>5. CASE x.cnct = c
    <3>1. InHand(c)
      BY <2>2, <2>5, <1>2 DEF InHand
    <3>2. fate[c] = "managed" /\ QueuedAt(c) = {} /\ CarriedBy(c) = {}
      BY <3>1, <1>0 DEF InHand, Story, InOnePlace
    <3>3. InOnePlace(c)'
      BY <3>2, <2>3, <2>4, <2>5, <1>0 DEF InOnePlace
    <3>. QED  BY <3>2, <3>3, <1>2 DEF Story
  <2>6. CASE x.cnct # c
    <3>1. CarriedBy(c)' = CarriedBy(c)
      BY <2>2, <2>3, <2>6 DEF CarriedBy
    <3>2. InHand(c)' = InHand(c)
      BY <2>4, <2>6, <1>2 DEF InHand
    <3>. QED  BY <3>1, <3>2, <1>2, <1>0, Stays
  <2>. QED  BY <2>5, <2>6
<1>3. ASSUME lp' = Nothing, Q!Pop(Ticker), lp \in Entries, pc[Ticker] # "keep",
             NEW f \in {"called", "dropped"}, fate' = [fate EXCEPT ![lp.cnct] = f]
      PROVE  Story(c)'
  <2>1. call[Ticker].op = "idle" /\ call' = [call EXCEPT ![Ticker] = Q!At("pop_front")]
    BY <1>3 DEF Q!Pop, Q!Becomes
  <2>2. CarriedBy(c)' = CarriedBy(c)
    BY <2>1, <1>0, QueueFacts, EmptyHanded
  <2>3. ~InHand(c)'
    BY <1>3 DEF InHand
  <2>4. CASE c = lp.cnct
    <3>1. fate'[c] = f
      BY <1>3, <2>4, <1>0 DEF TypeOK
    <3>2. QueuedAt(c) = {} /\ CarriedBy(c) = {}
      BY <1>3, <2>4, <1>0, EntryFacts DEF Story, InHand, Nowhere, InOnePlace
    <3>. QED  BY <3>1, <3>2, <2>2, <2>3, <1>0 DEF Story, Nowhere
  <2>5. CASE c # lp.cnct
    <3>1. fate'[c] = fate[c]
      BY <1>3, <2>5, <1>0 DEF TypeOK
    <3>2. InHand(c)' = InHand(c)
      BY <2>3, <2>5 DEF InHand
    <3>. QED  BY <3>1, <3>2, <2>2, <1>0, Stays
  <2>. QED  BY <2>4, <2>5
<1>4. CASE FindNone
  <2>1. pc[Ticker] = "find" /\ lp \in Entries /\ fate[lp.cnct] = "managed" /\ fate' = fate
    BY <1>4, <1>0 DEF FindNone, HandsFit
  <2>2. CASE Late
    <3>1. pc' = [pc EXCEPT ![Ticker] = "call"] /\ UNCHANGED <<call, lp>>
      BY <1>4, <2>2 DEF FindNone, Goto, jq
    <3>2. InHand(c)' = InHand(c) /\ CarriedBy(c)' = CarriedBy(c)
      BY <2>1, <3>1, <1>t DEF InHand, CarriedBy
    <3>. QED  BY <2>1, <3>2, <1>0, Stays
  <2>3. CASE ~Late
    BY <1>4, <2>1, <2>3, <1>2 DEF FindNone, Goto
  <2>. QED  BY <2>2, <2>3
<1>5. CASE Read
  <2> DEFINE e == [lp EXCEPT !.expire = reg[lp.cnct]]
  <2>1. /\ pc[Ticker] = "read" /\ lp \in Entries /\ fate[lp.cnct] = "managed" /\ fate' = fate
        /\ reg[lp.cnct] \in Times /\ lp' = e
    BY <1>5, <1>0 DEF Read, HandsFit
  <2>2. e \in Entries /\ e.cnct = lp.cnct
    BY <2>1, NewDeadline
  <2>3. CASE e.expire < cur
    <3>1. pc' = [pc EXCEPT ![Ticker] = "callDel"] /\ call' = call
      BY <1>5, <2>3 DEF Read, Goto, jq
    <3>2. InHand(c)' = InHand(c) /\ CarriedBy(c)' = CarriedBy(c)
      BY <2>1, <2>2, <3>1, <1>t, EntryFacts DEF InHand, CarriedBy
    <3>. QED  BY <2>1, <3>2, <1>0, Stays
  <2>4. CASE ~(e.expire < cur)
    <3>1. pc' = [pc EXCEPT ![Ticker] = "keep"] /\ Q!Push(Ticker, "push_back", e)
      BY <1>5, <2>4 DEF Read, Goto
    <3>. QED  BY <3>1, <2>1, <2>2, <1>2
  <2>. QED  BY <2>3, <2>4
<1>6. CASE CallBack
  <2>1. lp \in Entries
    BY <1>6, <1>0 DEF CallBack, Goto, HandsFit
  <2>. QED  BY <1>6, <2>1, <1>3 DEF CallBack, Goto, Release
<1>7. CASE Drop
  <2>1. lp \in Entries /\ fate[lp.cnct] \in {"managed", "called"}
    BY <1>7, <1>0 DEF Drop, Goto, HandsFit
  <2>2. \E f \in {"called", "dropped"} : fate' = [fate EXCEPT ![lp.cnct] = f]
    BY <1>7, <2>1 DEF Drop
  <2>. QED  BY <1>7, <2>1, <2>2, <1>3 DEF Drop, Goto, Release
<1>. QED  BY <1>1, <1>4, <1>5, <1>6, <1>7

\* Every step moves at most one entry, from its place to the next.
LEMMA StorySteps ==
    ASSUME IsFiniteSet(Users), IInv, [Next]_vars, NEW c \in Conns
    PROVE  Story(c)'
<1>0. /\ QP!IInv /\ TypeOK /\ HandsFit /\ Story(c)
      /\ Users \subseteq Threads /\ Ticker \in Threads /\ Ticker \notin Users
      /\ content \in Seq(Entries) /\ call \in [Threads -> QP!Calls]
  BY QueueFacts, SecsAssumption DEF IInv, Threads
<1>s. ASSUME content' = content, CarriedBy(c)' = CarriedBy(c), InHand(c)' = InHand(c),
             fate'[c] = fate[c]
      PROVE  Story(c)'
  BY <1>s, <1>0, Stays DEF QueuedAt
<1>i. call' = call => CarriedBy(c)' = CarriedBy(c)
  BY DEF CarriedBy
<1>u. ASSUME NEW u \in Users, NEW to, pc' = [pc EXCEPT ![u] = to], UNCHANGED <<lp, fate>>
      PROVE  InHand(c)' = InHand(c)
  BY <1>u, <1>0 DEF TypeOK, InHand
<1>t. \A to : pc' = [pc EXCEPT ![Ticker] = to] => pc'[Ticker] = to
  BY <1>0 DEF TypeOK
<1>e. ASSUME lp = Nothing, lp' = Nothing PROVE InHand(c)' = InHand(c)
  BY <1>e DEF InHand
<1>1. CASE UNCHANGED vars \/ Clock
  BY <1>1, <1>s, <1>i DEF vars, jq, Clock, InHand
<1>2. ASSUME NEW u \in Users, NEW x \in Conns, PushStart(u, x) PROVE Story(c)'
  <2> DEFINE e == [cnct |-> x, expire |-> Deadline]
             d == [op |-> "push_back", item |-> e]
  <2>1. /\ fate[x] = "new" /\ fate' = [fate EXCEPT ![x] = "managed"] /\ lp' = lp
        /\ call[u].op = "idle" /\ call' = [call EXCEPT ![u] = d] /\ d.item = e
        /\ pc' = [pc EXCEPT ![u] = "push"] /\ content' = content /\ e.cnct = x
    BY <1>2 DEF PushStart, Begin, Goto, Q!Push, Q!Becomes
  <2>2. e \in Entries /\ e # Nothing
    BY <1>2, <1>0, DeadlineInTime, EntryFacts DEF PushStart, Begin, TypeOK, Entries
  <2>3. call[u].item = Nothing
    BY <2>1, <1>0, QueueFacts
  <2>4. CarriedBy(c)' = IF x = c THEN CarriedBy(c) \cup {u} ELSE CarriedBy(c) \ {u}
    <3> HIDE DEF d, e
    <3>. QED  BY <2>1, <2>2, <1>0, CallMoves
  <2>5. pc'[Ticker] = pc[Ticker]
    BY <2>1, <1>0 DEF TypeOK
  <2>6. CASE x = c
    <3>1. QueuedAt(c) = {} /\ CarriedBy(c) = {}
      BY <2>1, <2>6, <1>0 DEF Story, Nowhere
    <3>2. ~InHand(c)'
      BY <2>1, <2>5, <2>6, <1>0 DEF InHand, HandsFit
    <3>3. fate'[c] = "managed" /\ QueuedAt(c)' = {}
      BY <2>1, <2>6, <3>1, <1>0 DEF TypeOK, QueuedAt
    <3>4. InOnePlace(c)'
      BY <3>1, <3>2, <3>3, <2>4, <2>6 DEF InOnePlace
    <3>. QED  BY <3>3, <3>4 DEF Story
  <2>7. CASE x # c
    <3>1. fate'[c] = fate[c]
      BY <2>1, <2>7, <1>0 DEF TypeOK
    <3>2. CarriedBy(c)' = CarriedBy(c)
      BY <2>3, <2>4, <2>7 DEF CarriedBy
    <3>3. InHand(c)' = InHand(c)
      BY <2>1, <2>5, <3>1 DEF InHand
    <3>. QED  BY <3>1, <3>2, <3>3, <2>1, <1>s
  <2>. QED  BY <2>6, <2>7
<1>3. ASSUME NEW u \in Users, PushLink(u) PROVE Story(c)'
  BY <1>3, <1>0, QueueMoves DEF PushLink, InHand
<1>4. ASSUME NEW u \in Users, PushEnd(u) PROVE Story(c)'
  <2>1. /\ call[u].op = "linked" /\ call' = [call EXCEPT ![u] = Q!At("idle")] /\ content' = content
        /\ pc' = [pc EXCEPT ![u] = "idle"] /\ UNCHANGED <<lp, fate>>
    BY <1>4 DEF PushEnd, End, Goto, Q!Count, Q!Becomes, Q!Idle
  <2>2. CarriedBy(c)' = CarriedBy(c)
    BY <2>1, <1>0, QueueFacts, EmptyHanded
  <2>. QED  BY <2>1, <2>2, <1>u, <1>s
<1>5. ASSUME NEW u \in Users, AdjustEnd(u) PROVE Story(c)'
  <2>1. pc' = [pc EXCEPT ![u] = "idle"] /\ UNCHANGED <<content, call, lp, fate>>
    BY <1>5 DEF AdjustEnd, End, Goto, jq
  <2>. QED  BY <2>1, <1>i, <1>u, <1>s
<1>6. ASSUME NEW u \in Users, NEW x \in Conns, InvalidCall(u, x) PROVE Story(c)'
  BY <1>6, <1>i, <1>s DEF InvalidCall, jq, InHand
<1>7. ASSUME NEW u \in Users, NEW x \in Conns, AdjustFind(u, x) PROVE Story(c)'
  <2>1. (\E to : pc' = [pc EXCEPT ![u] = to]) /\ UNCHANGED <<content, call, lp, fate>>
    BY <1>7 DEF AdjustFind, Begin, Goto, jq
  <2>. QED  BY <2>1, <1>i, <1>u, <1>s
<1>8. CASE Fire
  <2>1. /\ pc[Ticker] = "idle" /\ UNCHANGED <<content, lp, fate>>
        /\ call[Ticker].op = "idle" /\ call' = [call EXCEPT ![Ticker] = Q!At("pop_front")]
    BY <1>8 DEF Fire, Goto, Q!Pop, Q!Becomes
  <2>2. CarriedBy(c)' = CarriedBy(c)
    BY <2>1, <1>0, QueueFacts, EmptyHanded
  <2>3. lp = Nothing
    BY <2>1, <1>0 DEF HandsFit
  <2>. QED  BY <2>1, <2>2, <2>3, <1>e, <1>s
<1>9. CASE PopGoesOn
  <2>1. UNCHANGED <<pc, lp, fate>> /\ InHand(c)' = InHand(c)
    BY <1>9 DEF PopGoesOn, InHand
  <2>2. CASE Q!Take(Ticker)
    <3>1. PICK op : /\ call[Ticker].op = "pop_front" /\ content' = content
                    /\ call' = [call EXCEPT ![Ticker] = Q!At(op)]
      BY <2>2 DEF Q!Take, Q!Becomes
    <3>2. CarriedBy(c)' = CarriedBy(c)
      BY <3>1, <1>0, QueueFacts, EmptyHanded
    <3>. QED  BY <3>1, <3>2, <2>1, <1>s
  <2>3. CASE Q!Remove(Ticker)
    BY <2>1, <2>3, <1>0, QueueMoves
  <2>. QED  BY <1>9, <2>2, <2>3 DEF PopGoesOn
<1>10. CASE Popped \/ FindNone \/ Read \/ CallBack \/ Drop
  BY <1>10, HandMoves
<1>11. CASE NothingLeft
  <2>1. /\ pc[Ticker] = "pop" /\ UNCHANGED <<content, lp, fate>>
        /\ call[Ticker].op = "refused" /\ call' = [call EXCEPT ![Ticker] = Q!At("idle")]
    BY <1>11 DEF NothingLeft, Goto, Q!Undo, Q!Becomes, Q!Idle
  <2>2. CarriedBy(c)' = CarriedBy(c)
    BY <2>1, <1>0, QueueFacts, EmptyHanded
  <2>3. lp = Nothing
    BY <2>1, <1>0 DEF HandsFit
  <2>. QED  BY <2>1, <2>2, <2>3, <1>e, <1>s
<1>12. CASE FindSome
  <2>1. /\ pc[Ticker] = "find" /\ UNCHANGED <<content, call, lp, fate>>
        /\ pc'[Ticker] \in {"drop", "read"}
    BY <1>12, <1>t DEF FindSome, Goto, jq
  <2>2. InHand(c)' = InHand(c)
    BY <2>1 DEF InHand
  <2>. QED  BY <2>1, <2>2, <1>i, <1>s
<1>13. CASE CallBackReg
  <2>1. /\ pc[Ticker] = "callDel" /\ UNCHANGED <<content, call, lp>>
        /\ pc'[Ticker] = "drop" /\ fate' = [fate EXCEPT ![lp.cnct] = "called"]
        /\ lp \in Entries /\ fate[lp.cnct] = "managed"
    BY <1>13, <1>t, <1>0 DEF CallBackReg, Goto, jq, HandsFit
  <2>2. CASE c = lp.cnct
    <3>1. fate'[c] = "called" /\ ~InHand(c)'
      BY <2>1, <2>2, <1>0 DEF TypeOK, InHand
    <3>2. QueuedAt(c) = {} /\ CarriedBy(c) = {}
      BY <2>1, <2>2, <1>0, EntryFacts DEF Story, InHand, Nowhere, InOnePlace
    <3>. QED  BY <3>1, <3>2, <2>1 DEF Story, Nowhere, QueuedAt, CarriedBy
  <2>3. CASE c # lp.cnct
    <3>1. fate'[c] = fate[c]
      BY <2>1, <2>3, <1>0 DEF TypeOK
    <3>. QED  BY <3>1, <2>1, <2>3, <1>i, <1>s DEF InHand
  <2>. QED  BY <2>2, <2>3
<1>14. CASE KeepLink
  <2>1. UNCHANGED <<pc, fate>> /\ InHand(c)' = InHand(c)
    BY <1>14 DEF KeepLink, InHand
  <2>. QED  BY <1>14, <2>1, <1>0, QueueMoves DEF KeepLink
<1>15. CASE Keep
  <2>1. /\ pc[Ticker] = "keep" /\ UNCHANGED <<content, lp, fate>>
        /\ call[Ticker].op = "linked" /\ call' = [call EXCEPT ![Ticker] = Q!At("idle")]
    BY <1>15 DEF Keep, Goto, Q!Count, Q!Becomes, Q!Idle
  <2>2. CarriedBy(c)' = CarriedBy(c)
    BY <2>1, <1>0, QueueFacts, EmptyHanded
  <2>3. lp = Nothing
    BY <2>1, <1>0 DEF HandsFit
  <2>. QED  BY <2>1, <2>2, <2>3, <1>e, <1>s
<1>16. CASE Alarm
  <2>1. pc[Ticker] = "alarm" /\ UNCHANGED <<content, call, lp, fate>>
    BY <1>16 DEF Alarm, Goto, jq
  <2>2. lp = Nothing
    BY <2>1, <1>0 DEF HandsFit
  <2>. QED  BY <2>1, <2>2, <1>i, <1>e, <1>s
<1>. QED
  BY <1>1, <1>2, <1>3, <1>4, <1>5, <1>6, <1>7, <1>8, <1>9, <1>10, <1>11, <1>12, <1>13, <1>14,
     <1>15, <1>16 DEF Next, Tick, UserGoesOn

-----------------------------------------------------------------------------
(* The types, and the code around the calls *)

Dates == Times \cup {Invalid}

\* An insert gives a connection a record if it has none, and changes no other one.
LEMMA InsertMoves ==
    ASSUME reg \in [DOMAIN reg -> Dates], NEW c, NEW e \in Dates, Insert(c, e)
    PROVE  /\ reg' \in [DOMAIN reg' -> Dates]
           /\ DOMAIN reg' = DOMAIN reg \cup {c}
           /\ \A k \in DOMAIN reg : reg'[k] = reg[k]
           /\ ~Present(c) => reg'[c] = e
BY DEF Insert, Present

\* An update changes the record of its connection only, if that has one.
LEMMA UpdateMoves ==
    ASSUME reg \in [DOMAIN reg -> Dates], NEW c, NEW e \in Dates, Update(c, e)
    PROVE  /\ reg' \in [DOMAIN reg' -> Dates]
           /\ DOMAIN reg' = DOMAIN reg
           /\ \A k \in DOMAIN reg : reg'[k] = IF k = c THEN e ELSE reg[k]
BY DEF Update, Present

\* A del takes the record of its connection away, and changes no other one.
LEMMA DelMoves ==
    ASSUME reg \in [DOMAIN reg -> Dates], NEW c, Del(c)
    PROVE  /\ reg' \in [DOMAIN reg' -> Dates]
           /\ DOMAIN reg' = DOMAIN reg \ {c}
           /\ \A k \in DOMAIN reg' : reg'[k] = reg[k]
BY DEF Del

\* Every step keeps the types: what tick() takes from the queue is an entry, and what
\* it reads from the records is a time.
LEMMA TypeSteps ==
    ASSUME QP!IInv, TypeOK, CallsFit, HandsFit, [Next]_vars
    PROVE  TypeOK'
<1> USE DEF TypeOK
<1>0. /\ Users \subseteq Threads /\ Ticker \in Threads
      /\ Invalid \in Dates /\ Times \subseteq Dates /\ reg \in [DOMAIN reg -> Dates]
      /\ reg' \in [DOMAIN reg' -> Dates] => reg' \in [DOMAIN reg' -> Times \cup {Invalid}]
  BY DEF Threads, Dates
<1>1. CASE UNCHANGED vars
  BY <1>1 DEF vars, ghosts
<1>2. CASE Clock
  BY <1>2, SecsAssumption DEF Clock, ghosts, Times, LastMoment
<1>3. ASSUME NEW u \in Users, NEW c \in Conns, PushStart(u, c) PROVE TypeOK'
  <2>1. Deadline \in Times
    BY <1>3, DeadlineInTime DEF PushStart, Begin
  <2>. QED  BY <1>3, <2>1, <1>0 DEF PushStart, Begin, Goto
<1>4. ASSUME NEW u \in Users, PushLink(u) \/ PushEnd(u) PROVE TypeOK'
  BY <1>4, <1>0, SecsAssumption DEF PushLink, PushEnd, End, Goto, ghosts, Times, LastMoment
<1>5. ASSUME NEW u \in Users, AdjustEnd(u) PROVE TypeOK'
  <2>1. conn[u] \in Conns /\ expire[u] \in Times
    BY <1>5 DEF AdjustEnd, End, Goto, CallsFit
  <2>2. reg' \in [DOMAIN reg' -> Dates]
    BY <1>5, <2>1, <1>0, InsertMoves, UpdateMoves DEF AdjustEnd
  <2>. QED  BY <1>5, <2>1, <2>2, <1>0, SecsAssumption DEF AdjustEnd, End, Goto, Times, LastMoment
<1>6. ASSUME NEW u \in Users, NEW c \in Conns, InvalidCall(u, c) PROVE TypeOK'
  <2>1. reg' \in [DOMAIN reg' -> Dates]
    BY <1>6, <1>0, InsertMoves DEF InvalidCall
  <2>. QED  BY <1>6, <2>1, <1>0 DEF InvalidCall
<1>7. ASSUME NEW u \in Users, NEW c \in Conns, AdjustFind(u, c) PROVE TypeOK'
  <2>1. Deadline \in Times
    BY <1>7, DeadlineInTime DEF AdjustFind, Begin
  <2>2. pc' \in [Threads -> {"idle", "push", "return", "update", "insert", "pop", "find", "read",
                             "call", "callDel", "drop", "keep", "alarm"}]
    BY <1>7, <1>0 DEF AdjustFind, Begin, Goto
  <2>. QED  BY <1>7, <2>1, <2>2 DEF AdjustFind, Begin, ghosts
<1>8. CASE Fire \/ PopGoesOn \/ NothingLeft \/ FindNone \/ FindSome \/ Keep \/ Alarm
  BY <1>8, <1>0 DEF Fire, PopGoesOn, NothingLeft, FindNone, FindSome, Keep, Alarm, Goto, ghosts
<1>9. CASE Popped
  <2>1. lp' \in Entries
    BY <1>9, <1>0, QueueFacts DEF Popped, Q!Return, Q!Becomes
  <2>2. known'.due \in Times
    BY <1>9, <2>1, EntryFacts DEF Popped
  <2>. QED  BY <1>9, <2>2, <1>0 DEF Popped, Goto
<1>10. CASE Read
  BY <1>10, <1>0 DEF Read, Goto, ghosts
<1>11. CASE CallBack \/ CallBackReg \/ KeepLink
  <2>1. 0 \in Times /\ Unknown.due = 0
    BY SecsAssumption DEF Times, LastMoment, Unknown
  <2>. QED  BY <1>11, <2>1, <1>0 DEF CallBack, CallBackReg, KeepLink, Goto, Release, ghosts
<1>12. CASE Drop
  <2>1. 0 \in Times /\ Unknown.due = 0
    BY SecsAssumption DEF Times, LastMoment, Unknown
  <2>2. reg' \in [DOMAIN reg' -> Dates]
    BY <1>12, <1>0, DelMoves DEF Drop
  <2>3. fate' \in [Conns -> {"new", "managed", "called", "dropped"}]
    BY <1>12 DEF Drop
  <2>. QED  BY <1>12, <2>1, <2>2, <2>3, <1>0 DEF Drop, Goto, Release
<1>. QED
  BY <1>1, <1>2, <1>3, <1>4, <1>5, <1>6, <1>7, <1>8, <1>9, <1>10, <1>11, <1>12
     DEF Next, Tick, UserGoesOn

\* A thread's step in the queue keeps to the operations that its place allows.
LEMMA CallsFitSteps ==
    ASSUME QP!IInv, TypeOK, CallsFit, [Next]_vars
    PROVE  CallsFit'
<1>0. /\ Threads = Users \cup {Ticker} /\ Ticker \notin Users
      /\ call \in [Threads -> QP!Calls]
      /\ conn \in [Users -> Conns \cup {Nothing}]
      /\ pc \in [Threads -> {"idle", "push", "return", "update", "insert", "pop", "find", "read",
                             "call", "callDel", "drop", "keep", "alarm"}]
  BY QueueFacts, SecsAssumption DEF Threads, TypeOK
<1>1. CASE UNCHANGED vars \/ Clock
  BY <1>1 DEF vars, jq, Clock, CallsFit
<1>2. ASSUME NEW u \in Users, NEW c \in Conns, PushStart(u, c) PROVE CallsFit'
  BY <1>2, <1>0 DEF PushStart, Begin, Goto, Q!Push, Q!Becomes, CallsFit
<1>3. ASSUME NEW u \in Users, PushLink(u) PROVE CallsFit'
  BY <1>3, <1>0 DEF PushLink, Q!LinkBack, Q!Becomes, Q!At, CallsFit
<1>4. ASSUME NEW u \in Users, PushEnd(u) PROVE CallsFit'
  BY <1>4, <1>0 DEF PushEnd, End, Goto, Q!Count, Q!Becomes, Q!Idle, Q!At, CallsFit
<1>5. ASSUME NEW u \in Users, AdjustEnd(u) PROVE CallsFit'
  BY <1>5, <1>0 DEF AdjustEnd, End, Goto, jq, CallsFit
<1>6. ASSUME NEW u \in Users, NEW c \in Conns, InvalidCall(u, c) PROVE CallsFit'
  BY <1>6 DEF InvalidCall, jq, CallsFit
<1>7. ASSUME NEW u \in Users, NEW c \in Conns, AdjustFind(u, c) PROVE CallsFit'
  <2>1. PICK to \in {"insert", "return", "update"} :
           pc[u] = "idle" /\ pc' = [pc EXCEPT ![u] = to] /\ conn' = [conn EXCEPT ![u] = c]
    BY <1>7 DEF AdjustFind, Begin, Goto
  <2>2. call' = call
    BY <1>7 DEF AdjustFind, jq
  <2>. QED  BY <2>1, <2>2, <1>0 DEF CallsFit
<1>8. CASE Fire \/ CallBack \/ Drop
  <2>1. PICK from \in {"idle", "call", "drop"} : pc[Ticker] = from /\ pc' = [pc EXCEPT ![Ticker] = "pop"]
    BY <1>8 DEF Fire, CallBack, Drop, Goto
  <2>2. call' = [call EXCEPT ![Ticker] = Q!At("pop_front")] /\ conn' = conn
    BY <1>8 DEF Fire, CallBack, Drop, Q!Pop, Q!Becomes
  <2>. QED  BY <2>1, <2>2, <1>0 DEF Q!At, Popping, CallsFit
<1>9. CASE PopGoesOn
  <2>1. UNCHANGED <<pc, conn>> /\ pc[Ticker] = "pop"
    BY <1>9 DEF PopGoesOn
  <2>2. PICK x : call' = [call EXCEPT ![Ticker] = x] /\ x.op \in Popping
    BY <1>9 DEF PopGoesOn, Q!Take, Q!Remove, Q!Becomes, Q!At, Popping
  <2>. QED  BY <2>1, <2>2, <1>0 DEF CallsFit
<1>10. CASE Popped \/ NothingLeft
  <2>1. PICK to \in {"find", "alarm"} : pc' = [pc EXCEPT ![Ticker] = to] /\ conn' = conn
    BY <1>10 DEF Popped, NothingLeft, Goto
  <2>2. call' = [call EXCEPT ![Ticker] = Q!At("idle")]
    BY <1>10 DEF Popped, NothingLeft, Q!Return, Q!Undo, Q!Becomes, Q!Idle
  <2>. QED  BY <2>1, <2>2, <1>0 DEF Q!At, CallsFit
<1>11. ASSUME NEW from \in {"find", "read", "callDel", "alarm"}, pc[Ticker] = from,
              NEW to \in {"call", "drop", "read", "callDel", "idle"},
              pc' = [pc EXCEPT ![Ticker] = to], UNCHANGED <<call, conn>>
       PROVE  CallsFit'
  BY <1>11, <1>0 DEF CallsFit
<1>12. ASSUME NEW from \in {"find", "read"}, pc[Ticker] = from,
              pc' = [pc EXCEPT ![Ticker] = "keep"], conn' = conn,
              NEW op, NEW e, Q!Push(Ticker, op, e)
       PROVE  CallsFit'
  BY <1>12, <1>0 DEF Q!Push, Q!Pushes, Q!Becomes, CallsFit
<1>13. CASE FindNone
  <2>1. CASE Late
    BY <1>13, <2>1, <1>11 DEF FindNone, Goto, jq
  <2>2. CASE ~Late
    BY <1>13, <2>2, <1>12 DEF FindNone, Goto
  <2>. QED  BY <2>1, <2>2
<1>14. CASE FindSome
  <2>1. \E to \in {"drop", "read"} : pc' = [pc EXCEPT ![Ticker] = to]
    BY <1>14 DEF FindSome, Goto
  <2>. QED  BY <1>14, <2>1, <1>11 DEF FindSome, jq
<1>15. CASE Read
  <2> DEFINE e == [lp EXCEPT !.expire = reg[lp.cnct]]
  <2>1. CASE e.expire < cur
    <3>1. pc' = [pc EXCEPT ![Ticker] = "callDel"] /\ UNCHANGED <<call, conn>> /\ pc[Ticker] = "read"
      BY <1>15, <2>1 DEF Read, Goto, jq
    <3>. QED  BY <3>1, <1>11
  <2>2. CASE ~(e.expire < cur)
    <3>1. /\ pc' = [pc EXCEPT ![Ticker] = "keep"] /\ conn' = conn /\ pc[Ticker] = "read"
          /\ Q!Push(Ticker, "push_back", e)
      BY <1>15, <2>2 DEF Read, Goto
    <3>. QED  BY <3>1, <1>12
  <2>. QED  BY <2>1, <2>2
<1>16. CASE CallBackReg \/ Alarm
  BY <1>16, <1>11 DEF CallBackReg, Alarm, Goto, jq
<1>17. CASE KeepLink
  BY <1>17, <1>0 DEF KeepLink, Q!LinkBack, Q!LinkFront, Q!Becomes, Q!At, CallsFit
<1>18. CASE Keep
  BY <1>18, <1>0 DEF Keep, Goto, Q!Count, Q!Becomes, Q!Idle, Q!At, CallsFit
<1>. QED
  BY <1>1, <1>2, <1>3, <1>4, <1>5, <1>6, <1>7, <1>8, <1>9, <1>10, <1>13, <1>14, <1>15, <1>16,
     <1>17, <1>18 DEF Next, Tick, UserGoesOn

\* tick() has an entry of a managed connection in its hands from its pop to the call
\* back, and a record that it found stays while it reads it.
LEMMA HandsFitSteps ==
    ASSUME IInv, [Next]_vars
    PROVE  HandsFit'
<1>0. /\ QP!IInv /\ TypeOK /\ CallsFit /\ HandsFit
      /\ Users \subseteq Threads /\ Ticker \in Threads /\ Ticker \notin Users
      /\ call \in [Threads -> QP!Calls]
      /\ reg \in [DOMAIN reg -> Dates] /\ Times \subseteq Dates /\ Invalid \in Dates
      /\ \A c \in DOMAIN reg : reg[c] # Invalid => reg[c] \in Times
  BY QueueFacts, SecsAssumption DEF IInv, Threads, TypeOK, Dates
<1>t. \A to : pc' = [pc EXCEPT ![Ticker] = to] => pc'[Ticker] = to
  BY <1>0 DEF TypeOK
<1>u. ASSUME UNCHANGED <<pc[Ticker], call[Ticker], lp>>,
             \A c \in Conns : fate[c] \in {"managed", "called"} => fate'[c] = fate[c],
             \A c \in Conns : Present(c) /\ reg[c] \in Times => Present(c)' /\ reg'[c] \in Times
      PROVE  HandsFit'
  <2>1. lp \in Entries => lp.cnct \in Conns
    BY EntryFacts
  <2>. QED  BY <1>u, <2>1, <1>0 DEF HandsFit
<1>1. CASE UNCHANGED vars \/ Clock
  BY <1>1, <1>u DEF vars, jq, Clock, Present
<1>2. ASSUME NEW u \in Users, NEW c \in Conns, PushStart(u, c) PROVE HandsFit'
  <2>1. pc'[Ticker] = pc[Ticker] /\ call'[Ticker] = call[Ticker]
    BY <1>2, <1>0 DEF PushStart, Begin, Goto, Q!Push, Q!Becomes, TypeOK
  <2>2. \A k \in Conns : fate[k] # "new" => fate'[k] = fate[k]
    BY <1>2, <1>0 DEF PushStart, TypeOK
  <2>. QED  BY <1>2, <2>1, <2>2, <1>u DEF PushStart, Present
<1>3. ASSUME NEW u \in Users, PushLink(u) \/ PushEnd(u) PROVE HandsFit'
  <2>1. pc'[Ticker] = pc[Ticker] /\ call'[Ticker] = call[Ticker]
    BY <1>3, <1>0 DEF PushLink, PushEnd, End, Goto, Q!LinkBack, Q!Count, Q!Becomes, TypeOK
  <2>. QED  BY <1>3, <2>1, <1>u DEF PushLink, PushEnd, Present
<1>4. ASSUME NEW u \in Users, AdjustEnd(u) PROVE HandsFit'
  <2>1. pc'[Ticker] = pc[Ticker] /\ call' = call
    BY <1>4, <1>0 DEF AdjustEnd, End, Goto, jq, TypeOK
  <2>2. expire[u] \in Times
    BY <1>0 DEF TypeOK
  <2>3. \A c \in Conns : Present(c) /\ reg[c] \in Times => Present(c)' /\ reg'[c] \in Times
    BY <1>4, <2>2, <1>0, InsertMoves, UpdateMoves DEF AdjustEnd, Present
  <2>. QED  BY <1>4, <2>1, <2>3, <1>u DEF AdjustEnd
<1>5. ASSUME NEW u \in Users, NEW c \in Conns, InvalidCall(u, c) PROVE HandsFit'
  <2>1. \A k \in Conns : Present(k) /\ reg[k] \in Times => Present(k)' /\ reg'[k] \in Times
    BY <1>5, <1>0, InsertMoves DEF InvalidCall, Present
  <2>. QED  BY <1>5, <2>1, <1>u DEF InvalidCall, jq
<1>6. ASSUME NEW u \in Users, NEW c \in Conns, AdjustFind(u, c) PROVE HandsFit'
  <2>1. pc'[Ticker] = pc[Ticker]
    BY <1>6, <1>0 DEF AdjustFind, Begin, Goto, TypeOK
  <2>. QED  BY <1>6, <2>1, <1>u DEF AdjustFind, jq, Present
<1>7. CASE PopGoesOn
  <2>1. UNCHANGED <<pc, lp>> /\ pc[Ticker] = "pop"
    BY <1>7 DEF PopGoesOn
  <2>. QED  BY <2>1, <1>0 DEF HandsFit
<1>8. CASE Fire \/ NothingLeft \/ Alarm
  <2>1. pc[Ticker] \in {"idle", "pop", "alarm"} /\ pc'[Ticker] \in {"idle", "pop", "alarm"} /\ lp' = lp
    BY <1>8, <1>t DEF Fire, NothingLeft, Alarm, Goto
  <2>. QED  BY <2>1, <1>0 DEF HandsFit
<1>9. CASE Popped
  <2>1. call[Ticker].op = "done" /\ lp' = call[Ticker].item /\ fate' = fate /\ pc'[Ticker] = "find"
    BY <1>9, <1>t DEF Popped, Goto, Q!Return, Q!Becomes
  <2>2. lp' \in Entries /\ lp' # Nothing /\ lp'.cnct \in Conns
    BY <2>1, <1>0, QueueFacts, EntryFacts
  <2>3. Ticker \in CarriedBy(lp'.cnct)
    BY <2>1, <2>2, <1>0 DEF CarriedBy
  <2>4. fate[lp'.cnct] = "managed"
    BY <2>2, <2>3 DEF IInv, Story, Nowhere
  <2>. QED  BY <2>1, <2>2, <2>4 DEF HandsFit
<1>10. CASE FindNone
  <2>1. pc[Ticker] = "find" /\ UNCHANGED <<lp, fate>> /\ lp \in Entries /\ fate[lp.cnct] = "managed"
    BY <1>10, <1>0 DEF FindNone, HandsFit
  <2>2. CASE Late
    <3>1. pc'[Ticker] = "call"
      BY <1>10, <2>2, <1>t DEF FindNone, Goto
    <3>. QED  BY <2>1, <3>1 DEF HandsFit
  <2>3. CASE ~Late
    <3>1. pc' = [pc EXCEPT ![Ticker] = "keep"] /\ Q!Push(Ticker, "push_front", lp)
      BY <1>10, <2>3 DEF FindNone, Goto
    <3>2. pc'[Ticker] = "keep" /\ call'[Ticker].op # "linked"
      BY <3>1, <1>t, <1>0 DEF Q!Push, Q!Becomes
    <3>. QED  BY <3>2 DEF HandsFit
  <2>. QED  BY <2>2, <2>3
<1>11. CASE FindSome
  <2>1. /\ UNCHANGED <<lp, fate, reg>> /\ lp \in Entries /\ fate[lp.cnct] = "managed"
        /\ Present(lp.cnct)
    BY <1>11, <1>0 DEF FindSome, HandsFit
  <2>2. IF reg[lp.cnct] = Invalid THEN pc'[Ticker] = "drop" ELSE pc'[Ticker] = "read"
    BY <1>11, <1>t DEF FindSome, Goto
  <2>. QED  BY <2>1, <2>2, <1>0 DEF HandsFit, Present
<1>12. CASE Read
  <2> DEFINE e == [lp EXCEPT !.expire = reg[lp.cnct]]
  <2>1. /\ lp \in Entries /\ fate[lp.cnct] = "managed" /\ reg[lp.cnct] \in Times
        /\ lp' = e /\ fate' = fate
    BY <1>12, <1>0 DEF Read, HandsFit
  <2>2. e \in Entries /\ e.cnct = lp.cnct
    BY <2>1, NewDeadline
  <2>3. CASE e.expire < cur
    <3>1. pc'[Ticker] = "callDel"
      BY <1>12, <2>3, <1>t DEF Read, Goto
    <3>. QED  BY <2>1, <2>2, <3>1 DEF HandsFit
  <2>4. CASE ~(e.expire < cur)
    <3>1. pc' = [pc EXCEPT ![Ticker] = "keep"] /\ Q!Push(Ticker, "push_back", e)
      BY <1>12, <2>4 DEF Read, Goto
    <3>2. pc'[Ticker] = "keep" /\ call'[Ticker].op # "linked"
      BY <3>1, <1>t, <1>0 DEF Q!Push, Q!Becomes
    <3>. QED  BY <3>2 DEF HandsFit
  <2>. QED  BY <2>3, <2>4
<1>13. CASE CallBack \/ Drop
  BY <1>13, <1>t DEF CallBack, Drop, Goto, Release, HandsFit
<1>14. CASE CallBackReg
  <2>1. pc'[Ticker] = "drop" /\ lp' = lp /\ lp \in Entries /\ fate' = [fate EXCEPT ![lp.cnct] = "called"]
    BY <1>14, <1>t, <1>0 DEF CallBackReg, Goto, HandsFit
  <2>2. fate'[lp.cnct] = "called"
    BY <2>1, <1>0, EntryFacts DEF TypeOK
  <2>. QED  BY <2>1, <2>2 DEF HandsFit
<1>15. CASE KeepLink
  BY <1>15 DEF KeepLink, Release, HandsFit
<1>16. CASE Keep
  <2>1. pc[Ticker] = "keep" /\ call[Ticker].op = "linked" /\ pc'[Ticker] = "alarm" /\ lp' = lp
    BY <1>16, <1>t DEF Keep, Goto, Q!Count, Q!Becomes
  <2>. QED  BY <2>1, <1>0 DEF HandsFit
<1>. QED
  BY <1>1, <1>2, <1>3, <1>4, <1>5, <1>6, <1>7, <1>8, <1>9, <1>10, <1>11, <1>12, <1>13, <1>14,
     <1>15, <1>16 DEF Next, Tick, UserGoesOn

-----------------------------------------------------------------------------
(* The invariant and what follows from it *)

\* At first the queue is empty, nobody is in it, and no connection is managed.
LEMMA InitIInv == Init => IInv
<1> SUFFICES ASSUME Init PROVE IInv
  OBVIOUS
<1>1. QP!IInv
  BY QP!InitIInv DEF Init, Q!Init, QP!Init, Q!Idle, QP!Idle, Q!At, QP!At
<1>2. 0 \in Times /\ Unknown.due = 0 /\ Ticker \notin Users
  BY SecsAssumption DEF Times, LastMoment, Unknown
<1>3. TypeOK /\ CallsFit /\ HandsFit
  BY <1>2 DEF Init, Q!Init, Q!Idle, Q!At, TypeOK, CallsFit, HandsFit, Threads
<1>4. ASSUME NEW c \in Conns PROVE Story(c)
  BY <1>4, EmptySeq DEF Init, Q!Init, Q!Idle, Q!At, Story, Nowhere, QueuedAt, CarriedBy, InHand
<1>. QED  BY <1>1, <1>3, <1>4 DEF IInv

\* Every step keeps the queue's account, the types and the places.
LEMMA StepIInv ==
    ASSUME IsFiniteSet(Users), IInv, [Next]_vars
    PROVE  IInv'
<1>1. QP!IInv /\ TypeOK /\ CallsFit /\ HandsFit
  BY DEF IInv
<1>2. QP!IInv' /\ TypeOK' /\ CallsFit' /\ HandsFit'
  BY <1>1, QueueSteps, TypeSteps, CallsFitSteps, HandsFitSteps
<1>3. \A c \in Conns : Story(c)'
  BY StorySteps
<1>. QED  BY <1>2, <1>3 DEF IInv

\* Places(c) has as many members as there are places.
LEMMA PlacesCounted ==
    ASSUME NEW c
    PROVE  /\ Nowhere(c) => Cardinality(Places(c)) = 0
           /\ InOnePlace(c) => Cardinality(Places(c)) = 1
<1>1. Places(c) =      {<<"queue", i>> : i \in QueuedAt(c)}
                 \cup {<<"call", t>> : t \in CarriedBy(c)}
                 \cup IF InHand(c) THEN {<<"tick">>} ELSE {}
  BY DEF Places, QueuedAt, CarriedBy, InHand
<1>2. ASSUME Nowhere(c) PROVE Places(c) = {}
  BY <1>1, <1>2 DEF Nowhere
<1>3. ASSUME InOnePlace(c) PROVE \E x : Places(c) = {x}
  <2>1. ASSUME NEW i, QueuedAt(c) = {i}, CarriedBy(c) = {}, ~InHand(c)
        PROVE  Places(c) = {<<"queue", i>>}
    BY <1>1, <2>1
  <2>2. ASSUME NEW t, QueuedAt(c) = {}, CarriedBy(c) = {t}, ~InHand(c)
        PROVE  Places(c) = {<<"call", t>>}
    BY <1>1, <2>2
  <2>3. ASSUME QueuedAt(c) = {}, CarriedBy(c) = {}, InHand(c)
        PROVE  Places(c) = {<<"tick">>}
    BY <1>1, <2>3
  <2>. QED  BY <1>3, <2>1, <2>2, <2>3 DEF InOnePlace
<1>. QED  BY <1>2, <1>3, FS_EmptySet, FS_Singleton

\* For any finite set of users, a managed connection has one entry, wherever users and
\* tick() are in their calls, and one that was called back or dropped has none.
THEOREM Managed ==
    ASSUME IsFiniteSet(Users)
    PROVE  Spec => []OneEntry
<1>1. IInv => OneEntry
  BY PlacesCounted DEF IInv, Story, OneEntry
<1>2. IInv /\ [Next]_vars => IInv'
  BY StepIInv
<1>. QED  BY <1>1, <1>2, InitIInv, PTL DEF Spec

-----------------------------------------------------------------------------
(* The deadlines *)

\* The entries in the queue and on their way in or out.
Held == {content[i] : i \in DOMAIN content} \cup ({call[t].item : t \in Threads} \ {Nothing})

\* An entry without a record carries the deadline of its connection.
DueFits(e) == fate[e.cnct] = "managed" /\ ~Present(e.cnct) => e.expire = due[e.cnct]

EntriesFit ==
    /\ \A e \in Held : DueFits(e)
    /\ pc[Ticker] = "find" => DueFits(lp)

\* A record that is a time is the deadline of its connection.
RecordsFit == \A c \in Conns :
    /\ due[c] <= Deadline
    /\ fate[c] = "new" => ~Present(c)
    /\ fate[c] = "managed" /\ Present(c) /\ reg[c] # Invalid => reg[c] = due[c]

\* What an adjust() has found stays so until it acts on it, and its deadline is not
\* before the last one.
AdjustFits(u) ==
    /\ due[conn[u]] <= expire[u] /\ expire[u] <= Deadline
    /\ fate[conn[u]] # "new"
    /\ fate[conn[u]] = "managed" =>
          /\ pc[u] = "insert" => ~Present(conn[u])
          /\ pc[u] = "update" => Present(conn[u]) /\ reg[conn[u]] # Invalid
          /\ pc[u] = "return" => Present(conn[u]) /\ reg[conn[u]] = Invalid

AdjustsFit ==
    /\ \A u, v \in Users : conn[u] = conn[v] /\ conn[u] # Nothing => u = v
    /\ \A u \in Users : pc[u] \in {"return", "update", "insert"} => AdjustFits(u)

\* What tick() knows of the deadline is not after it, and has passed when it calls back.
KnownFits ==
    /\ pc[Ticker] \in {"find", "read"} => known.due <= due[lp.cnct]
    /\ pc[Ticker] \in {"call", "callDel"} => known.due < cur

TInv == IInv /\ EntriesFit /\ RecordsFit /\ AdjustsFit /\ KnownFits

\* Nothing but entries is in the queue or on its way.
LEMMA HeldAreEntries == QP!IInv => Held \subseteq Entries
BY QueueFacts, ElementOfSeq DEF Held

\* A push brings one entry; the other steps of the queue bring none.
LEMMA HeldMoves ==
    ASSUME IsFiniteSet(Users), QP!IInv, NEW t \in Threads
    PROVE  /\ \/ Q!Pop(t) \/ Q!Take(t) \/ Q!Undo(t) \/ Q!Remove(t) \/ Q!Return(t)
              \/ Q!LinkBack(t) \/ Q!LinkFront(t) \/ Q!Count(t)
              => Held' \subseteq Held
           /\ \A op, d : Q!Push(t, op, d) => Held' \subseteq Held \cup {d}
<1>0. content \in Seq(Entries) /\ call \in [Threads -> QP!Calls]
  BY QueueFacts
<1>1. ASSUME NEW x, call' = [call EXCEPT ![t] = x]
      PROVE  \A u \in Threads : call'[u].item = IF u = t THEN x.item ELSE call[u].item
  BY <1>1, <1>0
<1>2. ASSUME NEW op, NEW d, Q!Push(t, op, d) PROVE Held' \subseteq Held \cup {d}
  <2> DEFINE x == [op |-> op, item |-> d]
  <2>1. call' = [call EXCEPT ![t] = x] /\ x.item = d /\ content' = content
    BY <1>2 DEF Q!Push, Q!Becomes
  <2>2. \A u \in Threads : call'[u].item = IF u = t THEN d ELSE call[u].item
    <3> HIDE DEF x
    <3>. QED  BY <2>1, <1>1
  <2>. QED  BY <2>1, <2>2 DEF Held
<1>3. ASSUME Q!Pop(t) \/ Q!Take(t) \/ Q!Undo(t) \/ Q!Return(t) \/ Q!Count(t)
      PROVE  Held' \subseteq Held
  <2>1. PICK op : call' = [call EXCEPT ![t] = Q!At(op)] /\ content' = content
    BY <1>3 DEF Q!Pop, Q!Take, Q!Undo, Q!Return, Q!Count, Q!Becomes, Q!Idle
  <2>2. Q!At(op).item = Nothing
    BY EntryFacts
  <2>. QED  BY <2>1, <2>2, <1>0 DEF Held
<1>4. ASSUME Q!Remove(t) PROVE Held' \subseteq Held
  <2> DEFINE x == [op |-> "done", item |-> Head(content)]
  <2>1. /\ call[t].op = "entitled" /\ call' = [call EXCEPT ![t] = x] /\ content' = Tail(content)
        /\ x.item = Head(content)
    BY <1>4 DEF Q!Remove, Q!Becomes
  <2>2. content # <<>>
    BY <2>1, QP!EntitledFinds, ThreadsFinite
  <2>3. /\ Len(content) \in Nat /\ Len(content) # 0
        /\ DOMAIN content = 1 .. Len(content)
        /\ DOMAIN content' = 1 .. Len(content) - 1
        /\ \A i \in 1 .. Len(content) - 1 : content'[i] = content[i + 1]
        /\ Head(content) = content[1]
    BY <2>1, <2>2, <1>0, HeadTailProperties, LenProperties, EmptySeq
  <2>4. Head(content) \in {content[i] : i \in DOMAIN content}
    BY <2>3
  <2>5. \A i \in DOMAIN content' : content'[i] \in {content[j] : j \in DOMAIN content}
    BY <2>3
  <2>6. \A u \in Threads : call'[u].item = IF u = t THEN Head(content) ELSE call[u].item
    <3> HIDE DEF x
    <3>. QED  BY <2>1, <1>1
  <2>. QED  BY <2>4, <2>5, <2>6 DEF Held
<1>5. ASSUME Q!LinkBack(t) \/ Q!LinkFront(t) PROVE Held' \subseteq Held
  <2> DEFINE x == call[t].item
  <2>1. /\ call[t].op \in {"push_back", "push_front"} /\ call' = [call EXCEPT ![t] = Q!At("linked")]
        /\ content' = Append(content, x) \/ content' = <<x>> \o content
    BY <1>5 DEF Q!LinkBack, Q!LinkFront, Q!Becomes
  <2>2. x \in Entries /\ x \in Held
    BY <2>1, QueueFacts, EntryFacts DEF Held
  <2>5. \A u \in Threads : call'[u].item = IF u = t THEN Nothing ELSE call[u].item
    BY <2>1, <1>1, EntryFacts
  <2>3. CASE content' = Append(content, x)
    <3>1. /\ DOMAIN content = 1 .. Len(content) /\ Len(content) \in Nat
          /\ DOMAIN content' = 1 .. Len(content) + 1
          /\ \A i \in 1 .. Len(content) : content'[i] = content[i]
          /\ content'[Len(content) + 1] = x
      BY <2>2, <2>3, <1>0, AppendProperties, LenProperties
    <3>2. \A i \in DOMAIN content' : content'[i] \in Held
      BY <3>1, <2>2 DEF Held
    <3>. QED  BY <3>2, <2>5 DEF Held
  <2>4. CASE content' = <<x>> \o content
    <3>1. /\ <<x>> \in Seq(Entries) /\ Len(<<x>>) = 1 /\ <<x>>[1] = x
      BY <2>2
    <3>2. /\ content' \in Seq(Entries) /\ Len(content') = 1 + Len(content)
          /\ \A i \in 1 .. 1 + Len(content) :
                content'[i] = IF i <= 1 THEN <<x>>[i] ELSE content[i - 1]
      BY <2>4, <3>1, <1>0, ConcatProperties
    <3>3. /\ DOMAIN content = 1 .. Len(content) /\ Len(content) \in Nat
          /\ DOMAIN content' = 1 .. 1 + Len(content)
      BY <3>2, <1>0, LenProperties
    <3>4. \A i \in DOMAIN content' : content'[i] \in Held
      <4> TAKE i \in DOMAIN content'
      <4>1. CASE i = 1
        BY <4>1, <3>1, <3>2, <3>3, <2>2
      <4>2. CASE i # 1
        <5>1. i - 1 \in DOMAIN content /\ content'[i] = content[i - 1]
          BY <4>2, <3>2, <3>3
        <5>. QED  BY <5>1 DEF Held
      <4>. QED  BY <4>1, <4>2
    <3>. QED  BY <3>4, <2>5 DEF Held
  <2>. QED  BY <2>1, <2>3, <2>4
<1>. QED  BY <1>2, <1>3, <1>4, <1>5

\* What the lemmas about deadlines start from.
LEMMA InvariantFacts ==
    ASSUME IsFiniteSet(Users), IInv, [Next]_vars
    PROVE  /\ QP!IInv /\ TypeOK /\ CallsFit /\ HandsFit /\ TypeOK' /\ HandsFit'
           /\ Users \subseteq Threads /\ Ticker \in Threads /\ Ticker \notin Users
           /\ reg \in [DOMAIN reg -> Dates] /\ Times \subseteq Dates /\ Invalid \in Dates
           /\ Times \subseteq Int /\ Deadline \in Int /\ Deadline <= Deadline' /\ Deadline' \in Int
           /\ \A u \in Users : pc[u] # "idle" => conn[u] \in Conns
<1>1. QP!IInv /\ TypeOK /\ CallsFit /\ HandsFit /\ TypeOK' /\ HandsFit'
  BY StepIInv DEF IInv
<1>2. now' = now \/ now' = now + 1
  BY DEF Next, Tick, UserGoesOn, vars, Clock, Fire, PopGoesOn, Popped, NothingLeft, FindNone,
     FindSome, Read, CallBack, CallBackReg, Drop, KeepLink, Keep, Alarm, PushStart, PushLink,
     PushEnd, InvalidCall, AdjustFind, AdjustEnd
<1>3. Times \subseteq Int /\ Deadline \in Int /\ Deadline <= Deadline' /\ Deadline' \in Int
  BY <1>1, <1>2, SecsAssumption DEF TypeOK, Times, Deadline
<1>4. reg \in [DOMAIN reg -> Dates] /\ Times \subseteq Dates /\ Invalid \in Dates
  BY <1>1 DEF TypeOK, Dates
<1>. QED  BY <1>1, <1>3, <1>4, SecsAssumption DEF Threads, CallsFit

\* An entry's deadline is its connection's until there is a record.
LEMMA EntriesFitSteps ==
    ASSUME IsFiniteSet(Users), TInv, [Next]_vars
    PROVE  EntriesFit'
<1>0. /\ IInv /\ EntriesFit /\ AdjustsFit
      /\ QP!IInv /\ TypeOK /\ CallsFit /\ HandsFit /\ TypeOK' /\ HandsFit'
      /\ Users \subseteq Threads /\ Ticker \in Threads /\ Ticker \notin Users
      /\ reg \in [DOMAIN reg -> Dates] /\ Times \subseteq Dates /\ Invalid \in Dates
      /\ \A u \in Users : pc[u] # "idle" => conn[u] \in Conns
  BY InvariantFacts DEF TInv
<1>t. \A to : pc' = [pc EXCEPT ![Ticker] = to] => pc'[Ticker] = to
  BY <1>0 DEF TypeOK
<1>h. Held \subseteq Entries /\ (pc[Ticker] = "find" => lp \in Entries)
  BY <1>0, HeldAreEntries DEF HandsFit
<1>j. call' = call /\ content' = content => Held' = Held
  BY DEF Held
<1>k. ASSUME Held' \subseteq Held, pc'[Ticker] = "find" => pc[Ticker] = "find" /\ lp' = lp,
             \A c \in Conns : fate'[c] = "managed" /\ ~Present(c)' =>
                                 fate[c] = "managed" /\ ~Present(c) /\ due'[c] = due[c]
      PROVE  EntriesFit'
  <2>1. ASSUME NEW e \in Entries, DueFits(e) PROVE DueFits(e)'
    <3>1. e.cnct \in Conns
      BY EntryFacts
    <3>. QED  BY <3>1, <2>1, <1>k DEF DueFits
  <2>2. \A e \in Held' : DueFits(e)'
    BY <2>1, <1>k, <1>h, <1>0 DEF EntriesFit
  <2>3. pc'[Ticker] = "find" => DueFits(lp)'
    <3>1. pc'[Ticker] = "find" => lp \in Entries /\ DueFits(lp) /\ lp' = lp
      BY <1>k, <1>h, <1>0 DEF EntriesFit
    <3>2. lp \in Entries => lp.cnct \in Conns
      BY EntryFacts
    <3>. QED  BY <3>1, <3>2, <1>k DEF DueFits
  <2>. QED  BY <2>2, <2>3 DEF EntriesFit
<1>1. CASE UNCHANGED vars \/ Clock
  BY <1>1, <1>j, <1>k DEF vars, jq, ghosts, Clock, Present
<1>2. ASSUME NEW u \in Users, NEW x \in Conns, PushStart(u, x) PROVE EntriesFit'
  <2> DEFINE d == [cnct |-> x, expire |-> Deadline]
  <2>1. /\ fate[x] = "new" /\ fate' = [fate EXCEPT ![x] = "managed"]
        /\ due' = [due EXCEPT ![x] = Deadline] /\ UNCHANGED <<reg, lp>>
        /\ pc' = [pc EXCEPT ![u] = "push"] /\ Q!Push(u, "push_back", d)
        /\ d.cnct = x /\ d.expire = Deadline
    BY <1>2 DEF PushStart, Begin, Goto
  <2>2. Held' \subseteq Held \cup {d}
    <3> HIDE DEF d
    <3>. QED  BY <2>1, <1>0, HeldMoves
  <2>3. fate'[x] = "managed" /\ due'[x] = Deadline /\ pc'[Ticker] = pc[Ticker]
    BY <2>1, <1>0 DEF TypeOK
  <2>4. \A k \in Conns : k # x => fate'[k] = fate[k] /\ due'[k] = due[k]
    BY <2>1, <1>0 DEF TypeOK
  <2>5. \A e \in {d} : DueFits(e)'
    BY <2>1, <2>3 DEF DueFits
  <2>6. ASSUME NEW e \in Held PROVE e.cnct # x
    <3>1. QueuedAt(x) = {} /\ CarriedBy(x) = {}
      BY <2>1, <1>0 DEF IInv, Story, Nowhere
    <3>. QED  BY <3>1, <2>6 DEF Held, QueuedAt, CarriedBy
  <2>7. ASSUME NEW e \in Held PROVE DueFits(e)'
    <3>1. e.cnct \in Conns /\ e.cnct # x /\ DueFits(e)
      BY <2>6, <2>7, <1>h, <1>0, EntryFacts DEF EntriesFit
    <3>. QED  BY <3>1, <2>1, <2>4 DEF DueFits, Present
  <2>8. pc'[Ticker] = "find" => DueFits(lp)'
    <3>1. ASSUME pc[Ticker] = "find" PROVE lp.cnct \in Conns /\ lp.cnct # x /\ DueFits(lp)
      BY <3>1, <2>1, <1>h, <1>0, EntryFacts DEF EntriesFit, HandsFit
    <3>. QED  BY <3>1, <2>1, <2>3, <2>4 DEF DueFits, Present
  <2> HIDE DEF d
  <2>9. \A e \in Held' : DueFits(e)'
    BY <2>2, <2>5, <2>7
  <2>. QED  BY <2>8, <2>9 DEF EntriesFit
<1>3. ASSUME NEW u \in Users, PushLink(u) \/ PushEnd(u) PROVE EntriesFit'
  <2>1. Held' \subseteq Held
    BY <1>3, <1>0, HeldMoves DEF PushLink, PushEnd
  <2>2. pc'[Ticker] = pc[Ticker] /\ UNCHANGED <<lp, fate, reg, due>>
    BY <1>3, <1>0 DEF PushLink, PushEnd, End, Goto, ghosts, TypeOK
  <2>. QED  BY <2>1, <2>2, <1>k DEF Present
<1>4. ASSUME NEW u \in Users, AdjustEnd(u) PROVE EntriesFit'
  <2> DEFINE c == conn[u]
  <2>1. /\ c \in Conns /\ AdjustFits(u) /\ expire[u] \in Dates
        /\ pc[u] \in {"return", "update", "insert"}
        /\ due' = [due EXCEPT ![c] = expire[u]] /\ UNCHANGED <<content, call, fate, lp>>
        /\ pc'[Ticker] = pc[Ticker]
    BY <1>4, <1>0 DEF AdjustEnd, End, Goto, jq, AdjustsFit, TypeOK
  <2>2. /\ DOMAIN reg \subseteq DOMAIN reg' /\ DOMAIN reg' \subseteq DOMAIN reg \cup {c}
        /\ pc[u] = "insert" => c \in DOMAIN reg'
    <3>1. CASE End(u, "return") /\ UNCHANGED reg
      BY <3>1 DEF End, Goto
    <3>2. CASE End(u, "update") /\ Update(c, expire[u])
      BY <3>2, <2>1, <1>0, UpdateMoves DEF End, Goto
    <3>3. CASE End(u, "insert") /\ Insert(c, expire[u])
      <4>1. DOMAIN reg' = DOMAIN reg \cup {c}
        BY <3>3, <2>1, <1>0, InsertMoves
      <4>. QED  BY <4>1
    <3>. QED  BY <1>4, <3>1, <3>2, <3>3 DEF AdjustEnd
  <2>3. ASSUME NEW k \in Conns, fate'[k] = "managed", ~Present(k)'
        PROVE  fate[k] = "managed" /\ ~Present(k) /\ due'[k] = due[k]
    <3>1. k # c
      BY <2>1, <2>2, <2>3 DEF AdjustFits, Present
    <3>. QED  BY <3>1, <2>1, <2>2, <2>3, <1>0 DEF Present, TypeOK
  <2>. QED  BY <2>1, <2>3, <1>j, <1>k
<1>5. ASSUME NEW u \in Users, NEW x \in Conns, InvalidCall(u, x) PROVE EntriesFit'
  <2>1. UNCHANGED <<content, call, pc, lp, fate, due>> /\ DOMAIN reg \subseteq DOMAIN reg'
    BY <1>5, <1>0, InsertMoves DEF InvalidCall, jq
  <2>. QED  BY <2>1, <1>j, <1>k DEF Present
<1>6. ASSUME NEW u \in Users, NEW x \in Conns, AdjustFind(u, x) PROVE EntriesFit'
  <2>1. UNCHANGED <<content, call, lp, fate, reg, due>> /\ pc'[Ticker] = pc[Ticker]
    BY <1>6, <1>0 DEF AdjustFind, Begin, Goto, jq, ghosts, TypeOK
  <2>. QED  BY <2>1, <1>j, <1>k DEF Present
<1>7. CASE Fire \/ PopGoesOn \/ NothingLeft \/ KeepLink \/ Keep
  <2>1. Held' \subseteq Held
    BY <1>7, <1>0, HeldMoves DEF Fire, PopGoesOn, NothingLeft, KeepLink, Keep
  <2>2. UNCHANGED <<fate, reg, due>> /\ pc'[Ticker] # "find"
    BY <1>7, <1>t DEF Fire, PopGoesOn, NothingLeft, KeepLink, Keep, Goto, ghosts
  <2>. QED  BY <2>1, <2>2, <1>k DEF Present
<1>8. CASE Popped
  <2>1. /\ call[Ticker].op = "done" /\ lp' = call[Ticker].item /\ Held' \subseteq Held
        /\ UNCHANGED <<fate, reg, due>>
    BY <1>8, <1>0, HeldMoves DEF Popped, Q!Return, Q!Becomes
  <2>2. lp' \in Held
    BY <2>1, <1>0, QueueFacts, EntryFacts DEF Held
  <2>3. \A e \in Held : DueFits(e)'
    BY <2>1, <1>0 DEF EntriesFit, DueFits, Present
  <2>4. DueFits(lp)'
    BY <2>1, <2>2, <1>0 DEF EntriesFit, DueFits, Present
  <2>. QED  BY <2>1, <2>3, <2>4 DEF EntriesFit
<1>9. CASE FindNone
  <2>1. pc[Ticker] = "find" /\ UNCHANGED <<lp, fate, reg, due>> /\ DueFits(lp)
    BY <1>9, <1>0 DEF FindNone, ghosts, EntriesFit
  <2>2. Held' \subseteq Held \cup {lp} /\ pc'[Ticker] # "find"
    <3>1. CASE Late
      BY <1>9, <3>1, <1>j, <1>t DEF FindNone, Goto, jq
    <3>2. CASE ~Late
      BY <1>9, <3>2, <1>t, <1>0, HeldMoves DEF FindNone, Goto
    <3>. QED  BY <3>1, <3>2
  <2>3. \A e \in Held \cup {lp} : DueFits(e)'
    BY <2>1, <1>0 DEF EntriesFit, DueFits, Present
  <2>. QED  BY <2>2, <2>3 DEF EntriesFit
<1>10. CASE FindSome \/ Alarm
  <2>1. UNCHANGED <<content, call, lp, fate, reg, due>> /\ pc'[Ticker] # "find"
    BY <1>10, <1>t DEF FindSome, Alarm, Goto, jq, ghosts
  <2>. QED  BY <2>1, <1>j, <1>k DEF Present
<1>11. CASE Read
  <2> DEFINE d == [lp EXCEPT !.expire = reg[lp.cnct]]
  <2>1. /\ pc[Ticker] = "read" /\ UNCHANGED <<fate, reg, due>> /\ lp \in Entries
        /\ Present(lp.cnct) /\ reg[lp.cnct] \in Times
    BY <1>11, <1>0 DEF Read, ghosts, HandsFit
  <2>2. d.cnct = lp.cnct
    BY <2>1, NewDeadline
  <2>3. Held' \subseteq Held \cup {d} /\ pc'[Ticker] # "find"
    <3>1. CASE d.expire < cur
      <4>1. pc' = [pc EXCEPT ![Ticker] = "callDel"] /\ UNCHANGED <<content, call>>
        BY <1>11, <3>1 DEF Read, Goto, jq
      <4>. QED  BY <4>1, <1>j, <1>t
    <3>2. CASE ~(d.expire < cur)
      <4>1. pc' = [pc EXCEPT ![Ticker] = "keep"] /\ Q!Push(Ticker, "push_back", d)
        BY <1>11, <3>2 DEF Read, Goto
      <4> HIDE DEF d
      <4>. QED  BY <4>1, <1>t, <1>0, HeldMoves
    <3>. QED  BY <3>1, <3>2
  <2> HIDE DEF d
  <2>4. \A e \in {d} : DueFits(e)'
    BY <2>1, <2>2 DEF DueFits, Present
  <2>5. \A e \in Held : DueFits(e)'
    BY <2>1, <1>0 DEF EntriesFit, DueFits, Present
  <2>. QED  BY <2>3, <2>4, <2>5 DEF EntriesFit
<1>12. CASE CallBack \/ CallBackReg
  <2>1. Held' \subseteq Held
    BY <1>12, <1>0, <1>j, HeldMoves DEF CallBack, CallBackReg, jq
  <2>2. UNCHANGED <<reg, due>> /\ pc'[Ticker] # "find"
    BY <1>12, <1>t DEF CallBack, CallBackReg, Goto, ghosts
  <2>3. \A c \in Conns : fate'[c] = "managed" => fate[c] = "managed"
    BY <1>12, <1>0 DEF CallBack, CallBackReg, TypeOK
  <2>. QED  BY <2>1, <2>2, <2>3, <1>k DEF Present
<1>13. CASE Drop
  <2>1. Held' \subseteq Held
    BY <1>13, <1>0, HeldMoves DEF Drop
  <2>2. due' = due /\ pc'[Ticker] # "find" /\ DOMAIN reg' = DOMAIN reg \ {lp.cnct}
    BY <1>13, <1>t, <1>0, DelMoves DEF Drop, Goto
  <2>3. lp.cnct \in Conns /\ fate[lp.cnct] \in {"managed", "called"}
    BY <1>13, <1>0, EntryFacts DEF Drop, Goto, HandsFit
  <2>4. \A c \in Conns : fate'[c] = "managed" => fate[c] = "managed" /\ c # lp.cnct
    BY <1>13, <2>3, <1>0 DEF Drop, TypeOK
  <2>. QED  BY <2>1, <2>2, <2>4, <1>k DEF Present
<1>. QED
  BY <1>1, <1>2, <1>3, <1>4, <1>5, <1>6, <1>7, <1>8, <1>9, <1>10, <1>11, <1>12, <1>13
     DEF Next, Tick, UserGoesOn, TInv

\* A record that is a time keeps up with the deadlines.
LEMMA RecordsFitSteps ==
    ASSUME IsFiniteSet(Users), TInv, [Next]_vars
    PROVE  RecordsFit'
<1>0. /\ RecordsFit /\ AdjustsFit
      /\ TypeOK /\ HandsFit
      /\ reg \in [DOMAIN reg -> Dates] /\ Times \subseteq Dates /\ Invalid \in Dates
      /\ Times \subseteq Int /\ Deadline \in Int /\ Deadline <= Deadline' /\ Deadline' \in Int
      /\ \A u \in Users : pc[u] # "idle" => conn[u] \in Conns
  BY InvariantFacts DEF TInv
<1> SUFFICES ASSUME NEW c \in Conns
             PROVE  /\ due'[c] <= Deadline'
                    /\ fate'[c] = "new" => ~Present(c)'
                    /\ fate'[c] = "managed" /\ Present(c)' /\ reg'[c] # Invalid
                          => reg'[c] = due'[c]
  BY DEF RecordsFit
<1>r. /\ due[c] \in Int /\ due[c] <= Deadline
      /\ fate[c] = "new" => ~Present(c)
      /\ fate[c] = "managed" /\ Present(c) /\ reg[c] # Invalid => reg[c] = due[c]
  BY <1>0 DEF RecordsFit, TypeOK
<1>k. ASSUME due'[c] = due[c], fate'[c] = fate[c], reg' = reg
      PROVE  /\ due'[c] <= Deadline'
             /\ fate'[c] = "new" => ~Present(c)'
             /\ fate'[c] = "managed" /\ Present(c)' /\ reg'[c] # Invalid => reg'[c] = due'[c]
  BY <1>k, <1>r, <1>0 DEF Present
<1>1. CASE \/ UNCHANGED vars \/ Clock \/ Fire \/ PopGoesOn \/ Popped \/ NothingLeft \/ FindNone
           \/ FindSome \/ Read \/ KeepLink \/ Keep \/ Alarm
           \/ \E u \in Users : \/ PushLink(u) \/ PushEnd(u)
                               \/ \E x \in Conns : AdjustFind(u, x)
  <2>1. UNCHANGED <<due, fate, reg>>
    BY <1>1 DEF vars, Clock, Fire, PopGoesOn, Popped, NothingLeft, FindNone, FindSome, Read,
       KeepLink, Keep, Alarm, PushLink, PushEnd, AdjustFind, ghosts
  <2>. QED  BY <2>1, <1>k
<1>2. ASSUME NEW u \in Users, NEW x \in Conns, PushStart(u, x)
      PROVE  /\ due'[c] <= Deadline'
             /\ fate'[c] = "new" => ~Present(c)'
             /\ fate'[c] = "managed" /\ Present(c)' /\ reg'[c] # Invalid => reg'[c] = due'[c]
  <2>1. /\ fate[x] = "new" /\ fate' = [fate EXCEPT ![x] = "managed"]
        /\ due' = [due EXCEPT ![x] = Deadline] /\ reg' = reg
    BY <1>2 DEF PushStart
  <2>2. CASE c = x
    <3>1. due'[c] = Deadline /\ fate'[c] = "managed" /\ ~Present(c)'
      BY <2>1, <2>2, <1>r, <1>0 DEF TypeOK, Present
    <3>. QED  BY <3>1, <1>0
  <2>3. CASE c # x
    BY <2>1, <2>3, <1>k, <1>0 DEF TypeOK
  <2>. QED  BY <2>2, <2>3
<1>3. ASSUME NEW u \in Users, AdjustEnd(u)
      PROVE  /\ due'[c] <= Deadline'
             /\ fate'[c] = "new" => ~Present(c)'
             /\ fate'[c] = "managed" /\ Present(c)' /\ reg'[c] # Invalid => reg'[c] = due'[c]
  <2> DEFINE x == conn[u]
  <2>1. /\ x \in Conns /\ AdjustFits(u) /\ expire[u] \in Dates /\ expire[u] \in Int
        /\ due' = [due EXCEPT ![x] = expire[u]] /\ fate' = fate
    BY <1>3, <1>0 DEF AdjustEnd, End, Goto, AdjustsFit, TypeOK
  <2>2. CASE c = x
    <3>1. due'[c] = expire[u] /\ due'[c] <= Deadline' /\ fate'[c] # "new"
      BY <2>1, <2>2, <1>0 DEF AdjustFits, TypeOK
    <3>2. CASE End(u, "return") /\ UNCHANGED reg
      BY <3>1, <3>2, <2>1, <2>2 DEF AdjustFits, End, Goto
    <3>3. CASE End(u, "update") /\ Update(x, expire[u])
      <4>1. DOMAIN reg' = DOMAIN reg /\ (x \in DOMAIN reg => reg'[x] = expire[u])
        BY <3>3, <2>1, <1>0, UpdateMoves
      <4>. QED  BY <4>1, <3>1, <2>2 DEF Present
    <3>4. CASE End(u, "insert") /\ Insert(x, expire[u])
      <4>1. ~Present(x) => reg'[x] = expire[u]
        BY <3>4, <2>1, <1>0, InsertMoves
      <4>2. fate[x] = "managed" => ~Present(x)
        BY <3>4, <2>1 DEF AdjustFits, End, Goto
      <4>. QED  BY <4>1, <4>2, <3>1, <2>1, <2>2
    <3>. QED  BY <1>3, <3>2, <3>3, <3>4 DEF AdjustEnd
  <2>3. CASE c # x
    <3>1. due'[c] = due[c] /\ fate'[c] = fate[c]
      BY <2>1, <2>3, <1>0 DEF TypeOK
    <3>2. Present(c)' = Present(c) /\ (Present(c) => reg'[c] = reg[c])
      <4>1. CASE UNCHANGED reg
        BY <4>1 DEF Present
      <4>2. CASE Update(x, expire[u])
        <5>1. DOMAIN reg' = DOMAIN reg /\ \A k \in DOMAIN reg : k # x => reg'[k] = reg[k]
          BY <4>2, <2>1, <1>0, UpdateMoves
        <5>. QED  BY <5>1, <2>3 DEF Present
      <4>3. CASE Insert(x, expire[u])
        <5>1. DOMAIN reg' = DOMAIN reg \cup {x} /\ \A k \in DOMAIN reg : reg'[k] = reg[k]
          BY <4>3, <2>1, <1>0, InsertMoves
        <5>. QED  BY <5>1, <2>3 DEF Present
      <4>. QED  BY <1>3, <4>1, <4>2, <4>3 DEF AdjustEnd
    <3>. QED  BY <3>1, <3>2, <1>r, <1>0
  <2>. QED  BY <2>2, <2>3
<1>4. ASSUME NEW u \in Users, NEW x \in Conns, InvalidCall(u, x)
      PROVE  /\ due'[c] <= Deadline'
             /\ fate'[c] = "new" => ~Present(c)'
             /\ fate'[c] = "managed" /\ Present(c)' /\ reg'[c] # Invalid => reg'[c] = due'[c]
  <2>1. /\ fate[x] = "managed" /\ UNCHANGED <<fate, due>>
        /\ DOMAIN reg' = DOMAIN reg \cup {x} /\ \A k \in DOMAIN reg : reg'[k] = reg[k]
        /\ ~Present(x) => reg'[x] = Invalid
    BY <1>4, <1>0, InsertMoves DEF InvalidCall
  <2>. QED  BY <2>1, <1>r, <1>0 DEF Present
<1>5. CASE CallBack \/ CallBackReg
  <2>1. UNCHANGED <<due, reg>> /\ fate'[c] \in {fate[c], "called"}
    BY <1>5, <1>0 DEF CallBack, CallBackReg, ghosts, TypeOK
  <2>. QED  BY <2>1, <1>r, <1>0 DEF Present
<1>6. CASE Drop
  <2>1. /\ due' = due /\ fate'[c] \in {fate[c], "called", "dropped"}
        /\ DOMAIN reg' = DOMAIN reg \ {lp.cnct} /\ \A k \in DOMAIN reg' : reg'[k] = reg[k]
    BY <1>6, <1>0, DelMoves DEF Drop, TypeOK
  <2>. QED  BY <2>1, <1>r, <1>0 DEF Present
<1>. QED
  BY <1>1, <1>2, <1>3, <1>4, <1>5, <1>6 DEF Next, Tick, UserGoesOn

\* No two users are at one connection, so that nobody but tick() changes the record
\* that an adjust() has found.
LEMMA AdjustsFitSteps ==
    ASSUME IsFiniteSet(Users), TInv, [Next]_vars
    PROVE  AdjustsFit'
<1>0. /\ AdjustsFit /\ RecordsFit
      /\ TypeOK /\ HandsFit /\ Ticker \notin Users /\ Users \subseteq Threads /\ Ticker \in Threads
      /\ reg \in [DOMAIN reg -> Dates] /\ Times \subseteq Dates /\ Invalid \in Dates
      /\ Times \subseteq Int /\ Deadline \in Int /\ Deadline <= Deadline' /\ Deadline' \in Int
      /\ \A u \in Users : pc[u] # "idle" => conn[u] \in Conns
      /\ conn \in [Users -> Conns \cup {Nothing}] /\ expire \in [Users -> Times]
      /\ due \in [Conns -> Times] /\ Nothing \notin Conns
  BY InvariantFacts, NothingAssumption DEF TInv, TypeOK
<1>v. \A v \in Users : AdjustFits(v) /\ conn[v] \in Conns =>
         /\ due[conn[v]] \in Int /\ expire[v] \in Int
         /\ due[conn[v]] <= expire[v] /\ expire[v] <= Deadline'
  BY <1>0 DEF AdjustFits
\* what the step leaves to a user v that it is not a step of
<1>k. ASSUME NEW v \in Users, pc[v] \in {"return", "update", "insert"},
             UNCHANGED <<conn[v], pc[v], expire[v]>>, due'[conn[v]] = due[conn[v]],
             fate[conn[v]] # "new" => fate'[conn[v]] # "new",
             fate'[conn[v]] = "managed" =>
                /\ fate[conn[v]] = "managed" /\ Present(conn[v])' = Present(conn[v])
                /\ Present(conn[v]) => reg'[conn[v]] = reg[conn[v]]
      PROVE  AdjustFits(v)'
  <2>1. AdjustFits(v) /\ conn[v] \in Conns
    BY <1>k, <1>0 DEF AdjustsFit
  <2>. QED  BY <1>k, <2>1, <1>v, <1>0 DEF AdjustFits
\* a step of tick(), or of nobody
<1>n. ASSUME UNCHANGED <<conn, expire, due>>, \A v \in Users : pc'[v] = pc[v],
             \A c \in Conns :
                /\ fate[c] # "new" => fate'[c] # "new"
                /\ fate'[c] = "managed" => /\ fate[c] = "managed" /\ Present(c)' = Present(c)
                                           /\ Present(c) => reg'[c] = reg[c]
      PROVE  AdjustsFit'
  <2>1. ASSUME NEW v \in Users, pc'[v] \in {"return", "update", "insert"} PROVE AdjustFits(v)'
    <3>1. conn[v] \in Conns
      BY <1>n, <2>1, <1>0
    <3>. QED  BY <1>n, <2>1, <3>1, <1>k
  <2>. QED  BY <1>n, <2>1, <1>0 DEF AdjustsFit
<1>1. CASE \/ UNCHANGED vars \/ Clock \/ Fire \/ PopGoesOn \/ Popped \/ NothingLeft \/ FindNone
           \/ FindSome \/ Read \/ KeepLink \/ Keep \/ Alarm
  <2>1. UNCHANGED <<conn, expire, due, fate, reg>>
    BY <1>1 DEF vars, Clock, Fire, PopGoesOn, Popped, NothingLeft, FindNone, FindSome, Read,
       KeepLink, Keep, Alarm, ghosts
  <2>2. \A v \in Users : pc'[v] = pc[v]
    BY <1>1, <1>0 DEF vars, Clock, Fire, PopGoesOn, Popped, NothingLeft, FindNone, FindSome, Read,
       KeepLink, Keep, Alarm, Goto, TypeOK
  <2>. QED  BY <2>1, <2>2, <1>n DEF Present
<1>2. CASE CallBack \/ CallBackReg
  <2>1. UNCHANGED <<conn, expire, due, reg>> /\ (\A v \in Users : pc'[v] = pc[v])
    BY <1>2, <1>0 DEF CallBack, CallBackReg, Goto, ghosts, TypeOK
  <2>2. \A c \in Conns : fate'[c] \in {fate[c], "called"}
    BY <1>2, <1>0 DEF CallBack, CallBackReg, TypeOK
  <2>. QED  BY <2>1, <2>2, <1>n DEF Present
<1>3. CASE Drop
  <2>1. /\ UNCHANGED <<conn, expire, due>> /\ (\A v \in Users : pc'[v] = pc[v])
        /\ DOMAIN reg' = DOMAIN reg \ {lp.cnct} /\ \A k \in DOMAIN reg' : reg'[k] = reg[k]
    BY <1>3, <1>0, DelMoves DEF Drop, Goto, TypeOK
  <2>2. lp.cnct \in Conns /\ fate[lp.cnct] \in {"managed", "called"}
    BY <1>3, <1>0, EntryFacts DEF Drop, Goto, HandsFit
  <2>3. \A c \in Conns : IF c = lp.cnct THEN fate'[c] \in {"called", "dropped"}
                         ELSE fate'[c] = fate[c]
    BY <1>3, <2>2, <1>0 DEF Drop, TypeOK
  <2>4. \A c \in Conns : c # lp.cnct =>
           Present(c)' = Present(c) /\ (Present(c) => reg'[c] = reg[c])
    BY <2>1 DEF Present
  <2>. QED  BY <2>1, <2>3, <2>4, <1>n
<1>4. ASSUME NEW u \in Users, NEW x \in Conns, InvalidCall(u, x) PROVE AdjustsFit'
  <2>1. /\ UNCHANGED <<conn, pc, expire, fate, due>> /\ \A v \in Users : conn[v] # x
        /\ DOMAIN reg' = DOMAIN reg \cup {x} /\ \A k \in DOMAIN reg : reg'[k] = reg[k]
    BY <1>4, <1>0, InsertMoves DEF InvalidCall
  <2>2. ASSUME NEW v \in Users, pc'[v] \in {"return", "update", "insert"} PROVE AdjustFits(v)'
    <3>1. /\ Present(conn[v])' = Present(conn[v])
          /\ Present(conn[v]) => reg'[conn[v]] = reg[conn[v]]
      BY <2>1 DEF Present
    <3>. QED  BY <2>1, <2>2, <3>1, <1>k
  <2>. QED  BY <2>1, <2>2, <1>0 DEF AdjustsFit
\* a call of a user that begins
<1>b. ASSUME NEW u \in Users, NEW x \in Conns, NEW to, Begin(u, x, to), reg' = reg,
             \A v \in Users : v # u => expire'[v] = expire[v],
             \A c \in Conns : c # x => due'[c] = due[c] /\ fate'[c] = fate[c],
             to \in {"return", "update", "insert"} => AdjustFits(u)'
      PROVE  AdjustsFit'
  <2>1. /\ \A v \in Users : conn[v] # x
        /\ conn'[u] = x /\ \A v \in Users : v # u => UNCHANGED <<conn[v], pc[v]>>
        /\ pc'[u] = to
    BY <1>b, <1>0 DEF Begin, Goto, TypeOK
  <2>2. ASSUME NEW v \in Users, pc'[v] \in {"return", "update", "insert"} PROVE AdjustFits(v)'
    <3>1. CASE v = u
      BY <3>1, <2>1, <2>2, <1>b
    <3>2. CASE v # u
      <4>1. conn[v] \in Conns /\ conn[v] # x /\ pc[v] \in {"return", "update", "insert"}
        BY <3>2, <2>1, <2>2, <1>0
      <4>. QED  BY <4>1, <3>2, <2>1, <1>b, <1>k DEF Present
    <3>. QED  BY <3>1, <3>2
  <2>3. \A v, w \in Users : conn'[v] = conn'[w] /\ conn'[v] # Nothing => v = w
    BY <2>1, <1>0 DEF AdjustsFit
  <2>. QED  BY <2>2, <2>3 DEF AdjustsFit
<1>5. ASSUME NEW u \in Users, NEW x \in Conns, PushStart(u, x) PROVE AdjustsFit'
  <2>1. \A c \in Conns : c # x => due'[c] = due[c] /\ fate'[c] = fate[c]
    BY <1>5, <1>0 DEF PushStart, TypeOK
  <2>. QED  BY <1>5, <2>1, <1>b DEF PushStart
<1>6. ASSUME NEW u \in Users, NEW x \in Conns, AdjustFind(u, x) PROVE AdjustsFit'
  <2>1. /\ fate[x] = "managed" /\ UNCHANGED <<reg, fate, due, now>>
        /\ expire' = [expire EXCEPT ![u] = Deadline]
    BY <1>6 DEF AdjustFind, ghosts
  <2>2. PICK to : /\ Begin(u, x, to)
                  /\ to = "insert" => ~Present(x)
                  /\ to = "update" => Present(x) /\ reg[x] # Invalid
                  /\ to = "return" => Present(x) /\ reg[x] = Invalid
    BY <1>6 DEF AdjustFind
  <2>3. conn'[u] = x /\ expire'[u] = Deadline /\ pc'[u] = to
    BY <2>1, <2>2, <1>0 DEF Begin, Goto, TypeOK
  <2>4. due[x] <= Deadline /\ Deadline' = Deadline
    BY <2>1, <1>0 DEF RecordsFit, Deadline
  <2>5. AdjustFits(u)'
    BY <2>1, <2>2, <2>3, <2>4, <1>0 DEF AdjustFits, Present
  <2>6. \A v \in Users : v # u => expire'[v] = expire[v]
    BY <2>1, <1>0
  <2>. QED  BY <2>1, <2>2, <2>5, <2>6, <1>b
\* a call of a user that ends
<1>e. ASSUME NEW u \in Users, NEW from, End(u, from), pc[u] # "idle", fate' = fate,
             \A c \in Conns : c # conn[u] =>
                /\ due'[c] = due[c] /\ Present(c)' = Present(c)
                /\ Present(c) => reg'[c] = reg[c]
      PROVE  AdjustsFit'
  <2>1. /\ conn'[u] = Nothing /\ pc'[u] = "idle" /\ conn[u] \in Conns
        /\ \A v \in Users : v # u => UNCHANGED <<conn[v], pc[v], expire[v]>>
    BY <1>e, <1>0 DEF End, Goto, TypeOK
  <2>2. ASSUME NEW v \in Users, pc'[v] \in {"return", "update", "insert"} PROVE AdjustFits(v)'
    <3>1. v # u /\ pc[v] \in {"return", "update", "insert"} /\ conn[v] \in Conns
      BY <2>1, <2>2, <1>0
    <3>2. conn[v] # conn[u]
      BY <3>1, <2>1, <1>0 DEF AdjustsFit
    <3>. QED  BY <3>1, <3>2, <2>1, <1>e, <1>k
  <2>3. \A v, w \in Users : conn'[v] = conn'[w] /\ conn'[v] # Nothing => v = w
    BY <2>1, <1>0 DEF AdjustsFit
  <2>. QED  BY <2>2, <2>3 DEF AdjustsFit
<1>7. ASSUME NEW u \in Users, PushLink(u) PROVE AdjustsFit'
  BY <1>7, <1>n DEF PushLink, ghosts, Present
<1>8. ASSUME NEW u \in Users, PushEnd(u) PROVE AdjustsFit'
  <2>1. End(u, "push") /\ pc[u] # "idle" /\ UNCHANGED <<reg, fate, due>>
    BY <1>8 DEF PushEnd, End, Goto, ghosts
  <2>. QED  BY <2>1, <1>e DEF Present
<1>9. ASSUME NEW u \in Users, AdjustEnd(u) PROVE AdjustsFit'
  <2> DEFINE x == conn[u]
  <2>1. PICK from \in {"return", "update", "insert"} : End(u, from)
    BY <1>9 DEF AdjustEnd
  <2>2. pc[u] # "idle" /\ x \in Conns /\ expire[u] \in Dates
    BY <2>1, <1>0 DEF End, Goto
  <2>3. fate' = fate /\ due' = [due EXCEPT ![x] = expire[u]]
    BY <1>9 DEF AdjustEnd
  <2>4. \A c \in Conns : c # x => Present(c)' = Present(c) /\ (Present(c) => reg'[c] = reg[c])
    <3>1. CASE UNCHANGED reg
      BY <3>1 DEF Present
    <3>2. CASE Update(x, expire[u])
      <4>1. DOMAIN reg' = DOMAIN reg /\ \A k \in DOMAIN reg : k # x => reg'[k] = reg[k]
        BY <3>2, <2>2, <1>0, UpdateMoves
      <4>. QED  BY <4>1 DEF Present
    <3>3. CASE Insert(x, expire[u])
      <4>1. DOMAIN reg' = DOMAIN reg \cup {x} /\ \A k \in DOMAIN reg : reg'[k] = reg[k]
        BY <3>3, <2>2, <1>0, InsertMoves
      <4>. QED  BY <4>1 DEF Present
    <3>. QED  BY <1>9, <3>1, <3>2, <3>3 DEF AdjustEnd
  <2>5. \A c \in Conns : c # x => due'[c] = due[c]
    BY <2>2, <2>3, <1>0
  <2>. QED  BY <2>1, <2>2, <2>3, <2>4, <2>5, <1>e
<1>. QED
  BY <1>1, <1>2, <1>3, <1>4, <1>5, <1>6, <1>7, <1>8, <1>9 DEF Next, Tick, UserGoesOn

\* tick() acts on a deadline that it has read after it had the entry.
LEMMA KnownFitsSteps ==
    ASSUME IsFiniteSet(Users), TInv, [Next]_vars
    PROVE  KnownFits'
<1>0. /\ KnownFits /\ EntriesFit /\ RecordsFit /\ AdjustsFit
      /\ TypeOK /\ HandsFit /\ TypeOK' /\ HandsFit'
      /\ Ticker \notin Users /\ Users \subseteq Threads /\ Ticker \in Threads
      /\ Times \subseteq Int /\ Deadline \in Int
      /\ due \in [Conns -> Times] /\ due' \in [Conns -> Times]
      /\ known.due \in Int /\ cur \in Int
      /\ \A u \in Users : pc[u] # "idle" => conn[u] \in Conns
  BY InvariantFacts DEF TInv, TypeOK
<1>t. \A to : pc' = [pc EXCEPT ![Ticker] = to] => pc'[Ticker] = to
  BY <1>0 DEF TypeOK
<1>h. pc[Ticker] \in {"find", "read", "call", "callDel"} =>
         lp \in Entries /\ lp.cnct \in Conns /\ fate[lp.cnct] = "managed"
  BY <1>0, EntryFacts DEF HandsFit
<1>k. ASSUME UNCHANGED <<pc[Ticker], lp, known, cur>>, \A c \in Conns : due[c] <= due'[c]
      PROVE  KnownFits'
  <2>1. ASSUME pc[Ticker] \in {"find", "read"} PROVE known.due <= due'[lp.cnct]
    <3>1. lp.cnct \in Conns /\ known.due <= due[lp.cnct]
      BY <2>1, <1>h, <1>0 DEF KnownFits
    <3>2. due[lp.cnct] <= due'[lp.cnct] /\ due[lp.cnct] \in Int /\ due'[lp.cnct] \in Int
      BY <3>1, <1>k, <1>0
    <3>. QED  BY <3>1, <3>2, <1>0
  <2>. QED  BY <2>1, <1>k, <1>0 DEF KnownFits
<1>d. \A c \in Conns : due[c] \in Int /\ due'[c] \in Int
  BY <1>0
<1>s. due' = due => \A c \in Conns : due[c] <= due'[c]
  BY <1>d
<1>1. CASE UNCHANGED vars \/ Clock
  BY <1>1, <1>k, <1>s DEF vars, ghosts, Clock
<1>2. ASSUME NEW u \in Users, NEW x \in Conns, PushStart(u, x) PROVE KnownFits'
  <2>1. UNCHANGED <<pc[Ticker], lp, known, cur>>
    BY <1>2, <1>0 DEF PushStart, Begin, Goto, TypeOK
  <2>2. \A c \in Conns : due'[c] = IF c = x THEN Deadline ELSE due[c]
    BY <1>2, <1>0 DEF PushStart
  <2>3. \A c \in Conns : due[c] <= due'[c]
    BY <2>2, <1>d, <1>0 DEF RecordsFit
  <2>. QED  BY <2>1, <2>3, <1>k
<1>3. ASSUME NEW u \in Users, \/ PushLink(u) \/ PushEnd(u)
                              \/ \E x \in Conns : InvalidCall(u, x) \/ AdjustFind(u, x)
      PROVE  KnownFits'
  <2>1. UNCHANGED <<pc[Ticker], lp, known, cur, due>>
    BY <1>3, <1>0 DEF PushLink, PushEnd, InvalidCall, AdjustFind, Begin, End, Goto, ghosts, TypeOK
  <2>. QED  BY <2>1, <1>k, <1>s
<1>4. ASSUME NEW u \in Users, AdjustEnd(u) PROVE KnownFits'
  <2>1. /\ UNCHANGED <<pc[Ticker], lp, known, cur>> /\ conn[u] \in Conns /\ AdjustFits(u)
        /\ due' = [due EXCEPT ![conn[u]] = expire[u]]
    BY <1>4, <1>0 DEF AdjustEnd, End, Goto, AdjustsFit, TypeOK
  <2>2. \A c \in Conns : due'[c] = IF c = conn[u] THEN expire[u] ELSE due[c]
    BY <2>1, <1>0
  <2>3. \A c \in Conns : due[c] <= due'[c]
    BY <2>1, <2>2, <1>d DEF AdjustFits
  <2>. QED  BY <2>1, <2>3, <1>k
<1>5. CASE Fire \/ PopGoesOn \/ NothingLeft \/ CallBack \/ CallBackReg \/ Drop \/ KeepLink \/ Keep \/ Alarm
  <2>1. pc'[Ticker] \notin {"find", "read", "call", "callDel"}
    BY <1>5, <1>t DEF Fire, PopGoesOn, NothingLeft, CallBack, CallBackReg, Drop, KeepLink, Keep,
       Alarm, Goto
  <2>. QED  BY <2>1 DEF KnownFits
<1>6. CASE Popped
  <2>1. pc'[Ticker] = "find" /\ due' = due /\ known'.due = due[lp'.cnct]
    BY <1>6, <1>t DEF Popped, Goto
  <2>2. lp'.cnct \in Conns
    BY <2>1, <1>0, EntryFacts DEF HandsFit
  <2>3. due'[lp'.cnct] \in Int
    BY <2>2, <1>0
  <2>. QED  BY <2>1, <2>3 DEF KnownFits
<1>7. CASE FindNone
  <2>1. /\ pc[Ticker] = "find" /\ ~Present(lp.cnct) /\ UNCHANGED <<known, cur>>
    BY <1>7 DEF FindNone, ghosts
  <2>2. CASE Late
    <3>1. pc'[Ticker] = "call"
      BY <1>7, <2>2, <1>t DEF FindNone, Goto
    <3>2. known.due <= due[lp.cnct] /\ lp.expire = due[lp.cnct] /\ lp.expire < cur
      BY <2>1, <2>2, <1>h, <1>0 DEF KnownFits, EntriesFit, DueFits, Late
    <3>3. due[lp.cnct] \in Int
      BY <2>1, <1>h, <1>0
    <3>4. known.due < cur
      BY <3>2, <3>3, <1>0
    <3>. QED  BY <3>1, <3>4, <2>1 DEF KnownFits
  <2>3. CASE ~Late
    <3>1. pc'[Ticker] = "keep"
      BY <1>7, <2>3, <1>t DEF FindNone, Goto
    <3>. QED  BY <3>1 DEF KnownFits
  <2>. QED  BY <2>2, <2>3
<1>8. CASE FindSome
  <2>1. /\ pc[Ticker] = "find" /\ UNCHANGED <<lp, due, known>> /\ pc'[Ticker] \in {"drop", "read"}
    BY <1>8, <1>t DEF FindSome, Goto, ghosts
  <2>. QED  BY <2>1, <1>0 DEF KnownFits
<1>9. CASE Read
  <2> DEFINE e == [lp EXCEPT !.expire = reg[lp.cnct]]
  <2>1. /\ pc[Ticker] = "read" /\ UNCHANGED <<known, cur>> /\ lp \in Entries
        /\ Present(lp.cnct) /\ reg[lp.cnct] \in Times /\ reg[lp.cnct] # Invalid
    BY <1>9, <1>0 DEF Read, ghosts, HandsFit, Times, Invalid
  <2>2. e.expire = reg[lp.cnct]
    BY <2>1 DEF Entries
  <2>3. CASE e.expire < cur
    <3>1. pc'[Ticker] = "callDel"
      BY <1>9, <2>3, <1>t DEF Read, Goto
    <3>2. known.due <= due[lp.cnct] /\ reg[lp.cnct] = due[lp.cnct] /\ reg[lp.cnct] < cur
      BY <2>1, <2>2, <2>3, <1>h, <1>0 DEF KnownFits, RecordsFit
    <3>3. reg[lp.cnct] \in Int
      BY <2>1, <1>0
    <3> HIDE DEF e
    <3>4. known.due < cur
      BY <3>2, <3>3, <1>0
    <3>. QED  BY <3>1, <3>4, <2>1 DEF KnownFits
  <2>4. CASE ~(e.expire < cur)
    <3>1. pc'[Ticker] = "keep"
      BY <1>9, <2>4, <1>t DEF Read, Goto
    <3>. QED  BY <3>1 DEF KnownFits
  <2>. QED  BY <2>3, <2>4
<1>. QED
  BY <1>1, <1>2, <1>3, <1>4, <1>5, <1>6, <1>7, <1>8, <1>9 DEF Next, Tick, UserGoesOn

\* The deadlines of the entries and the records, and what adjust() and tick() know of
\* them, hold in every behaviour.
LEMMA Timing ==
    ASSUME IsFiniteSet(Users)
    PROVE  Spec => []TInv
<1>1. Init => TInv
  <2> SUFFICES ASSUME Init PROVE TInv
    OBVIOUS
  <2>1. IInv /\ Held = {}
    BY InitIInv, EmptySeq DEF Init, Q!Init, Q!Idle, Q!At, Held
  <2>2. Deadline \in Int /\ 0 <= Deadline
    BY SecsAssumption DEF Init, Deadline
  <2>3. RecordsFit
    BY <2>2 DEF Init, RecordsFit, Present
  <2>4. EntriesFit /\ AdjustsFit /\ KnownFits
    BY <2>1 DEF Init, EntriesFit, AdjustsFit, KnownFits, Threads
  <2>. QED  BY <2>1, <2>3, <2>4 DEF TInv
<1>2. TInv /\ [Next]_vars => TInv'
  BY StepIInv, EntriesFitSteps, RecordsFitSteps, AdjustsFitSteps, KnownFitsSteps DEF TInv
<1>. QED  BY <1>1, <1>2, PTL DEF Spec

\* For any finite set of users, any timeout and any times of the calls, no connection
\* is called back before the deadline that it had when tick() took it from the queue.
THEOREM Early ==
    ASSUME IsFiniteSet(Users)
    PROVE  Spec => NeverEarly
<1>1. ASSUME TInv, [Next]_vars, NEW c \in Conns, CalledBack(c) PROVE known.due < cur
  <2>1. /\ KnownFits /\ TypeOK /\ HandsFit
    BY <1>1 DEF TInv, IInv
  <2>2. CASE CallBack \/ CallBackReg
    BY <2>1, <2>2 DEF CallBack, CallBackReg, Goto, KnownFits
  <2>3. CASE Drop
    BY <2>1, <2>3, <1>1 DEF Drop, CalledBack, TypeOK
  <2>4. ASSUME NEW u \in Users, NEW x \in Conns, PushStart(u, x) PROVE FALSE
    BY <2>1, <2>4, <1>1 DEF PushStart, CalledBack, TypeOK
  <2>5. CASE UNCHANGED fate
    BY <2>5, <1>1 DEF CalledBack
  <2>. QED
    BY <1>1, <2>2, <2>3, <2>4, <2>5 DEF Next, Tick, UserGoesOn, vars, Clock, Fire, PopGoesOn, Popped,
       NothingLeft, FindNone, FindSome, Read, KeepLink, Keep, Alarm, PushLink, PushEnd,
       InvalidCall, AdjustFind, AdjustEnd
<1>2. TInv /\ [Next]_vars => [\A c \in Conns : CalledBack(c) => known.due < cur]_vars
  BY <1>1
<1>. QED  BY <1>2, Timing, PTL DEF Spec, NeverEarly

-----------------------------------------------------------------------------
(* JEpoll *)

(* The invariant *)

Phases == {"out", "here", "gone"}
Messages == [kind : {"accept", "data", "end", "del"}, fd : Fds, who : Peers]
Adds == {"insert", "client", "add", "tell"}
Deletes == {"delFind", "delCtl", "delClient", "delReg", "delClose"}

EpTypeOK ==
    /\ socket \in [Fds -> Peers \cup {LFD, None}]
    /\ backlog \in Seq(Peers)
    /\ peer \in [Peers -> [phase : Phases, inbox : Nat, closed : BOOLEAN]]
    /\ epset \subseteq Fds
    /\ sockfd_collector \in [Fds -> {None, SFD, LFD}]
    /\ clients \in Seq(Fds)
    /\ log \in Seq(Messages)
    /\ arg \in [EpThreads -> Fds \cup {0}]
    /\ events \in Seq(Fds)
    /\ ending \in BOOLEAN

\* One thread works at a time, and on a descriptor that is open: the collector
\* only while main is between two calls, the destructor only when no ep_wait() runs.
\* Nothing is ready before the listener has been added.
Schedule ==
    /\ place \in [EpThreads -> {"wait", "find", "accept", "recv", "idle", "destroy", "gone"}
                                    \cup Adds \cup Deletes]
    /\ place[Collector] \in {"wait", "find", "accept", "recv"} \cup Adds \cup Deletes
    /\ place[Main] \in {"insert", "add", "idle", "destroy", "gone"} \cup Deletes
    /\ place[Collector] # "wait" => place[Main] = "idle"
    /\ place[Main] \in {"insert", "add", "idle"} => ~ending
    /\ place[Main] \in {"destroy", "gone"} => ending
    /\ place[Main] = "gone" => \A f \in Fds : socket[f] = None
    /\ place[Main] \in {"insert", "add"} => arg[Main] = Listener /\ epset = {}
    /\ place[Main] \in Deletes => arg[Main] \in Fds /\ socket[arg[Main]] # None
    /\ place[Collector] \in {"recv"} \cup Adds \cup Deletes =>
          arg[Collector] \in Fds \ {Listener} /\ socket[arg[Collector]] # None
    /\ ~ending => socket[Listener] = LFD
    /\ ~ending /\ place[Main] \in Deletes => arg[Main] # Listener

\* A thread is working on descriptor f at one of these places.
Busy(f, places) == \E t \in EpThreads : place[t] \in places /\ arg[t] = f

Open == {f \in Fds : socket[f] # None}

\* The epoll set and the tables have the descriptors that are open, but for the
\* one that is being added or deleted.
Once(s) == \A i, j \in DOMAIN s : s[i] = s[j] => i = j
KindOf(f) == IF f = Listener THEN LFD ELSE SFD

Tables ==
    /\ \A f \in Fds : socket[f] \in {None} \cup (IF f = Listener THEN {LFD} ELSE Peers)
    /\ \A f \in Fds : f \in epset <=>
          f \in Open /\ ~Busy(f, {"insert", "client", "add", "delClient", "delReg", "delClose"})
    /\ \A f \in Fds : sockfd_collector[f] =
          IF f \in Open /\ ~Busy(f, {"insert", "delClose"}) THEN KindOf(f) ELSE None
    /\ \A f \in Fds : f \in ToSet(clients) <=>
          f \in Open \ {Listener} /\ ~Busy(f, {"insert", "client", "delReg", "delClose"})
    /\ Once(clients)

\* A connection waits to be accepted or has a descriptor, and only one.
Placed ==
    /\ \A i \in DOMAIN backlog : peer[backlog[i]].phase = "here" /\ \A f \in Fds : socket[f] # backlog[i]
    /\ Once(backlog)
    /\ \A f \in Fds : socket[f] \in Peers => peer[socket[f]].phase = "here"
    /\ \A f, g \in Fds : socket[f] = socket[g] /\ socket[f] \in Peers => f = g

\* The descriptors of the events that have not been looked at.
Rest == {events[i] : i \in {j \in DOMAIN events : j > 1 \/ place[Collector] = "find"}}

\* The events that have not been looked at are of open descriptors that are still
\* ready; one that is being deleted is closed at the other end and empty.
Batch ==
    /\ place[Collector] = "wait" <=> events = <<>>
    /\ Once(events)
    /\ \A f \in Rest : f \in epset /\ Readable(f)
    /\ place[Collector] = "accept" => events[1] = Listener /\ backlog # <<>>
    /\ place[Collector] \in {"recv"} \cup Deletes => events[1] = arg[Collector]
    /\ place[Collector] = "recv" => Readable(arg[Collector])
    /\ place[Collector] \in Deletes =>
          LET p == socket[arg[Collector]] IN peer[p].closed /\ peer[p].inbox = 0

\* The descriptor of a connection whose accept is still to be told or whose end
\* has been told.
Untold == IF place[Collector] \in Adds \cup Deletes THEN {arg[Collector]} ELSE {}

\* So long as the object lives, what the messages say a number means is so.
Told ==
    ~ending => \A f \in Fds :
        Means(f, Len(log)) = IF socket[f] \in Peers /\ f \notin Untold THEN socket[f] ELSE None

EpIInv == EpTypeOK /\ Schedule /\ Tables /\ Placed /\ Batch /\ Told /\ EachStoryWhole

-----------------------------------------------------------------------------
(* The messages *)

\* Some number of a set is the last.
LEMMA Greatest ==
    ASSUME NEW n \in Nat, NEW A \in SUBSET (1 .. n), A # {}
    PROVE  Max(A) \in A /\ \A y \in A : y <= Max(A)
<1> DEFINE R == OpToRel(<, Nat)
           T == {n - a : a \in A}
<1>1. IsWellFoundedOn(R, Nat)
  BY NatLessThanWellFounded
<1>2. \A x, y \in Nat : <<x, y>> \in R <=> x < y
  BY DEF OpToRel
<1>3. T \in SUBSET Nat /\ T # {}
  <2>1. \A a \in A : n - a \in Nat
    OBVIOUS
  <2>. QED
    BY <2>1
<1> HIDE DEF R
<1>4. PICK x \in T : \A y \in T : <<y, x>> \notin R
  BY <1>1, <1>3, WFMin
<1>5. PICK a \in A : x = n - a
  OBVIOUS
<1>6. ASSUME NEW y \in A PROVE y <= a
  <2>1. n - y \in T /\ <<n - y, x>> \notin R
    BY <1>4
  <2>2. ~ (n - y < n - a)
    BY <1>2, <1>3, <1>5, <2>1
  <2>. QED
    BY <2>2
<1>7. \E z \in A : \A y \in A : z >= y
  BY <1>6
<1>8. Max(A) \in A /\ \A y \in A : Max(A) >= y
  BY <1>7 DEF Max
<1>. QED
  BY <1>8

\* What the messages of s up to the n-th say a number means.
About(s, f, n) == {i \in 1 .. n : s[i].fd = f}
Meaning(s, last) == IF s[last].kind \in {"end", "del"} THEN None ELSE s[last].who

MeansMeaning ==
    \A f : \A n \in 0 .. Len(log) : LET A == About(log, f, n) IN
        /\ A = {} => Means(f, n) = None
        /\ A # {} => Means(f, n) = Meaning(log, Max(A)) /\ Max(A) \in 1 .. n

\* What Means() is, without its search from the end.
LEMMA MeansIs == log \in Seq(Messages) => MeansMeaning
<1> SUFFICES ASSUME log \in Seq(Messages), NEW f, NEW n \in 0 .. Len(log)
             PROVE  LET A == About(log, f, n) IN
                    /\ A = {} => Means(f, n) = None
                    /\ A # {} => Means(f, n) = Meaning(log, Max(A)) /\ Max(A) \in 1 .. n
  BY DEF MeansMeaning
<1> DEFINE A == About(log, f, n)
<1>1. SelectLastInSubSeq(log, 1, n, LAMBDA m : m.fd = f) = IF A # {} THEN Max(A) ELSE 0
  BY DEF SelectLastInSubSeq, About
<1>2. A # {} => Max(A) \in 1 .. n
  <2>1. n \in Nat /\ A \in SUBSET (1 .. n)
    BY DEF About
  <2> HIDE DEF A
  <2>. QED
    BY <2>1, Greatest
<1>3. Means(f, n) = LET last == IF A # {} THEN Max(A) ELSE 0 IN
                    IF last = 0 \/ log[last].kind \in {"end", "del"} THEN None ELSE log[last].who
  BY <1>1 DEF Means
<1> HIDE DEF A
<1>4. (A = {} => Means(f, n) = None) /\ (A # {} => Means(f, n) = Meaning(log, Max(A)))
  BY <1>2, <1>3 DEF Meaning
<1>. QED
  BY <1>2, <1>4 DEF A

\* What a number means depends on the messages up to there.
LEMMA MeansStays ==
    ASSUME NEW m \in Messages, log \in Seq(Messages), log' = Append(log, m),
           NEW f, NEW n \in 0 .. Len(log)
    PROVE  Means(f, n)' = Means(f, n)
<1>1. \A i \in 1 .. n : log'[i] = log[i]
  OBVIOUS
<1>2. About(log', f, n) = About(log, f, n)
  BY <1>1 DEF About
<1>3. (log \in Seq(Messages) => MeansMeaning)'
  BY MeansIs, PTL
<1>4. MeansMeaning /\ MeansMeaning' /\ n \in 0 .. Len(log')
  BY <1>3, MeansIs
<1>. QED
  BY <1>1, <1>2, <1>4 DEF MeansMeaning, Meaning

\* A message says what its number means now, and nothing of the others.
LEMMA MeansAppended ==
    ASSUME NEW m \in Messages, log \in Seq(Messages), log' = Append(log, m), NEW f
    PROVE  Means(f, Len(log))' = IF m.fd # f THEN Means(f, Len(log))
                                 ELSE IF m.kind \in {"end", "del"} THEN None ELSE m.who
<1> DEFINE n == Len(log)
<1>1. log' \in Seq(Messages) /\ Len(log') = n + 1 /\ n \in Nat
  OBVIOUS
<1>2. log'[n + 1] = m /\ \A i \in 1 .. n : log'[i] = log[i]
  OBVIOUS
<1>3. (log \in Seq(Messages) => MeansMeaning)'
  BY MeansIs, PTL
<1>4. MeansMeaning /\ MeansMeaning'
  BY <1>1, <1>3, MeansIs
<1>5. CASE m.fd # f
  <2>1. About(log', f, n + 1) = About(log, f, n)
    BY <1>1, <1>2, <1>5 DEF About
  <2>. QED
    BY <1>1, <1>2, <1>4, <1>5, <2>1 DEF MeansMeaning, Meaning
<1>6. CASE m.fd = f
  <2>1. n + 1 \in About(log', f, n + 1)
    BY <1>1, <1>2, <1>6 DEF About
  <2>2. Max(About(log', f, n + 1)) = n + 1
    <3>1. About(log', f, n + 1) \in SUBSET (1 .. n + 1)
      BY DEF About
    <3> DEFINE A == About(log', f, n + 1)
    <3>2. n + 1 \in Nat /\ A # {}
      BY <1>1, <2>1
    <3> HIDE DEF n, A
    <3>3. Max(A) \in A /\ \A y \in A : y <= Max(A)
      BY <3>1, <3>2, Greatest DEF A
    <3>4. Max(A) \in 1 .. n + 1 /\ n + 1 <= Max(A)
      BY <2>1, <3>1, <3>3 DEF A
    <3>. QED
      BY <1>1, <3>4 DEF A
  <2>. QED
    BY <1>1, <1>2, <1>4, <1>6, <2>1, <2>2 DEF MeansMeaning, Meaning
<1>. QED
  BY <1>5, <1>6

-----------------------------------------------------------------------------
(* Lists of descriptors *)

\* What is appended is new, and the last.
LEMMA Appended ==
    ASSUME NEW S, NEW s \in Seq(S), NEW x \in S, Once(s), x \notin ToSet(s)
    PROVE  /\ Append(s, x) \in Seq(S) /\ Once(Append(s, x))
           /\ ToSet(Append(s, x)) = ToSet(s) \cup {x}
<1> DEFINE r == Append(s, x)
<1>1. r \in Seq(S) /\ Len(r) = Len(s) + 1 /\ DOMAIN r = 1 .. Len(s) + 1 /\ DOMAIN s = 1 .. Len(s)
  OBVIOUS
<1>2. r[Len(s) + 1] = x /\ \A i \in DOMAIN s : r[i] = s[i] /\ s[i] # x
  BY DEF ToSet
<1> HIDE DEF r
<1>3. Once(r)
  BY <1>1, <1>2 DEF Once
<1>4. ToSet(r) = ToSet(s) \cup {x}
  BY <1>1, <1>2 DEF ToSet
<1>. QED
  BY <1>1, <1>3, <1>4 DEF r

\* The tail has the others, one place earlier.
LEMMA TailOf ==
    ASSUME NEW S, NEW s \in Seq(S), s # <<>>, Once(s)
    PROVE  /\ Tail(s) \in Seq(S) /\ Once(Tail(s))
           /\ Len(Tail(s)) = Len(s) - 1 /\ DOMAIN Tail(s) = 1 .. Len(s) - 1
           /\ \A i \in DOMAIN Tail(s) : Tail(s)[i] = s[i + 1] /\ i + 1 \in DOMAIN s /\ s[i + 1] # s[1]
<1>1. Len(s) \in Nat \ {0} /\ DOMAIN s = 1 .. Len(s)
  BY EmptySeq
<1>2. Tail(s) \in Seq(S) /\ Len(Tail(s)) = Len(s) - 1 /\ DOMAIN Tail(s) = 1 .. Len(s) - 1
  BY <1>1
<1>3. \A i \in 1 .. Len(s) - 1 : Tail(s)[i] = s[i + 1] /\ i + 1 \in DOMAIN s
  BY <1>1
<1>. QED
  BY <1>1, <1>2, <1>3 DEF Once

\* RemoveAt() takes one element out and moves the later ones.
LEMMA Cut ==
    ASSUME NEW S, NEW s \in Seq(S), NEW i \in 1 .. Len(s)
    PROVE  /\ RemoveAt(s, i) \in Seq(S) /\ Len(RemoveAt(s, i)) = Len(s) - 1
           /\ \A k \in 1 .. Len(s) - 1 : RemoveAt(s, i)[k] = IF k < i THEN s[k] ELSE s[k + 1]
<1> DEFINE a == SubSeq(s, 1, i - 1)  b == SubSeq(s, i + 1, Len(s))
<1>1. a \in Seq(S) /\ Len(a) = i - 1 /\ \A k \in 1 .. i - 1 : a[k] = s[k]
  OBVIOUS
<1>2. b \in Seq(S) /\ Len(b) = Len(s) - i /\ \A k \in 1 .. Len(s) - i : b[k] = s[k + i]
  OBVIOUS
<1> HIDE DEF a, b
<1>3. a \o b \in Seq(S) /\ Len(a \o b) = Len(s) - 1
  <2>1. a \o b \in Seq(S) /\ Len(a \o b) = Len(a) + Len(b)
    BY <1>1, <1>2, ConcatProperties
  <2>2. Len(a) + Len(b) = Len(s) - 1
    BY <1>1, <1>2
  <2>. QED
    BY <2>1, <2>2
<1>4. \A k \in 1 .. Len(s) - 1 : (a \o b)[k] = IF k <= i - 1 THEN a[k] ELSE b[k - (i - 1)]
  BY <1>1, <1>2, ConcatProperties
<1>5. \A k \in 1 .. Len(s) - 1 : k >= i => k - (i - 1) \in 1 .. Len(s) - i /\ (k - (i - 1)) + i = k + 1
  OBVIOUS
<1>6. \A k \in 1 .. Len(s) - 1 : (a \o b)[k] = IF k < i THEN s[k] ELSE s[k + 1]
  BY <1>1, <1>2, <1>4, <1>5
<1>. QED
  BY <1>3, <1>6 DEF RemoveAt, a, b

\* Where x is in s, and the first such place.
PlacesOf(s, x) == {i \in 1 .. Len(s) : s[i] = x}
Found(s, x) == IF PlacesOf(s, x) # {} THEN Min(PlacesOf(s, x)) ELSE 0

\* SelectInSeq() and RemoveAt(): the descriptor is gone, and nothing else.
LEMMA Removed ==
    ASSUME NEW S, NEW s \in Seq(S), Once(s), NEW x \in S, NEW r,
           r = IF Found(s, x) = 0 THEN s ELSE RemoveAt(s, Found(s, x))
    PROVE  r \in Seq(S) /\ Once(r) /\ ToSet(r) = ToSet(s) \ {x}
<1> DEFINE I == PlacesOf(s, x)  at == Found(s, x)
<1>1. at = IF I # {} THEN Min(I) ELSE 0
  BY DEF Found
<1> HIDE DEF at, I
<1>2. CASE I = {}
  BY <1>1, <1>2 DEF ToSet, at, I, PlacesOf
<1>3. CASE I # {}
  <2>1. PICK i \in 1 .. Len(s) : s[i] = x
    BY <1>3 DEF I, PlacesOf
  <2>2. I = {i}
    BY <2>1 DEF Once, I, PlacesOf
  <2>3. at = i /\ i # 0
    <3>1. Min({i}) = i
      BY DEF Min
    <3>. QED
      BY <1>1, <2>1, <2>2, <3>1
  <2>12. r \in Seq(S) /\ Len(r) = Len(s) - 1
    BY <2>1, <2>3, Cut DEF at
  <2>5. \A k \in 1 .. Len(s) - 1 : r[k] = IF k < i THEN s[k] ELSE s[k + 1]
    BY <2>1, <2>3, Cut DEF at
  <2>6. Once(r)
    BY <2>1, <2>12, <2>5 DEF Once
  <2>7. \A k \in 1 .. Len(s) : k # i => \E l \in 1 .. Len(s) - 1 : r[l] = s[k]
    <3> SUFFICES ASSUME NEW k \in 1 .. Len(s), k # i PROVE \E l \in 1 .. Len(s) - 1 : r[l] = s[k]
      OBVIOUS
    <3>1. CASE k < i
      BY <2>1, <2>5, <3>1
    <3>2. CASE k > i
      <4>1. k - 1 \in 1 .. Len(s) - 1 /\ ~ (k - 1 < i) /\ (k - 1) + 1 = k
        BY <2>1, <3>2
      <4>2. r[k - 1] = s[k]
        BY <2>5, <4>1
      <4>. QED
        BY <4>1, <4>2
    <3>. QED
      BY <2>1, <3>1, <3>2
  <2>8. \A l \in 1 .. Len(s) - 1 : \E k \in 1 .. Len(s) : k # i /\ r[l] = s[k]
    BY <2>1, <2>5
  <2>9. \A k \in 1 .. Len(s) : k # i <=> s[k] # x
    BY <2>1 DEF Once
  <2>15. DOMAIN r = 1 .. Len(s) - 1 /\ DOMAIN s = 1 .. Len(s)
    BY <2>12
  <2>16. ToSet(r) = ToSet(s) \ {x}
    <3>1. ToSet(r) = {r[l] : l \in 1 .. Len(s) - 1} /\ ToSet(s) = {s[k] : k \in 1 .. Len(s)}
      BY <2>15 DEF ToSet
    <3>2. ASSUME NEW y \in ToSet(r) PROVE y \in ToSet(s) \ {x}
      BY <3>1, <3>2, <2>8, <2>9
    <3>3. ASSUME NEW y \in ToSet(s) \ {x} PROVE y \in ToSet(r)
      BY <3>1, <3>3, <2>7, <2>9
    <3>. QED
      BY <3>2, <3>3
  <2>. QED
    BY <2>12, <2>6, <2>16
<1>. QED
  BY <1>2, <1>3

-----------------------------------------------------------------------------
(* The steps of the threads *)

\* A move of one thread leaves the other where it is.
LEMMA Moves ==
    ASSUME Schedule, NEW t \in EpThreads, NEW from, NEW to, EpGoto(t, from, to)
    PROVE  /\ place[t] = from /\ place'[t] = to
           /\ \A u \in EpThreads \ {t} : place'[u] = place[u]
BY DEF Schedule, EpGoto

\* After an event the collector has the next one or waits.
LEMMA NextEventIs ==
    ASSUME EpIInv, NextEvent, events # <<>>
    PROVE  /\ place'[Main] = place[Main] /\ arg'[Main] = arg[Main]
           /\ place'[Collector] = IF events' = <<>> THEN "wait" ELSE "find"
           /\ events' \in Seq(Fds) /\ Once(events')
           /\ \A i \in DOMAIN events' : i + 1 \in DOMAIN events /\ i + 1 > 1
                                         /\ events'[i] = events[i + 1] /\ events'[i] # events[1]
<1>1. events \in Seq(Fds) /\ Once(events) /\ events' = Tail(events)
  BY DEF EpIInv, EpTypeOK, Batch, NextEvent
<1>2. /\ events' \in Seq(Fds) /\ Once(events') /\ Len(events') = Len(events) - 1
      /\ DOMAIN events' = 1 .. Len(events) - 1
      /\ \A i \in DOMAIN events' : events'[i] = events[i + 1] /\ i + 1 \in DOMAIN events /\ events[i + 1] # events[1]
  BY <1>1, TailOf
<1>3. Len(events) = 1 <=> events' = <<>>
  BY <1>1, <1>2
<1>4. place'[Collector] = IF events' = <<>> THEN "wait" ELSE "find"
  BY <1>3 DEF NextEvent, EpIInv, Schedule, EpThreads
<1>5. place'[Main] = place[Main] /\ arg'[Main] = arg[Main]
  BY NamesAssumption DEF NextEvent, EpIInv, Schedule, EpTypeOK, EpThreads
<1>. QED
  BY <1>2, <1>4, <1>5

\* The event in hand finds its descriptor.
LEMMA FindIs ==
    ASSUME EpIInv, Find
    PROVE  /\ events[1] \in epset /\ Readable(events[1])
           /\ EpGoto(Collector, "find", IF events[1] = Listener THEN "accept" ELSE "recv")
           /\ arg' = [arg EXCEPT ![Collector] = events[1]]
           /\ events[1] \in DOMAIN sockfd_collector
<1>1. place[Collector] = "find" /\ events \in Seq(Fds) /\ events # <<>>
  BY DEF EpIInv, EpTypeOK, Batch, Find
<1>2. 1 \in DOMAIN events /\ Head(events) = events[1] /\ events[1] \in Fds
  BY <1>1
<1>3. events[1] \in epset /\ Readable(events[1])
  <2>1. events[1] \in Rest
    BY <1>1, <1>2 DEF Rest
  <2>. QED
    BY <2>1 DEF EpIInv, Batch
<1>4. place[Main] = "idle"
  BY <1>1 DEF EpIInv, Schedule
<1>5. sockfd_collector[events[1]] = KindOf(events[1])
  <2>1. ~Busy(events[1], {"insert", "delClose"})
    BY <1>1, <1>4 DEF Busy, EpThreads
  <2>. QED
    BY <1>2, <1>3, <2>1 DEF EpIInv, Tables
<1>. QED
  BY <1>2, <1>3, <1>5, NamesAssumption DEF Find, KindOf, EpIInv, EpTypeOK, SFD, LFD

\* There is a connection to be accepted.
LEMMA AcceptIs ==
    ASSUME EpIInv, Accept
    PROVE  \E f \in Fds \ {Listener} :
              /\ socket[f] = None /\ backlog # <<>> /\ Head(backlog) \in Peers
              /\ EpGoto(Collector, "accept", "insert")
              /\ socket' = [socket EXCEPT ![f] = Head(backlog)]
              /\ backlog' = Tail(backlog)
              /\ arg' = [arg EXCEPT ![Collector] = f]
<1>1. place[Collector] = "accept"
  BY DEF Accept, EpGoto
<1>2. backlog # <<>> /\ backlog \in Seq(Peers)
  BY <1>1 DEF EpIInv, Batch, EpTypeOK
<1>3. socket[Listener] # None
  BY <1>1, NamesAssumption DEF EpIInv, Schedule
<1>4. PICK f \in Fds :
         /\ LowestFree(f)
         /\ EpGoto(Collector, "accept", IF backlog # <<>> THEN "insert" ELSE "aborted")
         /\ socket' = [socket EXCEPT ![f] = IF backlog # <<>> THEN Head(backlog) ELSE None]
         /\ backlog' = IF backlog # <<>> THEN Tail(backlog) ELSE backlog
         /\ arg' = [arg EXCEPT ![Collector] = f]
  BY DEF Accept
<1>5. f \in Fds \ {Listener} /\ socket[f] = None
  BY <1>3, <1>4 DEF LowestFree
<1>6. Head(backlog) \in Peers
  BY <1>2
<1>. QED
  BY <1>2, <1>4, <1>5, <1>6

\* There is something to be received, or the other end has closed.
LEMMA RecvIs ==
    ASSUME EpIInv, Recv
    PROVE  /\ place[Collector] = "recv" /\ arg[Collector] \in Fds \ {Listener}
           /\ socket[arg[Collector]] \in Peers
           /\ LET f == arg[Collector]  p == socket[f] IN
              \/ /\ peer[p].inbox > 0 /\ peer' = [peer EXCEPT ![p].inbox = @ - 1]
                 /\ Tell("data", f) /\ NextEvent
                 /\ UNCHANGED <<socket, backlog, tables, ending>>
              \/ /\ peer[p].inbox = 0 /\ peer[p].closed
                 /\ EpGoto(Collector, "recv", "delFind") /\ Tell("end", f)
                 /\ UNCHANGED <<kernel, tables, arg, events, ending>>
<1>1. place[Collector] = "recv"
  BY DEF Recv
<1>2. arg[Collector] \in Fds \ {Listener} /\ socket[arg[Collector]] # None
  BY <1>1 DEF EpIInv, Schedule
<1>3. socket[arg[Collector]] \in Peers
  BY <1>2 DEF EpIInv, Tables
<1>4. peer[socket[arg[Collector]]].inbox > 0 \/ peer[socket[arg[Collector]]].closed
  BY <1>1, <1>3, NamesAssumption DEF EpIInv, Batch, Readable
<1>5. peer[socket[arg[Collector]]].inbox \in Nat
  BY <1>3 DEF EpIInv, EpTypeOK
<1>. QED
  BY <1>1, <1>2, <1>3, <1>4, <1>5 DEF Recv

\* What is to be deleted is there.
LEMMA DelFindIs ==
    ASSUME EpIInv, NEW t \in EpThreads, DelFind(t)
    PROVE  EpGoto(t, "delFind", "delCtl") /\ UNCHANGED <<kernel, tables, log, arg, events, ending>>
<1>1. place[t] = "delFind"
  BY DEF DelFind
<1>2. arg[t] \in Fds /\ socket[arg[t]] # None /\ \A u \in EpThreads \ {t} : place[u] \in {"wait", "idle"}
  BY <1>1 DEF EpIInv, Schedule, Adds, Deletes, EpThreads
<1>3. arg[t] \in Open /\ ~Busy(arg[t], {"insert", "delClose"})
  BY <1>1, <1>2 DEF Busy, Open
<1>4. sockfd_collector[arg[t]] = KindOf(arg[t])
  BY <1>2, <1>3 DEF EpIInv, Tables
<1>. QED
  BY <1>4, NamesAssumption DEF DelFind, KindOf

\* The steps of the connections, of the collector, of main, and of both.
Outside == \E p \in Peers : Connect(p) \/ SendOrClose(p)
Collects == Wait \/ Find \/ Accept \/ TellAccept \/ Recv
Mains == Destroy \/ Destroyed \/ \E f \in Fds : DelTop(f) \/ MainCallsDel(f)
Adding(t) == AddInsert(t) \/ AddClient(t) \/ AddToSet(t)
Deleter(t) == DelFind(t) \/ DelCtl(t) \/ DelClient(t) \/ DelReg(t) \/ DelClose(t)

\* Every step is of one of these kinds.
LEMMA Kinds == EpNext => Outside \/ Collects \/ Mains \/ \E t \in EpThreads : Adding(t) \/ Deleter(t)
BY DEF EpNext, Outside, Collects, Mains, Adding, Deleter, Collect, MainGoesOn, EpAdd, EpDel, EpThreads

\* The first descriptor is the listener's.
LEMMA ListenerIs == Listener \in Fds
BY FiniteAssumption, FS_CardinalityType DEF Listener, Fds

\* Where main and the collector are while a thread is at work.
LEMMA AtWork ==
    ASSUME EpIInv, NEW t \in EpThreads, place[t] \in Adds \cup Deletes
    PROVE  /\ arg[t] \in Fds /\ socket[arg[t]] # None
           /\ \A u \in EpThreads \ {t} : place[u] = IF u = Main THEN "idle" ELSE "wait"
           /\ t = Collector => arg[t] # Listener /\ socket[arg[t]] \in Peers /\ ~ending
           /\ t = Main /\ ~ending => place[t] \in {"insert", "add"} \/ socket[arg[t]] \in Peers
<1>1. arg[t] \in Fds /\ socket[arg[t]] # None
  <2>1. CASE t = Collector
    BY <2>1, NamesAssumption DEF EpIInv, Schedule, Adds, Deletes
  <2>2. CASE t = Main /\ place[Main] \in {"insert", "add"}
    BY <2>2, NamesAssumption, ListenerIs DEF EpIInv, Schedule
  <2>3. CASE t = Main /\ place[Main] \in Deletes
    BY <2>3 DEF EpIInv, Schedule
  <2>. QED
    BY <2>1, <2>2, <2>3 DEF EpThreads, EpIInv, Schedule, Adds, Deletes
<1>2. \A u \in EpThreads \ {t} : place[u] = IF u = Main THEN "idle" ELSE "wait"
  BY NamesAssumption DEF EpIInv, Schedule, EpThreads, Adds, Deletes
<1>3. t = Collector => arg[t] # Listener /\ socket[arg[t]] \in Peers /\ ~ending
  BY NamesAssumption, <1>1 DEF EpIInv, Schedule, EpThreads, Adds, Deletes, Tables
<1>4. t = Main /\ ~ending => place[t] \in {"insert", "add"} \/ socket[arg[t]] \in Peers
  BY NamesAssumption, <1>1 DEF EpIInv, Schedule, EpThreads, Adds, Deletes, Tables
<1>. QED
  BY <1>1, <1>2, <1>3, <1>4

\* What DelClient() does to clients.
LEMMA ClientsOf ==
    ASSUME EpIInv, NEW t \in EpThreads, DelClient(t), arg[t] \in Fds
    PROVE  clients' \in Seq(Fds) /\ Once(clients') /\ ToSet(clients') = ToSet(clients) \ {arg[t]}
<1>1. SelectInSeq(clients, LAMBDA f : f = arg[t]) = Found(clients, arg[t])
  BY DEF SelectInSeq, Found, PlacesOf
<1>2. clients' = IF Found(clients, arg[t]) = 0 THEN clients ELSE RemoveAt(clients, Found(clients, arg[t]))
  BY <1>1 DEF DelClient
<1>3. clients \in Seq(Fds) /\ Once(clients)
  BY DEF EpIInv, EpTypeOK, Tables
<1>. QED
  BY <1>2, <1>3, Removed

-----------------------------------------------------------------------------
(* Each step keeps each part of the invariant *)

\* What is told is a message, except by the destructor, which tells nothing.
LEMMA TellIs ==
    ASSUME EpTypeOK, NEW f \in Fds, socket[f] \in Peers,
           NEW kind \in {"accept", "data", "end", "del"}, Tell(kind, f)
    PROVE  /\ [kind |-> kind, fd |-> f, who |-> socket[f]] \in Messages
           /\ log' = Append(log, [kind |-> kind, fd |-> f, who |-> socket[f]])
           /\ log' \in Seq(Messages)
<1> DEFINE m == [kind |-> kind, fd |-> f, who |-> socket[f]]
<1>1. m \in Messages
  BY DEF Messages
<1>2. log' = Append(log, m)
  BY DEF Tell
<1> HIDE DEF m
<1>3. log' \in Seq(Messages)
  BY <1>1, <1>2 DEF EpTypeOK
<1>. QED
  BY <1>1, <1>2, <1>3 DEF m

\* A change of one field of one connection.
Peerlike == [phase : Phases, inbox : Nat, closed : BOOLEAN]

\* A connection of which one field changes is still a connection.
LEMMA PeerChanged ==
    ASSUME EpTypeOK, NEW p \in Peers, NEW r,
           \/ \E x \in Phases : r = [peer[p] EXCEPT !.phase = x]
           \/ \E x \in Nat : r = [peer[p] EXCEPT !.inbox = x]
           \/ r = [peer[p] EXCEPT !.closed = TRUE]
    PROVE  [peer EXCEPT ![p] = r] \in [Peers -> Peerlike]
<1>1. peer \in [Peers -> Peerlike] /\ peer[p] \in Peerlike
  BY DEF EpTypeOK, Peerlike
<1>2. r \in Peerlike
  BY <1>1 DEF Peerlike
<1>. QED
  BY <1>1, <1>2

\* One field of one connection changes; the others and the other connections stay.
SetPhase(p, x) == peer' = [peer EXCEPT ![p].phase = x]
SetInbox(p, x) == peer' = [peer EXCEPT ![p].inbox = x]
SetClosed(p, x) == peer' = [peer EXCEPT ![p].closed = x]

\* What a change of one field leaves as it is.
LEMMA PeerFields ==
    ASSUME EpTypeOK, NEW p \in Peers, NEW x
    PROVE  /\ SetPhase(p, x) =>
                /\ \A q \in Peers \ {p} : peer'[q] = peer[q]
                /\ peer'[p].phase = x /\ peer'[p].inbox = peer[p].inbox /\ peer'[p].closed = peer[p].closed
           /\ SetInbox(p, x) =>
                /\ \A q \in Peers \ {p} : peer'[q] = peer[q]
                /\ peer'[p].inbox = x /\ peer'[p].phase = peer[p].phase /\ peer'[p].closed = peer[p].closed
           /\ SetClosed(p, x) =>
                /\ \A q \in Peers \ {p} : peer'[q] = peer[q]
                /\ peer'[p].closed = x /\ peer'[p].phase = peer[p].phase /\ peer'[p].inbox = peer[p].inbox
<1>1. peer \in [Peers -> Peerlike] /\ peer[p] \in Peerlike
  BY DEF EpTypeOK, Peerlike
<1>2. [peer[p] EXCEPT !.phase = x].phase = x /\ [peer[p] EXCEPT !.phase = x].inbox = peer[p].inbox
      /\ [peer[p] EXCEPT !.phase = x].closed = peer[p].closed
  BY <1>1 DEF Peerlike
<1>3. [peer[p] EXCEPT !.inbox = x].inbox = x /\ [peer[p] EXCEPT !.inbox = x].phase = peer[p].phase
      /\ [peer[p] EXCEPT !.inbox = x].closed = peer[p].closed
  BY <1>1 DEF Peerlike
<1>4. [peer[p] EXCEPT !.closed = x].closed = x /\ [peer[p] EXCEPT !.closed = x].phase = peer[p].phase
      /\ [peer[p] EXCEPT !.closed = x].inbox = peer[p].inbox
  BY <1>1 DEF Peerlike
<1>. QED
  BY <1>1, <1>2, <1>3, <1>4 DEF SetPhase, SetInbox, SetClosed

\* Each step keeps the types.
LEMMA StepType == EpIInv /\ EpNext => EpTypeOK'
<1> SUFFICES ASSUME EpIInv, EpNext PROVE EpTypeOK'
  OBVIOUS
<1> USE DEF EpTypeOK
<1>0. EpTypeOK
  BY DEF EpIInv
<1>1. CASE Outside
  <2>1. PICK p \in Peers : Connect(p) \/ SendOrClose(p)
    BY <1>1 DEF Outside
  <2>2. CASE Connect(p)
    <3>1. peer' = [peer EXCEPT ![p] = [peer[p] EXCEPT !.phase = "here"]]
      BY <2>2 DEF Connect
    <3>2. peer' \in [Peers -> Peerlike]
      BY <1>0, <3>1, PeerChanged DEF Phases
    <3>. QED
      BY <2>2, <1>0, <3>2 DEF Connect, tables, Peerlike
  <2>3. CASE SendOrClose(p)
    <3>1. \/ peer' = [peer EXCEPT ![p] = [peer[p] EXCEPT !.inbox = peer[p].inbox + 1]]
          \/ peer' = [peer EXCEPT ![p] = [peer[p] EXCEPT !.closed = TRUE]]
      BY <2>3 DEF SendOrClose
    <3>2. peer[p].inbox + 1 \in Nat
      BY <1>0
    <3> DEFINE r == [peer[p] EXCEPT !.inbox = peer[p].inbox + 1]
               q == [peer[p] EXCEPT !.closed = TRUE]
    <3>4. [peer EXCEPT ![p] = r] \in [Peers -> Peerlike]
      BY <1>0, <3>2, PeerChanged
    <3>5. [peer EXCEPT ![p] = q] \in [Peers -> Peerlike]
      BY <1>0, PeerChanged
    <3>3. peer' \in [Peers -> Peerlike]
      BY <3>1, <3>4, <3>5
    <3>. QED
      BY <2>3, <1>0, <3>3 DEF SendOrClose, tables, Peerlike
  <2>. QED
    BY <2>1, <2>2, <2>3
<1>2. CASE Wait
  <2>1. PICK r \in SUBSET Fds : events' \in SetToSeqs(r)
    BY <1>2, <1>0 DEF Wait
  <2>2. events' \in [1 .. Cardinality(r) -> Fds] /\ Cardinality(r) \in Nat
    <3>1. IsFiniteSet(Fds)
      BY FiniteAssumption, FS_CardinalityType, FS_Interval DEF Fds
    <3>. QED
      BY <2>1, <3>1, FS_Subset, FS_CardinalityType DEF SetToSeqs
  <2>3. events' \in Seq(Fds)
    BY <2>2
  <2>. QED
    BY <1>2, <1>0, <2>3 DEF Wait, kernel, tables
<1>3. CASE Find
  <2>1. arg' = [arg EXCEPT ![Collector] = events[1]] /\ events[1] \in Fds
    BY <1>3, <1>0, FindIs
  <2>2. UNCHANGED <<kernel, tables, log, events, ending>>
    BY <1>3 DEF Find
  <2>. QED
    BY <1>0, <2>1, <2>2 DEF kernel, tables
<1>4. CASE Accept
  <2>1. PICK f \in Fds : /\ backlog # <<>> /\ Head(backlog) \in Peers
                         /\ socket' = [socket EXCEPT ![f] = Head(backlog)]
                         /\ backlog' = Tail(backlog)
                         /\ arg' = [arg EXCEPT ![Collector] = f]
    BY <1>4, AcceptIs
  <2>2. UNCHANGED <<peer, tables, log, events, ending>>
    BY <1>4 DEF Accept
  <2>3. backlog' \in Seq(Peers)
    BY <1>0, <2>1
  <2>. QED
    BY <1>0, <2>1, <2>2, <2>3 DEF tables
<1>5. CASE TellAccept
  <2>1. place[Collector] = "tell" /\ NextEvent /\ Tell("accept", arg[Collector])
    BY <1>5 DEF TellAccept
  <2>2. arg[Collector] \in Fds /\ socket[arg[Collector]] \in Peers /\ events # <<>>
    BY <2>1, AtWork DEF Adds, EpThreads, EpIInv, Batch
  <2>. QED
    BY <1>0, <1>5, <2>1, <2>2, TellIs, NextEventIs DEF TellAccept, kernel, tables, NextEvent
<1>6. CASE Recv
  <2>1. events # <<>>
    BY <1>6 DEF Recv, EpIInv, Batch
  <2> DEFINE f == arg[Collector]  p == socket[f]
  <2>2. f \in Fds /\ p \in Peers
    BY <1>6, RecvIs
  <2>3. CASE /\ peer[p].inbox > 0 /\ peer' = [peer EXCEPT ![p].inbox = @ - 1]
             /\ Tell("data", f) /\ NextEvent /\ UNCHANGED <<socket, backlog, tables, ending>>
    <3>1. peer' = [peer EXCEPT ![p] = [peer[p] EXCEPT !.inbox = peer[p].inbox - 1]]
      BY <2>3
    <3>4. peer[p].inbox - 1 \in Nat
      BY <1>0, <2>2, <2>3
    <3>2. peer' \in [Peers -> Peerlike]
      BY <1>0, <2>2, <3>1, <3>4, PeerChanged
    <3>3. log' \in Seq(Messages)
      BY <1>0, <2>2, <2>3, TellIs
    <3>. QED
      BY <1>0, <2>1, <2>3, <3>2, <3>3, NextEventIs DEF tables, NextEvent, Peerlike
  <2>4. CASE Tell("end", f) /\ UNCHANGED <<kernel, tables, arg, events, ending>>
    BY <1>0, <2>2, <2>4, TellIs DEF kernel, tables
  <2>. QED
    BY <1>6, <2>3, <2>4, RecvIs
<1>7. CASE Mains
  BY <1>0, <1>7 DEF Mains, Destroy, Destroyed, DelTop, MainCallsDel, kernel, tables
<1>8. ASSUME NEW t \in EpThreads, Adding(t) \/ Deleter(t) PROVE EpTypeOK'
  <2>1. arg[t] \in Fds
    BY <1>8, AtWork DEF Adding, Deleter, AddInsert, AddClient, AddToSet, DelFind, DelCtl, DelClient, DelReg,
       DelClose, EpGoto, Adds, Deletes
  <2>2. CASE AddInsert(t)
    BY <1>0, <2>1, <2>2 DEF AddInsert, kernel, Kind
  <2>3. CASE AddClient(t)
    BY <1>0, <2>1, <2>3 DEF AddClient, kernel
  <2>4. CASE AddToSet(t)
    BY <1>0, <2>1, <2>4 DEF AddToSet, kernel
  <2>5. CASE DelFind(t)
    BY <1>0, <2>5, DelFindIs DEF kernel, tables
  <2>6. CASE DelCtl(t)
    BY <1>0, <2>1, <2>6 DEF DelCtl, kernel
  <2>7. CASE DelClient(t)
    BY <1>0, <2>1, <2>7, ClientsOf DEF DelClient, kernel
  <2>8. CASE DelReg(t)
    BY <1>0, <2>1, <2>8 DEF DelReg, kernel
  <2>9. CASE DelClose(t)
    <3>1. log' \in Seq(Messages)
      <4>1. CASE t = Main /\ ~ending
        BY <1>0, <2>1, <2>9, <4>1, TellIs, AtWork DEF DelClose, Deletes
      <4>. QED
        BY <1>0, <2>9, <4>1 DEF DelClose
    <3>2. events' \in Seq(Fds) /\ arg' \in [EpThreads -> Fds \cup {0}]
      <4>1. CASE t = Collector
        BY <1>0, <2>9, <4>1, NextEventIs DEF DelClose, DelReturns, EpIInv, Batch, NextEvent
      <4>. QED
        BY <1>0, <2>9, <4>1 DEF DelClose, DelReturns
    <3>3. peer' \in [Peers -> [phase : Phases, inbox : Nat, closed : BOOLEAN]]
      BY <1>0, <2>9 DEF DelClose, Phases
    <3>. QED
      BY <1>0, <2>9, <3>1, <3>2, <3>3 DEF DelClose
  <2>. QED
    BY <1>8, <2>2, <2>3, <2>4, <2>5, <2>6, <2>7, <2>8, <2>9 DEF Adding, Deleter
<1>. QED
  BY Kinds, <1>1, <1>2, <1>3, <1>4, <1>5, <1>6, <1>7, <1>8 DEF Collects

\* Each step keeps the order of work between the two threads.
LEMMA StepSchedule == ~DeletesAnyTime /\ EpIInv /\ EpNext => Schedule'
<1> SUFFICES ASSUME ~DeletesAnyTime, EpIInv, EpNext PROVE Schedule'
  OBVIOUS
<1> USE NamesAssumption, ListenerIs DEF Schedule, EpThreads, Adds, Deletes, kernel, tables, EpGoto
<1>0. Schedule /\ EpTypeOK
  BY DEF EpIInv
<1>1. CASE Outside
  BY <1>0, <1>1 DEF Outside, Connect, SendOrClose
<1>2. CASE Wait
  <2>1. place[Main] \notin {"insert", "add"}
    BY <1>0, <1>2 DEF Wait
  <2>2. place[Main] = "idle"
    BY <1>0, <1>2, <2>1 DEF Wait, Deleting
  <2>. QED
    BY <1>0, <1>2, <2>1, <2>2 DEF Wait
<1>3. CASE Find
  <2>1. events[1] \in epset /\ Readable(events[1])
    BY <1>3, FindIs
  <2>2. events[1] \in Fds /\ socket[events[1]] # None
    BY <1>0, <2>1 DEF EpIInv, Tables, EpTypeOK, Open
  <2>. QED
    BY <1>0, <1>3, <2>2, FindIs DEF Find, EpTypeOK
<1>4. CASE Accept
  <2>1. PICK f \in Fds \ {Listener} :
              /\ Head(backlog) \in Peers
              /\ EpGoto(Collector, "accept", "insert")
              /\ socket' = [socket EXCEPT ![f] = Head(backlog)]
              /\ arg' = [arg EXCEPT ![Collector] = f]
    BY <1>4, AcceptIs
  <2>. QED
    BY <1>0, <1>4, <2>1 DEF Accept, EpTypeOK
<1>5. CASE TellAccept
  <2>1. events # <<>> /\ NextEvent /\ place[Collector] = "tell"
    BY <1>5 DEF TellAccept, EpIInv, Batch
  <2>. QED
    BY <1>0, <1>5, <2>1, NextEventIs DEF TellAccept, NextEvent
<1>6. CASE Recv
  <2>1. events # <<>>
    BY <1>6 DEF Recv, EpIInv, Batch
  <2>. QED
    BY <1>0, <1>6, <2>1, RecvIs, NextEventIs DEF NextEvent
<1>7. CASE Mains
  <2>1. ASSUME NEW f \in Fds, DelTop(f) PROVE Schedule'
    <3>1. socket[f] # None
      BY <2>1 DEF DelTop, EpIInv, Tables, Open
    <3>. QED
      BY <1>0, <2>1, <3>1 DEF DelTop, EpTypeOK
  <2>2. ASSUME NEW f \in Fds, MainCallsDel(f) PROVE Schedule'
    <3>1. socket[f] \in Peers
      BY <1>0, <2>2 DEF MainCallsDel, EpIInv, Told
    <3>. QED
      BY <1>0, <2>2, <3>1 DEF MainCallsDel, EpTypeOK
  <2>3. CASE Destroy
    BY <1>0, <2>3 DEF Destroy
  <2>4. CASE Destroyed
    <3>1. place[Main] = "destroy" /\ place[Collector] = "wait" /\ \A f \in Fds : sockfd_collector[f] = None
      BY <1>0, <2>4 DEF Destroyed
    <3>2. \A f \in Fds : ~Busy(f, {"insert", "delClose"}) /\ KindOf(f) # None
      BY <3>1 DEF Busy, KindOf
    <3>3. \A f \in Fds : socket[f] = None
      BY <3>1, <3>2 DEF EpIInv, Tables, Open
    <3>. QED
      BY <1>0, <2>4, <3>3 DEF Destroyed
  <2>. QED
    BY <1>7, <2>1, <2>2, <2>3, <2>4 DEF Mains
<1>8. ASSUME NEW t \in EpThreads, Adding(t) PROVE Schedule'
  <2>1. CASE AddInsert(t)
    BY <1>0, <2>1 DEF AddInsert, Kind, SFD, LFD
  <2>2. CASE AddClient(t)
    BY <1>0, <2>2 DEF AddClient
  <2>3. CASE AddToSet(t)
    BY <1>0, <2>3 DEF AddToSet
  <2>. QED
    BY <1>8, <2>1, <2>2, <2>3 DEF Adding
<1>9. ASSUME NEW t \in EpThreads, Deleter(t) PROVE Schedule'
  <2>1. CASE DelFind(t)
    BY <1>0, <2>1, DelFindIs
  <2>2. CASE DelCtl(t)
    BY <1>0, <2>2 DEF DelCtl
  <2>3. CASE DelClient(t)
    BY <1>0, <2>3 DEF DelClient
  <2>4. CASE DelReg(t)
    BY <1>0, <2>4 DEF DelReg
  <2>5. CASE DelClose(t) /\ t = Collector
    <3>1. events # <<>> /\ NextEvent /\ place[Collector] = "delClose"
      BY <2>5 DEF DelClose, DelReturns, EpIInv, Batch
    <3>. QED
      BY <1>0, <2>5, <3>1, NextEventIs DEF DelClose, NextEvent
  <2>6. CASE DelClose(t) /\ t = Main
    BY <1>0, <2>6 DEF DelClose, DelReturns
  <2>. QED
    BY <1>9, <2>1, <2>2, <2>3, <2>4, <2>5, <2>6 DEF Deleter
<1>. QED
  BY Kinds, <1>1, <1>2, <1>3, <1>4, <1>5, <1>6, <1>7, <1>8, <1>9 DEF Collects

\* Each step keeps each connection in its one place.
LEMMA StepPlaced == EpIInv /\ EpNext => Placed'
<1> SUFFICES ASSUME EpIInv, EpNext PROVE Placed'
  OBVIOUS
<1> USE NamesAssumption DEF Placed
<1>0. Placed /\ EpTypeOK /\ DOMAIN backlog = 1 .. Len(backlog)
  BY DEF EpIInv, EpTypeOK
<1>1. CASE Outside
  <2>1. PICK p \in Peers : Connect(p) \/ SendOrClose(p)
    BY <1>1 DEF Outside
  <2>2. CASE Connect(p)
    <3>1. \A i \in DOMAIN backlog : backlog[i] \in Peers /\ backlog[i] # p
      BY <1>0, <2>2 DEF Connect, EpTypeOK
    <3>2. \A f \in Fds : socket[f] # p
      BY <1>0, <2>2 DEF Connect
    <3>3. backlog' = Append(backlog, p) /\ UNCHANGED socket
      BY <2>2 DEF Connect
    <3>8. p \notin ToSet(backlog) /\ backlog \in Seq(Peers) /\ Once(backlog)
      BY <1>0, <3>1 DEF EpTypeOK, ToSet
    <3>4. backlog' \in Seq(Peers) /\ Once(backlog') /\ ToSet(backlog') = ToSet(backlog) \cup {p}
      BY <3>3, <3>8, Appended
    <3>5. \A i \in DOMAIN backlog' : backlog'[i] \in ToSet(backlog) \cup {p}
      BY <3>4 DEF ToSet
    <3>10. SetPhase(p, "here")
      BY <2>2 DEF Connect, SetPhase
    <3>6. peer'[p].phase = "here" /\ \A q \in Peers \ {p} : peer'[q].phase = peer[q].phase
      BY <1>0, <3>10, PeerFields
    <3>7. \A i \in DOMAIN backlog' : peer'[backlog'[i]].phase = "here" /\ \A f \in Fds : socket'[f] # backlog'[i]
      <4> SUFFICES ASSUME NEW i \in DOMAIN backlog'
                   PROVE  peer'[backlog'[i]].phase = "here" /\ \A f \in Fds : socket'[f] # backlog'[i]
        OBVIOUS
      <4>1. CASE backlog'[i] = p
        BY <3>2, <3>3, <3>6, <4>1
      <4>2. CASE backlog'[i] # p
        <5>1. PICK j \in DOMAIN backlog : backlog[j] = backlog'[i]
          BY <3>5, <4>2 DEF ToSet
        <5>. QED
          BY <1>0, <3>1, <3>3, <3>6, <5>1
      <4>. QED
        BY <4>1, <4>2
    <3>9. \A f \in Fds : socket'[f] \in Peers => socket[f] # p /\ peer'[socket'[f]].phase = "here"
      BY <1>0, <3>2, <3>3, <3>6
    <3>. QED
      BY <1>0, <3>3, <3>4, <3>7, <3>9
  <2>3. CASE SendOrClose(p)
    <3>2. SetInbox(p, peer[p].inbox + 1) \/ SetClosed(p, TRUE)
      BY <2>3 DEF SendOrClose, SetInbox, SetClosed
    <3>1. \A q \in Peers : peer'[q].phase = peer[q].phase
      BY <1>0, <3>2, PeerFields
    <3>. QED
      BY <1>0, <2>3, <3>1 DEF SendOrClose, EpTypeOK
  <2>. QED
    BY <2>1, <2>2, <2>3
<1>2. CASE Accept
  <2>1. PICK f \in Fds \ {Listener} :
              /\ socket[f] = None /\ backlog # <<>> /\ Head(backlog) \in Peers
              /\ socket' = [socket EXCEPT ![f] = Head(backlog)]
              /\ backlog' = Tail(backlog)
    BY <1>2, AcceptIs
  <2>2. Head(backlog) = backlog[1] /\ 1 \in DOMAIN backlog /\ UNCHANGED peer
    BY <1>0, <1>2, <2>1 DEF EpTypeOK, Accept
  <2>3. Once(backlog') /\ \A i \in DOMAIN backlog' : /\ i + 1 \in DOMAIN backlog /\ backlog'[i] = backlog[i + 1]
                                                     /\ backlog[i + 1] # backlog[1]
    BY <1>0, <2>1, TailOf DEF EpTypeOK
  <2>4. \A g \in Fds : socket'[g] = IF g = f THEN backlog[1] ELSE socket[g]
    BY <1>0, <2>1, <2>2 DEF EpTypeOK
  <2>. QED
    BY <1>0, <2>2, <2>3, <2>4
<1>3. CASE Recv
  <2> DEFINE p == socket[arg[Collector]]
  <2>4. p \in Peers
    BY <1>3, RecvIs
  <2>5. UNCHANGED peer \/ SetInbox(p, peer[p].inbox - 1)
    BY <1>3, RecvIs DEF kernel, SetInbox
  <2>1. \A q \in Peers : peer'[q].phase = peer[q].phase
    BY <1>0, <2>4, <2>5, PeerFields
  <2>2. UNCHANGED <<socket, backlog>>
    BY <1>3, RecvIs DEF kernel
  <2>. QED
    BY <1>0, <2>1, <2>2 DEF EpTypeOK
<1>4. ASSUME NEW t \in EpThreads, DelClose(t) PROVE Placed'
  <2>1. arg[t] \in Fds
    BY <1>4, AtWork DEF DelClose, Deletes
  <2>2. \A q \in Peers : q # socket[arg[t]] => peer'[q] = peer[q]
    BY <1>0, <1>4 DEF DelClose, EpTypeOK
  <2>3. \A g \in Fds : socket'[g] = IF g = arg[t] THEN None ELSE socket[g]
    BY <1>0, <1>4, <2>1 DEF DelClose, EpTypeOK
  <2>4. UNCHANGED backlog
    BY <1>4 DEF DelClose
  <2>. QED
    BY <1>0, <2>1, <2>2, <2>3, <2>4 DEF EpTypeOK
<1>5. CASE UNCHANGED kernel
  BY <1>0, <1>5 DEF kernel
<1>6. ASSUME NEW t \in EpThreads, Adding(t) \/ DelFind(t) \/ DelCtl(t) \/ DelClient(t) \/ DelReg(t)
      PROVE  UNCHANGED kernel
  BY <1>6 DEF Adding, AddInsert, AddClient, AddToSet, DelFind, DelCtl, DelClient, DelReg
<1>7. Mains \/ Wait \/ Find \/ TellAccept => UNCHANGED kernel
  BY DEF Mains, Destroy, Destroyed, DelTop, MainCallsDel, Wait, Find, TellAccept
<1>. QED
  BY Kinds, <1>1, <1>2, <1>3, <1>4, <1>5, <1>6, <1>7 DEF Collects, Deleter

\* Each step keeps the epoll set, sockfd_collector and clients in agreement.
LEMMA StepTables == ~DeletesAnyTime /\ EpIInv /\ EpNext => Tables'
<1> SUFFICES ASSUME ~DeletesAnyTime, EpIInv, EpNext PROVE Tables'
  OBVIOUS
<1> USE NamesAssumption DEF Tables, Busy, EpThreads, Open, EpGoto
<1>0. Tables /\ EpTypeOK /\ Schedule
  BY DEF EpIInv
<1>1. CASE Outside
  BY <1>0, <1>1 DEF Outside, Connect, SendOrClose, tables
<1>2. CASE Wait
  BY <1>0, <1>2 DEF Wait, kernel, tables, Schedule
<1>3. CASE Find
  BY <1>0, <1>3, FindIs DEF Find, kernel, tables, Schedule
<1>4. CASE Accept
  <2>1. PICK f \in Fds \ {Listener} :
              /\ socket[f] = None /\ Head(backlog) \in Peers
              /\ EpGoto(Collector, "accept", "insert")
              /\ socket' = [socket EXCEPT ![f] = Head(backlog)]
              /\ arg' = [arg EXCEPT ![Collector] = f]
    BY <1>4, AcceptIs
  <2>2. UNCHANGED tables /\ place[Main] = "idle"
    BY <1>0, <1>4, <2>1 DEF Accept, Schedule
  <2>3. \A g \in Fds : socket'[g] = IF g = f THEN Head(backlog) ELSE socket[g]
    BY <1>0, <2>1 DEF EpTypeOK
  <2>4. place'[Collector] = "insert" /\ arg'[Collector] = f /\ place'[Main] = "idle" /\ place[Collector] = "accept"
    BY <1>0, <2>1, <2>2 DEF EpTypeOK, Schedule
  <2>. QED
    BY <1>0, <2>1, <2>2, <2>3, <2>4 DEF tables
<1>5. CASE TellAccept
  <2>1. events # <<>> /\ NextEvent /\ place[Collector] = "tell"
    BY <1>5 DEF TellAccept, EpIInv, Batch
  <2>. QED
    BY <1>0, <1>5, <2>1, NextEventIs DEF TellAccept, kernel, tables, Schedule
<1>6. CASE Recv
  <2>1. events # <<>> /\ place[Collector] = "recv"
    BY <1>6 DEF Recv, EpIInv, Batch
  <2>. QED
    BY <1>0, <1>6, <2>1, RecvIs, NextEventIs DEF kernel, tables, Schedule
<1>7. CASE Mains
  <2>1. ASSUME NEW f \in Fds, DelTop(f) \/ MainCallsDel(f) PROVE Tables'
    BY <1>0, <2>1 DEF DelTop, MainCallsDel, kernel, tables, Schedule
  <2>2. CASE Destroy \/ Destroyed
    BY <1>0, <2>2 DEF Destroy, Destroyed, kernel, tables, Schedule
  <2>. QED
    BY <1>7, <2>1, <2>2 DEF Mains
<1>8. ASSUME NEW t \in EpThreads, Adding(t) \/ Deleter(t) PROVE Tables'
  <2> DEFINE f == arg[t]
  <2>1. /\ place[t] \in Adds \cup Deletes /\ arg[t] \in Fds /\ socket[arg[t]] # None
        /\ \A u \in EpThreads \ {t} : place[u] = IF u = Main THEN "idle" ELSE "wait"
    BY <1>8, AtWork DEF Adding, Deleter, AddInsert, AddClient, AddToSet, DelFind, DelCtl, DelClient, DelReg,
       DelClose, Adds, Deletes
  <2>10. t = Main => place[t] \in {"insert", "add"} \cup Deletes
    BY <1>0, <2>1 DEF Schedule, Adds
  <2>11. t = Main /\ place[t] \in {"insert", "add"} => f = Listener /\ epset = {}
    BY <1>0 DEF Schedule
  <2>12. t = Collector => f # Listener
    BY <1>0, <2>1 DEF Schedule, Adds, Deletes
  <2>2. CASE AddInsert(t)
    BY <1>0, <2>1, <2>2, <2>11, <2>12 DEF AddInsert, kernel, Kind, KindOf, EpTypeOK, Schedule, SFD, LFD
  <2>3. CASE AddClient(t)
    <3>1. place[t] = "client" /\ t = Collector /\ clients' = Append(clients, f)
      BY <2>3, <2>10 DEF AddClient, Deletes
    <3>2. f \notin ToSet(clients) /\ clients \in Seq(Fds) /\ Once(clients)
      BY <1>0, <2>1, <3>1 DEF EpTypeOK
    <3>3. Once(clients') /\ ToSet(clients') = ToSet(clients) \cup {f}
      BY <2>1, <3>1, <3>2, Appended
    <3>4. place'[Collector] = "add" /\ place'[Main] = "idle" /\ place[Main] = "idle" /\ arg' = arg
      BY <1>0, <2>1, <2>3, <3>1 DEF AddClient, Schedule
    <3>5. UNCHANGED <<socket, epset, sockfd_collector>>
      BY <2>3 DEF AddClient, kernel
    <3>. QED
      BY <1>0, <2>12, <2>1, <3>1, <3>3, <3>4, <3>5
  <2>4. CASE AddToSet(t)
    BY <1>0, <2>1, <2>4, <2>11, <2>12 DEF AddToSet, kernel, EpTypeOK, Schedule
  <2>5. CASE DelFind(t)
    BY <1>0, <2>1, <2>5, DelFindIs DEF kernel, tables, Schedule
  <2>6. CASE DelCtl(t)
    BY <1>0, <2>1, <2>6 DEF DelCtl, kernel, EpTypeOK, Schedule
  <2>7. CASE DelClient(t)
    <3>1. Once(clients') /\ ToSet(clients') = ToSet(clients) \ {f}
      BY <2>1, <2>7, ClientsOf
    <3>2. place[t] = "delClient" /\ place'[t] = "delReg" /\ arg' = arg
          /\ \A u \in EpThreads \ {t} : place'[u] = place[u]
      BY <1>0, <2>7 DEF DelClient, Schedule
    <3>3. UNCHANGED <<socket, epset, sockfd_collector>>
      BY <2>7 DEF DelClient, kernel
    <3>. QED
      BY <1>0, <2>1, <3>1, <3>2, <3>3
  <2>8. CASE DelReg(t)
    BY <1>0, <2>1, <2>8 DEF DelReg, kernel, EpTypeOK, Schedule
  <2>9. CASE DelClose(t)
    <3>1. \A g \in Fds : socket'[g] = IF g = f THEN None ELSE socket[g]
      BY <1>0, <2>1, <2>9 DEF DelClose, EpTypeOK
    <3>2. epset' = epset \ {f} /\ UNCHANGED <<sockfd_collector, clients>> /\ place[t] = "delClose"
      BY <2>9 DEF DelClose
    <3>3. \A g \in Fds : \A P : P \subseteq Adds \cup Deletes => ~Busy(g, P)'
      <4>1. CASE t = Collector
        <5>1. NextEvent /\ events # <<>>
          BY <2>9, <3>2, <4>1 DEF DelClose, DelReturns, EpIInv, Batch
        <5>2. place'[Collector] \in {"wait", "find"} /\ place'[Main] = "idle"
          BY <2>1, <4>1, <5>1, NextEventIs
        <5>. QED
          BY <5>2 DEF Adds, Deletes
      <4>2. CASE t = Main
        BY <1>0, <2>1, <2>9, <4>2 DEF DelClose, DelReturns, Adds, Deletes, Schedule
      <4>. QED
        BY <4>1, <4>2
    <3>5. \A g \in Fds : g # f =>
            /\ ~Busy(g, {"insert", "client", "add", "delClient", "delReg", "delClose"})
            /\ ~Busy(g, {"insert", "client", "delReg", "delClose"}) /\ ~Busy(g, {"insert", "delClose"})
      BY <2>1
    <3>6. \A g \in Fds :
            /\ ~Busy(g, {"insert", "client", "add", "delClient", "delReg", "delClose"})'
            /\ ~Busy(g, {"insert", "client", "delReg", "delClose"})' /\ ~Busy(g, {"insert", "delClose"})'
      BY <3>3 DEF Adds, Deletes
    <3>7. Busy(f, {"insert", "client", "delReg", "delClose"}) /\ Busy(f, {"insert", "delClose"})
      BY <3>2
    <3> HIDE DEF Busy
    <3>. QED
      BY <1>0, <3>1, <3>2, <3>5, <3>6, <3>7
  <2>. QED
    BY <1>8, <2>2, <2>3, <2>4, <2>5, <2>6, <2>7, <2>8, <2>9 DEF Adding, Deleter
<1>. QED
  BY Kinds, <1>1, <1>2, <1>3, <1>4, <1>5, <1>6, <1>7, <1>8 DEF Collects

\* What is ready stays so while its kernel state stays, or gets more.
LEMMA StaysReady ==
    ASSUME EpTypeOK, NEW f \in Fds, Readable(f), socket'[f] = socket[f],
           socket[f] \in Peers \cup {LFD},
           socket[f] = LFD => backlog' = backlog \/ backlog' # <<>>,
           socket[f] \in Peers => /\ peer'[socket[f]].inbox \in Nat /\ peer'[socket[f]].inbox >= peer[socket[f]].inbox
                                  /\ peer[socket[f]].closed => peer'[socket[f]].closed
    PROVE  Readable(f)'
<1>1. CASE socket[f] = LFD
  BY <1>1, NamesAssumption DEF Readable
<1>2. CASE socket[f] \in Peers
  <2>1. peer[socket[f]].inbox > 0 \/ peer[socket[f]].closed
    BY <1>2, NamesAssumption DEF Readable
  <2>2. CASE peer[socket[f]].closed
    BY <1>2, <2>2, NamesAssumption DEF Readable
  <2>3. CASE peer[socket[f]].inbox > 0
    <3>1. peer'[socket'[f]].inbox > 0
      <4>1. peer[socket[f]].inbox \in Nat
        BY <1>2 DEF EpTypeOK
      <4>2. ASSUME NEW a \in Nat, NEW b, a > 0, b >= a, b \in Int PROVE b > 0
        BY <4>2
      <4>. QED
        BY <1>2, <2>3, <4>1 DEF EpTypeOK
    <3>. QED
      BY <1>2, <3>1, NamesAssumption DEF Readable
  <2>. QED
    BY <2>1, <2>2, <2>3
<1>. QED
  BY <1>1, <1>2

\* While main is at work, no batch is.
LEMMA NoBatch ==
    ASSUME EpIInv, place[Main] # "idle"
    PROVE  events = <<>> /\ place[Collector] = "wait"
BY DEF EpIInv, Schedule, Batch

\* The events that are left are of open and ready descriptors, and none is in hand.
LEMMA RestReady ==
    ASSUME EpIInv, NEW g \in Rest
    PROVE  /\ g \in Fds /\ g \in epset /\ Readable(g)
           /\ socket[g] \in Peers \cup {LFD}
           /\ socket[g] = LFD => g = Listener
           /\ place[Collector] # "find" => g # events[1]
<1>1. events \in Seq(Fds) /\ Once(events) /\ DOMAIN events = 1 .. Len(events)
  BY DEF EpIInv, EpTypeOK, Batch
<1>2. g \in epset /\ Readable(g) /\ g \in Fds
  BY DEF EpIInv, Batch, EpTypeOK
<1>3. socket[g] # None
  BY <1>2 DEF EpIInv, Tables, Open
<1>4. place[Collector] # "find" => g # events[1]
  <2> SUFFICES ASSUME place[Collector] # "find" PROVE g # events[1]
    OBVIOUS
  <2>1. PICK i \in DOMAIN events : i > 1 /\ g = events[i]
    BY DEF Rest
  <2>2. 1 \in DOMAIN events /\ i # 1
    BY <1>1, <2>1
  <2>. QED
    BY <1>1, <2>1, <2>2 DEF Once
<1>. QED
  BY <1>2, <1>3, <1>4, NamesAssumption DEF EpIInv, Tables

\* While nothing in hand has changed, the rest of the batch has not.
LEMMA RestStays ==
    ASSUME events' = events, place'[Collector] # "find" \/ place[Collector] = "find"
    PROVE  Rest' \subseteq Rest
BY DEF Rest

\* The next event was one of the rest.
LEMMA RestNext ==
    ASSUME EpIInv, NextEvent, events # <<>>
    PROVE  \A i \in DOMAIN events' : events'[i] \in Rest
BY NextEventIs DEF Rest

\* A batch of which the kernel's part has not been touched.
LEMMA KernelStays == UNCHANGED kernel => \A g : Readable(g)' = Readable(g)
BY DEF Readable, kernel

\* Each step keeps the rest of the batch on open and ready descriptors.
LEMMA StepBatch == ~DeletesAnyTime /\ EpIInv /\ EpNext => Batch'
<1> SUFFICES ASSUME ~DeletesAnyTime, EpIInv, EpNext PROVE Batch'
  OBVIOUS
<1> USE NamesAssumption DEF EpThreads
<1>0. Batch /\ EpTypeOK /\ Schedule /\ DOMAIN events = 1 .. Len(events)
  BY DEF EpIInv, EpTypeOK
<1>1. CASE Outside
  <2>1. PICK p \in Peers : Connect(p) \/ SendOrClose(p)
    BY <1>1 DEF Outside
  <2>2. UNCHANGED <<socket, tables, place, arg, events>>
    BY <2>1 DEF Connect, SendOrClose
  <2>3. \/ SetPhase(p, "here") /\ backlog' = Append(backlog, p)
        \/ SetInbox(p, peer[p].inbox + 1) /\ ~peer[p].closed /\ UNCHANGED backlog
        \/ SetClosed(p, TRUE) /\ ~peer[p].closed /\ UNCHANGED backlog
    BY <2>1 DEF Connect, SendOrClose, SetPhase, SetInbox, SetClosed
  <2>4. \A q \in Peers : peer[q].inbox \in Nat /\ peer'[q].inbox \in Nat
    BY <1>0, StepType DEF EpTypeOK
  <2>5. \A q \in Peers : peer'[q].inbox >= peer[q].inbox /\ (peer[q].closed => peer'[q].closed)
    <3> TAKE q \in Peers
    <3>1. CASE q # p
      <4>1. peer'[q] = peer[q]
        BY <1>0, <2>3, <3>1, PeerFields
      <4>. QED
        BY <2>4, <4>1
    <3>2. CASE q = p
      <4>1. CASE SetPhase(p, "here")
        BY <1>0, <2>4, <3>2, <4>1, PeerFields
      <4>2. CASE SetInbox(p, peer[p].inbox + 1) /\ ~peer[p].closed
        BY <1>0, <2>4, <3>2, <4>2, PeerFields
      <4>3. CASE SetClosed(p, TRUE)
        <5>1. peer'[p].closed = TRUE /\ peer'[p].inbox = peer[p].inbox
          BY <1>0, <4>3, PeerFields
        <5>. QED
          BY <2>4, <3>2, <5>1
      <4>. QED
        BY <2>3, <4>1, <4>2, <4>3
    <3>. QED
      BY <3>1, <3>2
  <2>6. backlog' = backlog \/ backlog' # <<>>
    <3>1. Append(backlog, p) # <<>>
      <4>1. backlog \in Seq(Peers)
        BY <1>0 DEF EpTypeOK
      <4>2. Len(Append(backlog, p)) = Len(backlog) + 1 /\ Len(backlog) \in Nat
        BY <4>1
      <4>3. Len(Append(backlog, p)) # 0
        BY <4>2
      <4>. QED
        BY <4>3
    <3>. QED
      BY <2>3, <3>1
  <2>7. \A g \in Fds : socket[g] \in Peers \cup {LFD} /\ Readable(g) => Readable(g)'
    BY <1>0, <2>2, <2>4, <2>5, <2>6, StaysReady
  <2>8. \A g \in Rest : Readable(g)'
    BY <2>7, RestReady
  <2>9. place[Collector] = "recv" => Readable(arg[Collector])'
    <3> SUFFICES ASSUME place[Collector] = "recv" PROVE Readable(arg[Collector])'
      OBVIOUS
    <3>1. PICK g \in Fds : g = arg[Collector]
      BY <1>0 DEF Schedule
    <3>2. socket[g] \in Peers /\ Readable(g)
      BY <1>0, <3>1 DEF Schedule, Batch, EpIInv, Tables
    <3>3. Readable(g)' /\ g = arg'[Collector]
      BY <2>2, <2>7, <3>1, <3>2
    <3>. QED
      BY <3>3
  <2>10. place[Collector] \in Deletes => LET q == socket[arg[Collector]] IN peer'[q].closed /\ peer'[q].inbox = 0
    <3> SUFFICES ASSUME place[Collector] \in Deletes
                 PROVE LET q == socket[arg[Collector]] IN peer'[q].closed /\ peer'[q].inbox = 0
      OBVIOUS
    <3>1. socket[arg[Collector]] \in Peers
      BY AtWork
    <3>2. peer[socket[arg[Collector]]].closed /\ peer[socket[arg[Collector]]].inbox = 0
      BY <1>0 DEF Batch
    <3>. QED
      BY <1>0, <2>3, <3>1, <3>2, PeerFields
  <2>11. Rest' = Rest
    BY <2>2 DEF Rest
  <2>12. backlog # <<>> => backlog' # <<>>
    BY <2>6
  <2>. QED
    BY <1>0, <2>2, <2>12, <2>8, <2>9, <2>10, <2>11 DEF Batch, tables
<1>2. CASE Wait
  <2> DEFINE ready == {f \in epset : Readable(f)}
  <2>1. ready # {} /\ EpGoto(Collector, "wait", "find") /\ events' \in SetToSeqs(ready)
        /\ UNCHANGED <<kernel, tables>>
    BY <1>2 DEF Wait
  <2>2. IsFiniteSet(ready) /\ Cardinality(ready) \in Nat \ {0}
    <3>1. IsFiniteSet(Fds)
      BY FiniteAssumption, FS_CardinalityType, FS_Interval DEF Fds
    <3>2. IsFiniteSet(ready)
      BY <1>0, <3>1, FS_Subset DEF EpTypeOK
    <3>. QED
      BY <2>1, <3>2, FS_CardinalityType, FS_EmptySet
  <2>3. /\ events' \in [1 .. Cardinality(ready) -> ready]
        /\ \A i, j \in 1 .. Cardinality(ready) : i # j => events'[i] # events'[j]
    BY <2>1 DEF SetToSeqs
  <2> HIDE DEF ready
  <2>4. DOMAIN events' = 1 .. Cardinality(ready) /\ events' # <<>> /\ Once(events')
    <3>1. DOMAIN events' = 1 .. Cardinality(ready) /\ 1 \in 1 .. Cardinality(ready)
      BY <2>2, <2>3
    <3>2. events' # <<>>
      <4>1. events' \in Seq(ready) /\ Len(events') = Cardinality(ready)
        BY <2>2, <2>3
      <4>. QED
        BY <2>2, <4>1
    <3>. QED
      BY <2>3, <3>1, <3>2 DEF Once
  <2>5. Rest' \subseteq ready
    BY <2>3, <2>4 DEF Rest
  <2>7. \A g \in Rest' : g \in epset' /\ Readable(g)'
    BY <2>1, <2>5, KernelStays DEF ready, tables
  <2>6. place'[Collector] = "find"
    BY <1>0, <2>1, Moves
  <2>. QED
    BY <2>4, <2>7, <2>6 DEF Batch, Deletes
<1>3. CASE Find
  <2>1. place[Collector] = "find" /\ UNCHANGED <<kernel, tables, events>>
    BY <1>3 DEF Find
  <2>2. events[1] \in epset /\ Readable(events[1]) /\ EpGoto(Collector, "find", IF events[1] = Listener THEN "accept" ELSE "recv")
        /\ arg' = [arg EXCEPT ![Collector] = events[1]]
    BY <1>3, FindIs
  <2>3. PICK g \in Fds : g = events[1]
    BY <1>0, <2>2 DEF EpTypeOK
  <2>4. arg'[Collector] = g /\ place'[Collector] = IF g = Listener THEN "accept" ELSE "recv"
    BY <1>0, <2>2, <2>3, Moves DEF EpTypeOK
  <2>5. Readable(g) /\ Readable(g)'
    BY <2>1, <2>2, <2>3, KernelStays
  <2>6. g = Listener => backlog' # <<>>
    <3>1. g = Listener => socket'[g] = LFD
      BY <1>0, <2>1 DEF Schedule, kernel
    <3>. QED
      BY <2>5, <3>1 DEF Readable
  <2>7. Readable(arg[Collector])'
    BY <2>4, <2>5
  <2>8. \A h \in Rest' : h \in epset' /\ Readable(h)'
    BY <1>0, <2>1, KernelStays, RestStays DEF Batch, tables
  <2>. QED
    BY <1>0, <2>1, <2>3, <2>4, <2>6, <2>7, <2>8 DEF Batch, Deletes
<1>4. CASE Accept
  <2>1. PICK f \in Fds \ {Listener} :
              /\ socket[f] = None /\ backlog # <<>> /\ Head(backlog) \in Peers
              /\ EpGoto(Collector, "accept", "insert")
              /\ socket' = [socket EXCEPT ![f] = Head(backlog)]
    BY <1>4, AcceptIs
  <2>2. place[Collector] = "accept" /\ place'[Collector] = "insert"
    BY <1>0, <2>1, Moves
  <2>3. UNCHANGED <<peer, tables, events>> /\ events[1] = Listener /\ events # <<>>
    BY <1>0, <1>4, <2>2 DEF Accept, Batch
  <2>4. \A g \in Rest : g \in epset /\ Readable(g)'
    <3> SUFFICES ASSUME NEW g \in Rest PROVE g \in epset /\ Readable(g)'
      OBVIOUS
    <3>1. g \in Fds /\ g \in epset /\ Readable(g) /\ socket[g] \in Peers /\ g # f
      BY <2>1, <2>2, <2>3, RestReady
    <3>2. socket'[g] = socket[g]
      BY <1>0, <2>1, <3>1 DEF EpTypeOK
    <3>3. peer'[socket[g]].inbox \in Nat /\ peer'[socket[g]].inbox >= peer[socket[g]].inbox
      BY <1>0, <2>3, <3>1 DEF EpTypeOK
    <3>. QED
      BY <1>0, <2>3, <3>1, <3>2, <3>3, StaysReady
  <2>5. Rest' \subseteq Rest
    BY <2>2, <2>3, RestStays
  <2>. QED
    BY <1>0, <2>2, <2>3, <2>4, <2>5 DEF Batch, Deletes, tables

<1>5. ASSUME NextEvent, events # <<>>, epset \ {events[1]} \subseteq epset', place[Collector] # "find",
             \A g \in Rest : Readable(g)'
      PROVE  Batch'
  <2>1. /\ place'[Collector] = IF events' = <<>> THEN "wait" ELSE "find"
        /\ events' \in Seq(Fds) /\ Once(events')
    BY <1>5, NextEventIs
  <2>2. Rest' \subseteq Rest
    BY <1>5, RestNext DEF Rest
  <2>3. \A g \in Rest : g \in epset' /\ Readable(g)'
    BY <1>5, RestReady
  <2>. QED
    BY <2>1, <2>2, <2>3 DEF Batch, Deletes
<1>6. CASE TellAccept
  <2>1. NextEvent /\ events # <<>> /\ UNCHANGED <<kernel, tables>> /\ place[Collector] = "tell"
    BY <1>0, <1>6 DEF TellAccept, Batch
  <2>2. \A g \in Rest : Readable(g)'
    BY <2>1, RestReady, KernelStays
  <2>. QED
    BY <1>5, <2>1, <2>2 DEF tables
<1>13. ASSUME NEW f \in Fds, NEW g \in Rest, f = events[1], place[Collector] # "find", socket[f] \in Peers,
              UNCHANGED backlog, socket'[g] = socket[g],
              \A q \in Peers \ {socket[f]} : peer'[q] = peer[q]
       PROVE  Readable(g)'
  <2>1. g \in Fds /\ Readable(g) /\ socket[g] \in Peers \cup {LFD} /\ g # f
    BY <1>13, RestReady
  <2>2. socket[g] \in Peers => socket[g] \in Peers \ {socket[f]}
    BY <1>13, <2>1 DEF EpIInv, Placed
  <2>3. socket[g] \in Peers => peer'[socket[g]] = peer[socket[g]] /\ peer[socket[g]].inbox \in Nat
    BY <1>0, <1>13, <2>2 DEF EpTypeOK
  <2>. QED
    BY <1>0, <1>13, <2>1, <2>3, StaysReady
<1>7. CASE Recv
  <2>1. place[Collector] = "recv" /\ arg[Collector] \in Fds \ {Listener} /\ events[1] = arg[Collector] /\ events # <<>>
    BY <1>0, <1>7, RecvIs DEF Batch
  <2>4. PICK f \in Fds, p \in Peers : f = arg[Collector] /\ p = socket[f]
    BY <1>7, <2>1, RecvIs
  <2>2. CASE /\ peer[p].inbox > 0 /\ peer' = [peer EXCEPT ![p].inbox = @ - 1]
             /\ NextEvent /\ UNCHANGED <<socket, backlog, tables, ending>>
    <3>1. \A q \in Peers \ {p} : peer'[q] = peer[q]
      BY <1>0, <2>2 DEF EpTypeOK
    <3>2. \A g \in Rest : Readable(g)'
      BY <1>13, <2>1, <2>2, <2>4, <3>1
    <3>. QED
      BY <1>5, <2>1, <2>2, <3>2 DEF tables
  <2>3. CASE /\ peer[p].inbox = 0 /\ peer[p].closed
             /\ EpGoto(Collector, "recv", "delFind") /\ UNCHANGED <<kernel, tables, arg, events, ending>>
    <3>1. place'[Collector] = "delFind"
      BY <1>0, <2>3, Moves
    <3>2. Rest' \subseteq Rest /\ \A g \in Rest : g \in epset' /\ Readable(g)'
      BY <2>3, <3>1, KernelStays, RestReady, RestStays DEF tables
    <3>. QED
      BY <1>0, <2>1, <2>3, <2>4, <3>1, <3>2 DEF Batch, kernel, tables
  <2>. QED
    BY <1>7, <2>2, <2>3, <2>4, RecvIs
<1>8. ASSUME place[Main] # "idle" \/ place[Collector] = "wait", UNCHANGED events, place'[Collector] = place[Collector]
      PROVE  Batch'
  <2>1. events = <<>> /\ place[Collector] = "wait"
    BY <1>0, <1>8, NoBatch DEF Batch
  <2>2. DOMAIN events' = {} /\ Rest' = {}
    BY <1>8, <2>1 DEF Rest
  <2>. QED
    BY <1>0, <1>8, <2>1, <2>2 DEF Batch, Deletes, Once
<1>9. CASE Mains
  <2>1. UNCHANGED events
    BY <1>9 DEF Mains, Destroy, Destroyed, DelTop, MainCallsDel
  <2>2. place'[Collector] = place[Collector]
    BY <1>0, <1>9 DEF Mains, Destroy, Destroyed, DelTop, MainCallsDel, EpGoto, Schedule
  <2>3. place[Main] # "idle" \/ place[Collector] = "wait"
    BY <1>9, <1>0 DEF Mains, Destroy, Destroyed, DelTop, MainCallsDel, EpGoto
  <2>. QED
    BY <1>8, <2>1, <2>2, <2>3
<1>10. ASSUME Adding(Main) \/ Deleter(Main) PROVE Batch'
  <2>1. place[Main] # "idle"
    BY <1>10 DEF Adding, Deleter, AddInsert, AddClient, AddToSet, DelFind, DelCtl, DelClient, DelReg,
       DelClose, EpGoto
  <2>2. UNCHANGED events /\ place'[Collector] = place[Collector]
    BY <1>0, <1>10 DEF Adding, Deleter, AddInsert, AddClient, AddToSet, DelFind, DelCtl, DelClient, DelReg,
       DelClose, EpGoto, DelReturns, Schedule
  <2>. QED
    BY <1>8, <2>1, <2>2
<1>11. CASE Adding(Collector)
  <2>1. /\ place[Collector] \in Adds /\ place'[Collector] \in Adds
        /\ UNCHANGED <<kernel, arg, events>> /\ epset \subseteq epset'
    BY <1>0, <1>11 DEF Adding, AddInsert, AddClient, AddToSet, EpGoto, Adds, Schedule, Kind
  <2>2. Rest' \subseteq Rest
    BY <2>1, RestStays DEF Adds
  <2>3. \A g \in Rest : g \in epset' /\ Readable(g)'
    BY <2>1, RestReady, KernelStays
  <2>. QED
    BY <1>0, <2>1, <2>2, <2>3 DEF Batch, Adds, Deletes
<1>12. CASE Deleter(Collector)
  <2>1. place[Collector] \in Deletes /\ events # <<>> /\ events[1] = arg[Collector]
    BY <1>0, <1>12 DEF Deleter, DelFind, DelCtl, DelClient, DelReg, DelClose, EpGoto, Deletes, Batch
  <2>2. PICK f \in Fds, p \in Peers : f = arg[Collector] /\ p = socket[f]
    BY <2>1, AtWork
  <2>3. CASE DelFind(Collector) \/ DelCtl(Collector) \/ DelClient(Collector) \/ DelReg(Collector)
    <3>1. /\ place'[Collector] \in Deletes
          /\ UNCHANGED <<kernel, arg, events>> /\ epset \ {f} \subseteq epset'
      <4>1. CASE DelFind(Collector)
        BY <1>0, <4>1, DelFindIs, Moves DEF Deletes, tables
      <4>. QED
        BY <1>0, <2>2, <2>3, <4>1, Moves DEF DelCtl, DelClient, DelReg, Deletes
    <3>2. Rest' \subseteq Rest
      BY <3>1, RestStays DEF Deletes
    <3>3. \A g \in Rest : g \in epset' /\ Readable(g)'
      BY <2>1, <2>2, <3>1, RestReady, KernelStays DEF Deletes
    <3>. QED
      BY <1>0, <2>1, <3>1, <3>2, <3>3 DEF Batch, Deletes, kernel
  <2>4. CASE DelClose(Collector)
    <3>1. NextEvent /\ epset' = epset \ {f} /\ UNCHANGED backlog
          /\ socket' = [socket EXCEPT ![f] = None]
          /\ peer' = [peer EXCEPT ![p].phase = "gone"]
      BY <2>2, <2>4 DEF DelClose, DelReturns
    <3>2. \A q \in Peers \ {p} : peer'[q] = peer[q]
      BY <1>0, <3>1 DEF EpTypeOK
    <3>4. \A g \in Rest : socket'[g] = socket[g]
      BY <1>0, <2>1, <2>2, <3>1, RestReady DEF Deletes, EpTypeOK
    <3>3. \A g \in Rest : Readable(g)'
      BY <1>13, <2>1, <2>2, <3>1, <3>2, <3>4 DEF Deletes
    <3>. QED
      BY <1>5, <2>1, <2>2, <3>1, <3>3 DEF Deletes
  <2>. QED
    BY <1>12, <2>3, <2>4 DEF Deleter
<1>. QED
  BY Kinds, <1>1, <1>2, <1>3, <1>4, <1>6, <1>7, <1>9, <1>10, <1>11, <1>12 DEF Collects

\* What the messages have to say a number means.
Meant(f) == IF socket[f] \in Peers /\ f \notin Untold THEN socket[f] ELSE None

\* A step that tells nothing, and changes nothing of what there is to tell.
LEMMA NothingTold ==
    ASSUME EpIInv, log' = log, ending' \/ (~ending /\ \A f \in Fds : Meant(f)' = Meant(f))
    PROVE  Told' /\ EachStoryWhole'
<1>7. log \in Seq(Messages) /\ log' \in Seq(Messages)
  BY DEF EpIInv, EpTypeOK
<1>8. (log \in Seq(Messages) => MeansMeaning)'
  BY MeansIs, PTL
<1>9. MeansMeaning /\ MeansMeaning'
  BY <1>7, <1>8, MeansIs
<1>1. \A f : \A n \in 0 .. Len(log) : Means(f, n)' = Means(f, n)
  <2> TAKE f
  <2> TAKE n \in 0 .. Len(log)
  <2>1. About(log', f, n) = About(log, f, n)
    BY DEF About
  <2>. QED
    BY <1>9, <2>1 DEF MeansMeaning
<1>2. EachStoryWhole'
  <2>1. \A i \in DOMAIN log : i - 1 \in 0 .. Len(log)
    BY <1>7
  <2>2. \A i \in DOMAIN log : Means(log[i].fd, i - 1)' = Means(log[i].fd, i - 1)
    <3> TAKE i \in DOMAIN log
    <3>1. PICK f : f = log[i].fd
      OBVIOUS
    <3>. QED
      BY <1>1, <2>1, <3>1
  <2>. QED
    BY <2>2 DEF EpIInv, EachStoryWhole
<1>3. ~ending => \A f \in Fds : Means(f, Len(log)) = Meant(f)
  BY DEF EpIInv, Told, Meant
<1>4. Told' <=> (~ending' => \A f \in Fds : Means(f, Len(log))' = Meant(f)')
  BY DEF Told, Meant
<1>6. \A f : Means(f, Len(log))' = Means(f, Len(log))
  <2> TAKE f
  <2>1. Len(log) \in 0 .. Len(log)
    BY <1>7
  <2>. QED
    BY <1>1, <2>1
<1>. QED
  BY <1>2, <1>3, <1>4, <1>6

\* A step that tells one message about a number, and as much changes for it.
LEMMA OneTold ==
    ASSUME EpIInv, ~ending, NEW m \in Messages, log' = Append(log, m),
           Meant(m.fd) = IF m.kind = "accept" THEN None ELSE m.who,
           Meant(m.fd)' = IF m.kind \in {"end", "del"} THEN None ELSE m.who,
           \A g \in Fds \ {m.fd} : Meant(g)' = Meant(g)
    PROVE  Told' /\ EachStoryWhole'
<1>1. log \in Seq(Messages) /\ m.fd \in Fds
  BY DEF EpIInv, EpTypeOK, Messages
<1>2. \A f \in Fds : Means(f, Len(log)) = Meant(f)
  BY DEF EpIInv, Told, Meant
<1>3. \A f \in Fds : Means(f, Len(log))' = Meant(f)'
  <2> TAKE f \in Fds
  <2>1. Means(f, Len(log))' = IF m.fd # f THEN Means(f, Len(log))
                              ELSE IF m.kind \in {"end", "del"} THEN None ELSE m.who
    BY <1>1, MeansAppended
  <2>. QED
    BY <1>2, <2>1
<1>4. Told'
  BY <1>3 DEF Told, Meant
<1>5. \A i \in DOMAIN log' : Means(log[i].fd, i - 1)' = IF log'[i].kind = "accept" THEN None ELSE log'[i].who
  <2> TAKE i \in DOMAIN log'
  <2>1. i \in 1 .. Len(log) + 1 /\ Len(log) \in Nat
    BY <1>1
  <2>2. PICK g : g = log'[i].fd
    OBVIOUS
  <2>3. CASE i \in 1 .. Len(log)
    <3>1. log'[i] = log[i] /\ i \in DOMAIN log /\ i - 1 \in 0 .. Len(log)
      BY <1>1, <2>3
    <3>2. Means(g, i - 1) = IF log[i].kind = "accept" THEN None ELSE log[i].who
      BY <2>2, <3>1 DEF EpIInv, EachStoryWhole
    <3>3. Means(g, i - 1)' = Means(g, i - 1)
      BY <1>1, <3>1, MeansStays
    <3>. QED
      BY <2>2, <3>1, <3>2, <3>3
  <2>4. CASE i = Len(log) + 1
    <3>1. log'[i] = m /\ i - 1 = Len(log) /\ i - 1 \in 0 .. Len(log)
      BY <1>1, <2>1, <2>4
    <3>2. Means(g, i - 1)' = Means(g, i - 1)
      BY <1>1, <3>1, MeansStays
    <3>3. Means(g, i - 1) = Meant(g)
      BY <1>1, <1>2, <2>2, <3>1
    <3>. QED
      BY <2>2, <3>1, <3>2, <3>3
  <2>. QED
    BY <2>1, <2>3, <2>4
<1>. QED
  BY <1>4, <1>5 DEF EachStoryWhole

\* Each step tells what it changes, and nothing else.
LEMMA StepStories == ~DeletesAnyTime /\ EpIInv /\ EpNext => Told' /\ EachStoryWhole'
<1> SUFFICES ASSUME ~DeletesAnyTime, EpIInv, EpNext PROVE Told' /\ EachStoryWhole'
  OBVIOUS
<1> USE NamesAssumption DEF EpThreads
<1>0. EpTypeOK /\ Schedule /\ Batch
  BY DEF EpIInv
<1>1. ASSUME UNCHANGED <<log, socket>>, Untold' = Untold, ending' \/ ~ending
      PROVE  Told' /\ EachStoryWhole'
  <2>1. \A f \in Fds : Meant(f)' = Meant(f)
    BY <1>1 DEF Meant
  <2>. QED
    BY <1>1, <2>1, NothingTold
<1>2. CASE Outside
  <2>1. UNCHANGED <<log, socket, place, arg, ending>>
    BY <1>2 DEF Outside, Connect, SendOrClose
  <2>2. Untold' = Untold
    BY <2>1 DEF Untold
  <2>. QED
    BY <1>0, <1>1, <2>1, <2>2 DEF EpTypeOK
<1>3. CASE Wait \/ Find
  <2>1. Untold = {} /\ Untold' = {}
    <3>1. CASE Wait
      BY <1>0, <3>1, Moves DEF Wait, Untold, Adds, Deletes
    <3>2. CASE Find
      <4>1. place[Collector] = "find" /\ place'[Collector] \in {"accept", "recv"}
        BY <1>0, <3>2, FindIs, Moves
      <4>. QED
        BY <4>1 DEF Untold, Adds, Deletes
    <3>. QED
      BY <1>3, <3>1, <3>2
  <2>. QED
    BY <1>1, <1>3, <2>1 DEF Wait, Find, kernel
<1>4. CASE Accept
  <2>1. PICK f \in Fds \ {Listener} :
              /\ socket[f] = None
              /\ EpGoto(Collector, "accept", "insert")
              /\ socket' = [socket EXCEPT ![f] = Head(backlog)]
              /\ arg' = [arg EXCEPT ![Collector] = f]
    BY <1>4, AcceptIs
  <2>2. Untold = {} /\ Untold' = {f}
    BY <1>0, <2>1, Moves DEF Untold, Adds, Deletes, EpTypeOK
  <2>3. \A g \in Fds : Meant(g)' = Meant(g)
    BY <1>0, <2>1, <2>2 DEF Meant, EpTypeOK
  <2>4. ~ending /\ UNCHANGED <<log, ending>>
    BY <1>0, <1>4, <2>1 DEF Accept, EpGoto, Schedule
  <2>. QED
    BY <2>3, <2>4, NothingTold
<1>5. CASE TellAccept
  <2>1. place[Collector] = "tell" /\ NextEvent /\ events # <<>> /\ Tell("accept", arg[Collector])
        /\ UNCHANGED <<socket, ending>>
    BY <1>0, <1>5 DEF TellAccept, Batch, kernel
  <2>2. PICK f \in Fds : f = arg[Collector] /\ socket[f] \in Peers /\ ~ending
    BY <2>1, AtWork DEF Adds
  <2> DEFINE m == [kind |-> "accept", fd |-> f, who |-> socket[f]]
  <2>3. m \in Messages /\ log' = Append(log, m)
    BY <1>0, <2>1, <2>2, TellIs
  <2>4. Untold = {f} /\ Untold' = {}
    BY <2>1, <2>2, NextEventIs DEF Untold, Adds, Deletes
  <2>5. Meant(f) = None /\ Meant(f)' = socket[f] /\ \A g \in Fds \ {f} : Meant(g)' = Meant(g)
    BY <2>1, <2>2, <2>4 DEF Meant
  <2>6. m.fd = f /\ m.kind = "accept" /\ m.who = socket[f]
    OBVIOUS
  <2> HIDE DEF m
  <2>. QED
    BY <2>2, <2>3, <2>5, <2>6, OneTold
<1>6. CASE Recv
  <2>1. PICK f \in Fds : f = arg[Collector] /\ socket[f] \in Peers
    BY <1>6, RecvIs
  <2>2. place[Collector] = "recv" /\ events # <<>> /\ Untold = {} /\ ~ending /\ UNCHANGED <<socket, ending>>
    BY <1>0, <1>6, RecvIs DEF Batch, Untold, Adds, Deletes, Schedule, kernel
  <2>3. CASE Tell("data", f) /\ NextEvent
    <3> DEFINE m == [kind |-> "data", fd |-> f, who |-> socket[f]]
    <3>1. m \in Messages /\ log' = Append(log, m)
      BY <1>0, <2>1, <2>3, TellIs
    <3>2. Untold' = {}
      BY <2>2, <2>3, NextEventIs DEF Untold, Adds, Deletes
    <3>3. Meant(f) = socket[f] /\ \A g \in Fds : Meant(g)' = Meant(g)
      BY <2>1, <2>2, <3>2 DEF Meant
    <3>4. m.fd = f /\ m.kind = "data" /\ m.who = socket[f]
      OBVIOUS
    <3> HIDE DEF m
    <3>. QED
      BY <2>2, <3>1, <3>3, <3>4, OneTold
  <2>4. CASE Tell("end", f) /\ EpGoto(Collector, "recv", "delFind") /\ UNCHANGED arg
    <3> DEFINE m == [kind |-> "end", fd |-> f, who |-> socket[f]]
    <3>1. m \in Messages /\ log' = Append(log, m)
      BY <1>0, <2>1, <2>4, TellIs
    <3>2. Untold' = {f}
      BY <1>0, <2>1, <2>4, Moves DEF Untold, Adds, Deletes
    <3>3. Meant(f) = socket[f] /\ Meant(f)' = None /\ \A g \in Fds \ {f} : Meant(g)' = Meant(g)
      BY <2>1, <2>2, <3>2 DEF Meant
    <3>4. m.fd = f /\ m.kind = "end" /\ m.who = socket[f]
      OBVIOUS
    <3> HIDE DEF m
    <3>. QED
      BY <2>2, <3>1, <3>3, <3>4, OneTold
  <2>. QED
    BY <1>6, <2>1, <2>3, <2>4, RecvIs
<1>7. CASE Mains
  <2>1. UNCHANGED <<log, socket>> /\ (ending' \/ ~ending)
    BY <1>7, <1>0 DEF Mains, Destroy, Destroyed, DelTop, MainCallsDel, kernel, EpTypeOK
  <2>2. place'[Collector] = place[Collector]
    BY <1>0, <1>7 DEF Mains, Destroy, Destroyed, DelTop, MainCallsDel, EpGoto, Schedule
  <2>3. arg'[Collector] = arg[Collector]
    BY <1>0, <1>7 DEF Mains, Destroy, Destroyed, DelTop, MainCallsDel, EpTypeOK
  <2>. QED
    BY <1>1, <2>1, <2>2, <2>3 DEF Untold
<1>8. ASSUME NEW t \in EpThreads,
             Adding(t) \/ DelFind(t) \/ DelCtl(t) \/ DelClient(t) \/ DelReg(t)
      PROVE  Told' /\ EachStoryWhole'
  <2>1. UNCHANGED <<socket, log, arg, ending>> /\ \E from, to \in Adds \cup Deletes \cup {"idle"} :
           EpGoto(t, from, to) /\ from # "idle" /\ (t = Collector => to # "idle")
    <3>1. CASE DelFind(t)
      BY <3>1, DelFindIs DEF kernel, Deletes
    <3>2. CASE DelCtl(t) \/ DelClient(t) \/ DelReg(t)
      BY <3>2 DEF DelCtl, DelClient, DelReg, kernel, Deletes
    <3>3. CASE Adding(t)
      BY <3>3 DEF Adding, AddInsert, AddClient, AddToSet, kernel, Adds
    <3>. QED
      BY <1>8, <3>1, <3>2, <3>3
  <2>2. Untold' = Untold
    BY <1>0, <2>1, Moves DEF Untold
  <2>. QED
    BY <1>0, <1>1, <2>1, <2>2 DEF EpTypeOK
<1>9. CASE DelClose(Collector)
  <2>1. place[Collector] = "delClose" /\ NextEvent /\ events # <<>> /\ UNCHANGED <<log, ending>>
    BY <1>0, <1>9 DEF DelClose, DelReturns, Batch, Deletes
  <2>2. PICK f \in Fds : f = arg[Collector] /\ ~ending
    BY <2>1, AtWork DEF Deletes
  <2>3. \A g \in Fds : socket'[g] = IF g = f THEN None ELSE socket[g]
    BY <1>0, <1>9, <2>2 DEF DelClose, EpTypeOK
  <2>4. Untold = {f} /\ Untold' = {}
    BY <2>1, <2>2, NextEventIs DEF Untold, Adds, Deletes
  <2>5. \A g \in Fds : Meant(g)' = Meant(g)
    BY <2>3, <2>4 DEF Meant
  <2>. QED
    BY <2>1, <2>2, <2>5, NothingTold
<1>10. CASE DelClose(Main)
  <2>1. place[Main] = "delClose" /\ place[Collector] = "wait" /\ UNCHANGED ending
    BY <1>0, <1>10, NoBatch DEF DelClose
  <2>2. CASE ending
    <3>1. UNCHANGED log
      BY <1>10, <2>2 DEF DelClose
    <3>. QED
      BY <2>1, <2>2, <3>1, NothingTold
  <2>3. CASE ~ending
    <3>1. PICK f \in Fds : f = arg[Main] /\ socket[f] \in Peers
      BY <2>1, <2>3, AtWork DEF Deletes
    <3> DEFINE m == [kind |-> "del", fd |-> f, who |-> socket[f]]
    <3>2. m \in Messages /\ log' = Append(log, m)
      BY <1>0, <1>10, <2>3, <3>1, TellIs DEF DelClose
    <3>3. Untold = {} /\ Untold' = {}
      BY <1>0, <1>10, <2>1 DEF DelClose, DelReturns, Untold, Adds, Deletes, Schedule
    <3>4. \A g \in Fds : socket'[g] = IF g = f THEN None ELSE socket[g]
      BY <1>0, <1>10, <3>1 DEF DelClose, EpTypeOK
    <3>5. Meant(f) = socket[f] /\ Meant(f)' = None /\ \A g \in Fds \ {f} : Meant(g)' = Meant(g)
      BY <3>1, <3>3, <3>4 DEF Meant
    <3>6. m.fd = f /\ m.kind = "del" /\ m.who = socket[f]
      OBVIOUS
    <3> HIDE DEF m
    <3>. QED
      BY <2>3, <3>2, <3>5, <3>6, OneTold
  <2>. QED
    BY <2>2, <2>3
<1>. QED
  BY Kinds, <1>2, <1>3, <1>4, <1>5, <1>6, <1>7, <1>8, <1>9, <1>10 DEF Collects, Deleter

-----------------------------------------------------------------------------
(* The theorems *)

\* The object starts so.
LEMMA EpStart == EpInit => EpIInv
<1> SUFFICES ASSUME EpInit PROVE EpIInv
  OBVIOUS
<1> USE NamesAssumption, ListenerIs DEF EpInit, EpThreads
<1>1. EpTypeOK
  <2>1. socket \in [Fds -> Peers \cup {LFD, None}] /\ sockfd_collector \in [Fds -> {None, SFD, LFD}]
    OBVIOUS
  <2>2. peer \in [Peers -> [phase : Phases, inbox : Nat, closed : BOOLEAN]]
    BY DEF Phases
  <2>3. arg \in [EpThreads -> Fds \cup {0}]
    OBVIOUS
  <2>4. backlog \in Seq(Peers) /\ clients \in Seq(Fds) /\ log \in Seq(Messages) /\ events \in Seq(Fds)
    BY EmptySeq
  <2>5. epset \subseteq Fds /\ ending \in BOOLEAN
    OBVIOUS
  <2>. QED
    BY <2>1, <2>2, <2>3, <2>4, <2>5 DEF EpTypeOK
<1>2. Schedule
  BY DEF Schedule, Adds, Deletes
<1>3. /\ place[Main] = "insert" /\ arg[Main] = Listener /\ place[Collector] = "wait"
      /\ DOMAIN backlog = {} /\ DOMAIN events = {} /\ DOMAIN clients = {} /\ DOMAIN log = {}
  OBVIOUS
<1>4. Tables
  <2>1. Open = {Listener} /\ ToSet(clients) = {} /\ Once(clients)
    BY <1>3 DEF Open, ToSet, Once
  <2>2. \A P : "insert" \in P => Busy(Listener, P)
    BY <1>3 DEF Busy
  <2>3. Busy(Listener, {"insert", "client", "add", "delClient", "delReg", "delClose"})
        /\ Busy(Listener, {"insert", "delClose"})
    BY <2>2
  <2>. QED
    BY <2>1, <2>3 DEF Tables
<1>5. Placed
  BY <1>3 DEF Placed, Once
<1>6. Batch
  BY <1>3 DEF Batch, Rest, Once, Deletes
<1>7. EachStoryWhole
  BY <1>3 DEF EachStoryWhole
<1>8. Told
  <2>1. MeansMeaning /\ Len(log) = 0 /\ \A f : About(log, f, 0) = {}
    BY MeansIs, <1>1 DEF EpTypeOK, About
  <2>2. \A f : Means(f, 0) = None
    BY <2>1 DEF MeansMeaning
  <2>3. \A f \in Fds : socket[f] \notin Peers
    OBVIOUS
  <2>. QED
    BY <2>1, <2>2, <2>3 DEF Told
<1>. QED
  BY <1>1, <1>2, <1>4, <1>5, <1>6, <1>7, <1>8 DEF EpIInv

\* And nothing changes by itself.
LEMMA EpStutters == EpIInv /\ UNCHANGED epVars => EpIInv'
<1> SUFFICES ASSUME EpIInv, UNCHANGED epVars PROVE EpIInv'
  OBVIOUS
<1>1. UNCHANGED <<socket, backlog, peer, epset, sockfd_collector, clients, log, place, arg, events, ending>>
  BY DEF epVars, kernel, tables
<1>2. EpTypeOK' /\ Schedule' /\ Tables' /\ Placed'
  BY <1>1 DEF EpIInv, EpTypeOK, Schedule, Tables, Open, Busy, Placed
<1>3. Batch'
  BY <1>1, KernelStays DEF EpIInv, Batch, Rest, kernel
<1>4. Told' /\ EachStoryWhole'
  <2>1. \A f \in Fds : Meant(f)' = Meant(f)
    BY <1>1 DEF Meant, Untold
  <2>2. ending' \/ ~ending
    BY <1>1 DEF EpIInv, EpTypeOK
  <2>. QED
    BY <1>1, <2>1, <2>2, NothingTold
<1>. QED
  BY <1>2, <1>3, <1>4 DEF EpIInv

\* While users delete between two calls of ep_wait() only, the tables, the kernel,
\* the batch and the messages fit together in every state.
THEOREM EpInvariant == ASSUME ~DeletesAnyTime PROVE EpSpec => []EpIInv
<1>1. EpIInv /\ [EpNext]_epVars => EpIInv'
  <2>1. EpIInv /\ EpNext => EpIInv'
    BY StepType, StepSchedule, StepTables, StepPlaced, StepBatch, StepStories DEF EpIInv
  <2>. QED
    BY <2>1, EpStutters
<1>. QED
  BY <1>1, EpStart, PTL DEF EpSpec

\* The messages with one number tell one connection after the other, each whole: a
\* reader who sees only the number knows whose message it is (users delete between
\* two calls of ep_wait()).
THEOREM StoriesWhole == ASSUME ~DeletesAnyTime PROVE EpSpec => []EachStoryWhole
<1>1. EpIInv => EachStoryWhole
  BY DEF EpIInv
<1>. QED
  BY <1>1, EpInvariant, PTL

\* A list without repetitions is as long as the set of its elements.
LEMMA Lengths ==
    ASSUME NEW S, NEW s \in Seq(S), Once(s)
    PROVE  IsFiniteSet(ToSet(s)) /\ Cardinality(ToSet(s)) = Len(s)
<1>1. s \in [1 .. Len(s) -> ToSet(s)] /\ Len(s) \in Nat
  BY DEF ToSet
<1>2. s \in Bijection(1 .. Len(s), ToSet(s))
  BY <1>1 DEF Once, Bijection, Injection, Surjection, IsInjective, ToSet
<1>3. ExistsBijection(1 .. Len(s), ToSet(s))
  BY <1>2 DEF ExistsBijection
<1>. QED
  BY <1>1, <1>3, FS_CountingElements, FS_NatBijection

\* Between two calls of ep_wait() the epoll set, sockfd_collector, clients and the
\* kernel agree about what is open; no event finds its descriptor missing, and no
\* accept() fails (users delete between two calls of ep_wait()).
THEOREM Agreement == ASSUME ~DeletesAnyTime PROVE EpSpec => []TablesAgree
<1>1. EpIInv => TablesAgree
  <2> SUFFICES ASSUME EpIInv PROVE TablesAgree
    OBVIOUS
  <2>0. EpTypeOK /\ Schedule /\ Tables
    BY DEF EpIInv
  <2>1. place[Collector] \notin {"crashed", "aborted"}
    BY <2>0 DEF Schedule, Adds, Deletes
  <2>2. ASSUME place[Collector] = "wait", place[Main] \in {"idle", "gone"}
        PROVE  /\ Open = epset /\ Open = {f \in Fds : sockfd_collector[f] # None}
               /\ Len(clients) = Cardinality(Open \ {Listener})
               /\ ToSet(clients) = Open \ {Listener}
    <3>1. \A f \in Fds :
            /\ ~Busy(f, {"insert", "client", "add", "delClient", "delReg", "delClose"})
            /\ ~Busy(f, {"insert", "client", "delReg", "delClose"}) /\ ~Busy(f, {"insert", "delClose"})
      BY <2>2 DEF Busy, EpThreads
    <3>2. \A f : KindOf(f) # None
      BY NamesAssumption DEF KindOf
    <3> HIDE DEF Busy
    <3>3. Open = epset /\ Open = {f \in Fds : sockfd_collector[f] # None}
      BY <2>0, <3>1, <3>2 DEF Tables, EpTypeOK, Open
    <3>4. ToSet(clients) \subseteq Fds
      BY <2>0 DEF EpTypeOK, ToSet
    <3>5. ToSet(clients) = Open \ {Listener}
      BY <2>0, <3>1, <3>4 DEF Tables, Open
    <3>6. Cardinality(ToSet(clients)) = Len(clients)
      BY <2>0, Lengths DEF EpTypeOK, Tables
    <3>. QED
      BY <3>3, <3>5, <3>6
  <2>3. ASSUME place[Main] = "gone" PROVE epset = {}
    BY <2>0, <2>3 DEF Schedule, Tables, EpTypeOK, Open
  <2>. QED
    BY <2>1, <2>2, <2>3 DEF TablesAgree, Open
<1>. QED
  BY <1>1, EpInvariant, PTL

\* collect() closes only a connection that the other end has closed, when all that
\* came from it has been received (users delete between two calls of ep_wait()).
THEOREM ClosedOnly == ASSUME ~DeletesAnyTime PROVE EpSpec => ClosesOnlyClosed
<1> DEFINE Closing(p) == /\ place[Collector] = "delClose" /\ place'[Collector] # "delClose"
                         /\ peer[p].phase = "here" /\ peer'[p].phase = "gone"
           Step == \A p \in Peers : Closing(p) => peer[p].closed /\ peer[p].inbox = 0
<1>1. EpIInv /\ [EpNext]_epVars => [Step]_epVars
  <2> SUFFICES ASSUME EpIInv, EpNext, NEW p \in Peers, Closing(p)
               PROVE  peer[p].closed /\ peer[p].inbox = 0
    OBVIOUS
  <2>0. EpTypeOK /\ place[Collector] \in Deletes
    BY DEF EpIInv, Deletes
  <2>1. ASSUME UNCHANGED peer PROVE FALSE
    BY <2>1
  <2>2. ASSUME NEW q \in Peers, NEW x, SetInbox(q, x) \/ SetClosed(q, x) \/ (x = "here" /\ SetPhase(q, x))
        PROVE  FALSE
    BY <2>0, <2>2, PeerFields
  <2>3. ~Outside
    BY <2>2 DEF Outside, Connect, SendOrClose, SetPhase, SetInbox, SetClosed
  <2>4. ~Collects /\ ~Mains /\ \A t \in EpThreads : ~Adding(t)
    <3>1. ~Collects
      BY <2>0 DEF Collects, Wait, Find, Accept, TellAccept, Recv, EpGoto, Deletes
    <3>2. ~Mains
      BY <2>1 DEF Mains, Destroy, Destroyed, DelTop, MainCallsDel, kernel
    <3>3. \A t \in EpThreads : ~Adding(t)
      BY <2>1 DEF Adding, AddInsert, AddClient, AddToSet, kernel
    <3>. QED
      BY <3>1, <3>2, <3>3
  <2>5. PICK t \in EpThreads : DelClose(t)
    <3>1. PICK t \in EpThreads : Deleter(t)
      BY <2>3, <2>4, Kinds
    <3>. QED
      BY <2>1, <3>1 DEF Deleter, DelFind, DelCtl, DelClient, DelReg, kernel
  <2>6. t = Collector
    BY <2>0, <2>5, NoBatch DEF DelClose, EpThreads, Deletes
  <2>7. p = socket[arg[Collector]]
    BY <2>0, <2>5, <2>6 DEF DelClose, EpTypeOK
  <2>. QED
    BY <2>0, <2>7 DEF EpIInv, Batch
<1>2. ClosesOnlyClosed <=> [][Step]_epVars
  BY DEF ClosesOnlyClosed
<1>. QED
  BY <1>1, <1>2, EpInvariant, PTL DEF EpSpec

-----------------------------------------------------------------------------
(* JPoll *)

Writes == {"add", "del", "erase"}
Counting == {t \in Pollers : doing[t] = "count"}
Erasing == {t \in Pollers : doing[t] = "erase" /\ Has(t)}

PollTypeOK ==
    /\ pfds \in Seq(PollFds \cup {0}) /\ counted \in Int
    /\ doing \in [Pollers -> {"idle", "count", "poll"} \cup Writes]
    /\ about \in [Pollers -> PollFds \cup {0}]

\* A thread at work in the array is alone with the lock, and no descriptor is in the
\* array twice.
PollIInv ==
    /\ PollTypeOK
    /\ prw = {t \in Pollers : doing[t] \in Writes \cup {"poll"}}
    /\ \A t, u \in Pollers : doing[t] \in Writes /\ u # t => doing[u] \in {"idle", "count"}
    /\ Once(pfds)
    /\ \A t \in Pollers : doing[t] = "add" => about[t] \notin ToSet(pfds)
    /\ counted = Len(pfds) - Cardinality(Counting) - Cardinality(Erasing)

\* Of the threads that erase there is one at most.
LEMMA Erasers ==
    ASSUME PollIInv, NEW t \in Pollers, doing[t] \in Writes
    PROVE  Erasing = IF doing[t] = "erase" /\ Has(t) THEN {t} ELSE {}
BY DEF PollIInv, Erasing, Writes

\* A step of a thread moves that thread and no other.
LEMMA PollMoves ==
    ASSUME PollTypeOK, NEW t \in Pollers, NEW from, NEW to, PollGoto(t, from, to)
    PROVE  doing[t] = from /\ doing'[t] = to /\ \A u \in Pollers \ {t} : doing'[u] = doing[u]
BY DEF PollTypeOK, PollGoto

\* Where the array and the counts stay, so does what they have to do with each other.
LEMMA CountsStay ==
    ASSUME PollIInv, UNCHANGED <<pfds, counted>>, Counting' = Counting, Erasing' = Erasing
    PROVE  counted' = Len(pfds') - Cardinality(Counting') - Cardinality(Erasing')
BY DEF PollIInv

\* Who gets the lock finds the array as it should be, and leaves it so.
LEMMA PollLocks ==
    ASSUME PollIInv, NEW t \in Pollers, NEW to \in {"add", "del", "poll"}, NEW fd \in PollFds \cup {0},
           to = "add" => \A i \in DOMAIN pfds : pfds[i] # fd,
           Lock(t, to, fd)
    PROVE  PollIInv'
<1> USE DEF Writes
<1>1. /\ prw = {} \/ (to = "poll" /\ ~Writing)
      /\ prw' = prw \cup {t} /\ about' = [about EXCEPT ![t] = fd] /\ UNCHANGED <<pfds, counted>>
      /\ doing[t] = "idle" /\ doing'[t] = to /\ \A u \in Pollers \ {t} : doing'[u] = doing[u]
  BY PollMoves DEF Lock, PollIInv
<1>2. PollTypeOK'
  BY <1>1 DEF PollIInv, PollTypeOK, Lock, PollGoto
<1>3. /\ \A u \in Pollers \ {t} : about'[u] = about[u]
      /\ about'[t] = fd
  BY <1>1 DEF PollIInv, PollTypeOK
<1>4. \A u \in Pollers : doing[u] \notin Writes
  BY <1>1 DEF PollIInv, Writing
<1>5. Counting' = Counting
  BY <1>1 DEF Counting
<1>6. Erasing = {} /\ Erasing' = {}
  BY <1>1, <1>4 DEF Erasing
<1>7. prw' = {u \in Pollers : doing'[u] \in Writes \cup {"poll"}}
  BY <1>1 DEF PollIInv
<1>8. \A u, v \in Pollers : doing'[u] \in Writes /\ v # u => doing'[v] \in {"idle", "count"}
  <2> SUFFICES ASSUME NEW u \in Pollers, NEW v \in Pollers, doing'[u] \in Writes, v # u
               PROVE  doing'[v] \in {"idle", "count"}
    OBVIOUS
  <2>1. u = t /\ to # "poll"
    BY <1>1, <1>4
  <2>2. prw = {} /\ doing'[v] = doing[v]
    BY <1>1, <2>1
  <2>. QED
    BY <2>2 DEF PollIInv, PollTypeOK
<1>9. \A u \in Pollers : doing'[u] = "add" => about'[u] \notin ToSet(pfds')
  BY <1>1, <1>3, <1>4 DEF ToSet
<1>10. counted' = Len(pfds') - Cardinality(Counting') - Cardinality(Erasing')
  BY <1>1, <1>5, <1>6, CountsStay
<1>. QED
  BY <1>1, <1>2, <1>7, <1>8, <1>9, <1>10 DEF PollIInv

\* A thread that gives back the write lock leaves no other thread with it.
LEMMA PollAlone ==
    ASSUME PollIInv, NEW t \in Pollers, doing[t] \in Writes,
           \A u \in Pollers \ {t} : doing'[u] = doing[u]
    PROVE  \A u \in Pollers \ {t} : doing'[u] = doing[u] /\ doing[u] \in {"idle", "count"}
BY DEF PollIInv

\* p_add() appends, and owes the count one.
LEMMA PollAddPush ==
    ASSUME PollIInv, IsFiniteSet(Pollers), NEW t \in Pollers, AddPush(t)
    PROVE  PollIInv'
<1> USE DEF Writes
<1>1. /\ pfds' = Append(pfds, about[t]) /\ prw' = prw \ {t} /\ UNCHANGED <<counted, about>>
      /\ doing[t] = "add" /\ doing'[t] = "count" /\ \A u \in Pollers \ {t} : doing'[u] = doing[u]
  BY PollMoves DEF AddPush, PollIInv
<1>2. \A u \in Pollers \ {t} : doing'[u] = doing[u] /\ doing[u] \in {"idle", "count"}
  BY <1>1, PollAlone
<1>3. /\ pfds' \in Seq(PollFds \cup {0}) /\ Once(pfds') /\ Len(pfds') = Len(pfds) + 1
  <2>1. about[t] \in PollFds \cup {0} /\ pfds \in Seq(PollFds \cup {0}) /\ Once(pfds)
        /\ about[t] \notin ToSet(pfds)
    BY <1>1 DEF PollIInv, PollTypeOK
  <2>2. Append(pfds, about[t]) \in Seq(PollFds \cup {0}) /\ Once(Append(pfds, about[t]))
    BY <2>1, Appended
  <2>. QED
    BY <1>1, <2>1, <2>2
<1>4. PollTypeOK'
  BY <1>1, <1>3 DEF PollIInv, PollTypeOK, AddPush, PollGoto
<1>5. prw' = {u \in Pollers : doing'[u] \in Writes \cup {"poll"}}
  BY <1>1, <1>2 DEF PollIInv
<1>6. \A u \in Pollers : doing'[u] \notin Writes
  BY <1>1, <1>2
<1>7. Erasing = {} /\ Erasing' = {}
  BY <1>1, <1>2 DEF Erasing
<1>8. Counting' = Counting \cup {t} /\ t \notin Counting
  BY <1>1, <1>2 DEF Counting
<1>9. Cardinality(Counting') = Cardinality(Counting) + 1
  <2>1. IsFiniteSet(Counting)
    BY FS_Subset DEF Counting
  <2>. QED
    BY <1>8, <2>1, FS_AddElement
<1>10. counted' = Len(pfds') - Cardinality(Counting') - Cardinality(Erasing')
  <2>1. Cardinality(Counting) \in Nat /\ Cardinality(Erasing) = 0 /\ Cardinality(Erasing') = 0
    BY <1>7, FS_CardinalityType, FS_EmptySet, FS_Subset DEF Counting
  <2>2. counted = Len(pfds) - Cardinality(Counting) - Cardinality(Erasing) /\ Len(pfds) \in Nat
    BY DEF PollIInv, PollTypeOK
  <2>. QED
    BY <1>1, <1>3, <1>9, <2>1, <2>2
<1>. QED
  BY <1>3, <1>4, <1>5, <1>6, <1>10 DEF PollIInv

\* p_add() counts what it appended, with no lock.
LEMMA PollAddCount ==
    ASSUME PollIInv, IsFiniteSet(Pollers), NEW t \in Pollers, AddCount(t)
    PROVE  PollIInv'
<1> USE DEF Writes
<1>1. /\ counted' = counted + 1 /\ UNCHANGED <<pfds, prw>> /\ about' = [about EXCEPT ![t] = 0]
      /\ doing[t] = "count" /\ doing'[t] = "idle" /\ \A u \in Pollers \ {t} : doing'[u] = doing[u]
  BY PollMoves DEF AddCount, PollIInv
<1>2. PollTypeOK'
  BY <1>1 DEF PollIInv, PollTypeOK, AddCount, PollGoto
<1>3. \A u \in Pollers \ {t} : about'[u] = about[u]
  BY <1>1 DEF PollIInv, PollTypeOK
<1>4. prw' = {u \in Pollers : doing'[u] \in Writes \cup {"poll"}}
  BY <1>1 DEF PollIInv
<1>5. \A u, v \in Pollers : doing'[u] \in Writes /\ v # u => doing'[v] \in {"idle", "count"}
  BY <1>1 DEF PollIInv
<1>6. \A u \in Pollers : doing'[u] = "add" => about'[u] \notin ToSet(pfds')
  BY <1>1, <1>3 DEF PollIInv
<1>7. Erasing' = Erasing
  BY <1>1, <1>3 DEF Erasing, Has
<1>8. Counting' = Counting \ {t} /\ t \in Counting
  BY <1>1 DEF Counting
<1>9. Cardinality(Counting') = Cardinality(Counting) - 1 /\ Cardinality(Counting) \in Nat
  <2>1. IsFiniteSet(Counting)
    BY FS_Subset DEF Counting
  <2>. QED
    BY <1>8, <2>1, FS_RemoveElement, FS_CardinalityType
<1>10. counted' = Len(pfds') - Cardinality(Counting') - Cardinality(Erasing')
  <2>1. Cardinality(Erasing) \in Nat
    BY FS_CardinalityType, FS_Subset DEF Erasing
  <2>2. counted = Len(pfds) - Cardinality(Counting) - Cardinality(Erasing) /\ Len(pfds) \in Nat
    BY DEF PollIInv, PollTypeOK
  <2>. QED
    BY <1>1, <1>7, <1>9, <2>1, <2>2
<1>. QED
  BY <1>1, <1>2, <1>4, <1>5, <1>6, <1>10 DEF PollIInv

\* p_del() counts out what it found and is about to erase.
LEMMA PollDelCount ==
    ASSUME PollIInv, IsFiniteSet(Pollers), NEW t \in Pollers, DelCount(t)
    PROVE  PollIInv'
<1> USE DEF Writes
<1>1. /\ counted' = IF Has(t) THEN counted - 1 ELSE counted
      /\ UNCHANGED <<pfds, prw, about>>
      /\ doing[t] = "del" /\ doing'[t] = "erase" /\ \A u \in Pollers \ {t} : doing'[u] = doing[u]
  BY PollMoves DEF DelCount, PollIInv
<1>2. \A u \in Pollers \ {t} : doing'[u] = doing[u] /\ doing[u] \in {"idle", "count"}
  BY <1>1, PollAlone
<1>3. PollTypeOK'
  BY <1>1 DEF PollIInv, PollTypeOK, DelCount, PollGoto
<1>4. prw' = {u \in Pollers : doing'[u] \in Writes \cup {"poll"}}
  BY <1>1 DEF PollIInv
<1>5. \A u, v \in Pollers : doing'[u] \in Writes /\ v # u => doing'[v] \in {"idle", "count"}
  BY <1>1, <1>2
<1>6. \A u \in Pollers : doing'[u] = "add" => about'[u] \notin ToSet(pfds')
  BY <1>1, <1>2
<1>7. Counting' = Counting
  BY <1>1 DEF Counting
<1>8. Erasing = {} /\ Erasing' = IF Has(t) THEN {t} ELSE {}
  BY <1>1, <1>2 DEF Erasing, Has
<1>9. counted' = Len(pfds') - Cardinality(Counting') - Cardinality(Erasing')
  <2>1. Cardinality(Erasing) = 0 /\ Cardinality(Erasing') = IF Has(t) THEN 1 ELSE 0
    BY <1>8, FS_EmptySet, FS_Singleton
  <2>2. counted = Len(pfds) - Cardinality(Counting) - Cardinality(Erasing) /\ Len(pfds) \in Nat
        /\ counted \in Int
    BY DEF PollIInv, PollTypeOK
  <2>3. Cardinality(Counting) \in Nat
    BY FS_CardinalityType, FS_Subset DEF Counting
  <2>. QED
    BY <1>1, <1>7, <2>1, <2>2, <2>3
<1>. QED
  BY <1>1, <1>3, <1>4, <1>5, <1>6, <1>9 DEF PollIInv

\* p_wait() gives back the read lock.
LEMMA PollWaitEnd ==
    ASSUME PollIInv, NEW t \in Pollers, WaitEnd(t)
    PROVE  PollIInv'
<1> USE DEF Writes
<1>1. /\ prw' = prw \ {t} /\ UNCHANGED <<pfds, counted, about>>
      /\ doing[t] = "poll" /\ doing'[t] = "idle" /\ \A u \in Pollers \ {t} : doing'[u] = doing[u]
  BY PollMoves DEF WaitEnd, PollIInv
<1>2. PollTypeOK'
  BY <1>1 DEF PollIInv, PollTypeOK, WaitEnd, PollGoto
<1>3. prw' = {u \in Pollers : doing'[u] \in Writes \cup {"poll"}}
  BY <1>1 DEF PollIInv
<1>4. \A u, v \in Pollers : doing'[u] \in Writes /\ v # u => doing'[v] \in {"idle", "count"}
  BY <1>1 DEF PollIInv
<1>5. \A u \in Pollers : doing'[u] = "add" => about'[u] \notin ToSet(pfds')
  BY <1>1 DEF PollIInv
<1>6. Counting' = Counting /\ Erasing' = Erasing
  BY <1>1 DEF Counting, Erasing, Has
<1>7. counted' = Len(pfds') - Cardinality(Counting') - Cardinality(Erasing')
  BY <1>1, <1>6, CountsStay
<1>. QED
  BY <1>1, <1>2, <1>3, <1>4, <1>5, <1>7 DEF PollIInv

\* p_del() erases what it found, and what it counted out is gone.
LEMMA PollDelErase ==
    ASSUME PollIInv, IsFiniteSet(Pollers), NEW t \in Pollers, DelErase(t)
    PROVE  PollIInv'
<1> USE DEF Writes
<1> DEFINE k == SelectInSeq(pfds, LAMBDA fd : fd = about[t])
<1>1. /\ pfds' = IF k = 0 THEN pfds ELSE RemoveAt(pfds, k)
      /\ prw' = prw \ {t} /\ counted' = counted /\ about' = [about EXCEPT ![t] = 0]
      /\ doing[t] = "erase" /\ doing'[t] = "idle" /\ \A u \in Pollers \ {t} : doing'[u] = doing[u]
  BY PollMoves DEF DelErase, PollIInv
<1>2. \A u \in Pollers \ {t} : doing'[u] = doing[u] /\ doing[u] \in {"idle", "count"}
  BY <1>1, PollAlone
<1>3. k = Found(pfds, about[t])
  BY DEF SelectInSeq, Found, PlacesOf
<1>4. pfds' = IF Found(pfds, about[t]) = 0 THEN pfds ELSE RemoveAt(pfds, Found(pfds, about[t]))
  BY <1>1, <1>3
<1>5. /\ pfds \in Seq(PollFds \cup {0}) /\ Once(pfds) /\ about[t] \in PollFds \cup {0}
      /\ counted = Len(pfds) - Cardinality(Counting) - Cardinality(Erasing)
      /\ Len(pfds) \in Nat
  BY DEF PollIInv, PollTypeOK
<1>6. /\ pfds' \in Seq(PollFds \cup {0}) /\ Once(pfds')
      /\ ToSet(pfds') = ToSet(pfds) \ {about[t]}
  BY <1>4, <1>5, Removed
<1>7. PollTypeOK'
  BY <1>1, <1>6 DEF PollIInv, PollTypeOK, DelErase, PollGoto
<1>8. prw' = {u \in Pollers : doing'[u] \in Writes \cup {"poll"}}
  BY <1>1, <1>2 DEF PollIInv
<1>9. \A u \in Pollers : doing'[u] \notin Writes
  BY <1>1, <1>2
<1>10. Counting' = Counting /\ Cardinality(Counting) \in Nat
  <2>1. Counting' = Counting
    BY <1>1, <1>2 DEF Counting
  <2>. QED
    BY <2>1, FS_CardinalityType, FS_Subset DEF Counting
<1>11. Erasing = (IF about[t] \in ToSet(pfds) THEN {t} ELSE {}) /\ Erasing' = {}
  BY <1>1, <1>2 DEF Erasing, Has, ToSet
<1>12. Cardinality(Erasing) = (IF about[t] \in ToSet(pfds) THEN 1 ELSE 0)
       /\ Cardinality(Erasing') = 0
  BY <1>11, FS_EmptySet, FS_Singleton
<1>13. Len(pfds') = Len(pfds) - (IF about[t] \in ToSet(pfds) THEN 1 ELSE 0)
  <2>1. Cardinality(ToSet(pfds)) = Len(pfds) /\ Cardinality(ToSet(pfds')) = Len(pfds')
    BY <1>5, <1>6, Lengths
  <2>2. IsFiniteSet(ToSet(pfds))
    BY <1>5, Lengths
  <2>3. CASE about[t] \in ToSet(pfds)
    BY <1>6, <2>1, <2>2, <2>3, FS_RemoveElement
  <2>4. CASE about[t] \notin ToSet(pfds)
    <3>1. ToSet(pfds') = ToSet(pfds)
      BY <1>6, <2>4
    <3>. QED
      BY <1>5, <2>1, <2>4, <3>1
  <2>. QED
    BY <2>3, <2>4
<1>14. counted' = Len(pfds') - Cardinality(Counting') - Cardinality(Erasing')
  <2>1. CASE about[t] \in ToSet(pfds)
    BY <1>1, <1>5, <1>10, <1>12, <1>13, <2>1
  <2>2. CASE about[t] \notin ToSet(pfds)
    BY <1>1, <1>5, <1>10, <1>12, <1>13, <2>2
  <2>. QED
    BY <2>1, <2>2
<1>. QED
  BY <1>6, <1>7, <1>8, <1>9, <1>14 DEF PollIInv

\* The strengthened invariant holds at first, and each step keeps it.
LEMMA PollHolds == ASSUME IsFiniteSet(Pollers) PROVE PollSpec => []PollIInv
<1>1. PollInit => PollIInv
  <2> SUFFICES ASSUME PollInit PROVE PollIInv
    OBVIOUS
  <2>1. /\ pfds = <<>> /\ counted = 0 /\ prw = {}
        /\ doing = [t \in Pollers |-> "idle"] /\ about = [t \in Pollers |-> 0]
    BY DEF PollInit
  <2>2. PollTypeOK /\ Once(pfds) /\ Len(pfds) = 0
    BY <2>1 DEF PollTypeOK, Once
  <2>3. Counting = {} /\ Erasing = {}
    BY <2>1 DEF Counting, Erasing
  <2>4. Cardinality(Counting) = 0 /\ Cardinality(Erasing) = 0
    BY <2>3, FS_EmptySet
  <2>. QED
    BY <2>1, <2>2, <2>4 DEF PollIInv, Writes
<1>2. PollIInv /\ [PollNext]_pollVars => PollIInv'
  <2> SUFFICES ASSUME PollIInv, [PollNext]_pollVars PROVE PollIInv'
    OBVIOUS
  <2>1. CASE UNCHANGED pollVars
    <3>1. UNCHANGED <<pfds, counted, prw, doing, about>>
      BY <2>1 DEF pollVars
    <3>2. Counting' = Counting /\ Erasing' = Erasing
      BY <3>1 DEF Counting, Erasing, Has
    <3>. QED
      BY <3>1, <3>2 DEF PollIInv, PollTypeOK
  <2>2. ASSUME NEW t \in Pollers, AddPush(t) PROVE PollIInv'
    BY <2>2, PollAddPush
  <2>3. ASSUME NEW t \in Pollers, AddCount(t) PROVE PollIInv'
    BY <2>3, PollAddCount
  <2>4. ASSUME NEW t \in Pollers, DelCount(t) PROVE PollIInv'
    BY <2>4, PollDelCount
  <2>5. ASSUME NEW t \in Pollers, DelErase(t) PROVE PollIInv'
    BY <2>5, PollDelErase
  <2>6. ASSUME NEW t \in Pollers, WaitLock(t) PROVE PollIInv'
    BY <2>6, PollLocks DEF WaitLock
  <2>7. ASSUME NEW t \in Pollers, WaitEnd(t) PROVE PollIInv'
    BY <2>7, PollWaitEnd
  <2>8. ASSUME NEW t \in Pollers, NEW fd \in PollFds, AddLock(t, fd) PROVE PollIInv'
    BY <2>8, PollLocks DEF AddLock
  <2>9. ASSUME NEW t \in Pollers, NEW fd \in PollFds, DelLock(t, fd) PROVE PollIInv'
    BY <2>9, PollLocks DEF DelLock
  <2>. QED
    BY <2>1, <2>2, <2>3, <2>4, <2>5, <2>6, <2>7, <2>8, <2>9 DEF PollNext
<1>. QED
  BY <1>1, <1>2, PTL DEF PollSpec

\* size() of jpoll is the length of the array less what is appended and not counted and
\* what is counted out and not erased, for any number of threads and descriptors: a
\* reader without the lock that stays below size() stays inside the array.
THEOREM Covered == ASSUME IsFiniteSet(Pollers) PROVE PollSpec => []SizeCovered
<1>1. PollIInv => SizeCovered
  BY DEF PollIInv, SizeCovered, Counting, Erasing
<1>. QED
  BY <1>1, PollHolds, PTL

=============================================================================
