--------------------------- MODULE JThreadProofs ---------------------------
(***************************************************************************)
(* For any finite set of workers and any tasks: every task submitted to    *)
(* JThread is in one place and is run at most once, no worker is in the    *)
(* queue when it goes, a chunk of its memory is freed once and after its   *)
(* first task was run, and a constructor that throws with a worker running *)
(* never returns.  That a pop with a permit finds a task comes from the    *)
(* proofs about PermitDeque.                                               *)
(***************************************************************************)
EXTENDS JThread, FiniteSetTheorems, SequenceTheorems, TLAPS

QP == INSTANCE PermitDequeProofs WITH Items <- Tasks, NoItem <- NoTask

TypeOK ==
    /\ done \in BOOLEAN
    /\ life \in {"making", "live", "unwinding", "joining", "gone", "undefined"}
    /\ pc \in [Workers -> {"new", "test", "pop", "run", "delete", "left"}]
    /\ task \in [Workers -> Tasks \cup {NoTask}]
    /\ given \subseteq Tasks
    /\ runs \in [Tasks -> Nat]
    /\ block \in [Tasks -> Nat] /\ freed \subseteq Nat

\* Where a thread is in its call of the queue fits where it is in the pool's code.
Pushing == {"idle", "push_back", "linked"}
Popping == {"pop_front", "entitled", "refused", "done"}

CallsFit ==
    /\ \A w \in Workers :
          call[w].op \in IF pc[w] = "pop" THEN Popping
                         ELSE IF pc[w] = "run" THEN Pushing ELSE {"idle"}
    /\ \A w \in Workers : pc[w] = "run" => task[w] \in Tasks
    /\ call[Owner].op \in IF life \in {"live", "undefined"} THEN Pushing ELSE {"idle"}
    /\ life = "gone" => Left
    /\ life \in {"making", "unwinding"} => ~done /\ \A w \in Workers : pc[w] # "left"

\* The places of OncePerTask, apart.
QueuedAt(k) == {j \in DOMAIN content : content[j] = k}
CarriedBy(k) == {u \in Threads : call[u].item = k}
WorkedBy(k) == {v \in Workers : pc[v] = "run" /\ task[v] = k}

Nowhere(k) == QueuedAt(k) = {} /\ CarriedBy(k) = {} /\ WorkedBy(k) = {}

InOnePlace(k) ==
    \/ \E i : QueuedAt(k) = {i} /\ CarriedBy(k) = {} /\ WorkedBy(k) = {}
    \/ \E t : QueuedAt(k) = {} /\ CarriedBy(k) = {t} /\ WorkedBy(k) = {}
    \/ \E w : QueuedAt(k) = {} /\ CarriedBy(k) = {} /\ WorkedBy(k) = {w}

Story(k) ==
    \/ k \notin given /\ runs[k] = 0 /\ Nowhere(k)
    \/ k \in given /\ runs[k] = 0 /\ InOnePlace(k)
    \/ k \in given /\ runs[k] = 1 /\ Nowhere(k)

\* No two tasks have one block, and the next one is free.
Numbered ==
    /\ IsFiniteSet(given)
    /\ \A k \in given : block[k] < Cardinality(given)
    /\ \A j, k \in given : block[j] = block[k] => j = k

\* A worker has a task from the pop to the delete, and no other worker has it.
Handed ==
    /\ \A w \in Workers : pc[w] \notin {"run", "delete"} => task[w] = NoTask
    /\ \A w \in Workers : pc[w] = "delete" => task[w] \in given /\ runs[task[w]] = 1
    /\ \A v, w \in Workers : task[v] = task[w] /\ task[v] # NoTask => v = w

\* The first task of a freed chunk was run and is with no worker any more.
Over(k) == First(k) /\ runs[k] = 1 /\ \A w \in Workers : task[w] # k
Freeing == \A c \in freed : \E k \in given : Chunk(k) = c /\ Over(k)

IInv ==
    /\ QP!IInv /\ TypeOK /\ CallsFit /\ \A k \in Tasks : Story(k)
    /\ Numbered /\ Handed /\ Freeing

-----------------------------------------------------------------------------
(* The queue *)

\* The users of the queue are finitely many, for this module and for that of its proofs.
LEMMA ThreadsFinite ==
    ASSUME IsFiniteSet(Workers)
    PROVE  IsFiniteSet(Threads) /\ QP!IsFiniteSet(Threads)
<1>1. IsFiniteSet(Threads)
  BY FS_AddElement DEF Threads
<1>. QED  BY <1>1 DEF IsFiniteSet, QP!IsFiniteSet

\* Whatever the pool does, the queue goes on as PermitDeque says.
LEMMA QueueSteps ==
    ASSUME IsFiniteSet(Workers), QP!IInv, [Next]_vars
    PROVE  QP!IInv'
<1>1. CASE UNCHANGED que
  BY <1>1, QP!StepIInv, ThreadsFinite DEF que, QP!vars
<1>2. ASSUME NEW t \in Threads,
             \/ Q!LinkBack(t) \/ Q!Count(t) \/ Q!Take(t) \/ Q!Remove(t)
             \/ Q!Undo(t) \/ Q!Return(t) \/ Q!Pop(t)
             \/ \E k \in Tasks : Q!Push(t, "push_back", k)
      PROVE  QP!Next
  <2>1. ASSUME NEW k \in Tasks, Q!Push(t, "push_back", k) PROVE QP!Next
    BY <2>1 DEF Q!Push, Q!Becomes, Q!Pushes, QP!Next, QP!Push, QP!Becomes, QP!Pushes
  <2>2. CASE Q!Pop(t)
    BY <2>2 DEF Q!Pop, Q!Becomes, Q!At, QP!Next, QP!Pop, QP!Becomes, QP!At
  <2>3. CASE \/ Q!LinkBack(t) \/ Q!Count(t) \/ Q!Take(t) \/ Q!Remove(t)
             \/ Q!Undo(t) \/ Q!Return(t)
    BY <2>3 DEF Q!LinkBack, Q!Count, Q!Take, Q!Remove, Q!Undo, Q!Return, Q!Becomes, Q!At, Q!Idle,
       QP!Next, QP!Step, QP!LinkBack, QP!Count, QP!Take, QP!Remove, QP!Undo, QP!Return,
       QP!Becomes, QP!At, QP!Idle
  <2>. QED  BY <1>2, <2>1, <2>2, <2>3
<1>3. UNCHANGED que \/ QP!Next
  <2>1. Workers \subseteq Threads /\ Owner \in Threads
    BY DEF Threads
  <2>2. CASE Made \/ MakeFails \/ Destroy \/ Join \/ \E w \in Workers : Start(w) \/ Run(w) \/ Delete(w)
    BY <2>2 DEF Made, MakeFails, Destroy, Join, Start, Run, Delete
  <2>3. ASSUME NEW w \in Workers, Test(w) \/ Yield(w) \/ GetTask(w) PROVE UNCHANGED que \/ QP!Next
    BY <2>1, <2>3, <1>2 DEF Test, Yield, GetTask
  <2>4. ASSUME NEW t \in Threads, InQue(t) PROVE QP!Next
    BY <2>4, <1>2 DEF InQue, Link
  <2>5. ASSUME NEW t \in Threads, NEW k \in Tasks, Submit(t, k) PROVE QP!Next
    BY <2>5, <1>2 DEF Submit
  <2>. QED
    BY <2>1, <2>2, <2>3, <2>4, <2>5 DEF Next, WorkerStep, TaskSubmits, OwnerSubmits, vars
<1>4. QP!Next => QP!IInv'
  BY QP!StepIInv, ThreadsFinite
<1>. QED  BY <1>1, <1>3, <1>4

\* What the queue's invariant says of it, in the pool's terms.
LEMMA QueueFacts ==
    ASSUME QP!IInv
    PROVE  /\ content \in Seq(Tasks) /\ call \in [Threads -> QP!Calls]
           /\ \A t \in Threads :
                 /\ call[t].op \in {"push_back", "push_front", "done"} => call[t].item \in Tasks
                 /\ call[t].op \notin {"push_back", "push_front", "done"} => call[t].item = NoTask
BY DEF QP!IInv, QP!TypeOK, QP!Calls, QP!Pushes, QP!Ops

-----------------------------------------------------------------------------
(* How a task moves *)

\* A task that stays where it is, with the same record of it.
LEMMA Stays ==
    ASSUME NEW k \in Tasks, Story(k),
           QueuedAt(k)' = QueuedAt(k), CarriedBy(k)' = CarriedBy(k), WorkedBy(k)' = WorkedBy(k),
           (k \in given') = (k \in given), runs'[k] = runs[k]
    PROVE  Story(k)'
BY DEF Story, Nowhere, InOnePlace

\* A thread's call gets another record, with another task or none.
LEMMA CallMoves ==
    ASSUME QP!IInv, NEW t \in Threads, NEW c, call' = [call EXCEPT ![t] = c], NEW k
    PROVE  CarriedBy(k)' = IF c.item = k THEN CarriedBy(k) \cup {t} ELSE CarriedBy(k) \ {t}
<1>1. call \in [Threads -> QP!Calls]
  BY QueueFacts
<1>. QED  BY <1>1 DEF CarriedBy

\* A worker goes to another place, with another task or the same.
LEMMA WorkerMoves ==
    ASSUME TypeOK, NEW w \in Workers, NEW to, NEW x, NEW k,
           pc' = [pc EXCEPT ![w] = to], task' = [task EXCEPT ![w] = x]
    PROVE  WorkedBy(k)' = IF to = "run" /\ x = k THEN WorkedBy(k) \cup {w} ELSE WorkedBy(k) \ {w}
BY DEF TypeOK, WorkedBy

\* A push at the back adds one place; the others stay.
LEMMA AppendMoves ==
    ASSUME content \in Seq(Tasks), NEW x \in Tasks, content' = Append(content, x), NEW k
    PROVE  QueuedAt(k)' = IF x = k THEN QueuedAt(k) \cup {Len(content) + 1} ELSE QueuedAt(k)
<1>1. /\ DOMAIN content = 1 .. Len(content) /\ Len(content) \in Nat
      /\ DOMAIN content' = 1 .. Len(content) + 1
      /\ \A i \in 1 .. Len(content) : content'[i] = content[i]
      /\ content'[Len(content) + 1] = x
  BY AppendProperties, LenProperties
<1>. QED  BY <1>1 DEF QueuedAt

\* A pop at the front takes the first place away; the others move up.
LEMMA TailMoves ==
    ASSUME content \in Seq(Tasks), content # <<>>, content' = Tail(content), NEW k
    PROVE  /\ 1 \in QueuedAt(k) <=> k = Head(content)
           /\ \A i : i \in QueuedAt(k)' <=> (i + 1 \in QueuedAt(k) /\ i \in Nat /\ i # 0)
           /\ \A j \in QueuedAt(k) : j \in Nat /\ j # 0
<1>1. /\ Len(content) \in Nat /\ Len(content) # 0
      /\ DOMAIN content = 1 .. Len(content)
      /\ DOMAIN content' = 1 .. Len(content) - 1
      /\ \A i \in 1 .. Len(content) - 1 : content'[i] = content[i + 1]
      /\ Head(content) = content[1]
  BY HeadTailProperties, LenProperties, EmptySeq
<1>2. \A j \in QueuedAt(k) : j \in Nat /\ j # 0
  BY <1>1 DEF QueuedAt
<1>3. 1 \in QueuedAt(k) <=> k = Head(content)
  BY <1>1 DEF QueuedAt
<1>4. ASSUME NEW i PROVE i \in QueuedAt(k)' <=> (i + 1 \in QueuedAt(k) /\ i \in Nat /\ i # 0)
  <2>1. i \in QueuedAt(k)' => i \in Nat /\ i # 0
    BY <1>1 DEF QueuedAt
  <2>2. CASE i \in Nat /\ i # 0
    BY <1>1, <2>2 DEF QueuedAt
  <2>. QED  BY <2>1, <2>2
<1>. QED  BY <1>2, <1>3, <1>4

\* A step of a call that has no task before or after it moves none.
LEMMA EmptyHanded ==
    ASSUME QP!IInv, NEW t \in Threads, call[t].item = NoTask,
           NEW op, call' = [call EXCEPT ![t] = Q!At(op)], NEW k \in Tasks
    PROVE  CarriedBy(k)' = CarriedBy(k)
<1>1. Q!At(op).item = NoTask /\ NoTask # k
  BY NamesAssumption DEF Q!At
<1>2. CarriedBy(k)' = CarriedBy(k) \ {t}
  BY <1>1, CallMoves
<1>. QED  BY <1>1, <1>2 DEF CarriedBy

\* Every step moves at most one task, from its place to the next.
LEMMA StorySteps ==
    ASSUME IsFiniteSet(Workers), IInv, [Next]_vars, NEW k \in Tasks
    PROVE  Story(k)'
<1>0. /\ QP!IInv /\ TypeOK /\ CallsFit /\ Story(k) /\ k # NoTask
      /\ Workers \subseteq Threads /\ Owner \in Threads
      /\ content \in Seq(Tasks) /\ call \in [Threads -> QP!Calls]
  BY QueueFacts, NamesAssumption DEF IInv, Threads
<1>s. ASSUME UNCHANGED <<given, runs>>, QueuedAt(k)' = QueuedAt(k),
             CarriedBy(k)' = CarriedBy(k), WorkedBy(k)' = WorkedBy(k)
      PROVE  Story(k)'
  BY <1>s, <1>0, Stays
<1>c. content' = content => QueuedAt(k)' = QueuedAt(k)
  BY DEF QueuedAt
<1>w. ASSUME NEW w \in Workers, pc[w] # "run", NEW to, to # "run", NEW x,
             pc' = [pc EXCEPT ![w] = to], task' = [task EXCEPT ![w] = x]
      PROVE  WorkedBy(k)' = WorkedBy(k)
  <2>1. WorkedBy(k)' = WorkedBy(k) \ {w}
    BY <1>w, <1>0, WorkerMoves
  <2>. QED  BY <1>w, <2>1 DEF WorkedBy
<1>x. ASSUME NEW w \in Workers, pc[w] # "run", NEW to, to # "run",
             pc' = [pc EXCEPT ![w] = to], task' = task
      PROVE  WorkedBy(k)' = WorkedBy(k)
  BY <1>x, <1>0 DEF TypeOK, WorkedBy
<1>1. CASE UNCHANGED vars
  BY <1>1, <1>s DEF vars, que, QueuedAt, CarriedBy, WorkedBy
<1>2. CASE Made \/ MakeFails \/ Destroy \/ Join
  BY <1>2, <1>s DEF Made, MakeFails, Destroy, Join, que, QueuedAt, CarriedBy, WorkedBy
<1>3. ASSUME NEW w \in Workers, Start(w) PROVE Story(k)'
  <2>1. WorkedBy(k)' = WorkedBy(k)
    BY <1>3, <1>x DEF Start, Goto
  <2>. QED  BY <1>3, <2>1, <1>s DEF Start, que, QueuedAt, CarriedBy
<1>4. ASSUME NEW t \in Threads, NEW x \in Tasks, Submit(t, x) PROVE Story(k)'
  <2> DEFINE c == [op |-> "push_back", item |-> x]
  <2>1. /\ call[t].op = "idle" /\ call' = [call EXCEPT ![t] = c] /\ c.item = x
        /\ UNCHANGED <<content, pc, task, runs>> /\ given' = given \cup {x} /\ x \notin given
    BY <1>4 DEF Submit, Q!Push, Q!Becomes
  <2>2. call[t].item = NoTask
    BY <2>1, <1>0, QueueFacts
  <2>3. CarriedBy(k)' = IF x = k THEN CarriedBy(k) \cup {t} ELSE CarriedBy(k) \ {t}
    <3> HIDE DEF c
    <3>. QED  BY <2>1, <1>0, CallMoves
  <2>4. QueuedAt(k)' = QueuedAt(k) /\ WorkedBy(k)' = WorkedBy(k)
    BY <2>1 DEF QueuedAt, WorkedBy
  <2>5. CASE x = k
    <3>1. Nowhere(k) /\ runs[k] = 0
      BY <2>1, <2>5, <1>0 DEF Story
    <3>2. InOnePlace(k)'
      BY <3>1, <2>3, <2>4, <2>5 DEF Nowhere, InOnePlace
    <3>. QED  BY <3>1, <3>2, <2>1, <2>5 DEF Story
  <2>6. CASE x # k
    <3>1. CarriedBy(k)' = CarriedBy(k)
      BY <2>2, <2>3, <2>6, <1>0 DEF CarriedBy
    <3>. QED  BY <3>1, <2>1, <2>4, <2>6, <1>0, Stays
  <2>. QED  BY <2>5, <2>6
<1>5. ASSUME NEW w \in Workers, Test(w) PROVE Story(k)'
  <2>1. WorkedBy(k)' = WorkedBy(k)
    BY <1>5, <1>x DEF Test, Goto
  <2>2. CarriedBy(k)' = CarriedBy(k) /\ content' = content
    <3>1. CASE done
      BY <1>5, <3>1 DEF Test, que, CarriedBy
    <3>2. CASE ~done
      <4>1. call[w].op = "idle" /\ call' = [call EXCEPT ![w] = Q!At("pop_front")] /\ content' = content
        BY <1>5, <3>2 DEF Test, Q!Pop, Q!Becomes
      <4>2. call[w].item = NoTask
        BY <4>1, <1>0, QueueFacts
      <4>. QED  BY <4>1, <4>2, <1>0, EmptyHanded
    <3>. QED  BY <3>1, <3>2
  <2>. QED  BY <1>5, <2>1, <2>2, <1>c, <1>s DEF Test
<1>6. ASSUME NEW w \in Workers, Yield(w) PROVE Story(k)'
  <2>1. WorkedBy(k)' = WorkedBy(k)
    BY <1>6, <1>x DEF Yield, Goto
  <2>2. call[w].op = "refused" /\ call' = [call EXCEPT ![w] = Q!At("idle")] /\ content' = content
    BY <1>6 DEF Yield, Q!Undo, Q!Becomes, Q!Idle
  <2>3. CarriedBy(k)' = CarriedBy(k)
    BY <2>2, <1>0, QueueFacts, EmptyHanded
  <2>. QED  BY <1>6, <2>1, <2>2, <2>3, <1>c, <1>s DEF Yield
<1>7. ASSUME NEW w \in Workers, GetTask(w) PROVE Story(k)'
  <2> DEFINE x == call[w].item
  <2>1. /\ call[w].op = "done" /\ call' = [call EXCEPT ![w] = Q!At("idle")] /\ content' = content
        /\ pc[w] = "pop" /\ pc' = [pc EXCEPT ![w] = "run"] /\ task' = [task EXCEPT ![w] = x]
        /\ UNCHANGED <<given, runs>>
    BY <1>7 DEF GetTask, Goto, Q!Return, Q!Becomes, Q!Idle
  <2>2. x \in Tasks /\ Q!At("idle").item = NoTask
    BY <2>1, <1>0, QueueFacts DEF Q!At
  <2>3. CarriedBy(k)' = CarriedBy(k) \ {w}
    BY <2>1, <2>2, <1>0, CallMoves
  <2>4. WorkedBy(k)' = IF x = k THEN WorkedBy(k) \cup {w} ELSE WorkedBy(k) \ {w}
    BY <2>1, <1>0, WorkerMoves
  <2>5. QueuedAt(k)' = QueuedAt(k)
    BY <2>1, <1>c
  <2>6. CASE x = k
    <3>1. w \in CarriedBy(k)
      BY <2>6, <1>0 DEF CarriedBy
    <3>2. /\ k \in given /\ runs[k] = 0 /\ QueuedAt(k) = {}
          /\ CarriedBy(k) = {w} /\ WorkedBy(k) = {}
      BY <3>1, <1>0 DEF Story, Nowhere, InOnePlace
    <3>3. InOnePlace(k)'
      BY <3>2, <2>3, <2>4, <2>5, <2>6 DEF InOnePlace
    <3>. QED  BY <3>2, <3>3, <2>1 DEF Story
  <2>7. CASE x # k
    <3>1. CarriedBy(k)' = CarriedBy(k)
      BY <2>3, <2>7 DEF CarriedBy
    <3>2. WorkedBy(k)' = WorkedBy(k)
      BY <2>1, <2>4, <2>7 DEF WorkedBy
    <3>. QED  BY <3>1, <3>2, <2>1, <2>5, <1>s
  <2>. QED  BY <2>6, <2>7
<1>8. ASSUME NEW w \in Workers, Run(w) PROVE Story(k)'
  <2> DEFINE x == task[w]
  <2>1. /\ pc[w] = "run" /\ pc' = [pc EXCEPT ![w] = "delete"] /\ task' = [task EXCEPT ![w] = x]
        /\ runs' = [runs EXCEPT ![x] = @ + 1] /\ UNCHANGED <<content, call, given>>
    BY <1>8, <1>0 DEF Run, Goto, que, TypeOK
  <2>2. x \in Tasks
    BY <2>1, <1>0 DEF CallsFit
  <2>3. WorkedBy(k)' = WorkedBy(k) \ {w}
    BY <2>1, <1>0 DEF WorkedBy, TypeOK
  <2>4. QueuedAt(k)' = QueuedAt(k) /\ CarriedBy(k)' = CarriedBy(k)
    BY <2>1 DEF QueuedAt, CarriedBy
  <2>5. CASE x = k
    <3>1. w \in WorkedBy(k)
      BY <2>1, <2>5 DEF WorkedBy
    <3>2. /\ k \in given /\ runs[k] = 0 /\ QueuedAt(k) = {}
          /\ CarriedBy(k) = {} /\ WorkedBy(k) = {w}
      BY <3>1, <1>0 DEF Story, Nowhere, InOnePlace
    <3>3. Nowhere(k)' /\ runs'[k] = 1
      BY <3>2, <2>1, <2>2, <2>3, <2>4, <2>5, <1>0 DEF Nowhere, TypeOK
    <3>. QED  BY <3>2, <3>3, <2>1 DEF Story
  <2>6. CASE x # k
    <3>1. WorkedBy(k)' = WorkedBy(k)
      BY <2>3, <2>6 DEF WorkedBy
    <3>2. runs'[k] = runs[k]
      BY <2>1, <2>6, <1>0 DEF TypeOK
    <3>. QED  BY <3>1, <3>2, <2>1, <2>4, <1>0, Stays
  <2>. QED  BY <2>5, <2>6
<1>9. ASSUME NEW w \in Workers, Delete(w) PROVE Story(k)'
  <2>1. WorkedBy(k)' = WorkedBy(k)
    BY <1>9, <1>w DEF Delete, Goto
  <2>. QED  BY <1>9, <2>1, <1>s DEF Delete, que, QueuedAt, CarriedBy
<1>10. ASSUME NEW t \in Threads, InQue(t) PROVE Story(k)'
  <2>1. UNCHANGED <<given, runs>> /\ WorkedBy(k)' = WorkedBy(k)
    BY <1>10 DEF InQue, Link, WorkedBy
  <2>2. CASE Q!LinkBack(t)
    <3> DEFINE x == call[t].item
    <3>1. /\ call[t].op = "push_back" /\ call' = [call EXCEPT ![t] = Q!At("linked")]
          /\ content' = Append(content, x)
      BY <2>2 DEF Q!LinkBack, Q!Becomes
    <3>2. x \in Tasks /\ Q!At("linked").item = NoTask
      BY <3>1, <1>0, QueueFacts DEF Q!At
    <3>3. CarriedBy(k)' = CarriedBy(k) \ {t}
      BY <3>1, <3>2, <1>0, CallMoves
    <3>4. QueuedAt(k)' = IF x = k THEN QueuedAt(k) \cup {Len(content) + 1} ELSE QueuedAt(k)
      BY <3>1, <3>2, <1>0, AppendMoves
    <3>5. CASE x = k
      <4>1. t \in CarriedBy(k)
        BY <3>5 DEF CarriedBy
      <4>2. /\ k \in given /\ runs[k] = 0 /\ QueuedAt(k) = {}
            /\ CarriedBy(k) = {t} /\ WorkedBy(k) = {}
        BY <4>1, <1>0 DEF Story, Nowhere, InOnePlace
      <4>3. InOnePlace(k)'
        BY <4>2, <3>3, <3>4, <3>5, <2>1 DEF InOnePlace
      <4>. QED  BY <4>2, <4>3, <2>1 DEF Story
    <3>6. CASE x # k
      <4>1. CarriedBy(k)' = CarriedBy(k)
        BY <3>3, <3>6 DEF CarriedBy
      <4>. QED  BY <4>1, <3>4, <3>6, <2>1, <1>s
    <3>. QED  BY <3>5, <3>6
  <2>3. CASE Q!Count(t) \/ Q!Take(t)
    <3>1. PICK op : /\ call' = [call EXCEPT ![t] = Q!At(op)] /\ content' = content
                    /\ call[t].op \in {"linked", "pop_front"}
      BY <2>3 DEF Q!Count, Q!Take, Q!Becomes, Q!Idle
    <3>2. CarriedBy(k)' = CarriedBy(k)
      BY <3>1, <1>0, QueueFacts, EmptyHanded
    <3>. QED  BY <3>1, <3>2, <2>1, <1>c, <1>s
  <2>4. CASE Q!Remove(t)
    <3> DEFINE x == Head(content)
               c == [op |-> "done", item |-> x]
    <3>1. /\ call[t].op = "entitled" /\ call' = [call EXCEPT ![t] = c] /\ c.item = x
          /\ content' = Tail(content)
      BY <2>4 DEF Q!Remove, Q!Becomes
    <3>2. call[t].item = NoTask
      BY <3>1, <1>0, QueueFacts
    <3>3. content # <<>>
      BY <3>1, <1>0, QP!EntitledFinds, ThreadsFinite
    <3>4. CarriedBy(k)' = IF x = k THEN CarriedBy(k) \cup {t} ELSE CarriedBy(k) \ {t}
      <4> HIDE DEF c
      <4>. QED  BY <3>1, <1>0, CallMoves
    <3>5. /\ 1 \in QueuedAt(k) <=> k = x
          /\ \A i : i \in QueuedAt(k)' <=> (i + 1 \in QueuedAt(k) /\ i \in Nat /\ i # 0)
          /\ \A j \in QueuedAt(k) : j \in Nat /\ j # 0
      BY <3>1, <3>3, <1>0, TailMoves
    <3>6. CASE x = k
      <4>1. 1 \in QueuedAt(k)
        BY <3>5, <3>6
      <4>2. /\ k \in given /\ runs[k] = 0 /\ QueuedAt(k) = {1}
            /\ CarriedBy(k) = {} /\ WorkedBy(k) = {}
        BY <4>1, <1>0 DEF Story, Nowhere, InOnePlace
      <4>3. QueuedAt(k)' = {}
        BY <4>2, <3>5
      <4>4. InOnePlace(k)'
        BY <4>2, <4>3, <3>4, <3>6, <2>1 DEF InOnePlace
      <4>. QED  BY <4>2, <4>4, <2>1 DEF Story
    <3>7. CASE x # k
      <4>1. CarriedBy(k)' = CarriedBy(k)
        BY <3>2, <3>4, <3>7, <1>0 DEF CarriedBy
      <4>2. CASE QueuedAt(k) = {}
        <5>1. QueuedAt(k)' = QueuedAt(k)
          BY <4>2, <3>5
        <5>. QED  BY <5>1, <4>1, <2>1, <1>s
      <4>3. ASSUME NEW i, QueuedAt(k) = {i} PROVE Story(k)'
        <5>1. i \in Nat /\ i # 0 /\ i # 1
          BY <4>3, <3>5, <3>7
        <5>2. QueuedAt(k)' = {i - 1}
          BY <5>1, <4>3, <3>5
        <5>3. k \in given /\ runs[k] = 0 /\ CarriedBy(k) = {} /\ WorkedBy(k) = {}
          BY <4>3, <1>0 DEF Story, Nowhere, InOnePlace
        <5>4. InOnePlace(k)'
          BY <5>2, <5>3, <4>1, <2>1 DEF InOnePlace
        <5>. QED  BY <5>3, <5>4, <2>1 DEF Story
      <4>. QED  BY <4>2, <4>3, <1>0 DEF Story, Nowhere, InOnePlace
    <3>. QED  BY <3>6, <3>7
  <2>. QED  BY <1>10, <2>2, <2>3, <2>4 DEF InQue, Link
<1>. QED
  BY <1>0, <1>1, <1>2, <1>3, <1>4, <1>5, <1>6, <1>7, <1>8, <1>9, <1>10
     DEF Next, WorkerStep, TaskSubmits, OwnerSubmits

-----------------------------------------------------------------------------
(* The types, and the code around the calls *)

\* Every step keeps the types: what a worker takes from the queue is a task.
LEMMA TypeSteps ==
    ASSUME QP!IInv, TypeOK, CallsFit, Numbered, Handed, [Next]_vars
    PROVE  TypeOK'
<1> USE DEF TypeOK, mem
<1>1. CASE UNCHANGED vars
  BY <1>1 DEF vars
<1>2. CASE Made \/ MakeFails \/ Destroy \/ Join
  BY <1>2 DEF Made, MakeFails, Destroy, Join
<1>3. ASSUME NEW w \in Workers, Start(w) \/ Test(w) \/ Yield(w) PROVE TypeOK'
  BY <1>3 DEF Start, Test, Yield, Goto
<1>4. ASSUME NEW w \in Workers, GetTask(w) PROVE TypeOK'
  <2>1. call[w].item \in Tasks
    BY <1>4, QueueFacts DEF GetTask, Q!Return, Q!Becomes, Threads
  <2>. QED  BY <1>4, <2>1 DEF GetTask, Goto
<1>5. ASSUME NEW w \in Workers, Run(w) PROVE TypeOK'
  <2>1. task[w] \in Tasks
    BY <1>5 DEF Run, Goto, CallsFit
  <2>. QED  BY <1>5, <2>1 DEF Run, Goto, Uses
<1>6. ASSUME NEW t, NEW k \in Tasks, Submit(t, k) PROVE TypeOK'
  <2>1. Cardinality(given) \in Nat
    BY FS_CardinalityType DEF Numbered
  <2>. QED  BY <1>6, <2>1 DEF Submit, Uses
<1>7. ASSUME NEW t, InQue(t) PROVE TypeOK'
  BY <1>7 DEF InQue, Link, Uses
<1>8. ASSUME NEW w \in Workers, Delete(w) PROVE TypeOK'
  <2>1. task[w] \in Tasks
    BY <1>8 DEF Delete, Goto, Handed
  <2>2. Chunk(task[w]) \in Nat
    BY <2>1, SizeAssumption DEF Chunk, ChunkOf
  <2>. QED  BY <1>8, <2>2 DEF Delete, Goto
<1>. QED
  BY <1>1, <1>2, <1>3, <1>4, <1>5, <1>6, <1>7, <1>8
     DEF Next, WorkerStep, TaskSubmits, OwnerSubmits

\* A thread's step in the queue keeps to the operations that its place allows.
LEMMA CallsFitSteps ==
    ASSUME QP!IInv, TypeOK, CallsFit, [Next]_vars
    PROVE  CallsFit'
<1>0. /\ call \in [Threads -> QP!Calls] /\ Threads = Workers \cup {Owner} /\ Owner \notin Workers
      /\ pc \in [Workers -> {"new", "test", "pop", "run", "delete", "left"}]
      /\ task \in [Workers -> Tasks \cup {NoTask}]
  BY QueueFacts, NamesAssumption DEF Threads, TypeOK
<1>1. CASE UNCHANGED vars
  BY <1>1 DEF vars, que, CallsFit, Left
<1>2. CASE Made \/ MakeFails \/ Destroy \/ Join
  BY <1>2 DEF Made, MakeFails, Destroy, Join, que, Pushing, CallsFit, Left
<1>3. ASSUME NEW w \in Workers, Start(w) PROVE CallsFit'
  BY <1>3, <1>0 DEF Start, Goto, que, CallsFit, Left
<1>4. ASSUME NEW w \in Workers, Test(w) PROVE CallsFit'
  <2>1. CASE done
    BY <1>4, <2>1, <1>0 DEF Test, Goto, Alive, que, CallsFit, Left
  <2>2. CASE ~done
    BY <1>4, <2>2, <1>0 DEF Test, Goto, Alive, Q!Pop, Q!Becomes, Q!At, Popping, CallsFit, Left
  <2>. QED  BY <2>1, <2>2
<1>5. ASSUME NEW w \in Workers, Yield(w) PROVE CallsFit'
  BY <1>5, <1>0 DEF Yield, Goto, Alive, Q!Undo, Q!Becomes, Q!Idle, Q!At, CallsFit, Left
<1>6. ASSUME NEW w \in Workers, GetTask(w) PROVE CallsFit'
  <2>1. call[w].item \in Tasks
    BY <1>6, <1>0, QueueFacts DEF GetTask, Q!Return, Q!Becomes
  <2>. QED
    BY <1>6, <2>1, <1>0 DEF GetTask, Goto, Alive, Q!Return, Q!Becomes, Q!Idle, Q!At, Pushing,
       CallsFit, Left
<1>7. ASSUME NEW w \in Workers, Run(w) PROVE CallsFit'
  BY <1>7, <1>0 DEF Run, Uses, Goto, Alive, que, CallsFit, Left
<1>8. ASSUME NEW w \in Workers, Delete(w) PROVE CallsFit'
  BY <1>8, <1>0 DEF Delete, Goto, Alive, que, Pushing, CallsFit, Left
<1>9. ASSUME NEW w \in Workers, NEW k \in Tasks, TaskSubmits(w, k) PROVE CallsFit'
  BY <1>9, <1>0 DEF TaskSubmits, Alive, Submit, Uses, Q!Push, Q!Becomes, Pushing, CallsFit, Left
<1>10. ASSUME NEW k \in Tasks, OwnerSubmits(k) PROVE CallsFit'
  BY <1>10, <1>0 DEF OwnerSubmits, Submit, Uses, Q!Push, Q!Becomes, Pushing, CallsFit, Left
<1>11. ASSUME NEW t \in Threads, InQue(t) PROVE CallsFit'
  <2>1. /\ \/ call[t].op = "push_back" /\ call'[t].op = "linked"
           \/ call[t].op = "linked" /\ call'[t].op = "idle"
           \/ call[t].op = "pop_front" /\ call'[t].op \in {"refused", "entitled"}
           \/ call[t].op = "entitled" /\ call'[t].op = "done"
        /\ \A u \in Threads : u # t => call'[u] = call[u]
    <3>1. CASE Q!LinkBack(t) \/ Q!Count(t)
      BY <3>1, <1>0 DEF Q!LinkBack, Q!Count, Q!Becomes, Q!Idle, Q!At
    <3>2. CASE Q!Take(t)
      BY <3>2, <1>0 DEF Q!Take, Q!Becomes, Q!At
    <3>3. CASE Q!Remove(t)
      BY <3>3, <1>0 DEF Q!Remove, Q!Becomes
    <3>. QED  BY <1>11, <3>1, <3>2, <3>3 DEF InQue, Link
  <2>2. UNCHANGED <<pc, task, done>> /\ life # "gone" /\ life' \in {life, "undefined"}
    BY <1>11 DEF InQue, Link, Uses, Alive
  <2>3. /\ call[t].op \in Pushing => call'[t].op \in Pushing
        /\ call[t].op \in Popping => call'[t].op \in Popping
        /\ call[t].op # "idle"
        /\ \A u \in Threads : u # t => call'[u] = call[u]
    BY <2>1, <1>0 DEF Pushing, Popping
  <2>4. Left => Left'
    BY <2>2 DEF Left
  <2>. QED  BY <2>2, <2>3, <2>4, <1>0 DEF CallsFit, Pushing
<1>. QED
  BY <1>1, <1>2, <1>3, <1>4, <1>5, <1>6, <1>7, <1>8, <1>9, <1>10, <1>11, <1>0
     DEF Next, WorkerStep

-----------------------------------------------------------------------------
(* The memory of the tasks *)

\* Only an allocation takes a block, and it takes a new one.
LEMMA NumberedSteps ==
    ASSUME TypeOK, Numbered, [Next]_vars
    PROVE  Numbered'
<1>1. ASSUME NEW t, NEW k \in Tasks, Submit(t, k) PROVE Numbered'
  <2> DEFINE n == Cardinality(given)
  <2>1. /\ k \notin given /\ given' = given \cup {k}
        /\ block' = [block EXCEPT ![k] = n] /\ n \in Nat
    BY <1>1, FS_CardinalityType DEF Submit, Numbered
  <2>2. IsFiniteSet(given') /\ Cardinality(given') = n + 1
    BY <2>1, FS_AddElement DEF Numbered
  <2>3. block'[k] = n /\ \A j \in given : block'[j] = block[j] /\ block[j] < n /\ block[j] \in Nat
    BY <2>1 DEF TypeOK, Numbered
  <2>4. \A j \in given' : block'[j] < n + 1
    BY <2>1, <2>3
  <2>5. \A i, j \in given' : block'[i] = block'[j] => i = j
    BY <2>1, <2>3 DEF Numbered
  <2>. QED  BY <2>2, <2>4, <2>5 DEF Numbered
<1>2. CASE UNCHANGED <<given, block>>
  BY <1>2 DEF Numbered
<1>. QED
  BY <1>1, <1>2 DEF Next, WorkerStep, TaskSubmits, OwnerSubmits, Made, MakeFails, Destroy, Join,
     Start, Test, Yield, GetTask, Run, Delete, InQue, Link, mem, vars

\* What a pop brings was not run and is with no worker; what is run is given.
LEMMA TaskFacts ==
    ASSUME IInv
    PROVE  /\ \A w \in Workers : pc[w] = "run" =>
                 task[w] \in Tasks /\ task[w] \in given /\ runs[task[w]] = 0
           /\ \A w \in Workers : call[w].op = "done" =>
                 /\ call[w].item \in given /\ call[w].item # NoTask /\ runs[call[w].item] = 0
                 /\ \A v \in Workers : task[v] # call[w].item
<1>0. TypeOK /\ CallsFit /\ Handed /\ QP!IInv /\ \A k \in Tasks : k # NoTask /\ Story(k)
  BY NamesAssumption DEF IInv
<1>1. ASSUME NEW w \in Workers, pc[w] = "run"
      PROVE  task[w] \in Tasks /\ task[w] \in given /\ runs[task[w]] = 0
  <2>1. task[w] \in Tasks
    BY <1>1, <1>0 DEF CallsFit
  <2>2. w \in WorkedBy(task[w])
    BY <1>1 DEF WorkedBy
  <2>. QED  BY <1>0, <2>1, <2>2 DEF Story, Nowhere
<1>2. ASSUME NEW w \in Workers, call[w].op = "done"
      PROVE  /\ call[w].item \in given /\ call[w].item # NoTask /\ runs[call[w].item] = 0
             /\ \A v \in Workers : task[v] # call[w].item
  <2> DEFINE x == call[w].item
  <2>1. w \in Threads /\ x \in Tasks
    BY <1>2, <1>0, QueueFacts DEF Threads
  <2>2. w \in CarriedBy(x)
    BY <2>1 DEF CarriedBy
  <2>3. x \in given /\ x # NoTask /\ runs[x] = 0 /\ WorkedBy(x) = {}
    BY <1>0, <2>1, <2>2 DEF Story, Nowhere, InOnePlace
  <2>4. ASSUME NEW v \in Workers, task[v] = x PROVE FALSE
    <3>1. pc[v] # "run"
      BY <2>3, <2>4 DEF WorkedBy
    <3>2. pc[v] # "delete"
      BY <1>0, <2>3, <2>4 DEF Handed
    <3>. QED  BY <1>0, <2>3, <2>4, <3>1, <3>2 DEF Handed
  <2>. QED  BY <2>3, <2>4
<1>. QED  BY <1>1, <1>2

\* A task goes from a pop to one worker, which runs it, deletes it and has none then.
LEMMA HandedSteps ==
    ASSUME IInv, [Next]_vars
    PROVE  Handed'
<1>0. /\ TypeOK /\ Handed
      /\ pc \in [Workers -> {"new", "test", "pop", "run", "delete", "left"}]
      /\ task \in [Workers -> Tasks \cup {NoTask}] /\ runs \in [Tasks -> Nat] /\ given \subseteq Tasks
  BY DEF IInv, TypeOK
<1>1. ASSUME NEW w \in Workers, Start(w) \/ Test(w) \/ Yield(w) PROVE Handed'
  BY <1>1, <1>0 DEF Start, Test, Yield, Goto, Handed
<1>2. ASSUME NEW w \in Workers, GetTask(w) PROVE Handed'
  <2> DEFINE x == call[w].item
  <2>1. /\ pc' = [pc EXCEPT ![w] = "run"] /\ task' = [task EXCEPT ![w] = x]
        /\ UNCHANGED <<given, runs>> /\ call[w].op = "done"
    BY <1>2 DEF GetTask, Goto, Q!Return, Q!Becomes
  <2>2. x \in given /\ \A v \in Workers : task[v] # x
    BY <2>1, TaskFacts
  <2> HIDE DEF x
  <2>. QED  BY <2>1, <2>2, <1>0 DEF Handed
<1>3. ASSUME NEW w \in Workers, Run(w) PROVE Handed'
  <2> DEFINE x == task[w]
  <2>1. /\ pc[w] = "run" /\ pc' = [pc EXCEPT ![w] = "delete"] /\ task' = task
        /\ runs' = [runs EXCEPT ![x] = @ + 1] /\ given' = given
    BY <1>3 DEF Run, Goto
  <2>2. x \in Tasks /\ x \in given /\ runs[x] = 0
    BY <2>1, TaskFacts
  <2>3. \A v \in Workers : v # w => task[v] # x
    BY <2>2, <1>0, NamesAssumption DEF Handed
  <2>4. runs'[x] = 1 /\ \A k \in Tasks : k # x => runs'[k] = runs[k]
    BY <2>1, <2>2, <1>0
  <2>5. \A v \in Workers : pc'[v] = "delete" => task'[v] \in given' /\ runs'[task'[v]] = 1
    <3>1. ASSUME NEW v \in Workers, v # w, pc'[v] = "delete"
          PROVE  task[v] \in given /\ runs'[task[v]] = 1
      <4>1. task[v] \in given /\ runs[task[v]] = 1
        BY <3>1, <2>1, <1>0 DEF Handed
      <4>. QED  BY <3>1, <4>1, <2>3, <2>4, <1>0
    <3>. QED  BY <3>1, <2>1, <2>2, <2>4
  <2>6. \A v \in Workers : pc'[v] \notin {"run", "delete"} => task'[v] = NoTask
    BY <2>1, <1>0 DEF Handed
  <2>. QED  BY <2>1, <2>5, <2>6, <1>0 DEF Handed
<1>4. ASSUME NEW w \in Workers, Delete(w) PROVE Handed'
  BY <1>4, <1>0, NamesAssumption DEF Delete, Goto, Handed
<1>5. ASSUME NEW t, NEW k \in Tasks, Submit(t, k) PROVE Handed'
  BY <1>5, <1>0 DEF Submit, Handed
<1>6. CASE UNCHANGED <<pc, task, given, runs>>
  BY <1>6, <1>0 DEF Handed
<1>. QED
  BY <1>1, <1>2, <1>3, <1>4, <1>5, <1>6 DEF Next, WorkerStep, TaskSubmits, OwnerSubmits,
     Made, MakeFails, Destroy, Join, InQue, Link, vars

\* A chunk goes with the delete of its first task, and what is over stays over.
LEMMA FreeingSteps ==
    ASSUME IInv, [Next]_vars
    PROVE  Freeing'
<1>0. /\ Freeing /\ Handed
      /\ task \in [Workers -> Tasks \cup {NoTask}] /\ runs \in [Tasks -> Nat]
      /\ block \in [Tasks -> Nat] /\ given \subseteq Tasks
  BY DEF IInv, TypeOK
<1>a. ASSUME freed' = freed, given \subseteq given',
             \A k \in given : Over(k) => Over(k)' /\ Chunk(k)' = Chunk(k)
      PROVE  Freeing'
  BY <1>a, <1>0 DEF Freeing
<1>1. ASSUME NEW w \in Workers, GetTask(w) PROVE Freeing'
  <2> DEFINE x == call[w].item
  <2>1. /\ task' = [task EXCEPT ![w] = x] /\ UNCHANGED <<given, runs, block, freed>>
        /\ call[w].op = "done"
    BY <1>1 DEF GetTask, mem, Q!Return, Q!Becomes
  <2>2. runs[x] = 0
    BY <2>1, TaskFacts
  <2> HIDE DEF x
  <2>3. \A k \in given : Over(k) => Over(k)' /\ Chunk(k)' = Chunk(k)
    BY <2>1, <2>2, <1>0 DEF Over, First, Chunk, ChunkOf
  <2>. QED  BY <2>1, <2>3, <1>a
<1>2. ASSUME NEW w \in Workers, Run(w) PROVE Freeing'
  BY <1>2, <1>0, <1>a DEF Run, mem, Over, First, Chunk, ChunkOf
<1>3. ASSUME NEW w \in Workers, Delete(w) PROVE Freeing'
  <2> DEFINE x == task[w]
  <2>1. /\ pc[w] = "delete" /\ task' = [task EXCEPT ![w] = NoTask]
        /\ UNCHANGED <<given, runs, block>>
        /\ \/ freed' = freed
           \/ First(x) /\ freed' = freed \cup {Chunk(x)}
    BY <1>3 DEF Delete, Goto
  <2>2. /\ x \in given /\ runs[x] = 1 /\ x # NoTask
        /\ \A v \in Workers : v # w => task[v] # x
    BY <2>1, <1>0, NamesAssumption DEF Handed
  <2>3. \A k \in given : Over(k) => Over(k)'
    BY <2>1, <1>0, NamesAssumption DEF Over, First
  <2>4. \A k \in given : Chunk(k)' = Chunk(k)
    BY <2>1 DEF Chunk, ChunkOf
  <2>5. ASSUME NEW k, k = x, First(k) PROVE Over(k)'
    BY <2>1, <2>2, <2>5, <1>0 DEF Over, First
  <2>6. ASSUME NEW c \in freed' PROVE \E k \in given' : Chunk(k)' = c /\ Over(k)'
    <3>1. CASE c \in freed
      BY <3>1, <2>1, <2>3, <2>4, <1>0 DEF Freeing
    <3>2. CASE c \notin freed
      <4>1. First(x) /\ c = Chunk(x)
        BY <2>1, <2>6, <3>2
      <4>2. PICK k : k = x
        OBVIOUS
      <4>3. k \in given /\ First(k) /\ Chunk(k) = c
        BY <4>1, <4>2, <2>2
      <4>4. Over(k)' /\ Chunk(k)' = c
        BY <4>2, <4>3, <2>4, <2>5
      <4>. QED  BY <4>3, <4>4, <2>1
    <3>. QED  BY <3>1, <3>2
  <2>. QED  BY <2>6 DEF Freeing
<1>4. ASSUME NEW t, NEW x \in Tasks, Submit(t, x) PROVE Freeing'
  BY <1>4, <1>0, <1>a DEF Submit, Over, First, Chunk, ChunkOf
<1>5. CASE UNCHANGED <<task, given, runs, block, freed>>
  BY <1>5, <1>0, <1>a DEF Over, First, Chunk, ChunkOf
<1>. QED
  BY <1>1, <1>2, <1>3, <1>4, <1>5 DEF Next, WorkerStep, TaskSubmits, OwnerSubmits,
     Made, MakeFails, Destroy, Join, Start, Test, Yield, InQue, Link, mem, vars

\* The number of a block says its chunk and its place there, and these say its number.
LEMMA FirstOfChunk ==
    ASSUME NEW m \in Nat, NEW n \in Nat, m % ChunkSize = 0, n % ChunkSize = 0,
           ChunkOf(m) = ChunkOf(n)
    PROVE  m = n
<1>1. ASSUME NEW i \in Nat, i % ChunkSize = 0 PROVE i = ChunkSize * ChunkOf(i)
  BY <1>1, SizeAssumption DEF ChunkOf
<1>. QED  BY <1>1

-----------------------------------------------------------------------------
(* The invariant and what follows from it *)

\* At first the queue is empty, nobody is in it, and no task is anywhere.
LEMMA InitIInv == Init => IInv
<1> SUFFICES ASSUME Init PROVE IInv
  OBVIOUS
<1>1. QP!IInv
  BY QP!InitIInv DEF Init, Q!Init, QP!Init, Q!Idle, QP!Idle, Q!At, QP!At
<1>2. TypeOK /\ CallsFit
  BY DEF Init, Q!Init, Q!Idle, Q!At, TypeOK, CallsFit, Threads
<1>3. ASSUME NEW k \in Tasks PROVE Story(k)
  <2>1. k # NoTask
    BY NamesAssumption
  <2>. QED
    BY <2>1, EmptySeq DEF Init, Q!Init, Q!Idle, Q!At, Story, Nowhere, QueuedAt, CarriedBy, WorkedBy
<1>4. Numbered /\ Handed /\ Freeing
  BY NamesAssumption, FS_EmptySet DEF Init, Numbered, Handed, Freeing
<1>. QED  BY <1>1, <1>2, <1>3, <1>4 DEF IInv

\* The queue's account, the types, the places of the threads and of the tasks hold
\* in every behaviour.
LEMMA Invariance ==
    ASSUME IsFiniteSet(Workers)
    PROVE  Spec => []IInv
<1>1. IInv /\ [Next]_vars => IInv'
  <2> SUFFICES ASSUME IInv, [Next]_vars PROVE IInv'
    OBVIOUS
  <2>1. QP!IInv /\ TypeOK /\ CallsFit /\ Numbered /\ Handed
    BY DEF IInv
  <2>2. QP!IInv'
    BY <2>1, QueueSteps
  <2>3. TypeOK' /\ CallsFit'
    BY <2>1, TypeSteps, CallsFitSteps
  <2>4. \A k \in Tasks : Story(k)'
    BY StorySteps
  <2>5. Numbered' /\ Handed' /\ Freeing'
    BY <2>1, NumberedSteps, HandedSteps, FreeingSteps
  <2>. QED  BY <2>2, <2>3, <2>4, <2>5 DEF IInv
<1>. QED  BY <1>1, InitIInv, PTL DEF Spec

\* Places(k) has as many members as there are places.
LEMMA PlacesCounted ==
    ASSUME NEW k
    PROVE  /\ Nowhere(k) => Cardinality(Places(k)) = 0
           /\ InOnePlace(k) => Cardinality(Places(k)) = 1
<1>1. Places(k) =      {<<"queue", i>> : i \in QueuedAt(k)}
                 \cup {<<"call", t>> : t \in CarriedBy(k)}
                 \cup {<<"worker", w>> : w \in WorkedBy(k)}
  BY DEF Places, QueuedAt, CarriedBy, WorkedBy
<1>2. ASSUME Nowhere(k) PROVE Places(k) = {}
  BY <1>1, <1>2 DEF Nowhere
<1>3. ASSUME InOnePlace(k) PROVE \E x : Places(k) = {x}
  <2>1. ASSUME NEW i, QueuedAt(k) = {i}, CarriedBy(k) = {}, WorkedBy(k) = {}
        PROVE  Places(k) = {<<"queue", i>>}
    BY <1>1, <2>1
  <2>2. ASSUME NEW t, QueuedAt(k) = {}, CarriedBy(k) = {t}, WorkedBy(k) = {}
        PROVE  Places(k) = {<<"call", t>>}
    BY <1>1, <2>2
  <2>3. ASSUME NEW w, QueuedAt(k) = {}, CarriedBy(k) = {}, WorkedBy(k) = {w}
        PROVE  Places(k) = {<<"worker", w>>}
    BY <1>1, <2>3
  <2>. QED  BY <1>3, <2>1, <2>2, <2>3 DEF InOnePlace
<1>. QED  BY <1>2, <1>3, FS_EmptySet, FS_Singleton

\* For any finite set of workers and any tasks, a submitted task is in one place and
\* is run at most once, whenever the pool is destroyed.
THEOREM Once ==
    ASSUME IsFiniteSet(Workers)
    PROVE  Spec => []OncePerTask
<1>1. IInv => OncePerTask
  <2> SUFFICES ASSUME IInv, NEW k \in Tasks
               PROVE  Cardinality(Places(k)) + runs[k] = IF k \in given THEN 1 ELSE 0
    BY DEF OncePerTask
  <2>1. Story(k)
    BY DEF IInv
  <2>. QED  BY <2>1, PlacesCounted DEF Story
<1>. QED  BY <1>1, Invariance, PTL

\* For any finite set of workers, none of them is in the queue when it goes, and what
\* is then not run is still queued.
THEOREM Outlived ==
    ASSUME IsFiniteSet(Workers)
    PROVE  Spec => []QueueOutlivesWorkers
<1>1. IInv => QueueOutlivesWorkers
  <2> SUFFICES ASSUME IInv, life = "gone" PROVE QueueOutlivesWorkers
    BY DEF QueueOutlivesWorkers
  <2>1. Left /\ \A t \in Threads : call[t].op = "idle"
    BY DEF IInv, CallsFit, Left, Threads
  <2>2. ASSUME NEW k \in given, runs[k] # 1
        PROVE  \E i \in DOMAIN content : content[i] = k
    <3>1. k \in Tasks /\ k # NoTask /\ Story(k)
      BY NamesAssumption DEF IInv, TypeOK
    <3>2. CarriedBy(k) = {}
      BY <2>1, <3>1, QueueFacts DEF IInv, CarriedBy
    <3>3. WorkedBy(k) = {}
      BY <2>1 DEF WorkedBy, Left
    <3>4. QueuedAt(k) # {}
      BY <2>2, <3>1, <3>2, <3>3 DEF Story, InOnePlace
    <3>. QED  BY <3>4 DEF QueuedAt
  <2>. QED  BY <2>1, <2>2 DEF QueueOutlivesWorkers
<1>. QED  BY <1>1, Invariance, PTL

\* For any finite set of workers and any size of the chunks, a chunk is freed once at
\* most, and when its first task was run: no free() meets a chunk that is gone, and what
\* is queued behind a first task that still runs is in memory.
THEOREM FreedByFirst ==
    ASSUME IsFiniteSet(Workers)
    PROVE  Spec => []FreedOnce
<1>1. IInv => FreedOnce
  <2> SUFFICES ASSUME IInv PROVE FreedOnce
    OBVIOUS
  <2>1. Freeing /\ Numbered /\ Handed /\ TypeOK
    BY DEF IInv
  <2>2. ASSUME NEW w \in Workers, task[w] # NoTask, First(task[w]), Chunk(task[w]) \in freed
        PROVE  FALSE
    <3>1. task[w] \in given
      BY <2>1, <2>2, TaskFacts DEF Handed
    <3>2. PICK k \in given : Chunk(k) = Chunk(task[w]) /\ Over(k)
      BY <2>1, <2>2 DEF Freeing
    <3>3. block[k] \in Nat /\ block[task[w]] \in Nat
      BY <2>1, <3>1, <3>2 DEF TypeOK
    <3>4. block[k] = block[task[w]]
      BY <2>2, <3>2, <3>3, FirstOfChunk DEF Over, First, Chunk
    <3>5. k = task[w]
      BY <2>1, <3>1, <3>2, <3>4 DEF Numbered
    <3>. QED  BY <3>2, <3>5 DEF Over
  <2>. QED  BY <2>1, <2>2 DEF FreedOnce, Freeing, Over
<1>. QED  BY <1>1, Invariance, PTL

\* For any finite set of workers, a constructor that throws after it has started one of
\* them does not return.
THEOREM Hangs ==
    ASSUME IsFiniteSet(Workers)
    PROVE  Spec => ConstructorHangs
<1> DEFINE Stuck == life \in {"unwinding", "undefined"} /\ (life = "unwinding" => ~Left)
<1>1. IInv /\ Stuck /\ [Next]_vars => Stuck'
  <2> SUFFICES ASSUME IInv, Stuck, [Next]_vars PROVE Stuck'
    OBVIOUS
  <2>0. pc \in [Workers -> {"new", "test", "pop", "run", "delete", "left"}]
    BY DEF IInv, TypeOK
  <2>1. life = "unwinding" => ~done
    BY DEF IInv, CallsFit
  <2>2. life' \in {"unwinding", "undefined"} /\ (life' = "unwinding" => life = "unwinding")
    BY DEF Next, WorkerStep, TaskSubmits, OwnerSubmits, Made, MakeFails, Destroy, Join, Submit, Uses,
       Start, Test, Yield, GetTask, Run, Delete, InQue, Link, Goto, Alive, vars
  <2>3. ASSUME life = "unwinding", ~Left PROVE ~Left'
    <3>1. PICK w \in Workers : pc[w] \notin {"new", "left"}
      BY <2>3 DEF Left
    <3>2. pc'[w] \notin {"new", "left"}
      BY <2>0, <2>1, <2>3, <3>1 DEF Next, WorkerStep, TaskSubmits, OwnerSubmits, Made, MakeFails,
         Destroy, Join, Submit, Start, Test, Yield, GetTask, Run, Delete, InQue, Link, Goto, vars
    <3>. QED  BY <3>2 DEF Left
  <2>. QED  BY <2>2, <2>3
<1>2. life = "unwinding" /\ ~Left => Stuck
  OBVIOUS
<1>3. Stuck => life # "gone"
  OBVIOUS
<1>. QED  BY <1>1, <1>2, <1>3, Invariance, PTL DEF Spec, ConstructorHangs
=============================================================================
