------------------------------- MODULE JThread -------------------------------
(***************************************************************************)
(* jthread of jthread.cpp: workers that take tasks from a jque (module     *)
(* PermitDeque) until the destructor sets done.  The destructor joins them *)
(* before the queue goes, because guard is declared after work_que; tasks  *)
(* still queued are never run.                                             *)
(*                                                                         *)
(* A worker gives its task's block to delete, although it belongs to the   *)
(* queue's allocator.  No block comes back to that allocator, and so its   *)
(* chunks are used up one after the other, each from its start: the n-th   *)
(* task pushed has the n-th block.  The first block of a chunk is what     *)
(* malloc() returned, so delete frees the whole chunk, whoever uses it.    *)
(* Any other block is nothing that free() knows: the process dies of it,   *)
(* or the block is lost.  What is undefined ends the model, here and       *)
(* where memory is used that was freed, unless it has no effect.           *)
(***************************************************************************)
EXTENDS Integers, Sequences, FiniteSets

CONSTANTS Workers,      \* bound: the threads hardware_concurrency() may ask for
          Owner,        \* the thread that makes and destroys the pool
          Tasks,        \* bound: the calls of submit()
          NoTask,
          ChunkSize     \* the blocks of a chunk: 64 in the code

ASSUME NamesAssumption == Owner \notin Workers /\ NoTask \notin Tasks
ASSUME SizeAssumption == ChunkSize \in Nat \ {0}

VARIABLES content, size, call,  \* work_que
          done,
          life,         \* what the owner is doing with the pool
          pc,           \* where each worker is
          task,         \* what it works on
          given,        \* the tasks submitted so far
          runs,         \* how often each task was run
          block,        \* the number of each task's block, in the order of allocation
          freed         \* the chunks of work_que.data_jalloc that were freed

que == <<content, size, call>>
mem == <<block, freed>>
vars == <<que, done, life, pc, task, given, runs, mem>>

Threads == Workers \cup {Owner}
Q == INSTANCE PermitDeque WITH Items <- Tasks, NoItem <- NoTask

Init ==
    /\ Q!Init
    /\ done = FALSE /\ life = "making"
    /\ pc = [w \in Workers |-> "new"]
    /\ task = [w \in Workers |-> NoTask]
    /\ given = {} /\ runs = [k \in Tasks |-> 0]
    /\ block = [k \in Tasks |-> 0] /\ freed = {}

Alive == life \notin {"gone", "undefined"}

Goto(w, from, to) == Alive /\ pc[w] = from /\ pc' = [pc EXCEPT ![w] = to]

ChunkOf(n) == n \div ChunkSize
Chunk(k) == ChunkOf(block[k])
First(k) == block[k] % ChunkSize = 0

\* A step uses memory of chunk c.
Uses(c) == life' = life \/ (c \in freed /\ life' = "undefined")

-----------------------------------------------------------------------------
(* The owner *)

\* for (i < s): the thread runs before the next one is made
Start(w) ==
    /\ life = "making"
    /\ Goto(w, "new", "test")
    /\ UNCHANGED <<que, done, life, task, given, runs, mem>>

\* s may be 0: hardware_concurrency() says so when it does not know
Made ==
    /\ life = "making"
    /\ life' = "live"
    /\ UNCHANGED <<que, done, pc, task, given, runs, mem>>

\* Making a thread throws: the members are destroyed, and guard joins the workers
\* there are, with done still unset.
MakeFails ==
    /\ life = "making"
    /\ life' = "unwinding"
    /\ UNCHANGED <<que, done, pc, task, given, runs, mem>>

\* the two allocations: the pop of the free list reads the block it takes
Submit(t, k) ==
    /\ k \notin given
    /\ given' = given \cup {k}
    /\ Q!Push(t, "push_back", k)
    /\ block' = [block EXCEPT ![k] = Cardinality(given)]
    /\ Uses(ChunkOf(Cardinality(given)))
    /\ UNCHANGED <<done, pc, task, runs, freed>>

OwnerSubmits(k) == life = "live" /\ Submit(Owner, k)

\* The owner does not destroy the pool while it is in submit().
Destroy ==
    /\ life = "live"
    /\ call[Owner].op = "idle"
    /\ done' = TRUE
    /\ life' = "joining"
    /\ UNCHANGED <<que, pc, task, given, runs, mem>>

Left == \A w \in Workers : pc[w] \in {"new", "left"}

\* Mutant: work_que is declared after guard, and so goes before the join.
JoinsTooLate ==
    /\ life = "joining"
    /\ life' = "gone"
    /\ UNCHANGED <<que, done, pc, task, given, runs, mem>>

\* guard joins the workers, then work_que goes
Join ==
    /\ life \in {"joining", "unwinding"}
    /\ Left
    /\ life' = "gone"
    /\ UNCHANGED <<que, done, pc, task, given, runs, mem>>

-----------------------------------------------------------------------------
(* A worker *)

\* Mutant: while (true).
TestsNothing(w) ==
    /\ Goto(w, "test", "pop")
    /\ Q!Pop(w)
    /\ UNCHANGED <<done, life, task, given, runs, mem>>

\* while (!done), and the call of pop_front()
Test(w) ==
    /\ Goto(w, "test", IF done THEN "left" ELSE "pop")
    /\ IF done THEN UNCHANGED que ELSE Q!Pop(w)
    /\ UNCHANGED <<done, life, task, given, runs, mem>>

\* Mutant: a worker leaves when there is no task.
LeavesWhenIdle(w) ==
    /\ Goto(w, "pop", "left")
    /\ Q!Undo(w)
    /\ UNCHANGED <<done, life, task, given, runs, mem>>

\* pop_front() returns nullptr, and the worker yields
Yield(w) ==
    /\ Goto(w, "pop", "test")
    /\ Q!Undo(w)
    /\ UNCHANGED <<done, life, task, given, runs, mem>>

\* Mutant: the task is moved out of its block, which is deleted before it runs.
DeletesFirst(w) ==
    /\ Goto(w, "pop", "run")
    /\ Q!Return(w)
    /\ task' = [task EXCEPT ![w] = call[w].item]
    /\ freed' = freed \cup IF First(call[w].item) THEN {Chunk(call[w].item)} ELSE {}
    /\ UNCHANGED <<done, life, given, runs, block>>

\* Mutant: done is tested again, and the task is dropped.
DropsWhenDone(w) ==
    /\ Goto(w, "pop", IF done THEN "left" ELSE "run")
    /\ Q!Return(w)
    /\ task' = [task EXCEPT ![w] = call[w].item]
    /\ UNCHANGED <<done, life, given, runs, mem>>

GetTask(w) ==
    /\ Goto(w, "pop", "run")
    /\ Q!Return(w)
    /\ task' = [task EXCEPT ![w] = call[w].item]
    /\ UNCHANGED <<done, life, given, runs, mem>>

\* (*task)() ends; what it submitted is queued by then
Run(w) ==
    /\ call[w].op = "idle"
    /\ Goto(w, "run", "delete")
    /\ runs' = [runs EXCEPT ![task[w]] = @ + 1]
    /\ Uses(Chunk(task[w]))
    /\ UNCHANGED <<que, done, task, given, mem>>

\* a running task submits another one
TaskSubmits(w, k) == Alive /\ pc[w] = "run" /\ Submit(w, k)

Delete(w) ==
    /\ Goto(w, "delete", "test")
    /\ task' = [task EXCEPT ![w] = NoTask]
    /\ \/ First(task[w]) /\ freed' = freed \cup {Chunk(task[w])} /\ UNCHANGED life
       \/ ~First(task[w]) /\ life' \in {life, "undefined"} /\ UNCHANGED freed
    /\ UNCHANGED <<que, done, given, runs, block>>

\* new (new_value) T(f) in the block, and the task is linked
Link(t) ==
    /\ Alive
    /\ Q!LinkBack(t)
    /\ Uses(Chunk(call[t].item))
    /\ UNCHANGED <<done, pc, task, given, runs, mem>>

\* A thread goes on inside push_back() or pop_front().
InQue(t) ==
    \/ Link(t)
    \/ /\ Alive
       /\ Q!Count(t) \/ Q!Take(t) \/ Q!Remove(t)
       /\ UNCHANGED <<done, life, pc, task, given, runs, mem>>

WorkerStep(w) == Test(w) \/ Yield(w) \/ GetTask(w) \/ Run(w) \/ Delete(w) \/ InQue(w)

Next ==
    \/ Made \/ MakeFails \/ Destroy \/ Join \/ InQue(Owner)
    \/ \E k \in Tasks : OwnerSubmits(k)
    \/ \E w \in Workers : \/ Start(w) \/ WorkerStep(w)
                          \/ \E k \in Tasks : TaskSubmits(w, k)

\* Every worker and the owner inside a call keep running, and every task ends.
Fairness ==
    /\ \A w \in Workers : WF_vars(WorkerStep(w))
    /\ WF_vars(Made) /\ WF_vars(InQue(Owner)) /\ WF_vars(Join)

Spec == Init /\ [][Next]_vars /\ Fairness

-----------------------------------------------------------------------------
(* Properties *)

\* Every submitted task is in one place: on its way into the queue, queued, on
\* its way out, in the hands of one worker, or run; and it was run once at most.
Places(k) ==
      {<<"queue", i>> : i \in {j \in DOMAIN content : content[j] = k}}
 \cup {<<"call", t>> : t \in {u \in Threads : call[u].item = k}}
 \cup {<<"worker", w>> : w \in {v \in Workers : pc[v] = "run" /\ task[v] = k}}

OncePerTask == \A k \in Tasks :
    Cardinality(Places(k)) + runs[k] = IF k \in given THEN 1 ELSE 0

\* No thread is in work_que, or will be, when the object goes with its mutexes, its
\* count and its ends: the tasks then still queued are dropped, and nobody is about to
\* take or to run one.  The memory of the tasks is another matter (TasksInMemory).
QueueOutlivesWorkers ==
    life = "gone" =>
        /\ Left
        /\ \A t \in Threads : call[t].op = "idle"
        /\ \A k \in given : runs[k] = 1 \/ \E i \in DOMAIN content : content[i] = k

\* A chunk of the queue is freed once at most, and by its first task: not before this
\* has run, so until then all tasks of the chunk are in memory that the queue has.
FreedOnce ==
    /\ \A c \in freed : \E k \in given :
          First(k) /\ Chunk(k) = c /\ runs[k] = 1 /\ \A w \in Workers : task[w] # k
    /\ \A w \in Workers : task[w] # NoTask /\ First(task[w]) => Chunk(task[w]) \notin freed

\* A task that is queued, or is being run, lies in memory that was not freed, as the
\* allocator has it, which "can not return mem to OS".  It fails.
TasksInMemory == \A k \in given : Places(k) # {} => Chunk(k) \notin freed

\* Failing pops overlap: one has taken a permit that was not there, another finds
\* the count too low because of it.
Crowded == Cardinality({t \in Threads : call[t].op = "refused"}) > 1

\* Unless the pool ends, has no worker, or its workers keep each other from the
\* queue for ever with pops that fail because the others fail, every task is run.
TasksGetRun == \A k \in Tasks :
    [](k \in given => <>(\/ runs[k] = 1
                         \/ life \notin {"making", "live"}
                         \/ \A w \in Workers : pc[w] = "new"))
    \/ []<>Crowded

\* The destructor returns: every worker that runs, or waits in a pop, gets to see
\* done.  A constructor that throws returns if it had started no worker yet.
DestructorReturns ==
    /\ life = "joining" ~> life \in {"gone", "undefined"}
    /\ (life = "unwinding" /\ Left) ~> life = "gone"

\* A constructor that throws after it has started a worker never returns: nobody
\* sets done, whatever the worker does it does not leave, and guard waits for it.
ConstructorHangs == [](life = "unwinding" /\ ~Left => [](life # "gone"))

=============================================================================
