----------------------------- MODULE JallocConc -----------------------------
(***************************************************************************)
(* jalloc_conc of jalloc_conc.cpp: blocks of one size on a lock-free free  *)
(* list.  allocate() pops the list with a compare-and-swap, as jstack does *)
(* (see its line 67), and before it hands a block out it waits until no   *)
(* thread is between popingthreads++ and popingthreads--, so that no       *)
(* thread is left with a snapshot of the block.  deallocate() pushes.      *)
(* An empty list is refilled under the mutex by init().                    *)
(*                                                                         *)
(* One action is one access to shared memory.  A block is its index, in    *)
(* address order, and next[b] is its first word: the link while the block  *)
(* is free, the caller's bytes (Junk) once it is handed out.               *)
(***************************************************************************)
EXTENDS Integers, FiniteSets

CONSTANTS Threads,
          ChunkSize,    \* blocks per init() (64 in the code)
          NumBlocks,    \* bound: the blocks that malloc can provide
          MaxDemand,    \* bound: blocks the callers hold, ask for or return at a time
          NoThread

ASSUME SizesAssumption ==
    /\ ChunkSize \in Nat \ {0}
    /\ NumBlocks \in Nat
    /\ ChunkSize <= NumBlocks
    /\ MaxDemand \in Nat
    /\ NoThread \notin Threads /\ IsFiniteSet(Threads)

Blocks == 1 .. NumBlocks
Null == 0
Junk == -1

VARIABLES freeChunk,    \* the head of the free list
          next,         \* the first word of every block
          popingthreads,
          mu,           \* the mutex around init()
          brk,          \* blocks 1 .. brk have been malloc'ed
          pc,
          res,          \* each thread's block: res, lp or head in the code
          nxt,          \* each thread's copy of res->next, the new head it will try
          inUse         \* the blocks handed out and not yet given back

vars == <<freeChunk, next, popingthreads, mu, brk, pc, res, nxt, inUse>>

Goto(t, from, to) == pc[t] = from /\ pc' = [pc EXCEPT ![t] = to]

SetRes(t, b) == res' = [res EXCEPT ![t] = b]

(* init(): the chunk that starts at block b, linked in address order.  The *)
(* last block's word is written by the next step, lp->next = freeChunk.    *)
Chunk(b) == b .. b + ChunkSize - 1
LastOf(b) == b + ChunkSize - 1
Linked(b) == [x \in Blocks |-> IF x \in Chunk(b) \ {LastOf(b)} THEN x + 1 ELSE next[x]]

(* freeChunk.compare_exchange_strong(lp->next, new): the expected value is *)
(* the word of block b, and a failure overwrites it with the head it saw.  *)
CasPush(b, new) ==
    IF next[b] = freeChunk
        THEN freeChunk' = new /\ UNCHANGED next
        ELSE next' = [next EXCEPT ![b] = freeChunk] /\ UNCHANGED freeChunk

\* The constructor calls init() once.
Init ==
    /\ freeChunk = 1
    /\ next = [b \in Blocks |-> IF b < ChunkSize THEN b + 1 ELSE Null]
    /\ popingthreads = 0
    /\ mu = NoThread
    /\ brk = ChunkSize
    /\ pc = [t \in Threads |-> "idle"]
    /\ res = [t \in Threads |-> Null]
    /\ nxt = [t \in Threads |-> Null]
    /\ inUse = {}

-----------------------------------------------------------------------------
(* allocate() *)

Demand == Cardinality(inUse) + Cardinality({t \in Threads : pc[t] # "idle"})

AllocCall(t) ==
    /\ Demand < MaxDemand
    /\ Goto(t, "idle", "a_test")
    /\ UNCHANGED <<freeChunk, next, popingthreads, mu, brk, res, nxt, inUse>>

\* if (!freeChunk.load())
AllocTest(t) ==
    /\ Goto(t, "a_test", IF freeChunk = Null THEN "a_lock" ELSE "a_enter")
    /\ UNCHANGED <<freeChunk, next, popingthreads, mu, brk, res, nxt, inUse>>

AllocLock(t) ==
    /\ Goto(t, "a_lock", "a_retest")
    /\ mu = NoThread
    /\ mu' = t
    /\ UNCHANGED <<freeChunk, next, popingthreads, brk, res, nxt, inUse>>

\* Mutant: no second test under the mutex.
RetestsNothing(t) ==
    /\ Goto(t, "a_retest", "i_malloc")
    /\ UNCHANGED <<freeChunk, next, popingthreads, mu, brk, res, nxt, inUse>>

\* the second test of freeChunk, under the mutex
AllocRetest(t) ==
    /\ Goto(t, "a_retest", IF freeChunk = Null THEN "i_malloc" ELSE "a_unlock")
    /\ UNCHANGED <<freeChunk, next, popingthreads, mu, brk, res, nxt, inUse>>

\* init(): malloc a chunk and link it; nobody else can see it yet
InitMalloc(t) ==
    /\ Goto(t, "i_malloc", "i_load")
    /\ brk + ChunkSize <= NumBlocks
    /\ brk' = brk + ChunkSize
    /\ next' = Linked(brk + 1)
    /\ SetRes(t, brk + 1)
    /\ UNCHANGED <<freeChunk, popingthreads, mu, nxt, inUse>>

\* lp->next = freeChunk.load()
InitLoad(t) ==
    /\ Goto(t, "i_load", "i_cas")
    /\ next' = [next EXCEPT ![LastOf(res[t])] = freeChunk]
    /\ UNCHANGED <<freeChunk, popingthreads, mu, brk, res, nxt, inUse>>

InitCas(t) ==
    /\ pc[t] = "i_cas"
    /\ CasPush(LastOf(res[t]), res[t])
    /\ IF next[LastOf(res[t])] = freeChunk
           THEN Goto(t, "i_cas", "a_unlock") /\ SetRes(t, Null)
           ELSE Goto(t, "i_cas", "i_cas") /\ UNCHANGED res
    /\ UNCHANGED <<popingthreads, mu, brk, nxt, inUse>>

\* Mutant: the mutex is not unlocked.
KeepsMutex(t) ==
    /\ Goto(t, "a_unlock", "a_enter")
    /\ UNCHANGED <<freeChunk, next, popingthreads, mu, brk, res, nxt, inUse>>

AllocUnlock(t) ==
    /\ Goto(t, "a_unlock", "a_enter")
    /\ mu' = NoThread
    /\ UNCHANGED <<freeChunk, next, popingthreads, brk, res, nxt, inUse>>

\* popingthreads++
AllocEnter(t) ==
    /\ Goto(t, "a_enter", "a_load")
    /\ popingthreads' = popingthreads + 1
    /\ UNCHANGED <<freeChunk, next, mu, brk, res, nxt, inUse>>

\* res = freeChunk.load(); the loop is over at once if it is null
AllocLoad(t) ==
    /\ Goto(t, "a_load", IF freeChunk = Null THEN "a_exit" ELSE "a_next")
    /\ SetRes(t, freeChunk)
    /\ UNCHANGED <<freeChunk, next, popingthreads, mu, brk, nxt, inUse>>

\* the argument res->next is read before the compare-and-swap
AllocNext(t) ==
    /\ Goto(t, "a_next", "a_cas")
    /\ nxt' = [nxt EXCEPT ![t] = next[res[t]]]
    /\ UNCHANGED <<freeChunk, next, popingthreads, mu, brk, res, inUse>>

\* Mutant: a store instead of the compare-and-swap.
StoresInsteadOfCas(t) ==
    /\ Goto(t, "a_cas", "a_exit")
    /\ freeChunk' = nxt[t]
    /\ nxt' = [nxt EXCEPT ![t] = Null]
    /\ UNCHANGED <<next, res, popingthreads, mu, brk, inUse>>

\* a failure reloads res; the loop ends with a block or with an empty list
AllocCas(t) ==
    /\ nxt' = [nxt EXCEPT ![t] = Null]
    /\ IF freeChunk = res[t]
           THEN /\ Goto(t, "a_cas", "a_exit")
                /\ freeChunk' = nxt[t]
                /\ UNCHANGED res
           ELSE /\ Goto(t, "a_cas", IF freeChunk = Null THEN "a_exit" ELSE "a_next")
                /\ SetRes(t, freeChunk)
                /\ UNCHANGED freeChunk
    /\ UNCHANGED <<next, popingthreads, mu, brk, inUse>>

\* popingthreads--
AllocExit(t) ==
    /\ Goto(t, "a_exit", "a_wait")
    /\ popingthreads' = popingthreads - 1
    /\ UNCHANGED <<freeChunk, next, mu, brk, res, nxt, inUse>>

\* Mutant: no wait for popingthreads.
ReturnsAtOnce(t) ==
    /\ pc[t] = "a_wait"
    /\ IF res[t] = Null
           THEN Goto(t, "a_wait", "a_test") /\ UNCHANGED <<next, inUse>>
           ELSE /\ Goto(t, "a_wait", "idle")
                /\ next' = [next EXCEPT ![res[t]] = Junk]
                /\ inUse' = inUse \cup {res[t]}
    /\ SetRes(t, Null)
    /\ UNCHANGED <<freeChunk, popingthreads, mu, brk, nxt>>

\* while (popingthreads) yield; then the block belongs to the caller, who
\* writes to it, or allocate() starts again
AllocReturn(t) ==
    /\ pc[t] = "a_wait"
    /\ popingthreads = 0
    /\ IF res[t] = Null
           THEN Goto(t, "a_wait", "a_test") /\ UNCHANGED <<next, inUse>>
           ELSE /\ Goto(t, "a_wait", "idle")
                /\ next' = [next EXCEPT ![res[t]] = Junk]
                /\ inUse' = inUse \cup {res[t]}
    /\ SetRes(t, Null)
    /\ UNCHANGED <<freeChunk, popingthreads, mu, brk, nxt>>

(* deallocate(): any thread may give back any block that is out *)

DeallocCall(t, b) ==
    /\ Goto(t, "idle", "d_load")
    /\ b \in inUse
    /\ inUse' = inUse \ {b}
    /\ SetRes(t, b)
    /\ UNCHANGED <<freeChunk, next, popingthreads, mu, brk, nxt>>

\* p->next = freeChunk.load()
DeallocLoad(t) ==
    /\ Goto(t, "d_load", "d_cas")
    /\ next' = [next EXCEPT ![res[t]] = freeChunk]
    /\ UNCHANGED <<freeChunk, popingthreads, mu, brk, res, nxt, inUse>>

\* Mutant: the compare-and-swap is not repeated.
TriesOnce(t) ==
    /\ pc[t] = "d_cas"
    /\ CasPush(res[t], res[t])
    /\ Goto(t, "d_cas", "idle")
    /\ SetRes(t, Null)
    /\ UNCHANGED <<popingthreads, mu, brk, nxt, inUse>>

DeallocCas(t) ==
    /\ pc[t] = "d_cas"
    /\ CasPush(res[t], res[t])
    /\ IF next[res[t]] = freeChunk
           THEN Goto(t, "d_cas", "idle") /\ SetRes(t, Null)
           ELSE Goto(t, "d_cas", "d_cas") /\ UNCHANGED res
    /\ UNCHANGED <<popingthreads, mu, brk, nxt, inUse>>

-----------------------------------------------------------------------------

Step(t) ==
    \/ AllocTest(t) \/ AllocLock(t) \/ AllocRetest(t) \/ AllocUnlock(t)
    \/ InitMalloc(t) \/ InitLoad(t) \/ InitCas(t)
    \/ AllocEnter(t) \/ AllocLoad(t) \/ AllocNext(t) \/ AllocCas(t)
    \/ AllocExit(t) \/ AllocReturn(t)
    \/ DeallocLoad(t) \/ DeallocCas(t)

Call(t) == AllocCall(t) \/ \E b \in inUse : DeallocCall(t, b)

Next == \E t \in Threads : Call(t) \/ Step(t)

Spec == Init /\ [][Next]_vars

-----------------------------------------------------------------------------
(* Properties *)

Labels == {"idle", "a_test", "a_lock", "a_retest", "i_malloc", "i_load", "i_cas",
           "a_unlock", "a_enter", "a_load", "a_next", "a_cas", "a_exit", "a_wait",
           "d_load", "d_cas"}

\* The types of the variables: in particular the head of the free list and
\* every local pointer is a block or null, never a caller's bytes.
TypeOK ==
    /\ freeChunk \in Blocks \cup {Null}
    /\ next \in [Blocks -> Blocks \cup {Null, Junk}]
    /\ popingthreads \in 0 .. Cardinality(Threads)
    /\ mu \in Threads \cup {NoThread}
    /\ brk \in 0 .. NumBlocks
    /\ pc \in [Threads -> Labels]
    /\ res \in [Threads -> Blocks \cup {Null}]
    /\ nxt \in [Threads -> Blocks \cup {Null}]
    /\ inUse \subseteq Blocks

\* A set of blocks that neither the head nor the links of its blocks lead out of.
Closed(S) ==
    /\ freeChunk \in S \cup {Null}
    /\ \A b \in S : next[b] \in S \cup {Null}

\* The free list as a set: the blocks that the links lead to from the head on,
\* the least closed set.
FreeBlocks ==
    LET closed == {S \in SUBSET (1 .. brk) : Closed(S)}
    IN  {b \in 1 .. brk : \A S \in closed : b \in S}

\* The blocks thread t has taken off the list, or not yet put on it.
InTransit(t) ==
    {b \in Blocks :
        \/ pc[t] \in {"i_load", "i_cas"} /\ b \in Chunk(res[t])
        \/ pc[t] \in {"a_exit", "a_wait", "d_load", "d_cas"} /\ b = res[t]}

\* allocate() never hands out a block that somebody has, or that another call is
\* about to return: from the successful compare-and-swap on the block is its own.
\* So jalloc_conc implements the allocator the containers rely on.
Taken(t) == IF pc[t] \in {"a_exit", "a_wait"} THEN res[t] ELSE Null

Alloc == INSTANCE AllocatorCalls WITH
    got <- [t \in Threads |-> Taken(t)],
    inUse <- inUse \cup ({Taken(t) : t \in Threads} \ {Null})

ImplementsAllocator == Alloc!CallsSpec

\* Concurrent pops, pushes and refills neither lose a block nor put one in two
\* places: every block malloc'ed is on the list, with a caller, or on its way
\* with exactly one thread, and the list is not circular.
Conservation ==
    LET free == FreeBlocks
    IN  /\ TypeOK
        /\ 1 .. brk = free \cup inUse \cup UNION {InTransit(t) : t \in Threads}
        /\ free \cap inUse = {}
        /\ \A t \in Threads : InTransit(t) \cap (free \cup inUse) = {}
        /\ \A t, u \in Threads : t # u => InTransit(t) \cap InTransit(u) = {}
        /\ \A S \in (SUBSET free) \ {{}} : \E b \in S : next[b] \notin S

\* Whenever a pop's compare-and-swap is about to succeed, the link it read
\* earlier is still the link of the head.
SnapshotIsCurrent ==
    \A t \in Threads :
        pc[t] = "a_cas" /\ freeChunk = res[t] => nxt[t] = next[res[t]]

\* A thread in the loop of allocate() never looks into a block that a caller
\* owns: the wait for popingthreads = 0 keeps the block back until then.
NoReadOfCallersBlock ==
    \A t \in Threads : pc[t] \in {"a_next", "a_cas"} => res[t] \notin inUse

\* No ABA: what a thread in the loop of allocate() has read stays true of the
\* block until the thread is done with it, although others pop, push and use
\* blocks meanwhile.
SnapshotsAreSafe == SnapshotIsCurrent /\ NoReadOfCallersBlock

\* The second test under the mutex keeps threads that found the list empty
\* together from refilling it one after the other: the memory taken from the
\* system stays within one chunk of what the callers asked for at a time.
BoundedGrowth == brk < MaxDemand + ChunkSize \/ brk = ChunkSize

=============================================================================
