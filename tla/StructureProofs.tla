-------------------------- MODULE StructureProofs --------------------------
(***************************************************************************)
(* The allocators with free lists, the array and the heaps.                *)
(*                                                                         *)
(* jalloc_conc, for any finite set of threads and any size of chunk: no    *)
(* block is lost or in two places, no pop acts on a stale snapshot, memory *)
(* grows only on demand, and so allocate() keeps what AllocatorCalls       *)
(* promises.                                                               *)
(*                                                                         *)
(* str_jalloc, for every set of requests, chunk size and number of blocks: *)
(* desize() gives the least class that is large enough, users get what     *)
(* they asked for, and no block is lost or given twice.                    *)
(*                                                                         *)
(* jallocator_t, for any size of its first pool: no block is lost or given *)
(* twice.                                                                  *)
(*                                                                         *)
(* jalloc, for any size of its chunks: the count by which a chunk goes is  *)
(* exact, and a chunk goes only when the user has no block of it.          *)
(*                                                                         *)
(* jector, for elements of any multiple of four bytes: only release()      *)
(* forgets any.                                                            *)
(*                                                                         *)
(* jheap, for any integers in any number: pushes keep both heaps in order. *)
(***************************************************************************)
EXTENDS JallocConc, StrJalloc, Jector, JHeap, FiniteSetTheorems, SequenceTheorems, WellFoundedInduction, TLAPS

-----------------------------------------------------------------------------
(* jalloc_conc *)

(* Linked lists as sets.  F is the set of the blocks on the list with head *)
(* h and links nx: the links stay in F, no two of them are the same, none  *)
(* goes back to the head, every block of F is reached and the links of no  *)
(* part of F go round in it.                                               *)

ClosedIn(h, nx, S) == h \in S \cup {Null} /\ \A b \in S : nx[b] \in S \cup {Null}

IsList(h, nx, F) ==
    /\ ClosedIn(h, nx, F)
    /\ h # Null => \A b \in F : nx[b] # h
    /\ \A b, c \in F : nx[b] = nx[c] /\ nx[b] # Null => b = c
    /\ \A S \in SUBSET F : ClosedIn(h, nx, S) => F \subseteq S
    /\ \A S \in SUBSET F : S # {} => \E b \in S : nx[b] \notin S

\* Every non-empty set of natural numbers has a least element.
LEMMA Least ==
    ASSUME NEW T \in SUBSET Nat, T # {}
    PROVE  \E x \in T : \A y \in T : x <= y
<1> DEFINE R == OpToRel(<, Nat)
<1>1. IsWellFoundedOn(R, Nat)
  BY NatLessThanWellFounded
<1>2. \A x, y \in Nat : <<x, y>> \in R <=> x < y
  BY DEF OpToRel
<1> HIDE DEF R
<1>3. PICK x \in T : \A y \in T : <<y, x>> \notin R
  BY <1>1, WFMin
<1>4. \A y \in T : x \in Nat /\ y \in Nat /\ ~(y < x)
  BY <1>2, <1>3
<1>. QED
  BY <1>3, <1>4

\* Every non-empty set of natural numbers with a bound has a greatest element.
LEMMA Greatest ==
    ASSUME NEW n \in Nat, NEW T \in SUBSET (0 .. n), T # {}
    PROVE  \E x \in T : \A y \in T : y <= x
<1> DEFINE M == {n - x : x \in T}
<1>1. M \in SUBSET Nat /\ M # {}
  <2>1. \A x \in T : n - x \in Nat
    OBVIOUS
  <2>. QED
    BY <2>1
<1>2. PICK m \in M : \A y \in M : m <= y
  <2>. HIDE DEF M
  <2>. QED
    BY <1>1, Least
<1>3. PICK x \in T : m = n - x
  OBVIOUS
<1>4. \A y \in T : y <= x
  <2> TAKE y \in T
  <2>1. m <= n - y
    BY <1>2
  <2>. QED
    BY <2>1, <1>3
<1>. QED
  BY <1>4

\* A list stays one as long as the links of its blocks stay.
LEMMA ListFrame ==
    ASSUME NEW h, NEW nx, NEW ny, NEW F, IsList(h, nx, F), \A b \in F : ny[b] = nx[b]
    PROVE  IsList(h, ny, F)
BY DEF IsList, ClosedIn

\* Without its head a list is the list from the second block on.
LEMMA ListPop ==
    ASSUME NEW h, NEW nx, NEW F, IsList(h, nx, F), h # Null, Null \notin F
    PROVE  IsList(nx[h], nx, F \ {h})
<1> DEFINE G == F \ {h}
           n == nx[h]
<1>1. h \in F /\ n \in F \cup {Null}
  BY DEF IsList, ClosedIn
<1>2. n # h
  <2>1. \E b \in {h} : nx[b] \notin {h}
    BY <1>1 DEF IsList
  <2>. QED
    BY <2>1
<1>3. ClosedIn(n, nx, G)
  BY <1>1, <1>2 DEF IsList, ClosedIn
<1>4. n # Null => \A b \in G : nx[b] # n
  BY <1>1 DEF IsList
<1>5. ASSUME NEW S \in SUBSET G, ClosedIn(n, nx, S)
      PROVE  G \subseteq S
  <2>1. ClosedIn(h, nx, S \cup {h})
    BY <1>5 DEF ClosedIn
  <2>2. S \cup {h} \in SUBSET F
    BY <1>1
  <2>3. F \subseteq S \cup {h}
    BY <2>1, <2>2 DEF IsList
  <2>. QED
    BY <2>3
<1>6. \A S \in SUBSET G : S # {} => \E b \in S : nx[b] \notin S
  BY DEF IsList
<1>7. \A b, c \in G : nx[b] = nx[c] /\ nx[b] # Null => b = c
  BY DEF IsList
<1>. QED
  BY <1>3, <1>4, <1>5, <1>6, <1>7 DEF IsList

\* A run of blocks f .. l, each linked to the one after it and the last one to
\* the head, makes a list with the list it is put before.  A push is the case f = l.
LEMMA ListPush ==
    ASSUME NEW h, NEW nx, NEW F, IsList(h, nx, F),
           NEW f \in Nat \ {0}, NEW l \in Nat, f <= l,
           (f .. l) \cap F = {}, Null \notin F,
           \A x \in (f .. l) \ {l} : nx[x] = x + 1,
           nx[l] = h
    PROVE  IsList(f, nx, F \cup (f .. l))
<1> DEFINE C == f .. l
           G == F \cup C
<1>1. h \in F \cup {Null} /\ f \in C /\ l \in C /\ Null \notin G
  BY DEF IsList, ClosedIn, Null
<1>2. \A x \in C \ {l} : nx[x] \in C /\ nx[x] # f
  OBVIOUS
<1>3. ClosedIn(f, nx, G)
  BY <1>1, <1>2 DEF IsList, ClosedIn
<1>4. \A b \in G : nx[b] # f
  BY <1>1, <1>2 DEF IsList, ClosedIn
<1>5. \A b, c \in G : nx[b] = nx[c] /\ nx[b] # Null => b = c
  <2>1. \A b, c \in C : nx[b] = nx[c] /\ nx[b] # Null => b = c
    <3>1. \A b, c \in C \ {l} : nx[b] = nx[c] => b = c
      OBVIOUS
    <3>2. \A b \in C \ {l} : nx[b] # nx[l]
      BY <1>1, <1>2
    <3>. QED
      BY <3>1, <3>2
  <2>2. \A b \in C, c \in F : nx[b] # Null => nx[b] # nx[c]
    BY <1>1, <1>2 DEF IsList, ClosedIn
  <2>. QED
    BY <2>1, <2>2 DEF IsList
<1>6. ASSUME NEW S \in SUBSET G, ClosedIn(f, nx, S)
      PROVE  G \subseteq S
  <2>1. C \subseteq S
    <3> SUFFICES ASSUME C \ S # {} PROVE FALSE
      OBVIOUS
    <3>1. PICK x \in C \ S : \A y \in C \ S : x <= y
      <4>1. C \ S \in SUBSET Nat
        OBVIOUS
      <4>. QED
        BY <4>1, Least
    <3>2. x # f
      BY <1>6, <1>1 DEF ClosedIn, Null
    <3>3. x - 1 \in C \ {l} /\ x - 1 \in S
      BY <3>1, <3>2
    <3>4. nx[x - 1] = x
      BY <3>3
    <3>. QED
      BY <1>1, <1>6, <3>1, <3>3, <3>4 DEF ClosedIn
  <2>2. ClosedIn(h, nx, S \cap F)
    BY <1>1, <1>6, <2>1 DEF ClosedIn, IsList
  <2>3. F \subseteq S \cap F
    BY <2>2 DEF IsList
  <2>. QED
    BY <2>1, <2>3
<1>7. ASSUME NEW S \in SUBSET G, S # {}
      PROVE  \E b \in S : nx[b] \notin S
  <2>1. CASE S \cap F # {}
    <3>1. PICK b \in S \cap F : nx[b] \notin S \cap F
      BY <2>1 DEF IsList
    <3>2. nx[b] \in F \cup {Null}
      BY <3>1 DEF IsList, ClosedIn
    <3>. QED
      BY <1>1, <3>1, <3>2
  <2>2. CASE S \cap F = {}
    <3>1. S \in SUBSET (0 .. l)
      BY <2>2
    <3>2. PICK x \in S : \A y \in S : y <= x
      BY <1>7, <3>1, Greatest
    <3>3. x \in C
      BY <2>2, <3>2
    <3>4. CASE x = l
      BY <1>1, <2>2, <3>2, <3>4
    <3>5. CASE x # l
      <4>1. nx[x] = x + 1
        BY <3>3, <3>5
      <4>2. x + 1 \notin S
        BY <3>2, <3>3
      <4>. QED
        BY <4>1, <4>2
    <3>. QED
      BY <3>4, <3>5
  <2>. QED
    BY <2>1, <2>2
<1>. QED
  BY <1>3, <1>4, <1>5, <1>6, <1>7 DEF IsList

-----------------------------------------------------------------------------
(* The inductive invariant *)

\* The blocks that nobody has.
Free == (1 .. brk) \ (inUse \cup UNION {InTransit(t) : t \in Threads})

At(labels) == {t \in Threads : pc[t] \in labels}

\* Where popingthreads counts a thread, and where it holds the mutex.
Loop == {"a_load", "a_next", "a_cas", "a_exit"}
Locked == {"a_retest", "i_malloc", "i_load", "i_cas", "a_unlock"}

\* The blocks taken off the list whose allocate() has not returned.
Popped == {res[t] : t \in At({"a_exit", "a_wait"})} \ {Null}

\* A block is in one place at a time, and one that was not malloc'ed in none.
Places ==
    /\ inUse \subseteq 1 .. brk
    /\ \A t \in Threads : InTransit(t) \subseteq (1 .. brk) \ inUse
    /\ \A t, u \in Threads : t # u => InTransit(t) \cap InTransit(u) = {}

\* The blocks that are being put on the list, and the links within a new chunk.
Chunks ==
    \A t \in Threads :
        /\ pc[t] \in {"i_load", "i_cas", "d_load", "d_cas"} => res[t] \in Blocks
        /\ pc[t] \in {"i_load", "i_cas"} =>
              /\ LastOf(res[t]) <= brk
              /\ \A x \in Chunk(res[t]) \ {LastOf(res[t])} : next[x] = x + 1

ListSound == IsList(freeChunk, next, Free)

\* What a thread in the loop of allocate() has read is on the list or taken off
\* it by a thread that is still waiting, and its link has not changed since.
Snapshots ==
    /\ \A b \in Popped : next[b] \in Blocks \cup {Null}
    /\ \A t \in At({"a_next", "a_cas"}) :
          /\ res[t] \in Free \cup Popped
          /\ pc[t] = "a_cas" => nxt[t] = next[res[t]]

Counted == popingthreads = Cardinality(At(Loop))

MutexHeld == \A t \in Threads : pc[t] \in Locked <=> mu = t

Growth ==
    /\ Demand <= MaxDemand
    /\ BoundedGrowth
    /\ \A t \in At({"i_malloc"}) : brk < MaxDemand

Core == TypeOK /\ Places /\ Chunks /\ ListSound /\ Snapshots /\ Counted
IInv == Core /\ MutexHeld /\ Growth

-----------------------------------------------------------------------------
(* What the operators become when one thread moves *)

\* A step is one thread's: its program counter and its pointer change, no other's.
Moves(t, to, r) == pc' = [pc EXCEPT ![t] = to] /\ res' = [res EXCEPT ![t] = r]

\* Every step is a move of one thread.
LEMMA StepMoves ==
    ASSUME TypeOK, NEW t \in Threads, Call(t) \/ Step(t)
    PROVE  \E to \in Labels : \E r : Moves(t, to, r)
<1>1. res = [res EXCEPT ![t] = res[t]]
  BY DEF TypeOK
<1>2. \A to, from : Goto(t, from, to) => pc' = [pc EXCEPT ![t] = to]
  BY DEF Goto
<1>3. CASE \E b \in inUse : DeallocCall(t, b)
  BY <1>2, <1>3 DEF DeallocCall, SetRes, TypeOK, Moves, Labels
<1>4. CASE \/ AllocCall(t) \/ AllocTest(t) \/ AllocLock(t) \/ AllocRetest(t)
           \/ AllocUnlock(t) \/ InitLoad(t) \/ AllocEnter(t) \/ AllocNext(t)
           \/ AllocExit(t) \/ DeallocLoad(t)
  BY <1>1, <1>2, <1>4 DEF AllocCall, AllocTest, AllocLock, AllocRetest, AllocUnlock,
     InitLoad, AllocEnter, AllocNext, AllocExit, DeallocLoad, Moves, Labels
<1>5. CASE InitMalloc(t) \/ AllocLoad(t) \/ AllocReturn(t)
  BY <1>1, <1>2, <1>5 DEF InitMalloc, AllocLoad, AllocReturn, SetRes, Moves, Labels
<1>6. CASE InitCas(t) \/ DeallocCas(t) \/ AllocCas(t)
  BY <1>1, <1>2, <1>6 DEF InitCas, DeallocCas, AllocCas, SetRes, Moves, Labels
<1>. QED
  BY <1>3, <1>4, <1>5, <1>6 DEF Call, Step

\* The blocks in transit with the threads other than t.
Others(t) == UNION {InTransit(u) : u \in Threads \ {t}}

\* The others' blocks stay where they are, and what is free afterwards is what
\* is left of the blocks by them, the callers and thread t.
LEMMA OthersStay ==
    ASSUME TypeOK, NEW t \in Threads, NEW to, NEW r, Moves(t, to, r)
    PROVE  /\ \A u \in Threads \ {t} :
                  /\ pc'[u] = pc[u] /\ res'[u] = res[u]
                  /\ InTransit(u)' = InTransit(u)
           /\ pc'[t] = to /\ res'[t] = r
           /\ Free = (1 .. brk) \ (inUse \cup InTransit(t) \cup Others(t))
           /\ Free' = (1 .. brk') \ (inUse' \cup InTransit(t)' \cup Others(t))
<1>1. /\ \A u \in Threads \ {t} : pc'[u] = pc[u] /\ res'[u] = res[u]
      /\ pc'[t] = to /\ res'[t] = r
  BY DEF TypeOK, Moves
<1>2. \A u \in Threads \ {t} : InTransit(u)' = InTransit(u)
  BY <1>1 DEF InTransit
<1>3. UNION {InTransit(u) : u \in Threads} = InTransit(t) \cup Others(t)
  BY DEF Others
<1>4. UNION {InTransit(u)' : u \in Threads} = InTransit(t)' \cup Others(t)
  BY <1>2 DEF Others
<1>5. Free' = (1 .. brk') \ (inUse' \cup UNION {InTransit(u)' : u \in Threads})
  BY DEF Free
<1>. QED
  BY <1>1, <1>2, <1>3, <1>4, <1>5 DEF Free

\* The places stay apart if what thread t has now is apart from the others'.
LEMMA PlacesStay ==
    ASSUME TypeOK, Places, NEW t \in Threads, NEW to, NEW r, Moves(t, to, r),
           inUse' \subseteq 1 .. brk',
           InTransit(t)' \subseteq (1 .. brk') \ inUse',
           InTransit(t)' \cap Others(t) = {},
           Others(t) \subseteq (1 .. brk') \ inUse'
    PROVE  Places'
<1>1. \A u \in Threads \ {t} : InTransit(u)' = InTransit(u) /\ InTransit(u) \subseteq Others(t)
  BY OthersStay DEF Others
<1>2. \A u \in Threads : InTransit(u)' \subseteq (1 .. brk') \ inUse'
  BY <1>1
<1>3. \A u, v \in Threads : u # v => InTransit(u)' \cap InTransit(v)' = {}
  BY <1>1 DEF Places
<1>. QED
  BY <1>2, <1>3 DEF Places

\* What thread t has is apart from what the others have.
LEMMA Apart ==
    ASSUME Places, NEW t \in Threads
    PROVE  /\ InTransit(t) \cap Others(t) = {}
           /\ Others(t) \subseteq (1 .. brk) \ inUse
           /\ InTransit(t) \subseteq (1 .. brk) \ inUse
BY DEF Places, Others

-----------------------------------------------------------------------------
(* What a step does to the places of the blocks *)

Stays(t) ==
    /\ InTransit(t)' = InTransit(t)
    /\ UNCHANGED <<inUse, brk, freeChunk>>

\* init() gets a chunk
Mallocs(t) ==
    /\ InTransit(t) = {} /\ InTransit(t)' = Chunk(brk + 1)
    /\ brk' = brk + ChunkSize
    /\ UNCHANGED <<inUse, freeChunk>>

\* the blocks f .. l are linked before the head
Links(t, f, l) ==
    /\ InTransit(t) = f .. l /\ InTransit(t)' = {}
    /\ f <= l /\ next[l] = freeChunk
    /\ \A x \in (f .. l) \ {l} : next[x] = x + 1
    /\ freeChunk' = f
    /\ UNCHANGED <<inUse, brk, next>>

\* the head is taken off the list
Pops(t) ==
    /\ pc[t] = "a_cas" /\ pc'[t] = "a_exit" /\ res'[t] = res[t]
    /\ freeChunk = res[t] /\ freeChunk' = nxt[t]
    /\ InTransit(t) = {} /\ InTransit(t)' = {res[t]}
    /\ UNCHANGED <<inUse, brk, next>>

\* a block is handed out
Returns(t) ==
    /\ pc[t] = "a_wait" /\ popingthreads = 0
    /\ InTransit(t) = {res[t]} /\ InTransit(t)' = {}
    /\ inUse' = inUse \cup {res[t]}
    /\ UNCHANGED <<brk, freeChunk>>

\* a block is given back
TakesBack(t, b) ==
    /\ b \in inUse /\ inUse' = inUse \ {b}
    /\ InTransit(t) = {} /\ InTransit(t)' = {b}
    /\ UNCHANGED <<brk, freeChunk, next>>

\* At these labels a thread has no block, at those it has one.
LEMMA TransitAt ==
    ASSUME TypeOK, NEW t \in Threads
    PROVE  /\ pc[t] \in {"i_load", "i_cas"} => InTransit(t) = Chunk(res[t]) \cap Blocks
           /\ pc[t] \in {"a_exit", "a_wait", "d_load", "d_cas"} => InTransit(t) = {res[t]} \cap Blocks
           /\ pc[t] \notin {"i_load", "i_cas", "a_exit", "a_wait", "d_load", "d_cas"} =>
                  InTransit(t) = {}
           /\ pc'[t] \in {"i_load", "i_cas"} => InTransit(t)' = Chunk(res'[t]) \cap Blocks
           /\ pc'[t] \in {"a_exit", "a_wait", "d_load", "d_cas"} =>
                  InTransit(t)' = {res'[t]} \cap Blocks
           /\ pc'[t] \notin {"i_load", "i_cas", "a_exit", "a_wait", "d_load", "d_cas"} =>
                  InTransit(t)' = {}
BY DEF InTransit, TypeOK, Chunk

\* A chunk that fits below NumBlocks consists of blocks, its last one is the last.
LEMMA ChunkFits ==
    ASSUME NEW b \in Blocks, LastOf(b) <= NumBlocks
    PROVE  /\ Chunk(b) = b .. LastOf(b) /\ Chunk(b) \subseteq Blocks
           /\ b <= LastOf(b) /\ LastOf(b) \in Chunk(b)
           /\ b \in Nat \ {0} /\ LastOf(b) \in Nat
BY SizesAssumption DEF Chunk, LastOf, Blocks

\* Every step is of one of these kinds.
LEMMA Effect ==
    ASSUME Core, NEW t \in Threads, Call(t) \/ Step(t)
    PROVE  \/ Stays(t) \/ Mallocs(t) \/ Pops(t) \/ Returns(t)
           \/ \E f \in Blocks, l \in Blocks : Links(t, f, l)
           \/ \E b \in inUse : TakesBack(t, b)
<1>0. TypeOK /\ Places /\ Chunks
  BY DEF Core
<1>1. PICK to \in Labels : \E r : Moves(t, to, r)
  BY <1>0, StepMoves
<1>2. PICK r : Moves(t, to, r)
  BY <1>1
<1>3. pc'[t] = to /\ res'[t] = r
  BY <1>0, <1>2 DEF TypeOK, Moves
<1>4. \A x, y : Goto(t, x, y) => pc[t] = x /\ pc'[t] = y
  BY <1>0 DEF Goto, TypeOK
<1>5. \A b : SetRes(t, b) => res'[t] = b
  BY <1>0 DEF SetRes, TypeOK
<1>6. res[t] \in Blocks \cup {Null} /\ freeChunk \in Blocks \cup {Null} /\ Null \notin Blocks
  BY <1>0 DEF TypeOK, Blocks, Null
<1>7. CASE \/ AllocCall(t) \/ AllocTest(t) \/ AllocLock(t) \/ AllocRetest(t)
           \/ AllocUnlock(t) \/ AllocEnter(t) \/ AllocNext(t)
  <2>1. /\ pc[t] \notin {"i_load", "i_cas", "a_exit", "a_wait", "d_load", "d_cas"}
        /\ pc'[t] \notin {"i_load", "i_cas", "a_exit", "a_wait", "d_load", "d_cas"}
        /\ UNCHANGED <<inUse, brk, freeChunk>>
    BY <1>4, <1>7 DEF AllocCall, AllocTest, AllocLock, AllocRetest, AllocUnlock, AllocEnter, AllocNext
  <2>2. InTransit(t) = {} /\ InTransit(t)' = {}
    BY <1>0, <2>1, TransitAt
  <2>. QED
    BY <2>1, <2>2 DEF Stays
<1>8. CASE InitLoad(t) \/ AllocExit(t) \/ DeallocLoad(t)
  <2>1. /\ UNCHANGED <<inUse, brk, freeChunk, res>>
        /\ \/ pc[t] = "i_load" /\ pc'[t] = "i_cas"
           \/ pc[t] = "a_exit" /\ pc'[t] = "a_wait"
           \/ pc[t] = "d_load" /\ pc'[t] = "d_cas"
    BY <1>4, <1>8 DEF InitLoad, AllocExit, DeallocLoad
  <2>2. InTransit(t)' = InTransit(t)
    BY <1>0, <2>1, TransitAt
  <2>. QED
    BY <2>1, <2>2 DEF Stays
<1>9. CASE AllocLoad(t)
  <2>1. /\ UNCHANGED <<inUse, brk, freeChunk>> /\ pc[t] = "a_load"
        /\ \/ pc'[t] = "a_exit" /\ res'[t] = Null
           \/ pc'[t] = "a_next"
    BY <1>4, <1>5, <1>9 DEF AllocLoad
  <2>2. InTransit(t) = {} /\ InTransit(t)' = {}
    BY <1>0, <1>6, <2>1, TransitAt
  <2>. QED
    BY <2>1, <2>2 DEF Stays
<1>10. CASE AllocCas(t)
  <2>1. CASE freeChunk = res[t] /\ res[t] # Null
    <3>1. /\ pc[t] = "a_cas" /\ pc'[t] = "a_exit" /\ freeChunk' = nxt[t]
          /\ UNCHANGED <<res, inUse, brk, next>>
      BY <1>4, <1>10, <2>1 DEF AllocCas
    <3>2. InTransit(t) = {} /\ InTransit(t)' = {res[t]}
      BY <1>0, <1>6, <2>1, <3>1, TransitAt
    <3>. QED
      BY <2>1, <3>1, <3>2 DEF Pops
  <2>2. CASE freeChunk = res[t] /\ res[t] = Null
    <3>1. pc[t] = "a_cas"
      BY <1>4, <1>10, <2>2 DEF AllocCas
    <3>2. res[t] \in Free \cup Popped
      BY <3>1 DEF Core, Snapshots, At
    <3>3. Free \subseteq 1 .. brk
      BY DEF Free
    <3>4. Null \notin Free \cup Popped
      BY <3>3 DEF Popped, Null
    <3>. QED
      BY <2>2, <3>2, <3>4
  <2>3. CASE freeChunk # res[t]
    <3>1. /\ UNCHANGED <<inUse, brk, freeChunk>> /\ pc[t] = "a_cas"
          /\ \/ pc'[t] = "a_exit" /\ res'[t] = Null
             \/ pc'[t] = "a_next"
      BY <1>4, <1>5, <1>10, <2>3 DEF AllocCas
    <3>2. InTransit(t) = {} /\ InTransit(t)' = {}
      BY <1>0, <1>6, <3>1, TransitAt
    <3>. QED
      BY <3>1, <3>2 DEF Stays
  <2>. QED
    BY <2>1, <2>2, <2>3
<1>11. CASE AllocReturn(t)
  <2>1. CASE res[t] = Null
    <3>1. /\ UNCHANGED <<inUse, brk, freeChunk>>
          /\ pc[t] = "a_wait" /\ pc'[t] = "a_test"
      BY <1>4, <1>11, <2>1 DEF AllocReturn
    <3>2. InTransit(t) = {} /\ InTransit(t)' = {}
      BY <1>0, <1>6, <2>1, <3>1, TransitAt
    <3>. QED
      BY <3>1, <3>2 DEF Stays
  <2>2. CASE res[t] # Null
    <3>1. /\ pc[t] = "a_wait" /\ pc'[t] = "idle" /\ popingthreads = 0
          /\ inUse' = inUse \cup {res[t]}
          /\ UNCHANGED <<brk, freeChunk>>
      BY <1>4, <1>11, <2>2 DEF AllocReturn
    <3>2. InTransit(t) = {res[t]} /\ InTransit(t)' = {}
      BY <1>0, <1>6, <2>2, <3>1, TransitAt
    <3>. QED
      BY <3>1, <3>2 DEF Returns
  <2>. QED
    BY <2>1, <2>2
<1>12. CASE InitMalloc(t)
  <2>1. /\ pc[t] = "i_malloc" /\ pc'[t] = "i_load" /\ res'[t] = brk + 1
        /\ brk + ChunkSize <= NumBlocks /\ brk' = brk + ChunkSize
        /\ UNCHANGED <<inUse, freeChunk>>
    BY <1>4, <1>5, <1>12 DEF InitMalloc
  <2>2. Chunk(brk + 1) \subseteq Blocks
    BY <1>0, <2>1, SizesAssumption DEF TypeOK, Chunk, Blocks
  <2>3. InTransit(t) = {} /\ InTransit(t)' = Chunk(brk + 1)
    BY <1>0, <2>1, <2>2, TransitAt
  <2>. QED
    BY <2>1, <2>3 DEF Mallocs
<1>13. CASE InitCas(t)
  <2>1. pc[t] = "i_cas" /\ res[t] \in Blocks /\ LastOf(res[t]) <= brk
    BY <1>0, <1>13 DEF InitCas, Chunks
  <2>2. /\ Chunk(res[t]) = res[t] .. LastOf(res[t]) /\ Chunk(res[t]) \subseteq Blocks
        /\ res[t] <= LastOf(res[t]) /\ LastOf(res[t]) \in Blocks
    <3>1. LastOf(res[t]) <= NumBlocks
      BY <1>0, <2>1, SizesAssumption DEF TypeOK, LastOf, Blocks
    <3>. QED
      BY <2>1, <3>1, ChunkFits
  <2>3. InTransit(t) = res[t] .. LastOf(res[t])
    BY <1>0, <2>1, <2>2, TransitAt
  <2>4. CASE next[LastOf(res[t])] = freeChunk
    <3>1. /\ freeChunk' = res[t] /\ pc'[t] = "a_unlock"
          /\ UNCHANGED <<inUse, brk, next>>
      BY <1>4, <1>13, <2>4 DEF InitCas, CasPush
    <3>2. InTransit(t)' = {}
      BY <1>0, <3>1, TransitAt
    <3>3. \A x \in Chunk(res[t]) \ {LastOf(res[t])} : next[x] = x + 1
      BY <1>0, <2>1 DEF Chunks
    <3>4. Links(t, res[t], LastOf(res[t]))
      BY <2>2, <2>3, <2>4, <3>1, <3>2, <3>3 DEF Links
    <3>. QED
      BY <2>1, <2>2, <3>4
  <2>5. CASE next[LastOf(res[t])] # freeChunk
    <3>1. /\ pc'[t] = "i_cas" /\ UNCHANGED <<inUse, brk, freeChunk, res>>
      BY <1>4, <1>13, <2>5 DEF InitCas, CasPush
    <3>2. InTransit(t)' = InTransit(t)
      BY <1>0, <2>1, <3>1, TransitAt
    <3>. QED
      BY <3>1, <3>2 DEF Stays
  <2>. QED
    BY <2>4, <2>5
<1>14. CASE DeallocCas(t)
  <2>1. pc[t] = "d_cas" /\ res[t] \in Blocks
    BY <1>0, <1>14 DEF DeallocCas, Chunks
  <2>2. InTransit(t) = {res[t]} /\ res[t] \in Nat /\ {res[t]} = res[t] .. res[t]
    <3>1. res[t] \in Nat
      BY <2>1 DEF Blocks
    <3>2. res[t] .. res[t] = {res[t]}
      BY <3>1
    <3>. QED
      BY <1>0, <2>1, <3>1, <3>2, TransitAt
  <2>3. CASE next[res[t]] = freeChunk
    <3>1. /\ freeChunk' = res[t] /\ pc'[t] = "idle"
          /\ UNCHANGED <<inUse, brk, next>>
      BY <1>4, <1>14, <2>3 DEF DeallocCas, CasPush
    <3>2. InTransit(t)' = {}
      BY <1>0, <3>1, TransitAt
    <3>3. Links(t, res[t], res[t])
      BY <2>2, <2>3, <3>1, <3>2 DEF Links
    <3>. QED
      BY <2>1, <3>3
  <2>4. CASE next[res[t]] # freeChunk
    <3>1. /\ pc'[t] = "d_cas" /\ UNCHANGED <<inUse, brk, freeChunk, res>>
      BY <1>4, <1>14, <2>4 DEF DeallocCas, CasPush
    <3>2. InTransit(t)' = InTransit(t)
      BY <1>0, <2>1, <3>1, TransitAt
    <3>. QED
      BY <3>1, <3>2 DEF Stays
  <2>. QED
    BY <2>3, <2>4
<1>15. CASE \E b \in inUse : DeallocCall(t, b)
  <2>1. PICK b \in inUse : DeallocCall(t, b)
    BY <1>15
  <2>2. /\ pc[t] = "idle" /\ pc'[t] = "d_load" /\ res'[t] = b
        /\ inUse' = inUse \ {b}
        /\ UNCHANGED <<brk, freeChunk, next>>
    BY <1>4, <1>5, <2>1 DEF DeallocCall
  <2>3. InTransit(t) = {} /\ InTransit(t)' = {b}
    BY <1>0, <2>1, <2>2, TransitAt DEF TypeOK
  <2>. QED
    BY <2>1, <2>2, <2>3 DEF TakesBack
<1>. QED
  BY <1>7, <1>8, <1>9, <1>10, <1>11, <1>12, <1>13, <1>14, <1>15 DEF Call, Step

-----------------------------------------------------------------------------
(* A step keeps the core of the invariant *)

\* A thread writes to links of its own blocks only.
LEMMA WritesOwn ==
    ASSUME Core, NEW t \in Threads, Call(t) \/ Step(t), NEW b \in 1 .. brk, b \notin InTransit(t)
    PROVE  next'[b] = next[b]
<1>0. TypeOK /\ Chunks /\ b \in Blocks
  <2>1. brk \in 0 .. NumBlocks /\ TypeOK /\ Chunks
    BY DEF Core, TypeOK
  <2>. QED
    BY <2>1, SizesAssumption DEF Blocks
<1>1. \A c, x : c # b => [next EXCEPT ![c] = x][b] = next[b]
  BY <1>0 DEF TypeOK
<1>2. CASE UNCHANGED next
  BY <1>2
<1>3. CASE InitMalloc(t)
  <2>1. b \notin Chunk(brk + 1)
    BY <1>0 DEF Chunk, TypeOK
  <2>. QED
    BY <1>0, <1>3, <2>1 DEF InitMalloc, Linked
<1>4. CASE InitLoad(t) \/ InitCas(t)
  <2>1. pc[t] \in {"i_load", "i_cas"} /\ res[t] \in Blocks /\ LastOf(res[t]) <= brk
    BY <1>0, <1>4 DEF InitLoad, InitCas, Goto, Chunks
  <2>2. LastOf(res[t]) \in Chunk(res[t]) \cap Blocks
    <3>1. LastOf(res[t]) <= NumBlocks
      BY <1>0, <2>1, SizesAssumption DEF TypeOK, LastOf, Blocks
    <3>. QED
      BY <2>1, <3>1, ChunkFits
  <2>3. b # LastOf(res[t])
    BY <1>0, <2>1, <2>2, TransitAt
  <2>. QED
    BY <1>1, <1>4, <2>3 DEF InitLoad, InitCas, CasPush
<1>5. CASE DeallocLoad(t) \/ DeallocCas(t) \/ (AllocReturn(t) /\ res[t] # Null)
  <2>1. pc[t] \in {"a_wait", "d_load", "d_cas"} /\ res[t] \in Blocks
    BY <1>0, <1>5 DEF DeallocLoad, DeallocCas, AllocReturn, Goto, Chunks, TypeOK
  <2>2. b # res[t]
    BY <1>0, <2>1, TransitAt
  <2>. QED
    BY <1>1, <1>5, <2>2 DEF DeallocLoad, DeallocCas, CasPush, AllocReturn
<1>6. CASE AllocReturn(t) /\ res[t] = Null
  BY <1>6 DEF AllocReturn
<1>7. CASE \E c \in inUse : DeallocCall(t, c)
  BY <1>7 DEF DeallocCall
<1>. QED
  BY <1>2, <1>3, <1>4, <1>5, <1>6, <1>7 DEF Call, Step, AllocCall, AllocTest, AllocLock,
     AllocRetest, AllocUnlock, AllocEnter, AllocLoad, AllocNext, AllocCas, AllocExit

\* Free blocks were malloc'ed, and they are not null.
LEMMA FreeAreBlocks ==
    ASSUME TypeOK
    PROVE  Free \subseteq 1 .. brk /\ Null \notin Free /\ Free \subseteq Blocks
BY SizesAssumption DEF Free, Null, TypeOK, Blocks

\* Places: what a block leaves and what it gets to.
LEMMA StepPlaces ==
    ASSUME Core, NEW t \in Threads, Call(t) \/ Step(t)
    PROVE  /\ Places'
           /\ Stays(t) \/ Mallocs(t) \/ Returns(t) \/ (\E b \in inUse : TakesBack(t, b)) =>
                  Free' = Free
           /\ Pops(t) => Free' = Free \ {res[t]}
           /\ \A f, l \in Blocks : Links(t, f, l) =>
                  /\ Free' = Free \cup (f .. l)
                  /\ (f .. l) \cap Free = {}
<1>0. TypeOK /\ Places
  BY DEF Core
<1>1. PICK to \in Labels : \E r : Moves(t, to, r)
  BY <1>0, StepMoves
<1>2. PICK r : Moves(t, to, r)
  BY <1>1
<1>3. /\ Free = (1 .. brk) \ (inUse \cup InTransit(t) \cup Others(t))
      /\ Free' = (1 .. brk') \ (inUse' \cup InTransit(t)' \cup Others(t))
  BY <1>0, <1>2, OthersStay
<1>4. /\ InTransit(t) \cap Others(t) = {}
      /\ Others(t) \subseteq (1 .. brk) \ inUse
      /\ InTransit(t) \subseteq (1 .. brk) \ inUse
      /\ inUse \subseteq 1 .. brk
  BY <1>0, Apart DEF Places
<1>5. SUFFICES /\ inUse' \subseteq 1 .. brk'
               /\ InTransit(t)' \subseteq (1 .. brk') \ inUse'
               /\ InTransit(t)' \cap Others(t) = {}
               /\ Others(t) \subseteq (1 .. brk') \ inUse'
               /\ Stays(t) \/ Mallocs(t) \/ Returns(t) \/ (\E b \in inUse : TakesBack(t, b)) =>
                      Free' = Free
               /\ Pops(t) => Free' = Free \ {res[t]}
               /\ \A f, l \in Blocks : Links(t, f, l) =>
                      /\ Free' = Free \cup (f .. l)
                      /\ (f .. l) \cap Free = {}
  BY <1>0, <1>2, PlacesStay
<1>6. Stays(t) => Free' = Free
  BY <1>3 DEF Stays
<1>7. ASSUME Mallocs(t)
      PROVE  /\ (1 .. brk) \cap Chunk(brk + 1) = {}
             /\ 1 .. brk' = (1 .. brk) \cup Chunk(brk + 1)
             /\ Free' = Free
  <2>1. brk \in Nat /\ brk' = brk + ChunkSize /\ InTransit(t)' = Chunk(brk + 1)
        /\ inUse' = inUse /\ InTransit(t) = {}
    BY <1>0, <1>7 DEF Mallocs, TypeOK
  <2>2. (1 .. brk) \cap Chunk(brk + 1) = {} /\ 1 .. brk' = (1 .. brk) \cup Chunk(brk + 1)
    BY <2>1, SizesAssumption DEF Chunk
  <2>3. Free' = (1 .. brk) \ (inUse \cup Others(t))
    BY <1>3, <2>1, <2>2
  <2>. QED
    BY <1>3, <2>1, <2>2, <2>3
<1>8. Returns(t) => Free' = Free
  BY <1>3 DEF Returns
<1>9. \A b \in inUse : TakesBack(t, b) => Free' = Free
  BY <1>3, <1>4 DEF TakesBack
<1>10. Pops(t) => Free' = Free \ {res[t]}
  BY <1>3 DEF Pops
<1>11. \A f, l \in Blocks : Links(t, f, l) => Free' = Free \cup (f .. l) /\ (f .. l) \cap Free = {}
  BY <1>3, <1>4 DEF Links
<1>12. /\ inUse' \subseteq 1 .. brk'
       /\ InTransit(t)' \subseteq (1 .. brk') \ inUse'
       /\ InTransit(t)' \cap Others(t) = {}
       /\ Others(t) \subseteq (1 .. brk') \ inUse'
  <2>1. CASE Stays(t)
    BY <1>4, <2>1 DEF Stays
  <2>2. CASE Mallocs(t)
    <3>1. inUse' = inUse /\ InTransit(t)' = Chunk(brk + 1)
      BY <2>2 DEF Mallocs
    <3>2. /\ (1 .. brk) \cap Chunk(brk + 1) = {}
          /\ 1 .. brk' = (1 .. brk) \cup Chunk(brk + 1)
      BY <1>7, <2>2
    <3>. QED
      BY <1>4, <3>1, <3>2
  <2>3. CASE Returns(t)
    BY <1>4, <2>3 DEF Returns
  <2>4. CASE \E b \in inUse : TakesBack(t, b)
    BY <1>4, <2>4 DEF TakesBack
  <2>5. CASE Pops(t)
    <3>1. res[t] \in Free
      BY <1>0, <2>5, FreeAreBlocks DEF Pops, Core, ListSound, IsList, ClosedIn, Snapshots, At, Popped
    <3>. QED
      BY <1>3, <1>4, <2>5, <3>1 DEF Pops
  <2>6. CASE \E f, l \in Blocks : Links(t, f, l)
    BY <1>4, <2>6 DEF Links
  <2>. QED
    BY <2>1, <2>2, <2>3, <2>4, <2>5, <2>6, Effect
<1>. QED
  BY <1>6, <1>7, <1>8, <1>9, <1>10, <1>11, <1>12

\* The list: frames, pops and pushes.
LEMMA StepList ==
    ASSUME Core, NEW t \in Threads, Call(t) \/ Step(t)
    PROVE  ListSound'
<1>0. TypeOK /\ ListSound /\ Snapshots
  BY DEF Core
<1>1. Null \notin Free /\ Free \subseteq 1 .. brk
  BY <1>0, FreeAreBlocks
<1>2. Free \cap InTransit(t) = {}
  BY DEF Free
<1>3. \A b \in Free : next'[b] = next[b]
  BY <1>1, <1>2, WritesOwn
<1>4. CASE Stays(t) \/ Mallocs(t) \/ Returns(t) \/ \E b \in inUse : TakesBack(t, b)
  <2>1. Free' = Free /\ freeChunk' = freeChunk
    BY <1>4, StepPlaces DEF Stays, Mallocs, Returns, TakesBack
  <2>2. IsList(freeChunk, next', Free)
    BY <1>0, <1>3, ListFrame DEF ListSound
  <2>. QED
    BY <2>1, <2>2 DEF ListSound
<1>5. CASE Pops(t)
  <2>1. Free' = Free \ {res[t]} /\ pc[t] = "a_cas" /\ freeChunk = res[t] /\ freeChunk' = nxt[t]
        /\ next' = next
    BY <1>5, StepPlaces DEF Pops
  <2>2. res[t] \in Free \cup Popped /\ nxt[t] = next[res[t]]
    BY <1>0, <2>1 DEF Snapshots, At
  <2>3. freeChunk # Null
    BY <1>1, <2>1, <2>2 DEF Popped
  <2>4. IsList(next[freeChunk], next, Free \ {freeChunk})
    BY <1>0, <1>1, <2>3, ListPop DEF ListSound
  <2>. QED
    BY <2>1, <2>2, <2>4 DEF ListSound
<1>6. CASE \E f, l \in Blocks : Links(t, f, l)
  <2>1. PICK f \in Blocks, l \in Blocks : Links(t, f, l)
    BY <1>6
  <2>2. /\ f <= l /\ next[l] = freeChunk /\ \A x \in (f .. l) \ {l} : next[x] = x + 1
        /\ freeChunk' = f /\ next' = next
    BY <2>1 DEF Links
  <2>3. Free' = Free \cup (f .. l) /\ (f .. l) \cap Free = {}
    BY <2>1, StepPlaces
  <2>4. f \in Nat \ {0} /\ l \in Nat
    BY DEF Blocks
  <2>5. IsList(f, next, Free \cup (f .. l))
    BY <1>0, <1>1, <2>2, <2>3, <2>4, ListPush DEF ListSound
  <2>. QED
    BY <2>2, <2>3, <2>5 DEF ListSound
<1>. QED
  BY <1>4, <1>5, <1>6, Effect

\* The links within a new chunk are its thread's alone.
LEMMA StepChunks ==
    ASSUME Core, NEW t \in Threads, Call(t) \/ Step(t)
    PROVE  Chunks'
<1>0. TypeOK /\ Chunks /\ Places
  BY DEF Core
<1>1. PICK to \in Labels : \E r : Moves(t, to, r)
  BY <1>0, StepMoves
<1>2. PICK r : Moves(t, to, r)
  BY <1>1
<1>3. \A u \in Threads \ {t} : pc'[u] = pc[u] /\ res'[u] = res[u]
  BY <1>0, <1>2, OthersStay
<1>4. brk \in Nat /\ brk' \in Nat /\ brk <= brk'
  BY <1>0, SizesAssumption, Effect DEF TypeOK, Stays, Mallocs, Pops, Returns, Links, TakesBack
<1>5. ASSUME NEW u \in Threads \ {t}
      PROVE  /\ pc'[u] \in {"i_load", "i_cas", "d_load", "d_cas"} => res'[u] \in Blocks
             /\ pc'[u] \in {"i_load", "i_cas"} =>
                   /\ LastOf(res'[u]) <= brk'
                   /\ \A x \in Chunk(res'[u]) \ {LastOf(res'[u])} : next'[x] = x + 1
  <2>1. pc'[u] \in {"i_load", "i_cas", "d_load", "d_cas"} => res'[u] \in Blocks
    BY <1>0, <1>3 DEF Chunks
  <2>2. ASSUME pc'[u] \in {"i_load", "i_cas"}
        PROVE  /\ LastOf(res'[u]) <= brk'
               /\ \A x \in Chunk(res'[u]) \ {LastOf(res'[u])} : next'[x] = x + 1
    <3>1. /\ pc[u] \in {"i_load", "i_cas"} /\ res'[u] = res[u] /\ res[u] \in Blocks
          /\ LastOf(res[u]) <= brk
          /\ \A x \in Chunk(res[u]) \ {LastOf(res[u])} : next[x] = x + 1
      BY <1>0, <1>3, <2>2 DEF Chunks
    <3>2. LastOf(res[u]) \in Int /\ LastOf(res[u]) <= NumBlocks
      BY <1>0, <3>1, SizesAssumption DEF LastOf, TypeOK, Blocks
    <3>3. Chunk(res[u]) \subseteq Blocks /\ Chunk(res[u]) = res[u] .. LastOf(res[u])
      BY <3>1, <3>2, ChunkFits
    <3>4. InTransit(u) = Chunk(res[u])
      BY <1>0, <3>1, <3>3, TransitAt
    <3>5. \A x \in Chunk(res[u]) : x \in 1 .. brk /\ x \notin InTransit(t)
      BY <1>0, <3>4 DEF Places
    <3>6. \A x \in Chunk(res[u]) : next'[x] = next[x]
      BY <3>5, WritesOwn
    <3>. QED
      BY <1>4, <3>1, <3>2, <3>6
  <2>. QED
    BY <2>1, <2>2
<1>6. /\ pc'[t] \in {"i_load", "i_cas", "d_load", "d_cas"} => res'[t] \in Blocks
      /\ pc'[t] \in {"i_load", "i_cas"} =>
            /\ LastOf(res'[t]) <= brk'
            /\ \A x \in Chunk(res'[t]) \ {LastOf(res'[t])} : next'[x] = x + 1
  <2>1. \A x, y : Goto(t, x, y) => pc[t] = x /\ pc'[t] = y
    BY <1>0 DEF Goto, TypeOK
  <2>2. CASE InitMalloc(t)
    <3>1. /\ pc'[t] = "i_load" /\ res'[t] = brk + 1 /\ brk' = brk + ChunkSize
          /\ brk + ChunkSize <= NumBlocks /\ next' = Linked(brk + 1)
      BY <1>0, <2>1, <2>2 DEF InitMalloc, SetRes, TypeOK
    <3>2. brk + 1 \in Blocks /\ LastOf(brk + 1) = brk' /\ Chunk(brk + 1) \subseteq Blocks
      BY <1>4, <3>1, SizesAssumption DEF LastOf, Chunk, Blocks
    <3>3. \A x \in Chunk(brk + 1) \ {LastOf(brk + 1)} : next'[x] = x + 1
      BY <3>1, <3>2 DEF Linked
    <3>. QED
      BY <1>4, <3>1, <3>2, <3>3
  <2>3. CASE InitLoad(t) \/ InitCas(t)
    <3>1. /\ pc[t] \in {"i_load", "i_cas"}
          /\ \A x : x # LastOf(res[t]) => next'[x] = next[x] \/ x \notin Blocks
          /\ pc'[t] \in {"i_load", "i_cas"} => res' = res
          /\ pc'[t] \notin {"d_load", "d_cas"}
          /\ brk' = brk
      BY <1>0, <2>1, <2>3 DEF InitLoad, InitCas, CasPush, TypeOK
    <3>2. /\ res[t] \in Blocks /\ LastOf(res[t]) <= brk
          /\ \A x \in Chunk(res[t]) \ {LastOf(res[t])} : next[x] = x + 1
      BY <1>0, <3>1 DEF Chunks
    <3>3. LastOf(res[t]) \in Int /\ LastOf(res[t]) <= NumBlocks
      BY <1>0, <3>2, SizesAssumption DEF LastOf, TypeOK, Blocks
    <3>4. Chunk(res[t]) \subseteq Blocks
      BY <3>2, <3>3, ChunkFits
    <3>. QED
      BY <3>1, <3>2, <3>4
  <2>4. CASE DeallocLoad(t) \/ DeallocCas(t)
    <3>1. /\ pc[t] \in {"d_load", "d_cas"}
          /\ pc'[t] \notin {"i_load", "i_cas"}
          /\ pc'[t] \in {"d_load", "d_cas"} => res' = res
      BY <1>0, <2>1, <2>4 DEF DeallocLoad, DeallocCas, TypeOK
    <3>. QED
      BY <1>0, <3>1 DEF Chunks
  <2>5. CASE \E b \in inUse : DeallocCall(t, b)
    BY <1>0, <2>1, <2>5 DEF DeallocCall, SetRes, TypeOK
  <2>6. CASE \/ AllocCall(t) \/ AllocTest(t) \/ AllocLock(t) \/ AllocRetest(t) \/ AllocUnlock(t)
             \/ AllocEnter(t) \/ AllocLoad(t) \/ AllocNext(t) \/ AllocCas(t) \/ AllocExit(t)
             \/ AllocReturn(t)
    <3>1. pc'[t] \notin {"i_load", "i_cas", "d_load", "d_cas"}
      BY <2>1, <2>6 DEF AllocCall, AllocTest, AllocLock, AllocRetest, AllocUnlock,
         AllocEnter, AllocLoad, AllocNext, AllocCas, AllocExit, AllocReturn
    <3>. QED
      BY <3>1
  <2>. QED
    BY <2>2, <2>3, <2>4, <2>5, <2>6 DEF Call, Step
<1>. QED
  BY <1>5, <1>6 DEF Chunks

\* A set of threads singled out by their program counters is finite.
LEMMA AtIsFinite ==
    ASSUME NEW S
    PROVE  /\ IsFiniteSet(At(S)) /\ Cardinality(At(S)) \in Nat
           /\ Cardinality(At(S)) <= Cardinality(Threads)
<1>1. At(S) \subseteq Threads
  BY DEF At
<1>. QED
  BY <1>1, SizesAssumption, FS_Subset, FS_CardinalityType

\* A thread that moves into a set of labels adds one to its count, one that
\* moves out of it takes one off, and one that does neither leaves it.
LEMMA AtMoves ==
    ASSUME NEW S, NEW t \in Threads, pc \in [Threads -> Labels],
           \A u \in Threads \ {t} : pc'[u] = pc[u]
    PROVE  /\ pc[t] \notin S /\ pc'[t] \in S =>
                  Cardinality(At(S)') = Cardinality(At(S)) + 1
           /\ pc[t] \in S /\ pc'[t] \notin S =>
                  Cardinality(At(S)') = Cardinality(At(S)) - 1
           /\ (pc[t] \in S <=> pc'[t] \in S) => At(S)' = At(S)
<1>1. IsFiniteSet(At(S))
  BY AtIsFinite
<1>2. ASSUME pc[t] \notin S, pc'[t] \in S
      PROVE  Cardinality(At(S)') = Cardinality(At(S)) + 1
  <2>1. At(S)' = At(S) \cup {t} /\ t \notin At(S)
    BY <1>2 DEF At
  <2>. QED
    BY <1>1, <2>1, FS_AddElement
<1>3. ASSUME pc[t] \in S, pc'[t] \notin S
      PROVE  Cardinality(At(S)') = Cardinality(At(S)) - 1
  <2>1. At(S)' = At(S) \ {t} /\ t \in At(S)
    BY <1>3 DEF At
  <2>. QED
    BY <1>1, <2>1, FS_RemoveElement
<1>4. (pc[t] \in S <=> pc'[t] \in S) => At(S)' = At(S)
  BY DEF At
<1>. QED
  BY <1>2, <1>3, <1>4

\* popingthreads counts the threads in the loop.
LEMMA StepCounted ==
    ASSUME Core, NEW t \in Threads, Call(t) \/ Step(t)
    PROVE  Counted' /\ popingthreads' \in 0 .. Cardinality(Threads)
<1>0. TypeOK /\ Counted /\ pc \in [Threads -> Labels]
  BY DEF Core, TypeOK
<1>1. PICK to \in Labels : \E r : Moves(t, to, r)
  BY <1>0, StepMoves
<1>2. PICK r : Moves(t, to, r)
  BY <1>1
<1>3. \A u \in Threads \ {t} : pc'[u] = pc[u]
  BY <1>0, <1>2, OthersStay
<1>4. \A x, y : Goto(t, x, y) => pc[t] = x /\ pc'[t] = y
  BY <1>0 DEF Goto
<1>5. Counted'
  <2>1. CASE AllocEnter(t)
    <3>1. pc[t] \notin Loop /\ pc'[t] \in Loop /\ popingthreads' = popingthreads + 1
      BY <1>4, <2>1 DEF AllocEnter, Loop
    <3>. QED
      BY <1>0, <1>3, <3>1, AtMoves DEF Counted
  <2>2. CASE AllocExit(t)
    <3>1. pc[t] \in Loop /\ pc'[t] \notin Loop /\ popingthreads' = popingthreads - 1
      BY <1>4, <2>2 DEF AllocExit, Loop
    <3>. QED
      BY <1>0, <1>3, <3>1, AtMoves DEF Counted
  <2>3. CASE AllocLoad(t) \/ AllocNext(t) \/ AllocCas(t)
    <3>1. pc[t] \in Loop /\ pc'[t] \in Loop /\ popingthreads' = popingthreads
      BY <1>4, <2>3 DEF AllocLoad, AllocNext, AllocCas, Loop
    <3>. QED
      BY <1>0, <1>3, <3>1, AtMoves DEF Counted
  <2>4. CASE \/ AllocCall(t) \/ AllocTest(t) \/ AllocLock(t) \/ AllocRetest(t) \/ AllocUnlock(t)
             \/ InitMalloc(t) \/ InitLoad(t) \/ InitCas(t) \/ AllocReturn(t)
             \/ DeallocLoad(t) \/ DeallocCas(t) \/ \E b \in inUse : DeallocCall(t, b)
    <3>1. pc[t] \notin Loop /\ pc'[t] \notin Loop /\ popingthreads' = popingthreads
      BY <1>4, <2>4 DEF AllocCall, AllocTest, AllocLock, AllocRetest, AllocUnlock,
         InitMalloc, InitLoad, InitCas, AllocReturn, DeallocLoad, DeallocCas, DeallocCall, Loop
    <3>. QED
      BY <1>0, <1>3, <3>1, AtMoves DEF Counted
  <2>. QED
    BY <2>1, <2>2, <2>3, <2>4 DEF Call, Step
<1>6. Cardinality(At(Loop)') \in 0 .. Cardinality(Threads)
  <2>1. At(Loop)' \subseteq Threads
    BY DEF At
  <2>2. \A X \in SUBSET Threads : Cardinality(X) \in Nat /\ Cardinality(X) <= Cardinality(Threads)
    BY SizesAssumption, FS_Subset, FS_CardinalityType
  <2>. QED
    BY <2>1, <2>2, SizesAssumption, FS_CardinalityType
<1>. QED
  BY <1>5, <1>6 DEF Counted

\* While a thread is in the loop of allocate() no block is handed out.
LEMMA LoopHolds ==
    ASSUME Core, popingthreads = 0
    PROVE  At(Loop) = {}
BY AtIsFinite, FS_EmptySet DEF Core, Counted

\* What a thread has read stays true: a block in a snapshot stays on the list or
\* with a thread that waits, whose step does not write to it.
LEMMA StepSnapshots ==
    ASSUME Core, NEW t \in Threads, Call(t) \/ Step(t)
    PROVE  Snapshots'
<1>0. TypeOK /\ Places /\ ListSound /\ Snapshots
  BY DEF Core
<1>1. PICK to \in Labels : \E r : Moves(t, to, r)
  BY <1>0, StepMoves
<1>2. PICK r : Moves(t, to, r)
  BY <1>1
<1>3. \A u \in Threads \ {t} : pc'[u] = pc[u] /\ res'[u] = res[u]
  BY <1>0, <1>2, OthersStay
<1>4. \A x, y : Goto(t, x, y) => pc[t] = x /\ pc'[t] = y
  BY <1>0 DEF Goto, TypeOK
<1>5. \A b : SetRes(t, b) => res'[t] = b
  BY <1>0 DEF SetRes, TypeOK
<1>6. /\ Null \notin Free \cup Popped /\ Free \subseteq 1 .. brk
      /\ freeChunk \in Free \cup {Null}
      /\ \A b \in Free : next[b] \in Free \cup {Null}
      /\ Free \subseteq Blocks
  BY <1>0, FreeAreBlocks DEF Popped, ListSound, IsList, ClosedIn
<1>7. ASSUME NEW u \in Threads, pc[u] \in {"a_exit", "a_wait"}, res[u] # Null
      PROVE  InTransit(u) = {res[u]} /\ res[u] \in 1 .. brk /\ res[u] \in Popped
             /\ res[u] \notin Free
  <2>1. InTransit(u) = {res[u]}
    BY <1>0, <1>7, TransitAt DEF TypeOK
  <2>2. res[u] \in 1 .. brk /\ res[u] \notin Free
    BY <1>0, <2>1 DEF Places, Free
  <2>. QED
    BY <1>7, <2>1, <2>2 DEF Popped, At
<1>8. AllocExit(t) => next' = next
  BY DEF AllocExit
<1>9. CASE AllocReturn(t)
  <2>1. At(Loop) = {} /\ pc[t] = "a_wait" /\ pc'[t] \in {"idle", "a_test"}
    BY <1>4, <1>9, LoopHolds DEF AllocReturn
  <2>2. At({"a_next", "a_cas"})' = {}
    BY <1>3, <2>1 DEF At, Loop
  <2>3. \A b \in Popped' : next'[b] \in Blocks \cup {Null}
    <3> SUFFICES ASSUME NEW b \in Popped' PROVE next'[b] \in Blocks \cup {Null}
      OBVIOUS
    <3>1. PICK u \in Threads : pc'[u] \in {"a_exit", "a_wait"} /\ b = res'[u] /\ b # Null
      BY DEF Popped, At
    <3>2. u # t /\ pc[u] \in {"a_exit", "a_wait"} /\ b = res[u]
      BY <1>3, <2>1, <3>1
    <3>3. b \in 1 .. brk /\ b \in Popped /\ InTransit(u) = {b}
      BY <1>7, <3>1, <3>2
    <3>4. b \notin InTransit(t)
      BY <1>0, <3>2, <3>3 DEF Places
    <3>5. next'[b] = next[b]
      BY <3>3, <3>4, WritesOwn
    <3>. QED
      BY <1>0, <3>3, <3>5 DEF Snapshots
  <2>. QED
    BY <2>2, <2>3 DEF Snapshots
<1>10. CASE ~ AllocReturn(t)
  <2>1. pc[t] \in {"a_exit", "a_wait"} => AllocExit(t)
    BY <1>0, <1>4, <1>10 DEF Call, Step, AllocCall, AllocTest, AllocLock, AllocRetest, AllocUnlock,
       InitMalloc, InitLoad, InitCas, AllocEnter, AllocLoad, AllocNext, AllocCas,
       DeallocLoad, DeallocCas, DeallocCall
  <2>2. ASSUME NEW b \in Free \cup Popped
        PROVE  next'[b] = next[b] /\ b \in Free' \cup Popped'
    <3>1. CASE b \in Free
      <4>1. b \in 1 .. brk /\ b \notin InTransit(t)
        BY <1>6, <3>1 DEF Free
      <4>2. next'[b] = next[b]
        BY <4>1, WritesOwn
      <4>3. CASE Pops(t)
        <5>1. Free' = Free \ {res[t]} /\ pc'[t] = "a_exit" /\ res'[t] = res[t]
          BY <4>3, StepPlaces DEF Pops
        <5>2. b = res[t] => b \in Popped'
          BY <1>6, <3>1, <5>1 DEF Popped, At
        <5>. QED
          BY <3>1, <4>2, <5>1, <5>2
      <4>4. CASE ~ Pops(t)
        <5>1. Free \subseteq Free'
          BY <4>4, StepPlaces, Effect
        <5>. QED
          BY <3>1, <4>2, <5>1
      <4>. QED
        BY <4>3, <4>4
    <3>2. CASE b \in Popped
      <4>1. PICK u \in Threads : pc[u] \in {"a_exit", "a_wait"} /\ b = res[u] /\ b # Null
        BY <3>2 DEF Popped, At
      <4>2. InTransit(u) = {b} /\ b \in 1 .. brk
        BY <1>7, <4>1
      <4>3. CASE u = t
        <5>1. AllocExit(t)
          BY <2>1, <4>1, <4>3
        <5>2. next' = next /\ res' = res /\ pc'[t] = "a_wait"
          BY <1>4, <5>1 DEF AllocExit
        <5>. QED
          BY <4>1, <4>3, <5>2 DEF Popped, At
      <4>4. CASE u # t
        <5>1. b \notin InTransit(t)
          BY <1>0, <4>2, <4>4 DEF Places
        <5>2. next'[b] = next[b]
          BY <4>2, <5>1, WritesOwn
        <5>3. pc'[u] = pc[u] /\ res'[u] = res[u]
          BY <1>3, <4>4
        <5>. QED
          BY <4>1, <5>2, <5>3 DEF Popped, At
      <4>. QED
        BY <4>3, <4>4
    <3>. QED
      BY <3>1, <3>2
  <2>3. ASSUME NEW b \in Popped'
        PROVE  next'[b] \in Blocks \cup {Null}
    <3>1. PICK u \in Threads : pc'[u] \in {"a_exit", "a_wait"} /\ b = res'[u] /\ b # Null
      BY DEF Popped, At
    <3>2. b \in Free \cup Popped
      <4>1. CASE u # t
        BY <1>3, <3>1, <4>1 DEF Popped, At
      <4>2. CASE u = t
        <5>1. AllocLoad(t) \/ AllocCas(t) \/ AllocExit(t)
          BY <1>4, <1>10, <3>1, <4>2 DEF Call, Step, AllocCall, AllocTest, AllocLock, AllocRetest,
             AllocUnlock, InitMalloc, InitLoad, InitCas, AllocEnter, AllocNext,
             DeallocLoad, DeallocCas, DeallocCall
        <5>2. CASE AllocLoad(t)
          BY <1>4, <1>5, <3>1, <4>2, <5>2 DEF AllocLoad
        <5>3. CASE AllocCas(t)
          <6>1. b = freeChunk
            BY <1>4, <1>5, <3>1, <4>2, <5>3 DEF AllocCas
          <6>. QED
            BY <1>6, <3>1, <6>1
        <5>4. CASE AllocExit(t)
          BY <1>4, <3>1, <4>2, <5>4 DEF AllocExit, Popped, At
        <5>. QED
          BY <5>1, <5>2, <5>3, <5>4
      <4>. QED
        BY <4>1, <4>2
    <3>3. next'[b] = next[b]
      BY <2>2, <3>2
    <3>. QED
      BY <1>0, <1>6, <3>2, <3>3 DEF Snapshots
  <2>4. ASSUME NEW u \in Threads, pc'[u] \in {"a_next", "a_cas"}
        PROVE  /\ res'[u] \in Free' \cup Popped'
               /\ pc'[u] = "a_cas" => nxt'[u] = next'[res'[u]]
    <3>1. CASE u # t
      <4>1. pc'[u] = pc[u] /\ res'[u] = res[u]
        BY <1>3, <3>1
      <4>2. /\ res[u] \in Free \cup Popped
            /\ pc[u] = "a_cas" => nxt[u] = next[res[u]]
        BY <1>0, <2>4, <4>1 DEF Snapshots, At
      <4>3. nxt'[u] = nxt[u]
        BY <1>0, <3>1 DEF TypeOK, Call, Step, AllocCall, AllocTest, AllocLock, AllocRetest,
           AllocUnlock, InitMalloc, InitLoad, InitCas, AllocEnter, AllocLoad, AllocNext, AllocCas,
           AllocExit, AllocReturn, DeallocLoad, DeallocCas, DeallocCall
      <4>. QED
        BY <2>2, <4>1, <4>2, <4>3
    <3>2. CASE u = t
      <4>1. AllocLoad(t) \/ AllocCas(t) \/ AllocNext(t)
        BY <1>4, <1>10, <2>4, <3>2 DEF Call, Step, AllocCall, AllocTest, AllocLock, AllocRetest,
           AllocUnlock, InitMalloc, InitLoad, InitCas, AllocEnter, AllocExit,
           DeallocLoad, DeallocCas, DeallocCall
      <4>2. CASE AllocLoad(t) \/ AllocCas(t)
        <5>1. pc'[t] = "a_next" /\ res'[t] = freeChunk /\ freeChunk # Null
          BY <1>4, <1>5, <2>4, <3>2, <4>2 DEF AllocLoad, AllocCas
        <5>2. freeChunk \in Free
          BY <1>6, <5>1
        <5>. QED
          BY <2>2, <3>2, <5>1, <5>2
      <4>3. CASE AllocNext(t)
        <5>1. /\ pc[t] = "a_next" /\ res'[t] = res[t] /\ nxt'[t] = next[res[t]]
          BY <1>0, <1>4, <4>3 DEF AllocNext, TypeOK
        <5>2. res[t] \in Free \cup Popped
          BY <1>0, <5>1 DEF Snapshots, At
        <5>. QED
          BY <2>2, <3>2, <5>1, <5>2
      <4>. QED
        BY <4>1, <4>2, <4>3
    <3>. QED
      BY <3>1, <3>2
  <2>. QED
    BY <2>3, <2>4 DEF Snapshots, At
<1>. QED
  BY <1>9, <1>10

\* The head and every thread's pointer stay blocks or null.
LEMMA StepType ==
    ASSUME Core, NEW t \in Threads, Call(t) \/ Step(t)
    PROVE  TypeOK'
<1>0. TypeOK /\ Chunks /\ Snapshots /\ Places
  BY DEF Core
<1>1. PICK to \in Labels : \E r : Moves(t, to, r)
  BY <1>0, StepMoves
<1>2. pc' \in [Threads -> Labels]
  BY <1>0, <1>1 DEF TypeOK, Moves
<1>3. popingthreads' \in 0 .. Cardinality(Threads)
  BY StepCounted
<1>4. brk' \in 0 .. NumBlocks /\ inUse' \subseteq Blocks
  <2>1. CASE InitMalloc(t)
    BY <1>0, <2>1, SizesAssumption DEF TypeOK, InitMalloc
  <2>2. CASE ~ InitMalloc(t)
    <3>1. brk' = brk
      BY <2>2 DEF Call, Step, AllocCall, AllocTest, AllocLock, AllocRetest,
         AllocUnlock, InitLoad, InitCas, AllocEnter, AllocLoad, AllocNext, AllocCas,
         AllocExit, AllocReturn, DeallocLoad, DeallocCas, DeallocCall
    <3>2. inUse' \subseteq 1 .. brk
      BY <3>1, StepPlaces DEF Places
    <3>. QED
      BY <1>0, <3>1, <3>2, SizesAssumption DEF TypeOK, Blocks
  <2>. QED
    BY <2>1, <2>2
<1>5. mu' \in Threads \cup {NoThread}
  BY <1>0 DEF TypeOK, Call, Step, AllocCall, AllocTest, AllocLock, AllocRetest,
     AllocUnlock, InitMalloc, InitLoad, InitCas, AllocEnter, AllocLoad, AllocNext, AllocCas,
     AllocExit, AllocReturn, DeallocLoad, DeallocCas, DeallocCall
<1>6. Null \in Blocks \cup {Null} /\ Junk \in Blocks \cup {Null, Junk}
  OBVIOUS
<1>7. freeChunk' \in Blocks \cup {Null} /\ res' \in [Threads -> Blocks \cup {Null}]
  <2>1. CASE InitMalloc(t)
    <3>1. brk + 1 \in Blocks
      BY <1>0, <2>1, SizesAssumption DEF TypeOK, InitMalloc, Blocks
    <3>. QED
      BY <1>0, <2>1, <3>1 DEF TypeOK, InitMalloc, SetRes
  <2>2. CASE InitCas(t) \/ DeallocCas(t)
    <3>1. res[t] \in Blocks
      BY <1>0, <2>2 DEF InitCas, DeallocCas, Chunks
    <3>. QED
      BY <1>0, <2>2, <3>1 DEF TypeOK, InitCas, DeallocCas, CasPush, SetRes
  <2>3. CASE ~ (InitMalloc(t) \/ InitCas(t) \/ DeallocCas(t))
    BY <1>0, <2>3 DEF TypeOK, Call, Step, AllocCall, AllocTest, AllocLock, AllocRetest,
       AllocUnlock, InitLoad, AllocEnter, AllocLoad, AllocNext, AllocCas,
       AllocExit, AllocReturn, DeallocLoad, DeallocCall, SetRes
  <2>. QED
    BY <2>1, <2>2, <2>3
<1>8. next' \in [Blocks -> Blocks \cup {Null, Junk}]
  <2>1. CASE InitMalloc(t)
    <3>1. \A x \in Chunk(brk + 1) \ {LastOf(brk + 1)} : x + 1 \in Blocks
      BY <1>0, <2>1, SizesAssumption DEF TypeOK, InitMalloc, Blocks, Chunk, LastOf
    <3>. QED
      BY <1>0, <2>1, <3>1 DEF TypeOK, InitMalloc, Linked
  <2>2. CASE ~ InitMalloc(t)
    BY <1>0, <2>2 DEF TypeOK, Call, Step, AllocCall, AllocTest, AllocLock, AllocRetest,
       AllocUnlock, InitLoad, InitCas, AllocEnter, AllocLoad, AllocNext, AllocCas,
       AllocExit, AllocReturn, DeallocLoad, DeallocCas, DeallocCall, CasPush
  <2>. QED
    BY <2>1, <2>2
<1>9. nxt' \in [Threads -> Blocks \cup {Null}]
  <2>1. CASE AllocNext(t)
    <3>1. res[t] \in Free \cup Popped
      BY <1>0, <2>1 DEF AllocNext, Goto, Snapshots, At
    <3>2. next[res[t]] \in Blocks \cup {Null}
      BY <1>0, <3>1, FreeAreBlocks DEF Snapshots, Core, ListSound, IsList, ClosedIn
    <3>. QED
      BY <1>0, <2>1, <3>2 DEF AllocNext, TypeOK
  <2>2. CASE ~ AllocNext(t)
    BY <1>0, <2>2 DEF TypeOK, Call, Step, AllocCall, AllocTest, AllocLock, AllocRetest,
       AllocUnlock, InitMalloc, InitLoad, InitCas, AllocEnter, AllocLoad, AllocCas,
       AllocExit, AllocReturn, DeallocLoad, DeallocCas, DeallocCall
  <2>. QED
    BY <2>1, <2>2
<1>. QED
  BY <1>2, <1>3, <1>4, <1>5, <1>7, <1>8, <1>9 DEF TypeOK

\* Core is inductive.
LEMMA StepCore ==
    ASSUME Core, NEW t \in Threads, Call(t) \/ Step(t)
    PROVE  Core'
BY StepPlaces, StepList, StepChunks, StepCounted, StepSnapshots, StepType DEF Core

-----------------------------------------------------------------------------
(* The mutex, and how the memory grows *)

\* Exactly the thread between lock() and unlock() holds the mutex.
LEMMA StepMutex ==
    ASSUME TypeOK, MutexHeld, NEW t \in Threads, Call(t) \/ Step(t)
    PROVE  MutexHeld'
<1>1. PICK to \in Labels : \E r : Moves(t, to, r)
  BY StepMoves
<1>2. \A u \in Threads \ {t} : pc'[u] = pc[u]
  BY <1>1 DEF TypeOK, Moves
<1>3. \A x, y : Goto(t, x, y) => pc[t] = x /\ pc'[t] = y
  BY DEF Goto, TypeOK
<1>4. CASE AllocLock(t)
  <2>1. mu = NoThread /\ mu' = t /\ pc'[t] \in Locked
    BY <1>3, <1>4 DEF AllocLock, Locked
  <2>. QED
    BY <1>2, <2>1, SizesAssumption DEF MutexHeld
<1>5. CASE AllocUnlock(t)
  <2>1. pc[t] \in Locked /\ mu' = NoThread /\ pc'[t] \notin Locked
    BY <1>3, <1>5 DEF AllocUnlock, Locked
  <2>. QED
    BY <1>2, <2>1, SizesAssumption DEF MutexHeld
<1>6. CASE AllocRetest(t) \/ InitMalloc(t) \/ InitLoad(t) \/ InitCas(t)
  <2>1. pc[t] \in Locked /\ mu' = mu /\ pc'[t] \in Locked
    BY <1>3, <1>6 DEF AllocRetest, InitMalloc, InitLoad, InitCas, Locked
  <2>. QED
    BY <1>2, <2>1 DEF MutexHeld
<1>7. CASE \/ AllocCall(t) \/ AllocTest(t) \/ AllocEnter(t) \/ AllocLoad(t) \/ AllocNext(t)
           \/ AllocCas(t) \/ AllocExit(t) \/ AllocReturn(t)
           \/ DeallocLoad(t) \/ DeallocCas(t) \/ \E b \in inUse : DeallocCall(t, b)
  <2>1. pc[t] \notin Locked /\ mu' = mu /\ pc'[t] \notin Locked
    BY <1>3, <1>7 DEF AllocCall, AllocTest, AllocEnter, AllocLoad, AllocNext, AllocCas,
       AllocExit, AllocReturn, DeallocLoad, DeallocCas, DeallocCall, Locked
  <2>. QED
    BY <1>2, <2>1 DEF MutexHeld
<1>. QED
  BY <1>4, <1>5, <1>6, <1>7 DEF Call, Step

\* The threads that are inside a call.
Busy == At(Labels \ {"idle"})

DemandIsBusy ==
    /\ Demand = Cardinality(inUse) + Cardinality(Busy)
    /\ IsFiniteSet(inUse) /\ Cardinality(inUse) \in Nat
    /\ IsFiniteSet(Busy) /\ Cardinality(Busy) \in Nat

\* The demand is the blocks in use and the busy threads, and these are finite.
LEMMA DemandOfBusy == TypeOK => DemandIsBusy
<1>. SUFFICES ASSUME TypeOK PROVE DemandIsBusy
  OBVIOUS
<1>1. Busy = {t \in Threads : pc[t] # "idle"}
  BY DEF Busy, At, TypeOK
<1>2. IsFiniteSet(Blocks) /\ inUse \in SUBSET Blocks
  BY SizesAssumption, FS_Interval DEF Blocks, TypeOK
<1>. QED
  BY <1>1, <1>2, FS_Subset, FS_CardinalityType, AtIsFinite DEF Demand, Busy, DemandIsBusy

\* A call that starts is within the bound, one that ends hands out one block at most.
LEMMA StepDemand ==
    ASSUME Core, Demand <= MaxDemand, NEW t \in Threads, Call(t) \/ Step(t)
    PROVE  (Demand <= MaxDemand)'
<1>0. TypeOK /\ TypeOK' /\ Places
  BY StepCore DEF Core
<1>1. PICK to \in Labels : \E r : Moves(t, to, r)
  BY <1>0, StepMoves
<1>2. \A u \in Threads \ {t} : pc'[u] = pc[u]
  BY <1>0, <1>1 DEF TypeOK, Moves
<1>3. \A x, y : Goto(t, x, y) => pc[t] = x /\ pc'[t] = y
  BY <1>0 DEF Goto, TypeOK
<1>4. /\ Demand = Cardinality(inUse) + Cardinality(Busy)
      /\ Demand' = Cardinality(inUse') + Cardinality(Busy')
      /\ Cardinality(inUse) \in Nat /\ IsFiniteSet(inUse) /\ Cardinality(inUse') \in Nat
      /\ Cardinality(Busy) \in Nat /\ Cardinality(Busy') \in Nat
  <2>1. DemandIsBusy /\ (TypeOK => DemandIsBusy)'
    BY <1>0, DemandOfBusy, PTL
  <2>. QED
    BY <1>0, <2>1 DEF DemandIsBusy
<1>5. /\ pc[t] = "idle" /\ pc'[t] # "idle" => Cardinality(Busy') = Cardinality(Busy) + 1
      /\ pc[t] # "idle" /\ pc'[t] = "idle" => Cardinality(Busy') = Cardinality(Busy) - 1
      /\ pc[t] # "idle" /\ pc'[t] # "idle" => Cardinality(Busy') = Cardinality(Busy)
  <2>1. pc \in [Threads -> Labels] /\ pc'[t] \in Labels
    BY <1>0, <1>1 DEF TypeOK, Moves
  <2>2. /\ pc[t] \notin Labels \ {"idle"} /\ pc'[t] \in Labels \ {"idle"} =>
               Cardinality(Busy') = Cardinality(Busy) + 1
        /\ pc[t] \in Labels \ {"idle"} /\ pc'[t] \notin Labels \ {"idle"} =>
               Cardinality(Busy') = Cardinality(Busy) - 1
        /\ (pc[t] \in Labels \ {"idle"} <=> pc'[t] \in Labels \ {"idle"}) => Busy' = Busy
    BY <1>2, <2>1, AtMoves DEF Busy
  <2>. QED
    BY <2>1, <2>2
<1>6. CASE AllocCall(t)
  <2>1. pc[t] = "idle" /\ pc'[t] # "idle" /\ inUse' = inUse /\ Demand < MaxDemand
    BY <1>3, <1>6 DEF AllocCall
  <2>. QED
    BY <1>4, <1>5, <2>1, SizesAssumption
<1>7. CASE AllocReturn(t)
  <2>1. CASE res[t] = Null
    <3>1. pc[t] # "idle" /\ pc'[t] # "idle" /\ inUse' = inUse
      BY <1>3, <1>7, <2>1 DEF AllocReturn
    <3>. QED
      BY <1>4, <1>5, <3>1
  <2>2. CASE res[t] # Null
    <3>1. pc[t] # "idle" /\ pc'[t] = "idle" /\ inUse' = inUse \cup {res[t]}
      BY <1>3, <1>7, <2>2 DEF AllocReturn
    <3>2. Cardinality(inUse') = Cardinality(inUse) \/ Cardinality(inUse') = Cardinality(inUse) + 1
      BY <1>4, <3>1, FS_AddElement
    <3>. QED
      BY <1>4, <1>5, <3>1, <3>2, SizesAssumption
  <2>. QED
    BY <2>1, <2>2
<1>8. CASE \E b \in inUse : DeallocCall(t, b)
  <2>1. PICK b \in inUse : pc[t] = "idle" /\ pc'[t] # "idle" /\ inUse' = inUse \ {b}
    BY <1>3, <1>8 DEF DeallocCall
  <2>2. Cardinality(inUse') = Cardinality(inUse) - 1
    BY <1>4, <2>1, FS_RemoveElement
  <2>. QED
    BY <1>4, <1>5, <2>1, <2>2
<1>9. CASE \/ AllocTest(t) \/ AllocLock(t) \/ AllocRetest(t) \/ AllocUnlock(t) \/ InitMalloc(t)
           \/ InitLoad(t) \/ InitCas(t) \/ AllocEnter(t) \/ AllocLoad(t) \/ AllocNext(t)
           \/ AllocCas(t) \/ AllocExit(t) \/ DeallocLoad(t) \/ DeallocCas(t)
  <2>1. pc[t] # "idle" /\ inUse' = inUse
    BY <1>3, <1>9 DEF AllocTest, AllocLock, AllocRetest, AllocUnlock, InitMalloc, InitLoad, InitCas,
       AllocEnter, AllocLoad, AllocNext, AllocCas, AllocExit, DeallocLoad, DeallocCas
  <2>2. CASE pc'[t] = "idle"
    BY <1>4, <1>5, <2>1, <2>2, SizesAssumption
  <2>3. CASE pc'[t] # "idle"
    BY <1>4, <1>5, <2>1, <2>3
  <2>. QED
    BY <2>2, <2>3
<1>. QED
  BY <1>6, <1>7, <1>8, <1>9 DEF Call, Step

\* When the thread that holds the mutex finds the list empty, every block is with
\* a caller or with another thread that is inside a call.
LEMMA EmptyMeansDemand ==
    ASSUME Core, MutexHeld, Demand <= MaxDemand, freeChunk = Null,
           NEW t \in Threads, pc[t] = "a_retest"
    PROVE  brk < MaxDemand
<1>0. TypeOK /\ Places /\ ListSound
  BY DEF Core
<1>1. Free = {}
  <2>1. {} \in SUBSET Free /\ ClosedIn(freeChunk, next, {})
    BY DEF ClosedIn
  <2>2. Free \subseteq {}
    BY <1>0, <2>1 DEF ListSound, IsList
  <2>. QED
    BY <2>2
<1> DEFINE W == Busy \ {t}
           had == {u \in W : res[u] # Null}
           f == [u \in had |-> res[u]]
           out == {res[u] : u \in had}
<1>2. \A u \in Threads : InTransit(u) \subseteq out
  <2> SUFFICES ASSUME NEW u \in Threads, NEW b \in InTransit(u) PROVE b \in out
    OBVIOUS
  <2>1. pc[u] \notin {"i_load", "i_cas"}
    BY SizesAssumption DEF MutexHeld, Locked
  <2>2. pc[u] \in {"a_exit", "a_wait", "d_load", "d_cas"} /\ b = res[u] /\ b \in Blocks
    BY <2>1 DEF InTransit
  <2>3. u # t /\ pc[u] \in Labels \ {"idle"} /\ b # Null
    BY <2>2 DEF Labels, Blocks, Null
  <2>. QED
    BY <2>2, <2>3 DEF Busy, At
<1>3. 1 .. brk \subseteq inUse \cup out
  BY <1>1, <1>2 DEF Free
<1>4. IsFiniteSet(inUse) /\ Cardinality(inUse) \in Nat /\ IsFiniteSet(Busy)
      /\ Demand = Cardinality(inUse) + Cardinality(Busy) /\ Cardinality(Busy) \in Nat
  BY <1>0, DemandOfBusy DEF DemandIsBusy
<1>5. IsFiniteSet(W) /\ Cardinality(W) = Cardinality(Busy) - 1
  <2>1. t \in Busy
    BY DEF Busy, At, Labels
  <2>. QED
    BY <1>4, <2>1, FS_RemoveElement
<1>6. IsFiniteSet(had) /\ Cardinality(had) <= Cardinality(W) /\ Cardinality(had) \in Nat
  BY <1>5, FS_Subset, FS_CardinalityType
<1>7. IsFiniteSet(out) /\ Cardinality(out) <= Cardinality(had) /\ Cardinality(out) \in Nat
  <2>1. f \in Surjection(had, out)
    BY DEF Surjection
  <2>. HIDE DEF f, had, out
  <2>. QED
    BY <1>6, <2>1, FS_Surjection, FS_CardinalityType
<1>8. brk <= Cardinality(inUse) + Cardinality(out)
  <2>. HIDE DEF out
  <2>1. /\ IsFiniteSet(inUse \cup out)
        /\ Cardinality(inUse \cup out) = Cardinality(inUse) + Cardinality(out)
                                             - Cardinality(inUse \cap out)
    BY <1>4, <1>7, FS_Union
  <2>2. Cardinality(inUse \cap out) \in Nat /\ Cardinality(inUse \cup out) \in Nat
    BY <1>4, <2>1, FS_Intersection, FS_CardinalityType
  <2>3. brk \in Nat
    BY <1>0, SizesAssumption DEF TypeOK
  <2>4. Cardinality(1 .. brk) = brk
    BY <2>3, FS_Interval
  <2>5. Cardinality(1 .. brk) <= Cardinality(inUse \cup out)
    BY <1>3, <2>1, FS_Subset
  <2>. QED
    BY <1>4, <1>7, <2>1, <2>2, <2>3, <2>4, <2>5
<1>. HIDE DEF W, had, f, out
<1>. QED
  BY <1>0, <1>4, <1>5, <1>6, <1>7, <1>8, SizesAssumption DEF TypeOK

\* The second test under the mutex keeps the memory within a chunk of the demand.
LEMMA StepGrowth ==
    ASSUME Core, MutexHeld, Growth, NEW t \in Threads, Call(t) \/ Step(t)
    PROVE  Growth'
<1>0. TypeOK
  BY DEF Core
<1>1. PICK to \in Labels : \E r : Moves(t, to, r)
  BY <1>0, StepMoves
<1>2. \A u \in Threads \ {t} : pc'[u] = pc[u]
  BY <1>0, <1>1 DEF TypeOK, Moves
<1>3. \A x, y : Goto(t, x, y) => pc[t] = x /\ pc'[t] = y
  BY <1>0 DEF Goto, TypeOK
<1>4. (Demand <= MaxDemand)'
  BY StepDemand DEF Growth
<1>5. CASE InitMalloc(t)
  <2>1. brk < MaxDemand /\ brk' = brk + ChunkSize /\ pc'[t] = "i_load" /\ pc[t] \in Locked
    BY <1>3, <1>5 DEF InitMalloc, Growth, At, Locked
  <2>2. \A u \in Threads \ {t} : pc'[u] # "i_malloc"
    BY <1>2, <2>1, SizesAssumption DEF MutexHeld, Locked
  <2>3. BoundedGrowth'
    BY <1>0, <2>1, SizesAssumption DEF BoundedGrowth, TypeOK
  <2>. QED
    BY <1>4, <2>1, <2>2, <2>3 DEF Growth, At
<1>6. CASE ~ InitMalloc(t)
  <2>1. brk' = brk
    BY <1>6 DEF Call, Step, AllocCall, AllocTest, AllocLock, AllocRetest,
       AllocUnlock, InitLoad, InitCas, AllocEnter, AllocLoad, AllocNext, AllocCas,
       AllocExit, AllocReturn, DeallocLoad, DeallocCas, DeallocCall
  <2>2. ASSUME pc'[t] = "i_malloc" PROVE brk < MaxDemand
    <3>1. AllocRetest(t) /\ freeChunk = Null /\ pc[t] = "a_retest"
      BY <1>3, <1>6, <2>2 DEF Call, Step, AllocCall, AllocTest, AllocLock, AllocRetest,
         AllocUnlock, InitLoad, InitCas, AllocEnter, AllocLoad, AllocNext, AllocCas,
         AllocExit, AllocReturn, DeallocLoad, DeallocCas, DeallocCall
    <3>. QED
      BY <3>1, EmptyMeansDemand DEF Growth
  <2>. QED
    BY <1>2, <1>4, <2>1, <2>2 DEF Growth, BoundedGrowth, At
<1>. QED
  BY <1>5, <1>6

-----------------------------------------------------------------------------

\* The constructor leaves one chunk on the list and nobody with a block.
LEMMA InitIInv ==
    ASSUME Init
    PROVE  IInv
<1>1. /\ ChunkSize \in Nat \ {0} /\ NumBlocks \in Nat /\ ChunkSize <= NumBlocks
      /\ brk = ChunkSize /\ freeChunk = 1 /\ inUse = {}
      /\ next = [b \in Blocks |-> IF b < ChunkSize THEN b + 1 ELSE Null]
      /\ \A t \in Threads : pc[t] = "idle"
  BY SizesAssumption DEF Init
<1>2. \A b \in Blocks : next[b] \in Blocks \cup {Null}
  BY <1>1 DEF Blocks
<1>3. TypeOK
  BY <1>1, <1>2, SizesAssumption, FS_CardinalityType DEF TypeOK, Init, Labels, Blocks, Null
<1>4. \A t \in Threads : InTransit(t) = {}
  BY <1>1 DEF InTransit
<1>5. Places /\ Chunks /\ Free = 1 .. ChunkSize
  BY <1>1, <1>4 DEF Places, Chunks, Free
<1>6. ListSound
  <2>1. IsList(Null, next, {})
    BY DEF IsList, ClosedIn
  <2>2. (1 .. ChunkSize) \cap {} = {} /\ Null \notin {} /\ 1 \in Nat \ {0} /\ 1 <= ChunkSize
    BY <1>1
  <2>3. \A x \in (1 .. ChunkSize) \ {ChunkSize} : next[x] = x + 1
    BY <1>1 DEF Blocks
  <2>4. next[ChunkSize] = Null
    BY <1>1 DEF Blocks
  <2>5. IsList(1, next, {} \cup (1 .. ChunkSize))
    BY <1>1, <2>1, <2>2, <2>3, <2>4, ListPush
  <2>. QED
    BY <1>1, <1>5, <2>5 DEF ListSound
<1>7. \A S : "idle" \notin S => At(S) = {}
  BY <1>1 DEF At
<1>8. Snapshots /\ Counted
  BY <1>7, FS_EmptySet DEF Snapshots, Counted, Popped, Loop, Init
<1>9. MutexHeld
  BY <1>1, SizesAssumption DEF MutexHeld, Locked, Init
<1>10. Growth
  <2>1. Busy = {}
    BY <1>7 DEF Busy
  <2>2. Demand = 0
    BY <1>1, <1>3, <2>1, DemandOfBusy, FS_EmptySet DEF DemandIsBusy
  <2>. QED
    BY <1>1, <1>7, <2>2, SizesAssumption DEF Growth, BoundedGrowth
<1>. QED
  BY <1>3, <1>5, <1>6, <1>8, <1>9, <1>10 DEF IInv, Core

\* Every access to the shared memory keeps the invariant.
LEMMA StepIInv == IInv /\ [Next]_vars => IInv'
<1> SUFFICES ASSUME IInv, [Next]_vars PROVE IInv'
  OBVIOUS
<1>1. CASE Next
  <2>1. PICK t \in Threads : Call(t) \/ Step(t)
    BY <1>1 DEF Next
  <2>2. Core /\ MutexHeld /\ Growth /\ TypeOK
    BY DEF IInv, Core
  <2>. QED
    BY <2>1, <2>2, StepCore, StepMutex, StepGrowth DEF IInv
<1>2. CASE UNCHANGED vars
  <2>1. \A t \in Threads : InTransit(t)' = InTransit(t)
    BY <1>2 DEF vars, InTransit
  <2>2. Free' = Free
    BY <1>2, <2>1 DEF vars, Free
  <2>3. \A S : At(S)' = At(S)
    BY <1>2 DEF vars, At
  <2>4. Popped' = Popped
    BY <1>2, <2>3 DEF vars, Popped
  <2>5. Core'
    <3>1. TypeOK' /\ Chunks'
      BY <1>2 DEF IInv, Core, TypeOK, Chunks, vars
    <3>2. Places' /\ ListSound'
      BY <1>2, <2>1, <2>2 DEF IInv, Core, Places, ListSound, vars
    <3>3. Snapshots' /\ Counted'
      BY <1>2, <2>2, <2>3, <2>4 DEF IInv, Core, Snapshots, Counted, vars
    <3>. QED
      BY <3>1, <3>2, <3>3 DEF Core
  <2>6. MutexHeld' /\ Growth'
    BY <1>2, <2>3 DEF IInv, MutexHeld, Growth, Demand, BoundedGrowth, vars
  <2>. QED
    BY <2>5, <2>6 DEF IInv
<1>. QED
  BY <1>1, <1>2

\* The inductive invariant holds in every state.
THEOREM Sound == Spec => []IInv
BY InitIInv, StepIInv, PTL DEF Spec

\* No ABA, for any number of threads and blocks: what a thread in the loop of
\* allocate() has read stays true until it is done, and it never reads a block
\* that a caller owns.
THEOREM NoABA == Spec => []SnapshotsAreSafe
<1>1. ASSUME IInv PROVE SnapshotsAreSafe
  <2>1. TypeOK /\ Places /\ Snapshots
    BY <1>1 DEF IInv, Core
  <2>2. SnapshotIsCurrent
    BY <2>1 DEF SnapshotIsCurrent, Snapshots, At
  <2>3. ASSUME NEW t \in Threads, pc[t] \in {"a_next", "a_cas"}
        PROVE  res[t] \notin inUse
    <3>1. res[t] \in Free \cup Popped
      BY <2>1, <2>3 DEF Snapshots, At
    <3>2. CASE res[t] \in Popped
      <4>1. PICK u \in Threads : pc[u] \in {"a_exit", "a_wait"} /\ res[t] = res[u] /\ res[u] # Null
        BY <3>2 DEF Popped, At
      <4>2. res[u] \in InTransit(u)
        BY <2>1, <4>1, TransitAt DEF TypeOK
      <4>. QED
        BY <2>1, <4>1, <4>2 DEF Places
    <3>. QED
      BY <3>1, <3>2 DEF Free
  <2>. QED
    BY <2>2, <2>3 DEF SnapshotsAreSafe, NoReadOfCallersBlock
<1>. QED
  BY Sound, <1>1, PTL

\* The least closed set is the set of the blocks that nobody has.
LEMMA FreeIsReached ==
    ASSUME TypeOK, ListSound
    PROVE  FreeBlocks = Free
<1>1. Free \subseteq 1 .. brk /\ ClosedIn(freeChunk, next, Free)
  BY FreeAreBlocks DEF ListSound, IsList
<1>2. \A S : Closed(S) <=> ClosedIn(freeChunk, next, S)
  BY DEF Closed, ClosedIn
<1>3. ASSUME NEW S \in SUBSET (1 .. brk), Closed(S)
      PROVE  Free \subseteq S
  <2>1. ClosedIn(freeChunk, next, S \cap Free)
    BY <1>1, <1>2, <1>3 DEF ClosedIn
  <2>2. Free \subseteq S \cap Free
    BY <2>1 DEF ListSound, IsList
  <2>. QED
    BY <2>2
<1>4. FreeBlocks = {b \in 1 .. brk : \A S \in SUBSET (1 .. brk) : Closed(S) => b \in S}
  BY DEF FreeBlocks
<1>5. Closed(Free)
  BY <1>1, <1>2
<1>. QED
  BY <1>1, <1>3, <1>4, <1>5

\* No block is lost or in two places, and the free list is not circular.
THEOREM Conserved == Spec => []Conservation
<1>1. ASSUME IInv PROVE Conservation
  <2>1. TypeOK /\ Places /\ ListSound /\ FreeBlocks = Free
    BY <1>1, FreeIsReached DEF IInv, Core
  <2>2. 1 .. brk = Free \cup inUse \cup UNION {InTransit(t) : t \in Threads}
    BY <2>1 DEF Places, Free
  <2>3. /\ Free \cap inUse = {}
        /\ \A t \in Threads : InTransit(t) \cap (Free \cup inUse) = {}
        /\ \A t, u \in Threads : t # u => InTransit(t) \cap InTransit(u) = {}
    BY <2>1 DEF Places, Free
  <2>4. \A S \in (SUBSET Free) \ {{}} : \E b \in S : next[b] \notin S
    BY <2>1 DEF ListSound, IsList
  <2>. QED
    BY <2>1, <2>2, <2>3, <2>4 DEF Conservation
<1>. QED
  BY Sound, <1>1, PTL

\* Threads that find the list empty together do not refill it one after the other.
THEOREM Grows == Spec => []BoundedGrowth
<1>1. IInv => BoundedGrowth
  BY DEF IInv, Growth
<1>. QED
  BY Sound, <1>1, PTL

-----------------------------------------------------------------------------
(* The refinement of AllocatorCalls *)

TakenBlocks == {Taken(t) : t \in Threads} \ {Null}

\* A block that allocate() has taken is in transit with its thread.
LEMMA TakenIsPopped ==
    ASSUME TypeOK
    PROVE  /\ TakenBlocks = Popped
           /\ \A t \in Threads : Taken(t) # Null => Taken(t) \in InTransit(t)
<1>1. TakenBlocks = Popped
  BY DEF TakenBlocks, Popped, Taken, At
<1>2. \A t \in Threads : Taken(t) # Null => Taken(t) \in InTransit(t)
  BY TransitAt DEF Taken, TypeOK
<1>. QED
  BY <1>1, <1>2

\* A step of jalloc_conc is a step of the allocator, or none.
LEMMA StepRefines ==
    ASSUME IInv, IInv', NEW t \in Threads, Call(t) \/ Step(t)
    PROVE  Alloc!CallsNext \/ UNCHANGED Alloc!vars
<1> DEFINE got == [u \in Threads |-> Taken(u)]
           out == inUse \cup TakenBlocks
<1>0. Core /\ TypeOK /\ Places /\ Snapshots
  BY DEF IInv, Core
<1>1. PICK to \in Labels : \E r : Moves(t, to, r)
  BY <1>0, StepMoves
<1>2. PICK r : Moves(t, to, r)
  BY <1>1
<1>3. \A u \in Threads \ {t} : pc'[u] = pc[u] /\ res'[u] = res[u]
  BY <1>0, <1>2, OthersStay
<1>4. \A u \in Threads \ {t} : Taken(u)' = Taken(u)
  BY <1>3 DEF Taken
<1>5. got' = [got EXCEPT ![t] = Taken(t)']
  BY <1>4
<1>6. \A x, y : Goto(t, x, y) => pc[t] = x /\ pc'[t] = y
  BY <1>0 DEF Goto, TypeOK
<1>7. \A b : SetRes(t, b) => res'[t] = b
  BY <1>0 DEF SetRes, TypeOK
<1>8. /\ TakenBlocks = {Taken(u) : u \in Threads} \ {Null}
      /\ TakenBlocks' = {Taken(u)' : u \in Threads} \ {Null}
  BY DEF TakenBlocks
<1>9. got = [u \in Threads |-> Taken(u)] /\ got' = [u \in Threads |-> Taken(u)']
  OBVIOUS
<1>10. ASSUME Taken(t)' = Taken(t), inUse' = inUse PROVE UNCHANGED Alloc!vars
  BY <1>4, <1>10 DEF Alloc!vars
<1>11. CASE AllocCas(t) /\ freeChunk = res[t]
  <2>1. /\ pc[t] = "a_cas" /\ pc'[t] = "a_exit" /\ res'[t] = res[t] /\ inUse' = inUse
    BY <1>6, <1>11 DEF AllocCas
  <2>2. res[t] \in Free
    BY <1>0, <1>11, <2>1, FreeAreBlocks DEF Core, ListSound, IsList, ClosedIn, Snapshots, At, Popped
  <2>3. res[t] \in Blocks /\ res[t] # Null /\ res[t] \notin inUse /\ res[t] \notin TakenBlocks
    <3>1. res[t] \notin UNION {InTransit(u) : u \in Threads} /\ res[t] \notin inUse
      BY <2>2 DEF Free
    <3>2. res[t] \notin TakenBlocks
      BY <1>0, <3>1, TakenIsPopped DEF TakenBlocks
    <3>. QED
      BY <1>0, <2>2, <3>1, <3>2, FreeAreBlocks
  <2>4. Taken(t) = Null /\ Taken(t)' = res[t]
    BY <2>1 DEF Taken
  <2>5. TakenBlocks' = TakenBlocks \cup {res[t]}
    BY <1>4, <1>8, <2>3, <2>4
  <2>6. Alloc!Take(t, res[t])
    BY <1>5, <2>1, <2>3, <2>4, <2>5 DEF Alloc!Take, Alloc!Allocate, TakenBlocks
  <2>. QED
    BY <2>3, <2>6 DEF Alloc!CallsNext
<1>12. CASE AllocReturn(t) /\ res[t] # Null
  <2>1. pc[t] = "a_wait" /\ pc'[t] = "idle" /\ inUse' = inUse \cup {res[t]}
    BY <1>6, <1>12 DEF AllocReturn
  <2>2. Taken(t) = res[t] /\ Taken(t)' = Null
    BY <2>1 DEF Taken
  <2>3. \A u \in Threads \ {t} : Taken(u) # res[t]
    <3>1. res[t] \in InTransit(t)
      BY <1>0, <1>12, <2>2, TakenIsPopped
    <3>. QED
      BY <1>0, <1>12, <3>1, TakenIsPopped DEF Places
  <2>4. TakenBlocks' = TakenBlocks \ {res[t]} /\ res[t] \in TakenBlocks
    BY <1>4, <1>8, <1>12, <2>2, <2>3
  <2>5. Alloc!Return(t)
    BY <1>5, <1>12, <2>1, <2>2, <2>4 DEF Alloc!Return, TakenBlocks
  <2>. QED
    BY <2>5 DEF Alloc!CallsNext
<1>13. CASE \E b \in inUse : DeallocCall(t, b)
  <2>1. PICK b \in inUse : pc[t] = "idle" /\ pc'[t] = "d_load" /\ inUse' = inUse \ {b}
    BY <1>6, <1>13 DEF DeallocCall
  <2>2. Taken(t) = Null /\ Taken(t)' = Null
    BY <2>1 DEF Taken
  <2>3. \A u \in Threads : Taken(u)' = Taken(u)
    BY <1>4, <2>2
  <2>4. \A u \in Threads : Taken(u) # b
    BY <1>0, TakenIsPopped DEF Places, Null, TypeOK, Blocks
  <2>5. b \in Blocks /\ b \notin TakenBlocks /\ TakenBlocks' = TakenBlocks
    BY <1>0, <1>8, <2>3, <2>4 DEF TypeOK
  <2>6. Alloc!GiveBack(b)
    BY <2>1, <2>3, <2>4, <2>5 DEF Alloc!GiveBack, Alloc!Deallocate, TakenBlocks
  <2>. QED
    BY <2>5, <2>6 DEF Alloc!CallsNext
<1>14. CASE /\ ~ (AllocCas(t) /\ freeChunk = res[t])
            /\ ~ (AllocReturn(t) /\ res[t] # Null)
            /\ ~ \E b \in inUse : DeallocCall(t, b)
  <2>1. inUse' = inUse
    BY <1>14 DEF Call, Step, AllocCall, AllocTest, AllocLock, AllocRetest, AllocUnlock,
       InitMalloc, InitLoad, InitCas, AllocEnter, AllocLoad, AllocNext, AllocCas, AllocExit,
       AllocReturn, DeallocLoad, DeallocCas
  <2>2. Taken(t)' = Taken(t)
    <3>1. CASE AllocExit(t)
      BY <1>6, <3>1 DEF AllocExit, Taken
    <3>2. CASE AllocReturn(t)
      BY <1>6, <1>14, <3>2 DEF AllocReturn, Taken
    <3>3. CASE AllocLoad(t) \/ AllocCas(t)
      <4>1. /\ pc[t] \notin {"a_exit", "a_wait"}
            /\ \/ pc'[t] = "a_exit" /\ res'[t] = Null
               \/ pc'[t] = "a_next"
        BY <1>6, <1>7, <1>14, <3>3 DEF AllocLoad, AllocCas
      <4>. QED
        BY <4>1 DEF Taken
    <3>4. CASE ~ (AllocExit(t) \/ AllocReturn(t) \/ AllocLoad(t) \/ AllocCas(t))
      <4>1. pc[t] \notin {"a_exit", "a_wait"} /\ pc'[t] \notin {"a_exit", "a_wait"}
        BY <1>6, <1>14, <3>4 DEF Call, Step, AllocCall, AllocTest, AllocLock, AllocRetest, AllocUnlock,
           InitMalloc, InitLoad, InitCas, AllocEnter, AllocNext, DeallocLoad, DeallocCas
      <4>. QED
        BY <4>1 DEF Taken
    <3>. QED
      BY <3>1, <3>2, <3>3, <3>4
  <2>. QED
    BY <1>10, <2>1, <2>2
<1>. QED
  BY <1>11, <1>12, <1>13, <1>14

\* jalloc_conc is an allocator: allocate() hands out only what nobody has, from
\* the compare-and-swap that takes the block on, and each block just once.
THEOREM Refinement == Spec => ImplementsAllocator
<1>1. Init => Alloc!CallsInit
  <2> SUFFICES ASSUME Init PROVE Alloc!CallsInit
    OBVIOUS
  <2>1. \A t \in Threads : Taken(t) = Null
    BY DEF Init, Taken
  <2>2. inUse = {} /\ {Taken(t) : t \in Threads} \ {Null} = {}
    BY <2>1 DEF Init
  <2>. QED
    BY <2>1, <2>2 DEF Alloc!CallsInit, Alloc!Init
<1>2. IInv /\ IInv' /\ [Next]_vars => [Alloc!CallsNext]_(Alloc!vars)
  <2> SUFFICES ASSUME IInv, IInv', [Next]_vars
               PROVE  Alloc!CallsNext \/ UNCHANGED Alloc!vars
    OBVIOUS
  <2>1. CASE Next
    BY <2>1, StepRefines DEF Next
  <2>2. CASE UNCHANGED vars
    BY <2>2 DEF vars, Taken, Alloc!vars
  <2>. QED
    BY <2>1, <2>2
<1>. QED
  BY Sound, <1>1, <1>2, PTL DEF Spec, ImplementsAllocator, Alloc!CallsSpec
-----------------------------------------------------------------------------
(* str_jalloc *)

\* The entries of size_list.
LEMMA SizeOf ==
    ASSUME NEW n \in Classes
    PROVE  /\ n \in 0 .. 18
           /\ n < 16 => size_list[n] = 16 * n + 16
           /\ n = 16 => size_list[n] = 512
           /\ n = 17 => size_list[n] = 768
           /\ n = 18 => size_list[n] = 1024
BY DEF size_list, Classes, Largest

\* Rounding up to a multiple of sixteen.
LEMMA Sixteenths ==
    ASSUME NEW s \in 1 .. 256
    PROVE  /\ (s + 15) \div 16 \in 1 .. 16
           /\ s <= 16 * ((s + 15) \div 16)
           /\ 16 * ((s + 15) \div 16) < s + 16
OBVIOUS

\* desize() stays within the table, and its class holds what was asked for.
THEOREM DesizeFits ==
    ASSUME NEW bytes \in 1 .. Largest
    PROVE  desize(bytes) \in Classes /\ bytes <= size_list[desize(bytes)]
<1>1. CASE bytes <= 256
  <2>1. bytes \in 1 .. 256 /\ desize(bytes) = (bytes + 15) \div 16 - 1
    BY <1>1 DEF desize, Largest
  <2>2. desize(bytes) \in 0 .. 15 /\ bytes <= 16 * desize(bytes) + 16
    BY <2>1, Sixteenths
  <2>. QED  BY <2>2, SizeOf DEF Classes
<1>2. CASE bytes > 256
  <2>1. \/ desize(bytes) = 16 /\ bytes <= 512
        \/ desize(bytes) = 17 /\ bytes <= 768
        \/ desize(bytes) = 18 /\ bytes <= 1024
    BY <1>2 DEF desize, Largest
  <2>. QED  BY <2>1, SizeOf DEF Classes
<1>. QED  BY <1>1, <1>2 DEF Largest

\* It is the least such class: no smaller block would do.
THEOREM DesizeIsLeast ==
    ASSUME NEW bytes \in 1 .. Largest, NEW n \in Classes, n < desize(bytes)
    PROVE  size_list[n] < bytes
<1>1. CASE bytes <= 256
  <2>1. bytes \in 1 .. 256 /\ desize(bytes) = (bytes + 15) \div 16 - 1
    BY <1>1 DEF desize, Largest
  <2>2. desize(bytes) \in 0 .. 15 /\ 16 * desize(bytes) < bytes
    BY <2>1, Sixteenths
  <2>3. n < 16 /\ 16 * n + 16 <= 16 * desize(bytes)
    BY <2>2 DEF Classes
  <2>. QED  BY <2>1, <2>2, <2>3, SizeOf
<1>2. CASE bytes > 256
  <2>1. \/ desize(bytes) = 16 /\ bytes > 256
        \/ desize(bytes) = 17 /\ bytes > 512
        \/ desize(bytes) = 18 /\ bytes > 768
    BY <1>2 DEF desize, Largest
  <2>2. CASE n < 16
    <3>1. 16 * n + 16 <= 256
      BY <2>2 DEF Classes
    <3>. QED  BY <3>1, <2>2, <1>2, SizeOf
  <2>3. CASE n >= 16
    <3>1. n = 16 \/ n = 17
      BY <2>1, <2>3 DEF Classes
    <3>. QED  BY <2>1, <3>1, SizeOf
  <2>. QED  BY <2>2, <2>3 DEF Classes
<1>. QED  BY <1>1, <1>2 DEF Largest

\* A larger class has larger blocks, so a block from further up fits as well.
LEMMA SizesGrow ==
    ASSUME NEW m \in Classes, NEW n \in Classes, m <= n
    PROVE  size_list[m] \in Nat /\ size_list[n] \in Nat /\ size_list[m] <= size_list[n]
<1>1. CASE n < 16
  BY <1>1, SizeOf DEF Classes
<1>2. CASE n >= 16
  <2>1. size_list[m] \in Nat /\ (m < 16 => size_list[m] <= 256)
    BY SizeOf
  <2>. QED  BY <1>2, <2>1, SizeOf DEF Classes
<1>. QED  BY <1>1, <1>2 DEF Classes

-----------------------------------------------------------------------------

StrTypeOK ==
    /\ ptr \in [Classes -> Seq(Nat)]
    /\ made \in [Classes -> Nat]
    /\ held \in SUBSET [class : Classes, no : Nat, size : 1 .. Largest]

\* Inductive: BlocksFit is not used by the rest, but EveryBlockOnce needs the types.
StrIInv == StrTypeOK /\ BlocksFit /\ EveryBlockOnce

In(list) == {list[i] : i \in DOMAIN list}
Distinct(list) == \A i, j \in DOMAIN list : list[i] = list[j] => i = j

\* Taking the first of a list without duplicates.
LEMMA TakeFirst ==
    ASSUME NEW list \in Seq(Nat), list # <<>>, Distinct(list)
    PROVE  /\ Head(list) \in Nat /\ Tail(list) \in Seq(Nat)
           /\ In(list) = In(Tail(list)) \cup {Head(list)}
           /\ Head(list) \notin In(Tail(list))
           /\ Distinct(Tail(list))
<1>1. /\ Len(list) \in Nat \ {0} /\ DOMAIN list = 1 .. Len(list)
      /\ Head(list) = list[1]
      /\ Tail(list) \in Seq(Nat) /\ Len(Tail(list)) = Len(list) - 1
      /\ DOMAIN Tail(list) = 1 .. Len(list) - 1
      /\ \A i \in 1 .. Len(list) - 1 : Tail(list)[i] = list[i + 1]
  BY EmptySeq, HeadTailProperties, LenProperties
<1>2. Head(list) \in Nat
  BY <1>1
<1>3. \A i \in DOMAIN list : i = 1 \/ (i - 1 \in DOMAIN Tail(list) /\ Tail(list)[i - 1] = list[i])
  BY <1>1
<1>4. \A i \in DOMAIN Tail(list) : i + 1 \in DOMAIN list /\ i + 1 # 1 /\ Tail(list)[i] = list[i + 1]
  BY <1>1
<1>5. 1 \in DOMAIN list
  BY <1>1
<1>6. In(list) = In(Tail(list)) \cup {Head(list)}
  <2>1. ASSUME NEW i \in DOMAIN list
        PROVE  list[i] \in In(Tail(list)) \cup {Head(list)}
    BY <1>1, <1>3 DEF In
  <2>2. ASSUME NEW i \in DOMAIN Tail(list)
        PROVE  Tail(list)[i] \in In(list)
    BY <1>4 DEF In
  <2>3. Head(list) \in In(list)
    BY <1>1, <1>5 DEF In
  <2>4. In(list) \subseteq In(Tail(list)) \cup {Head(list)}
    BY <2>1 DEF In
  <2>5. In(Tail(list)) \subseteq In(list)
    BY <2>2 DEF In
  <2>. QED  BY <2>3, <2>4, <2>5
<1>7. Head(list) \notin In(Tail(list))
  BY <1>1, <1>4, <1>5 DEF In, Distinct
<1>8. Distinct(Tail(list))
  BY <1>1, <1>4 DEF Distinct
<1>. QED  BY <1>1, <1>2, <1>6, <1>7, <1>8

\* Putting something new in front of one.
LEMMA PutFirst ==
    ASSUME NEW list \in Seq(Nat), NEW x \in Nat, Distinct(list), x \notin In(list)
    PROVE  /\ <<x>> \o list \in Seq(Nat)
           /\ In(<<x>> \o list) = In(list) \cup {x}
           /\ Distinct(<<x>> \o list)
<1>. DEFINE longer == <<x>> \o list
<1>1. /\ Len(list) \in Nat /\ DOMAIN list = 1 .. Len(list)
      /\ longer \in Seq(Nat) /\ DOMAIN longer = 1 .. Len(list) + 1
      /\ longer[1] = x
      /\ \A i \in 2 .. Len(list) + 1 : longer[i] = list[i - 1]
  BY ConcatProperties, LenProperties
<1>2. \A i \in DOMAIN longer : i = 1 \/ (i - 1 \in DOMAIN list /\ longer[i] = list[i - 1])
  BY <1>1
<1>3. \A i \in DOMAIN list : i + 1 \in DOMAIN longer /\ longer[i + 1] = list[i]
  BY <1>1
<1>4. 1 \in DOMAIN longer
  BY <1>1
<1>5. In(longer) = In(list) \cup {x}
  <2>1. ASSUME NEW i \in DOMAIN longer
        PROVE  longer[i] \in In(list) \cup {x}
    BY <1>1, <1>2 DEF In
  <2>2. ASSUME NEW i \in DOMAIN list
        PROVE  list[i] \in In(longer)
    BY <1>3 DEF In
  <2>3. x \in In(longer)
    BY <1>1, <1>4 DEF In
  <2>4. In(longer) \subseteq In(list) \cup {x}
    BY <2>1 DEF In
  <2>5. In(list) \subseteq In(longer)
    BY <2>2 DEF In
  <2>. QED  BY <2>3, <2>4, <2>5
<1>6. ASSUME NEW i \in DOMAIN longer, NEW j \in DOMAIN longer, longer[i] = longer[j]
      PROVE  i = j
  <2>1. CASE i = 1
    BY <2>1, <1>1, <1>2, <1>6 DEF In
  <2>2. CASE j = 1
    BY <2>2, <1>1, <1>2, <1>6 DEF In
  <2>3. CASE i # 1 /\ j # 1
    <3>1. /\ i - 1 \in DOMAIN list /\ j - 1 \in DOMAIN list
          /\ list[i - 1] = list[j - 1]
      BY <2>3, <1>2, <1>6
    <3>2. i - 1 = j - 1
      BY <3>1 DEF Distinct
    <3>. QED  BY <3>2, <1>1
  <2>. QED  BY <2>1, <2>2, <2>3
<1>. QED  BY <1>1, <1>5, <1>6 DEF Distinct

-----------------------------------------------------------------------------

\* Handing out the first block of a list that is whole together with what users
\* have of its class: the free list, or a new chunk.
LEMMA HandsOut ==
    ASSUME StrIInv,
           NEW q \in Classes, NEW bytes \in 1 .. Largest, bytes <= size_list[q],
           NEW list \in Seq(Nat), list # <<>>, Distinct(list),
           NEW m \in Nat,
           In(list) \cup NumbersOf(q) = 1 .. m, In(list) \cap NumbersOf(q) = {},
           Hand(q, list, bytes), made' = [made EXCEPT ![q] = m]
    PROVE  StrIInv'
<1>. DEFINE b == [class |-> q, no |-> Head(list), size |-> bytes]
<1>1. /\ ptr' = [ptr EXCEPT ![q] = Tail(list)]
      /\ held' = held \cup {b}
  BY DEF Hand
<1>2. /\ Head(list) \in Nat /\ Tail(list) \in Seq(Nat)
      /\ In(list) = In(Tail(list)) \cup {Head(list)}
      /\ Head(list) \notin In(Tail(list))
      /\ Distinct(Tail(list))
  BY TakeFirst
<1>3. StrTypeOK'
  BY <1>1, <1>2 DEF StrIInv, StrTypeOK
<1>4. BlocksFit'
  BY <1>1 DEF StrIInv, BlocksFit
<1>5. NumbersOf(q)' = NumbersOf(q) \cup {Head(list)}
  <2>1. ASSUME NEW c \in held', c.class = q
        PROVE  c.no \in NumbersOf(q) \cup {Head(list)}
    BY <1>1, <2>1 DEF NumbersOf
  <2>2. ASSUME NEW c \in held, c.class = q
        PROVE  c.no \in NumbersOf(q)'
    BY <1>1, <2>2 DEF NumbersOf
  <2>3. b \in held' /\ b.class = q /\ b.no = Head(list)
    BY <1>1
  <2>4. Head(list) \in NumbersOf(q)'
    BY <2>3 DEF NumbersOf
  <2>5. NumbersOf(q)' \subseteq NumbersOf(q) \cup {Head(list)}
    BY <2>1 DEF NumbersOf
  <2>6. NumbersOf(q) \subseteq NumbersOf(q)'
    BY <2>2 DEF NumbersOf
  <2>. QED  BY <2>4, <2>5, <2>6
<1>6. \A n \in Classes : n # q => NumbersOf(n)' = NumbersOf(n)
  BY <1>1 DEF NumbersOf
<1>7. ptr'[q] = Tail(list) /\ made'[q] = m
  BY <1>1 DEF StrIInv, StrTypeOK
<1>8. \A n \in Classes : n # q => ptr'[n] = ptr[n] /\ made'[n] = made[n]
  BY <1>1 DEF StrIInv, StrTypeOK
<1>9. Head(list) \notin NumbersOf(q)
  BY <1>2
<1>10. ASSUME NEW n \in Classes
       PROVE  /\ Listed(n)' \cup NumbersOf(n)' = 1 .. made'[n]
              /\ Listed(n)' \cap NumbersOf(n)' = {}
              /\ \A i, j \in DOMAIN ptr'[n] : ptr'[n][i] = ptr'[n][j] => i = j
  <2>1. CASE n = q
    <3>1. Listed(q)' = In(Tail(list))
      BY <1>7 DEF Listed, In
    <3>2. In(Tail(list)) \cup NumbersOf(q) \cup {Head(list)} = 1 .. m
      BY <1>2
    <3>3. In(Tail(list)) \cap (NumbersOf(q) \cup {Head(list)}) = {}
      BY <1>2
    <3>. QED  BY <2>1, <3>1, <3>2, <3>3, <1>2, <1>5, <1>7 DEF Distinct
  <2>2. CASE n # q
    BY <2>2, <1>6, <1>8 DEF StrIInv, EveryBlockOnce, Listed
  <2>. QED  BY <2>1, <2>2
<1>11. \A c, d \in held' : c.class = d.class /\ c.no = d.no => c = d
  <2>1. \A c \in held : ~ (c.class = q /\ c.no = Head(list))
    BY <1>9 DEF NumbersOf
  <2>. QED  BY <2>1, <1>1 DEF StrIInv, EveryBlockOnce
<1>12. EveryBlockOnce'
  BY <1>10, <1>11 DEF EveryBlockOnce
<1>. QED  BY <1>3, <1>4, <1>12 DEF StrIInv

\* The numbers of a new chunk.
LEMMA ChunkIsNew ==
    ASSUME PerChunk \in Nat \ {0}, NEW q \in Classes, made[q] \in Nat
    PROVE  /\ NewBlocks(q) \in Seq(Nat) /\ NewBlocks(q) # <<>> /\ Distinct(NewBlocks(q))
           /\ In(NewBlocks(q)) = made[q] + 1 .. made[q] + PerChunk
<1>1. NewBlocks(q) \in Seq(Nat) /\ DOMAIN NewBlocks(q) = 1 .. PerChunk
  BY IsASeq DEF NewBlocks
<1>2. \A i \in 1 .. PerChunk : NewBlocks(q)[i] = made[q] + i
  BY DEF NewBlocks
<1>3. NewBlocks(q) # <<>>
  BY <1>1, 1 \in 1 .. PerChunk
<1>4. Distinct(NewBlocks(q))
  BY <1>1, <1>2 DEF Distinct
<1>5. In(NewBlocks(q)) \subseteq made[q] + 1 .. made[q] + PerChunk
  BY <1>1, <1>2 DEF In
<1>6. ASSUME NEW x \in made[q] + 1 .. made[q] + PerChunk
      PROVE  x \in In(NewBlocks(q))
  <2>1. x - made[q] \in 1 .. PerChunk /\ NewBlocks(q)[x - made[q]] = x
    BY <1>2
  <2>. QED  BY <2>1, <1>1 DEF In
<1>. QED  BY <1>1, <1>3, <1>4, <1>5, <1>6

\* A block of any class from desize(bytes) on is large enough.
LEMMA ClassFits ==
    ASSUME NEW bytes \in 1 .. Largest, NEW q \in Classes, desize(bytes) <= q
    PROVE  bytes <= size_list[q]
<1>1. desize(bytes) \in Classes /\ bytes <= size_list[desize(bytes)]
  BY DesizeFits
<1>2. size_list[desize(bytes)] \in Nat /\ size_list[q] \in Nat /\ size_list[desize(bytes)] <= size_list[q]
  BY <1>1, SizesGrow
<1>. QED  BY <1>1, <1>2

\* A block from the first list, from desize(bytes) on, that has one.
LEMMA AllocateKeeps ==
    ASSUME StrIInv, NEW bytes \in Sizes, Allocate(bytes)
    PROVE  StrIInv'
<1>1. bytes \in 1 .. Largest /\ UNCHANGED made
  BY DEF Allocate, Served
<1>2. PICK q \in Classes : IsFirst(q, bytes) /\ Hand(q, ptr[q], bytes)
  BY DEF Allocate
<1>3. desize(bytes) \in Classes
  BY <1>1, DesizeFits
<1>4. desize(bytes) <= q /\ ptr[q] # <<>>
  BY <1>2, <1>3 DEF IsFirst, Classes
<1>5. bytes <= size_list[q]
  BY <1>1, <1>4, ClassFits
<1>6. ptr[q] \in Seq(Nat) /\ made[q] \in Nat /\ made' = [made EXCEPT ![q] = made[q]]
  BY <1>1 DEF StrIInv, StrTypeOK
<1>7. /\ Distinct(ptr[q])
      /\ In(ptr[q]) \cup NumbersOf(q) = 1 .. made[q]
      /\ In(ptr[q]) \cap NumbersOf(q) = {}
  BY DEF StrIInv, EveryBlockOnce, Distinct, In, Listed
<1>. QED  BY <1>1, <1>2, <1>4, <1>5, <1>6, <1>7, HandsOut

\* A new chunk of the least class, when no list has a block.
LEMMA AllocateNewKeeps ==
    ASSUME PerChunk \in Nat \ {0}, StrIInv, NEW bytes \in Sizes, AllocateNew(bytes)
    PROVE  StrIInv'
<1>. DEFINE q == desize(bytes)  m == made[q] + PerChunk
<1>1. /\ bytes \in 1 .. Largest
      /\ \A n \in q .. 18 : ptr[n] = <<>>
      /\ made' = [made EXCEPT ![q] = m]
      /\ Hand(q, NewBlocks(q), bytes)
  BY DEF AllocateNew, Served
<1>2. q \in Classes /\ bytes <= size_list[q]
  BY <1>1, DesizeFits
<1>3. made[q] \in Nat /\ m \in Nat
  BY <1>2 DEF StrIInv, StrTypeOK
<1>4. /\ NewBlocks(q) \in Seq(Nat) /\ NewBlocks(q) # <<>> /\ Distinct(NewBlocks(q))
      /\ In(NewBlocks(q)) = made[q] + 1 .. m
  BY <1>2, <1>3, ChunkIsNew
<1>5. ptr[q] = <<>>
  BY <1>1, <1>2 DEF Classes
<1>6. Listed(q) = {}
  BY <1>5 DEF Listed
<1>7. NumbersOf(q) = 1 .. made[q]
  BY <1>2, <1>6 DEF StrIInv, EveryBlockOnce
<1>8. In(NewBlocks(q)) \cup NumbersOf(q) = 1 .. m /\ In(NewBlocks(q)) \cap NumbersOf(q) = {}
  BY <1>3, <1>4, <1>7
<1>. HIDE DEF q, m
<1>. QED  BY <1>1, <1>2, <1>3, <1>4, <1>8, HandsOut

\* A block goes back to the list that its tag names, where it is not yet.
LEMMA DeallocateKeeps ==
    ASSUME StrIInv, NEW b \in held, Deallocate(b)
    PROVE  StrIInv'
<1>. DEFINE q == b.class
<1>1. /\ held' = held \ {b}
      /\ ptr' = [ptr EXCEPT ![q] = <<b.no>> \o ptr[q]]
      /\ made' = made
  BY DEF Deallocate
<1>2. b \in [class : Classes, no : Nat, size : 1 .. Largest] /\ q \in Classes /\ b.no \in Nat
  BY DEF StrIInv, StrTypeOK
<1>3. ptr[q] \in Seq(Nat) /\ Distinct(ptr[q])
  BY <1>2 DEF StrIInv, StrTypeOK, EveryBlockOnce, Distinct
<1>4. b.no \in NumbersOf(q) /\ In(ptr[q]) \cap NumbersOf(q) = {}
  BY <1>2 DEF StrIInv, EveryBlockOnce, NumbersOf, Listed, In
<1>5. /\ <<b.no>> \o ptr[q] \in Seq(Nat)
      /\ In(<<b.no>> \o ptr[q]) = In(ptr[q]) \cup {b.no}
      /\ Distinct(<<b.no>> \o ptr[q])
  BY <1>2, <1>3, <1>4, PutFirst
<1>6. StrTypeOK'
  BY <1>1, <1>5 DEF StrIInv, StrTypeOK
<1>7. BlocksFit'
  BY <1>1 DEF StrIInv, BlocksFit
<1>8. NumbersOf(q)' = NumbersOf(q) \ {b.no}
  BY <1>1 DEF StrIInv, EveryBlockOnce, NumbersOf
<1>9. \A n \in Classes : n # q => NumbersOf(n)' = NumbersOf(n)
  BY <1>1 DEF NumbersOf
<1>10. ptr'[q] = <<b.no>> \o ptr[q] /\ \A n \in Classes : n # q => ptr'[n] = ptr[n]
  BY <1>1, <1>2 DEF StrIInv, StrTypeOK
<1>11. ASSUME NEW n \in Classes
       PROVE  /\ Listed(n)' \cup NumbersOf(n)' = 1 .. made'[n]
              /\ Listed(n)' \cap NumbersOf(n)' = {}
              /\ \A i, j \in DOMAIN ptr'[n] : ptr'[n][i] = ptr'[n][j] => i = j
  <2>1. CASE n = q
    <3>1. Listed(q)' = In(ptr[q]) \cup {b.no}
      BY <1>5, <1>10 DEF Listed, In
    <3>2. In(ptr[q]) \cup NumbersOf(q) = 1 .. made[q]
      BY <1>2 DEF StrIInv, EveryBlockOnce, Listed, In
    <3>. QED  BY <2>1, <3>1, <3>2, <1>1, <1>4, <1>5, <1>8, <1>10 DEF Distinct
  <2>2. CASE n # q
    BY <2>2, <1>1, <1>9, <1>10 DEF StrIInv, EveryBlockOnce, Listed
  <2>. QED  BY <2>1, <2>2
<1>12. \A c, d \in held' : c.class = d.class /\ c.no = d.no => c = d
  BY <1>1 DEF StrIInv, EveryBlockOnce
<1>13. EveryBlockOnce'
  BY <1>11, <1>12 DEF EveryBlockOnce
<1>. QED  BY <1>6, <1>7, <1>13 DEF StrIInv

\* There are no blocks at first.
LEMMA StrInitIInv == StrInit => StrIInv
<1>. SUFFICES ASSUME StrInit PROVE StrIInv
  OBVIOUS
<1>1. StrTypeOK /\ BlocksFit
  BY EmptySeq DEF StrInit, StrTypeOK, BlocksFit
<1>2. EveryBlockOnce
  BY DEF StrInit, EveryBlockOnce, Listed, NumbersOf
<1>. QED  BY <1>1, <1>2 DEF StrIInv

\* Every step keeps the invariant.
LEMMA StrStepIInv ==
    ASSUME PerChunk \in Nat \ {0}
    PROVE  StrIInv /\ [StrNext]_strVars => StrIInv'
<1>. SUFFICES ASSUME StrIInv, [StrNext]_strVars PROVE StrIInv'
  OBVIOUS
<1>1. CASE UNCHANGED strVars
  <2>1. ptr' = ptr /\ made' = made /\ held' = held
    BY <1>1 DEF strVars
  <2>2. StrTypeOK'
    BY <2>1 DEF StrIInv, StrTypeOK
  <2>3. BlocksFit'
    BY <2>1 DEF StrIInv, BlocksFit
  <2>4. EveryBlockOnce'
    BY <2>1 DEF StrIInv, EveryBlockOnce, Listed, NumbersOf
  <2>. QED  BY <2>2, <2>3, <2>4 DEF StrIInv
<1>2. CASE StrNext
  BY <1>2, AllocateKeeps, AllocateNewKeeps, DeallocateKeeps DEF StrNext
<1>. QED  BY <1>1, <1>2

\* Whatever users ask for and give back, what each of them has is large enough.
THEOREM Fits == ASSUME PerChunk \in Nat \ {0} PROVE StrSpec => []BlocksFit
<1>1. StrIInv => BlocksFit
  BY DEF StrIInv
<1>. QED  BY <1>1, StrInitIInv, StrStepIInv, PTL DEF StrSpec

\* No block is ever lost, listed twice, or with two users.
THEOREM Once == ASSUME PerChunk \in Nat \ {0} PROVE StrSpec => []EveryBlockOnce
<1>1. StrIInv => EveryBlockOnce
  BY DEF StrIInv
<1>. QED  BY <1>1, StrInitIInv, StrStepIInv, PTL DEF StrSpec

-----------------------------------------------------------------------------
(* jallocator_t and jalloc *)

CONSTANTS FirstPool, MostBlocks, ChunkNumbers

VARIABLES pool, pool_size, pooled, lent,        \* of jallocator_t
          map, taken                            \* of jalloc

JT == INSTANCE JallocatorT WITH freeChunk <- pool, made <- pooled, held <- lent, MaxBlocks <- MostBlocks
J == INSTANCE Jallocator WITH Chunks <- ChunkNumbers, held <- taken

\* NoBlockLost, with the types; the blocks are numbered as they are made.
PoolIInv ==
    /\ pooled \in Nat /\ pool_size \in Nat /\ lent \subseteq 1 .. pooled
    /\ pool \in Seq(Nat) /\ In(pool) = (1 .. pooled) \ lent /\ Distinct(pool)

\* allocate() gives the first block of the list.
LEMMA PoolAllocate == PoolIInv /\ JT!Allocate => PoolIInv'
<1> SUFFICES ASSUME PoolIInv, JT!Allocate PROVE PoolIInv'
  OBVIOUS
<1>1. pool # <<>> /\ pool' = Tail(pool) /\ lent' = lent \cup {Head(pool)} /\ UNCHANGED <<pool_size, pooled>>
  BY DEF JT!Allocate
<1>2. /\ Head(pool) \in Nat /\ Tail(pool) \in Seq(Nat)
      /\ In(pool) = In(Tail(pool)) \cup {Head(pool)} /\ Head(pool) \notin In(Tail(pool))
      /\ Distinct(Tail(pool))
  BY <1>1, TakeFirst DEF PoolIInv
<1>. QED
  BY <1>1, <1>2 DEF PoolIInv

\* init() doubles the pool, and lists what it made: the users have all the rest.
LEMMA PoolRefill == PoolIInv /\ JT!Refill => PoolIInv'
<1> SUFFICES ASSUME PoolIInv, JT!Refill PROVE PoolIInv'
  OBVIOUS
<1>1. /\ pool = <<>> /\ pool' = [i \in 1 .. pool_size |-> pooled + i]
      /\ pooled' = pooled + pool_size /\ pool_size' = 2 * pool_size /\ UNCHANGED lent
  BY DEF JT!Refill
<1>2. pooled \in Nat /\ pool_size \in Nat
  BY DEF PoolIInv
<1>3. lent = 1 .. pooled
  <2>1. DOMAIN pool = {}
    BY <1>1
  <2>2. In(pool) = {}
    BY <2>1 DEF In
  <2>. QED
    BY <2>2 DEF PoolIInv
<1>4. pool' \in Seq(Nat) /\ DOMAIN pool' = 1 .. pool_size /\ \A i \in 1 .. pool_size : pool'[i] = pooled + i
  BY <1>1, <1>2
<1>5. Distinct(pool')
  BY <1>2, <1>4 DEF Distinct
<1>6. In(pool') = pooled + 1 .. pooled + pool_size
  <2>1. \A x \in pooled + 1 .. pooled + pool_size : x - pooled \in 1 .. pool_size /\ x = pooled + (x - pooled)
    BY <1>2
  <2>2. \A i \in 1 .. pool_size : pooled + i \in pooled + 1 .. pooled + pool_size
    BY <1>2
  <2>. QED
    BY <1>4, <2>1, <2>2 DEF In
<1>7. pooled + 1 .. pooled + pool_size = (1 .. pooled + pool_size) \ (1 .. pooled)
  BY <1>2
<1>8. 1 .. pooled \subseteq 1 .. pooled + pool_size
  BY <1>2
<1>. QED
  BY <1>1, <1>2, <1>3, <1>4, <1>5, <1>6, <1>7, <1>8 DEF PoolIInv

\* deallocate() puts the block first in the list.
LEMMA PoolDeallocate == ASSUME PoolIInv, NEW b, JT!Deallocate(b) PROVE PoolIInv'
<1>1. b \in lent /\ lent' = lent \ {b} /\ pool' = <<b>> \o pool /\ UNCHANGED <<pool_size, pooled>>
  BY DEF JT!Deallocate
<1>2. b \in Nat /\ b \notin In(pool) /\ pool \in Seq(Nat) /\ Distinct(pool)
  BY <1>1 DEF PoolIInv
<1>3. pool' \in Seq(Nat) /\ In(pool') = In(pool) \cup {b} /\ Distinct(pool')
  BY <1>1, <1>2, PutFirst
<1>. QED
  BY <1>1, <1>3 DEF PoolIInv

\* For any size of the first pool and however often it doubles, every block of
\* jallocator_t is in the list or with one user, and none is lost or given twice.
THEOREM NoneLost == ASSUME FirstPool \in Nat PROVE JT!Spec => []JT!NoBlockLost
<1>1. JT!Init => PoolIInv
  BY EmptySeq DEF JT!Init, PoolIInv, In, Distinct
<1>2. PoolIInv /\ [JT!Next]_JT!vars => PoolIInv'
  <2>1. PoolIInv /\ JT!Next => PoolIInv'
    BY PoolAllocate, PoolRefill, PoolDeallocate DEF JT!Next
  <2>2. PoolIInv /\ UNCHANGED JT!vars => PoolIInv'
    BY DEF PoolIInv, JT!vars, In, Distinct
  <2>. QED
    BY <2>1, <2>2
<1>3. PoolIInv => JT!NoBlockLost
  BY DEF PoolIInv, JT!NoBlockLost, In, Distinct
<1>. QED
  BY <1>1, <1>2, <1>3, PTL DEF JT!Spec

\* A chunk of jalloc: its count is that of its free list, which has some of its
\* blocks, each once, and none that a user has.
ChunkRecords == [no : ChunkNumbers, freeptr : Seq(Nat), rest : Nat]
Exact(m, blocks) ==
    /\ m.rest = Len(m.freeptr) /\ Distinct(m.freeptr) /\ In(m.freeptr) \subseteq 1 .. PerChunk
    /\ \A n \in In(m.freeptr) : <<m.no, n>> \notin blocks

\* Chunks and the blocks that the user has, as they should be.
Kept(chunks, blocks) ==
    /\ chunks \in Seq(ChunkRecords)
    /\ \A i, j \in DOMAIN chunks : chunks[i].no = chunks[j].no => i = j
    /\ blocks \subseteq ChunkNumbers \X (1 .. PerChunk)
    /\ \A b \in blocks : \E i \in DOMAIN chunks : chunks[i].no = b[1]
    /\ \A i \in DOMAIN chunks : Exact(chunks[i], blocks)

\* A block of every chunk that has one is taken, and one of them is given out: the
\* others are lost, and the counts say so.
LEMMA KeptTaken ==
    ASSUME NEW chunks, NEW blocks, Kept(chunks, blocks),
           NEW last \in DOMAIN chunks, chunks[last].rest > 0
    PROVE  Kept([i \in DOMAIN chunks |-> J!Less(chunks[i])],
                blocks \cup {<<chunks[last].no, Head(chunks[last].freeptr)>>})
<1> DEFINE less == [i \in DOMAIN chunks |-> J!Less(chunks[i])]
           b == <<chunks[last].no, Head(chunks[last].freeptr)>>
<1>1. \A i \in DOMAIN chunks : chunks[i] \in ChunkRecords /\ Exact(chunks[i], blocks)
  BY DEF Kept
<1>2. DOMAIN less = DOMAIN chunks /\ DOMAIN chunks = 1 .. Len(chunks)
  BY DEF Kept
<1>3. ASSUME NEW i \in DOMAIN chunks, chunks[i].rest > 0
      PROVE  /\ chunks[i].freeptr \in Seq(Nat) /\ chunks[i].freeptr # <<>>
             /\ less[i] = [chunks[i] EXCEPT !.rest = @ - 1, !.freeptr = Tail(@)]
             /\ less[i].no = chunks[i].no /\ less[i].rest = chunks[i].rest - 1
             /\ less[i].freeptr = Tail(chunks[i].freeptr) /\ less[i] \in ChunkRecords
  <2>1. chunks[i].freeptr \in Seq(Nat) /\ chunks[i].rest \in Nat /\ chunks[i].no \in ChunkNumbers
    BY <1>1 DEF ChunkRecords
  <2>2. chunks[i].freeptr # <<>>
    BY <1>1, <1>3, <2>1 DEF Exact
  <2>3. less[i] = [chunks[i] EXCEPT !.rest = @ - 1, !.freeptr = Tail(@)]
    BY <1>3 DEF J!Less
  <2>4. less[i].no = chunks[i].no /\ less[i].rest = chunks[i].rest - 1 /\ less[i].freeptr = Tail(chunks[i].freeptr)
    BY <1>1, <2>3 DEF ChunkRecords
  <2>5. Tail(chunks[i].freeptr) \in Seq(Nat) /\ chunks[i].rest - 1 \in Nat
    BY <1>3, <2>1, <2>2
  <2>6. less[i] \in ChunkRecords
    BY <1>1, <2>3, <2>5 DEF ChunkRecords
  <2>. QED
    BY <2>1, <2>2, <2>3, <2>4, <2>6
<1>4. ASSUME NEW i \in DOMAIN chunks, ~(chunks[i].rest > 0) PROVE less[i] = chunks[i]
  BY <1>4 DEF J!Less
<1>5. b \in ChunkNumbers \X (1 .. PerChunk) /\ b[1] = chunks[last].no
  <2>1. Head(chunks[last].freeptr) \in In(chunks[last].freeptr)
    <3>1. chunks[last].freeptr \in Seq(Nat) /\ chunks[last].freeptr # <<>> /\ Distinct(chunks[last].freeptr)
      BY <1>1, <1>3 DEF Exact
    <3>. QED
      BY <3>1, TakeFirst
  <2>. QED
    BY <1>1, <2>1 DEF Exact, ChunkRecords
<1>6. \A i \in DOMAIN chunks : less[i].no = chunks[i].no /\ less[i] \in ChunkRecords
  BY <1>1, <1>3, <1>4
<1>7. \A i \in DOMAIN chunks : Exact(less[i], blocks \cup {b})
  <2> TAKE i \in DOMAIN chunks
  <2>1. CASE chunks[i].rest > 0
    <3> DEFINE l == chunks[i].freeptr
    <3>1. l \in Seq(Nat) /\ l # <<>> /\ Distinct(l)
      BY <1>1, <1>3, <2>1 DEF Exact
    <3>2. /\ In(l) = In(Tail(l)) \cup {Head(l)} /\ Head(l) \notin In(Tail(l)) /\ Distinct(Tail(l))
      BY <3>1, TakeFirst
    <3>3. Len(Tail(l)) = Len(l) - 1
      BY <3>1
    <3>4. \A n \in In(Tail(l)) : <<chunks[i].no, n>> # b
      BY <3>2 DEF Kept
    <3>. QED
      BY <1>1, <1>3, <2>1, <3>2, <3>3, <3>4 DEF Exact
  <2>2. CASE ~(chunks[i].rest > 0)
    <3>1. less[i] = chunks[i] /\ i # last
      BY <1>4, <2>2
    <3>2. chunks[i].no # chunks[last].no
      BY <3>1 DEF Kept
    <3>. QED
      BY <1>1, <3>1, <3>2 DEF Exact
  <2>. QED
    BY <2>1, <2>2
<1>8. less \in Seq(ChunkRecords)
  <2> HIDE DEF less
  <2>1. less \in [1 .. Len(chunks) -> ChunkRecords] /\ Len(chunks) \in Nat
    <3>1. less = [i \in DOMAIN chunks |-> less[i]]
      BY DEF less
    <3>. QED
      BY <1>2, <1>6, <3>1 DEF Kept
  <2>. QED
    BY <2>1
<1> HIDE DEF less, b
<1>9. Kept(less, blocks \cup {b})
  <2>1. \A i, j \in DOMAIN less : less[i].no = less[j].no => i = j
    BY <1>2, <1>6 DEF Kept
  <2>2. \A c \in blocks \cup {b} : \E i \in DOMAIN less : less[i].no = c[1]
    BY <1>2, <1>5, <1>6 DEF Kept
  <2>3. blocks \cup {b} \subseteq ChunkNumbers \X (1 .. PerChunk)
    BY <1>5 DEF Kept
  <2>. QED
    BY <1>2, <1>7, <1>8, <2>1, <2>2, <2>3 DEF Kept
<1>. QED
  BY <1>9 DEF less, b

\* A new chunk has all its blocks, and nobody has one of them.
LEMMA KeptNew ==
    ASSUME PerChunk \in Nat, Kept(map, taken), ChunkNumbers \ J!Numbers # {}
    PROVE  Kept(Append(map, J!NewChunk), taken)
<1> DEFINE m == J!NewChunk  all == [i \in 1 .. PerChunk |-> i]  more == Append(map, m)
<1>1. m.no \in ChunkNumbers \ J!Numbers /\ m.freeptr = all /\ m.rest = PerChunk
      /\ m = [no |-> m.no, freeptr |-> all, rest |-> PerChunk]
  BY DEF J!NewChunk
<1>2. all \in Seq(Nat) /\ Len(all) = PerChunk /\ Distinct(all) /\ In(all) = 1 .. PerChunk
  BY DEF Distinct, In
<1>3. m \in ChunkRecords
  BY <1>1, <1>2 DEF ChunkRecords
<1>4. /\ more \in Seq(ChunkRecords) /\ Len(more) = Len(map) + 1
      /\ DOMAIN more = 1 .. Len(map) + 1 /\ DOMAIN map = 1 .. Len(map)
      /\ more[Len(map) + 1] = m /\ \A i \in DOMAIN map : more[i] = map[i]
  BY <1>3 DEF Kept
<1>5. \A i \in DOMAIN map : map[i].no # m.no
  BY <1>1 DEF J!Numbers
<1>6. Exact(m, taken)
  <2>1. \A n : <<m.no, n>> \notin taken
    BY <1>5 DEF Kept
  <2>. QED
    BY <1>1, <1>2, <2>1 DEF Exact
<1>7. \A i \in DOMAIN more : i = Len(map) + 1 \/ i \in DOMAIN map
  BY <1>4
<1> HIDE DEF m, all, more
<1>8. \A i, j \in DOMAIN more : more[i].no = more[j].no => i = j
  BY <1>4, <1>5, <1>7 DEF Kept
<1>9. \A b \in taken : \E i \in DOMAIN more : more[i].no = b[1]
  BY <1>4 DEF Kept
<1>10. \A i \in DOMAIN more : Exact(more[i], taken)
  BY <1>4, <1>6, <1>7 DEF Kept
<1>11. Kept(more, taken)
  BY <1>4, <1>8, <1>9, <1>10 DEF Kept
<1>. QED
  BY <1>11 DEF more, m

\* The list of chunks without the i-th.
LEMMA Without ==
    ASSUME NEW S, NEW s \in Seq(S), NEW i \in 1 .. Len(s)
    PROVE  /\ J!RemoveAt(s, i) \in Seq(S) /\ Len(J!RemoveAt(s, i)) = Len(s) - 1
           /\ \A k \in 1 .. Len(s) - 1 : J!RemoveAt(s, i)[k] = IF k < i THEN s[k] ELSE s[k + 1]
<1> DEFINE a == SubSeq(s, 1, i - 1)  b == SubSeq(s, i + 1, Len(s))
<1>1. a \in Seq(S) /\ Len(a) = i - 1 /\ \A k \in 1 .. i - 1 : a[k] = s[k]
  OBVIOUS
<1>2. b \in Seq(S) /\ Len(b) = Len(s) - i /\ \A k \in 1 .. Len(s) - i : b[k] = s[k + i]
  OBVIOUS
<1> HIDE DEF a, b
<1>3. a \o b \in Seq(S) /\ Len(a \o b) = Len(s) - 1
  <2>1. a \o b \in Seq(S) /\ Len(a \o b) = Len(a) + Len(b)
    BY <1>1, <1>2, ConcatProperties
  <2>2. Len(a) + Len(b) = Len(s) - 1
    BY <1>1, <1>2
  <2>. QED
    BY <2>1, <2>2
<1>4. \A k \in 1 .. Len(s) - 1 : (a \o b)[k] = IF k <= i - 1 THEN a[k] ELSE b[k - (i - 1)]
  BY <1>1, <1>2, ConcatProperties
<1>5. \A k \in 1 .. Len(s) - 1 : k >= i => k - (i - 1) \in 1 .. Len(s) - i /\ (k - (i - 1)) + i = k + 1
  OBVIOUS
<1>6. \A k \in 1 .. Len(s) - 1 : (a \o b)[k] = IF k < i THEN s[k] ELSE s[k + 1]
  BY <1>1, <1>2, <1>4, <1>5
<1>. QED
  BY <1>3, <1>6 DEF J!RemoveAt, a, b

\* A list without repetitions is as long as the set of its elements.
LEMMA LengthIs ==
    ASSUME NEW l \in Seq(Nat), Distinct(l)
    PROVE  Cardinality(In(l)) = Len(l)
<1>1. l \in [1 .. Len(l) -> In(l)] /\ Len(l) \in Nat
  BY DEF In
<1>2. l \in Bijection(1 .. Len(l), In(l))
  BY <1>1 DEF Distinct, Bijection, Injection, Surjection, IsInjective, In
<1>3. ExistsBijection(1 .. Len(l), In(l))
  BY <1>2 DEF ExistsBijection
<1>. QED
  BY <1>1, <1>3, FS_CountingElements

\* The chunk that deallocate() finds for a block.
ChunkOf(b) == J!SelectInSeq(map, LAMBDA m : m.no = b[1])

\* A block of the user's has one chunk, and that is the one found.
LEMMA ChunkFound ==
    ASSUME Kept(map, taken), NEW b \in taken
    PROVE  ChunkOf(b) \in DOMAIN map /\ map[ChunkOf(b)].no = b[1]
<1> DEFINE I == {k \in 1 .. Len(map) : map[k].no = b[1]}
<1>1. ChunkOf(b) = IF I # {} THEN J!Min(I) ELSE 0
  BY DEF ChunkOf, J!SelectInSeq
<1>2. PICK i \in DOMAIN map : map[i].no = b[1]
  BY DEF Kept
<1>3. DOMAIN map = 1 .. Len(map) /\ i \in Nat
  BY <1>2 DEF Kept
<1>4. I = {i}
  BY <1>2, <1>3 DEF Kept
<1>5. J!Min({i}) = i
  BY <1>3 DEF J!Min
<1>. QED
  BY <1>1, <1>2, <1>4, <1>5

\* A block comes back to its chunk, which goes when it has all its blocks: then the
\* user has none of them.
LEMMA KeptReturned ==
    ASSUME PerChunk \in Nat, Kept(map, taken), NEW b \in taken, J!Deallocate(b)
    PROVE  Kept(map', taken')
<1> DEFINE i == ChunkOf(b)
           m == [map[i] EXCEPT !.rest = @ + 1, !.freeptr = <<b[2]>> \o @]
<1>1. /\ taken' = taken \ {b}
      /\ map' = IF m.rest = PerChunk THEN J!RemoveAt(map, i) ELSE [map EXCEPT ![i] = m]
  BY DEF J!Deallocate, ChunkOf
<1>2. i \in DOMAIN map /\ map[i].no = b[1]
  BY ChunkFound
<1>3. b = <<b[1], b[2]>> /\ b[1] \in ChunkNumbers /\ b[2] \in 1 .. PerChunk
  BY DEF Kept
<1>4. map[i] \in ChunkRecords /\ Exact(map[i], taken)
  BY <1>2 DEF Kept
<1>5. /\ map[i].freeptr \in Seq(Nat) /\ Distinct(map[i].freeptr) /\ b[2] \notin In(map[i].freeptr)
      /\ map[i].rest \in Nat /\ map[i].rest = Len(map[i].freeptr)
  BY <1>2, <1>3, <1>4 DEF ChunkRecords, Exact
<1> DEFINE l == <<b[2]>> \o map[i].freeptr
<1>6. l \in Seq(Nat) /\ In(l) = In(map[i].freeptr) \cup {b[2]} /\ Distinct(l)
  BY <1>3, <1>5, PutFirst
<1>7. Len(l) = Len(map[i].freeptr) + 1
  BY <1>3, <1>5
<1>8. m.no = b[1] /\ m.freeptr = l /\ m.rest = map[i].rest + 1
  BY <1>2, <1>4 DEF ChunkRecords
<1>9. m \in ChunkRecords
  <2>1. map[i].rest + 1 \in Nat
    BY <1>5
  <2> HIDE DEF i, l
  <2>2. m = [map[i] EXCEPT !.rest = map[i].rest + 1, !.freeptr = l]
    BY DEF l
  <2>. QED
    BY <1>4, <1>6, <2>1, <2>2 DEF ChunkRecords
<1>10. Exact(m, taken \ {b})
  <2>1. In(l) \subseteq 1 .. PerChunk
    BY <1>3, <1>4, <1>6 DEF Exact
  <2>2. \A n \in In(l) : <<b[1], n>> \notin taken \ {b}
    BY <1>2, <1>3, <1>4, <1>6 DEF Exact
  <2>. QED
    BY <1>5, <1>6, <1>7, <1>8, <2>1, <2>2 DEF Exact
<1>11. DOMAIN map = 1 .. Len(map) /\ Len(map) \in Nat
  BY DEF Kept
<1>12. \A j \in DOMAIN map : j # i => map[j].no # b[1] /\ Exact(map[j], taken \ {b})
  BY <1>2 DEF Kept, Exact
<1> HIDE DEF i, m, l
<1>13. CASE m.rest = PerChunk
  <2>1. In(l) = 1 .. PerChunk
    <3>1. In(l) \subseteq 1 .. PerChunk /\ Cardinality(In(l)) = PerChunk
      BY <1>6, <1>8, <1>10, <1>13, LengthIs DEF Exact
    <3>2. IsFiniteSet(1 .. PerChunk) /\ Cardinality(1 .. PerChunk) = PerChunk
      BY FS_Interval
    <3>. QED
      BY <3>1, <3>2, FS_Subset
  <2>2. \A c \in taken \ {b} : c[1] # b[1]
    <3> SUFFICES ASSUME NEW c \in taken \ {b}, c[1] = b[1] PROVE FALSE
      OBVIOUS
    <3>1. c = <<b[1], c[2]>> /\ c[2] \in 1 .. PerChunk
      BY DEF Kept
    <3>. QED
      BY <1>8, <1>10, <2>1, <3>1 DEF Exact
  <2> DEFINE at(k) == IF k < i THEN k ELSE k + 1
  <2>3. map' = J!RemoveAt(map, i)
    BY <1>1, <1>13
  <2>4. map' \in Seq(ChunkRecords) /\ Len(map') = Len(map) - 1 /\ \A k \in 1 .. Len(map) - 1 : map'[k] = map[at(k)]
    <3>1. map \in Seq(ChunkRecords) /\ i \in 1 .. Len(map)
      BY <1>2, <1>11 DEF Kept
    <3>. QED
      BY <2>3, <3>1, Without
  <2>5. DOMAIN map' = 1 .. Len(map) - 1
    BY <2>4
  <2>6. \A k \in DOMAIN map' : at(k) \in DOMAIN map /\ at(k) # i
    BY <1>2, <1>11, <2>5
  <2>7. \A k, n \in DOMAIN map' : at(k) = at(n) => k = n
    BY <1>2, <1>11, <2>5
  <2>8. \A j \in DOMAIN map : j # i => \E k \in DOMAIN map' : at(k) = j
    <3> TAKE j \in DOMAIN map
    <3> HAVE j # i
    <3>1. CASE j < i
      BY <1>2, <1>11, <2>5, <3>1
    <3>2. CASE j > i
      <4>1. j - 1 \in DOMAIN map' /\ ~(j - 1 < i) /\ (j - 1) + 1 = j
        BY <1>2, <1>11, <2>5, <3>2
      <4>. QED
        BY <4>1
    <3>. QED
      BY <1>2, <1>11, <3>1, <3>2
  <2> HIDE DEF at
  <2>9. \A k \in DOMAIN map' : map'[k] = map[at(k)]
    BY <2>4, <2>5
  <2>10. \A k, n \in DOMAIN map' : map'[k].no = map'[n].no => k = n
    BY <2>6, <2>7, <2>9 DEF Kept
  <2>11. \A c \in taken' : \E k \in DOMAIN map' : map'[k].no = c[1]
    <3> TAKE c \in taken'
    <3>1. PICK j \in DOMAIN map : map[j].no = c[1]
      BY <1>1 DEF Kept
    <3>2. j # i
      BY <1>1, <1>2, <2>2, <3>1
    <3>. QED
      BY <2>8, <2>9, <3>1, <3>2
  <2>12. \A k \in DOMAIN map' : Exact(map'[k], taken')
    <3> TAKE k \in DOMAIN map'
    <3>1. Exact(map[at(k)], taken \ {b})
      BY <1>12, <2>6
    <3>2. map'[k] = map[at(k)] /\ taken' = taken \ {b}
      BY <1>1, <2>9
    <3>. QED
      BY <3>1, <3>2, Zenon
  <2>13. taken' \subseteq ChunkNumbers \X (1 .. PerChunk)
    BY <1>1 DEF Kept
  <2>. QED
    BY <2>4, <2>10, <2>11, <2>12, <2>13 DEF Kept
<1>14. CASE m.rest # PerChunk
  <2>1. map' = [map EXCEPT ![i] = m]
    BY <1>1, <1>14
  <2>2. map' \in Seq(ChunkRecords) /\ DOMAIN map' = DOMAIN map
    <3>1. map \in [1 .. Len(map) -> ChunkRecords]
      BY <1>11 DEF Kept
    <3>2. map' \in [1 .. Len(map) -> ChunkRecords]
      BY <1>9, <2>1, <3>1
    <3>. QED
      BY <1>11, <3>2
  <2>3. \A j \in DOMAIN map : map'[j] = IF j = i THEN m ELSE map[j]
    BY <2>1
  <2>4. \A j \in DOMAIN map : map'[j].no = map[j].no
    BY <1>2, <1>8, <2>3
  <2>5. \A j, k \in DOMAIN map' : map'[j].no = map'[k].no => j = k
    BY <2>2, <2>4 DEF Kept
  <2>6. \A c \in taken' : \E j \in DOMAIN map' : map'[j].no = c[1]
    BY <1>1, <2>2, <2>4 DEF Kept
  <2>7. \A j \in DOMAIN map' : Exact(map'[j], taken')
    BY <1>1, <1>10, <1>12, <2>2, <2>3
  <2>8. taken' \subseteq ChunkNumbers \X (1 .. PerChunk)
    BY <1>1 DEF Kept
  <2>. QED
    BY <2>2, <2>5, <2>6, <2>7, <2>8 DEF Kept
<1>. QED
  BY <1>13, <1>14

\* The chunk that allocate() gives a block of.
LastWith(chunks) == J!SelectLastInSeq(chunks, LAMBDA m : m.rest > 0)

\* Where some chunk has a block, the last that has one is there, and has one.
LEMMA LastHasOne ==
    ASSUME NEW chunks \in Seq(ChunkRecords), \E i \in DOMAIN chunks : chunks[i].rest > 0
    PROVE  LastWith(chunks) \in DOMAIN chunks /\ chunks[LastWith(chunks)].rest > 0
<1> DEFINE I == {k \in 1 .. Len(chunks) : chunks[k].rest > 0}
<1>1. LastWith(chunks) = IF I # {} THEN J!Max(I) ELSE 0
  BY DEF LastWith, J!SelectLastInSeq
<1>2. I # {} /\ I \in SUBSET (0 .. Len(chunks)) /\ Len(chunks) \in Nat /\ I \subseteq DOMAIN chunks
  OBVIOUS
<1>3. J!Max(I) \in I
  <2> HIDE DEF I
  <2>1. PICK x \in I : \A y \in I : y <= x
    BY <1>2, Greatest
  <2>2. \E x1 \in I : \A y \in I : x1 >= y
    BY <2>1
  <2>. QED
    BY <2>2 DEF J!Max
<1>. QED
  BY <1>1, <1>2, <1>3

\* allocate() leaves the chunks as they should be, once one of them has a block.
LEMMA KeptGiven ==
    ASSUME NEW chunks, Kept(chunks, taken), \E i \in DOMAIN chunks : chunks[i].rest > 0, J!Take(chunks)
    PROVE  Kept(map', taken')
<1>1. LastWith(chunks) \in DOMAIN chunks /\ chunks[LastWith(chunks)].rest > 0
  BY LastHasOne DEF Kept
<1>2. /\ map' = [i \in DOMAIN chunks |-> J!Less(chunks[i])]
      /\ taken' = taken \cup {<<chunks[LastWith(chunks)].no, Head(chunks[LastWith(chunks)].freeptr)>>}
  BY DEF J!Take, LastWith
<1>. QED
  BY <1>1, <1>2, KeptTaken

\* For any size of the chunks, the count that decides when jalloc gives a chunk back
\* is exact whatever the chunk has lost, and no chunk goes while the user has a block
\* of it.
THEOREM ChunksStay == ASSUME PerChunk \in Nat \ {0} PROVE J!Spec => []J!ChunksAreSafe
<1> DEFINE Inv == Kept(map, taken)
<1>1. J!Init => Inv
  <2> SUFFICES ASSUME J!Init PROVE Inv
    OBVIOUS
  <2>1. map = <<>> /\ taken = {} /\ DOMAIN map = {}
    BY DEF J!Init
  <2>2. map \in Seq(ChunkRecords)
    BY <2>1, EmptySeq
  <2>. QED
    BY <2>1, <2>2 DEF Kept
<1>2. Inv /\ [J!Next]_J!vars => Inv'
  <2> SUFFICES ASSUME Kept(map, taken), [J!Next]_J!vars PROVE Kept(map', taken')
    OBVIOUS
  <2>1. CASE J!Allocate
    BY <2>1, KeptGiven DEF J!Allocate
  <2>2. CASE J!AllocateNew
    <3> DEFINE more == Append(map, J!NewChunk)
    <3>1. Kept(more, taken)
      BY <2>2, KeptNew DEF J!AllocateNew
    <3>2. \E i \in DOMAIN more : more[i].rest > 0
      <4>1. Len(map) + 1 \in DOMAIN more /\ more[Len(map) + 1] = J!NewChunk
        BY DEF Kept
      <4>2. J!NewChunk.rest > 0
        BY DEF J!NewChunk
      <4>. QED
        BY <4>1, <4>2
    <3>3. J!Take(more)
      BY <2>2 DEF J!AllocateNew
    <3> HIDE DEF more
    <3>. QED
      BY <3>1, <3>2, <3>3, KeptGiven
  <2>3. ASSUME NEW b \in taken, J!Deallocate(b) PROVE Kept(map', taken')
    BY <2>3, KeptReturned
  <2>4. CASE UNCHANGED J!vars
    BY <2>4 DEF J!vars
  <2>. QED
    BY <2>1, <2>2, <2>3, <2>4 DEF J!Next
<1>3. Inv => J!ChunksAreSafe
  <2> SUFFICES ASSUME Kept(map, taken) PROVE J!ChunksAreSafe
    OBVIOUS
  <2>1. \A b \in taken : b[1] \in J!Numbers
    BY DEF Kept, J!Numbers
  <2>2. ASSUME NEW i \in DOMAIN map
        PROVE  /\ map[i].rest = Len(map[i].freeptr)
               /\ J!Cardinality(J!ToSet(map[i].freeptr)) = map[i].rest
               /\ \A n \in J!ToSet(map[i].freeptr) : <<map[i].no, n>> \notin taken
    <3>1. map[i].freeptr \in Seq(Nat) /\ Exact(map[i], taken)
      <4>1. map[i] \in ChunkRecords /\ Exact(map[i], taken)
        BY DEF Kept
      <4>. QED
        BY <4>1 DEF ChunkRecords
    <3>2. J!ToSet(map[i].freeptr) = In(map[i].freeptr)
      BY DEF J!ToSet, In
    <3>3. J!Cardinality(In(map[i].freeptr)) = Cardinality(In(map[i].freeptr))
      BY DEF J!Cardinality, Cardinality
    <3>. QED
      BY <3>1, <3>2, <3>3, LengthIs DEF Exact
  <2>3. \A i \in DOMAIN map : LET m == map[i] IN
          /\ m.rest = Len(m.freeptr)
          /\ J!Cardinality(J!ToSet(m.freeptr)) = m.rest
          /\ \A n \in J!ToSet(m.freeptr) : <<m.no, n>> \notin taken
    BY <2>2
  <2>. QED
    BY <2>1, <2>3, Zenon DEF J!ChunksAreSafe
<1>. QED
  BY <1>1, <1>2, <1>3, PTL DEF J!Spec

-----------------------------------------------------------------------------
(* Jector *)

Even == {2 * n : n \in Nat}

\* The room is even, and enough.
JecIInv ==
    /\ jec \in Seq(Values \cup {Unset})
    /\ capacity \in Even \ {0} /\ Len(jec) <= capacity

\* The quotient that the length of the copy is.
LEMMA Quotient ==
    ASSUME NEW k \in Nat, k # 0, NEW n \in Nat, NEW m \in Nat, m >= k * n
    PROVE  m \div k >= n
<1> DEFINE q == m \div k
<1>1. q \in Nat /\ m < k * (q + 1)
  <2>1. m \div k \in Int /\ (m % k) \in 0 .. k - 1 /\ m = k * (m \div k) + (m % k)
    <3>1. m \div k \in Int
      OBVIOUS
    <3>2. (m % k) \in 0 .. k - 1
      OBVIOUS
    <3>3. m = k * (m \div k) + (m % k)
      OBVIOUS
    <3>. QED
      BY <3>1, <3>2, <3>3
  <2>2. m < k * (m \div k) + k
    BY <2>1
  <2>. QED
    BY <2>1, <2>2
<1> HIDE DEF q
<1>2. CASE q < n
  <2>1. q + 1 <= n
    BY <1>1, <1>2
  <2>2. PICK d \in Nat : n = (q + 1) + d
    <3>1. n - (q + 1) \in Nat /\ n = (q + 1) + (n - (q + 1))
      BY <1>1, <2>1
    <3>. QED
      BY <3>1
  <2>3. k * n = k * (q + 1) + k * d /\ k * d \in Nat /\ k * (q + 1) \in Nat
    BY <1>1, <2>2
  <2>. QED
    BY <1>1, <2>3
<1>. QED
  BY <1>1, <1>2 DEF q

\* Of elements of four, eight, twelve ... bytes refill() copies all that an even room
\* has, and all but one that an odd one has.
LEMMA CopiedIs ==
    ASSUME NEW k \in Nat, k # 0, ElementSize = 4 * k, NEW c \in Nat
    PROVE  /\ c \in Even => Copied(c) >= c
           /\ Copied(c) >= c - 1 /\ Copied(c) \in Nat
<1>1. CASE c * ElementSize < 8
  BY <1>1 DEF Copied
<1>2. CASE c * ElementSize >= 8
  <2> DEFINE b == c * ElementSize  l == 8 * (b \div 8)
  <2>1. b \in Nat /\ ElementSize \in Nat /\ ElementSize # 0 /\ b = 4 * (c * k) /\ c * k \in Nat
    OBVIOUS
  <2>2. Copied(c) = l \div ElementSize
    BY <1>2 DEF Copied
  <2>3. l \in Nat /\ l >= b - 4
    <3>1. \A n \in Nat : 8 * ((4 * n) \div 8) >= 4 * n - 4 /\ 8 * ((4 * n) \div 8) \in Nat
      OBVIOUS
    <3>. QED
      BY <2>1, <3>1
  <2>4. CASE c \in Even
    <3>1. PICK d \in Nat : c = 2 * d
      BY <2>4 DEF Even
    <3>2. b = 8 * (d * k) /\ d * k \in Nat
      BY <3>1
    <3>3. \A n \in Nat : 8 * ((8 * n) \div 8) = 8 * n
      OBVIOUS
    <3>4. l = ElementSize * c
      <4>1. l = 8 * (d * k)
        BY <3>2, <3>3
      <4>2. ElementSize * c = 8 * (d * k)
        BY <3>1
      <4>. QED
        BY <4>1, <4>2
    <3> HIDE DEF l
    <3>5. l \div ElementSize >= c /\ l \div ElementSize \in Nat
      BY <2>1, <2>3, <3>4, Quotient
    <3>. QED
      BY <2>2, <3>5
  <2>5. CASE c \notin Even
    <3>1. c # 0 /\ c - 1 \in Nat
      BY <2>5 DEF Even
    <3>2. ElementSize * (c - 1) = b - ElementSize /\ ElementSize >= 4
      BY <2>1
    <3>3. l >= ElementSize * (c - 1)
      BY <2>1, <2>3, <3>2
    <3> HIDE DEF l
    <3>4. l \div ElementSize >= c - 1 /\ l \div ElementSize \in Nat
      BY <2>1, <2>3, <3>1, <3>3, Quotient
    <3>. QED
      BY <2>2, <2>5, <3>4
  <2>. QED
    BY <2>4, <2>5
<1>3. c * ElementSize \in Nat
  OBVIOUS
<1>. QED
  BY <1>1, <1>2, <1>3

\* Growing brings every element over.
LEMMA GrownIs ==
    ASSUME NEW k \in Nat, k # 0, ElementSize = 4 * k, JecIInv
    PROVE  Grown = jec
<1>1. capacity \in Nat /\ capacity \in Even /\ Len(jec) <= capacity /\ jec \in Seq(Values \cup {Unset})
  BY DEF JecIInv, Even
<1>2. Copied(capacity) >= capacity /\ Copied(capacity) \in Nat
  BY <1>1, CopiedIs
<1>3. \A i \in 1 .. Len(jec) : i <= Copied(capacity)
  BY <1>1, <1>2
<1>4. Grown = [i \in 1 .. Len(jec) |-> jec[i]]
  BY <1>3 DEF Grown, size
<1>. QED
  BY <1>1, <1>4

\* And it makes room for one more.
LEMMA GrowIs ==
    ASSUME JecIInv, Grow
    PROVE  capacity' \in Even \ {0} /\ Len(jec) + 1 <= capacity'
<1>1. PICK n \in Nat \ {0} : capacity = 2 * n
  BY DEF JecIInv, Even
<1>4. Len(jec) \in Nat
  BY DEF JecIInv
<1>2. CASE Len(jec) < capacity
  BY <1>1, <1>2, <1>4 DEF JecIInv, Grow, size
<1>3. CASE ~(Len(jec) < capacity)
  BY <1>1, <1>3 DEF JecIInv, Grow, size, Even
<1>. QED
  BY <1>2, <1>3

\* The first elements of a list.
LEMMA Start ==
    ASSUME NEW S, NEW s \in Seq(S), NEW i \in 1 .. Len(s)
    PROVE  SubSeq(s, 1, i - 1) \in Seq(S) /\ Len(SubSeq(s, 1, i - 1)) = i - 1
OBVIOUS

\* pop_back() takes the last element out.
LEMMA JecPop ==
    ASSUME JecIInv, pop_back PROVE JecIInv' /\ Remembers
<1>1. jec \in Seq(Values \cup {Unset}) /\ Len(jec) \in Nat \ {0} /\ capacity \in Nat
  BY DEF JecIInv, Even, pop_back, size
<1>2. jec' = SubSeq(jec, 1, Len(jec) - 1) /\ capacity' = capacity
  BY DEF pop_back, Front
<1>3. jec' \in Seq(Values \cup {Unset}) /\ Len(jec') = Len(jec) - 1
  <2>1. Len(jec) \in 1 .. Len(jec)
    BY <1>1
  <2>. QED
    BY <1>1, <1>2, <2>1, Start
<1>4. RemoveAt(jec, Len(jec)) = jec'
  <2>1. SubSeq(jec, Len(jec) + 1, Len(jec)) = <<>>
    BY <1>1
  <2>2. jec' \o <<>> = jec'
    BY <1>3
  <2>. QED
    BY <1>2, <2>1, <2>2 DEF RemoveAt
<1>. QED
  BY <1>1, <1>2, <1>3, <1>4 DEF JecIInv, Remembers, size

\* del() takes its element out.
LEMMA JecDel ==
    ASSUME JecIInv, NEW seq \in 1 .. Len(jec), del(seq) PROVE JecIInv' /\ Remembers
<1>1. jec' = RemoveAt(jec, seq) /\ capacity' = capacity
  BY DEF del
<1>2. jec \in Seq(Values \cup {Unset}) /\ Len(jec) \in Nat /\ capacity \in Nat
  BY DEF JecIInv, Even
<1>3. jec' \in Seq(Values \cup {Unset}) /\ Len(jec') = Len(jec) - 1
  <2>1. J!RemoveAt(jec, seq) \in Seq(Values \cup {Unset}) /\ Len(J!RemoveAt(jec, seq)) = Len(jec) - 1
    BY <1>2, Without
  <2>. QED
    BY <1>1, <2>1 DEF RemoveAt, J!RemoveAt
<1>. QED
  BY <1>1, <1>2, <1>3 DEF JecIInv, Remembers, size

\* push_back() appends to what there was.
LEMMA JecPush ==
    ASSUME NEW k \in Nat, k # 0, ElementSize = 4 * k, JecIInv,
           NEW v \in Values, push_back(v)
    PROVE  JecIInv' /\ Remembers
<1>1. jec' = Append(jec, v) /\ Grow
  BY GrownIs DEF push_back
<1>2. capacity' \in Even \ {0} /\ Len(jec) + 1 <= capacity'
  BY <1>1, GrowIs
<1>3. jec' \in Seq(Values \cup {Unset}) /\ Len(jec') = Len(jec) + 1
  BY <1>1 DEF JecIInv
<1>. QED
  BY <1>1, <1>2, <1>3 DEF JecIInv, Remembers, size

\* insert() doubles its element.
LEMMA JecInsert ==
    ASSUME NEW k \in Nat, k # 0, ElementSize = 4 * k, JecIInv,
           NEW seq \in 1 .. Len(jec), insert(seq)
    PROVE  JecIInv' /\ Remembers
<1>1. jec' = InsertAt(jec, seq, jec[seq]) /\ Grow
  BY GrownIs DEF insert, InsertAt
<1>2. capacity' \in Even \ {0} /\ Len(jec) + 1 <= capacity'
  BY <1>1, GrowIs
<1>3. jec' \in Seq(Values \cup {Unset}) /\ Len(jec') = Len(jec) + 1
  <2> DEFINE S == Values \cup {Unset}
             b == SubSeq(jec, 1, seq - 1)  a == SubSeq(jec, seq, Len(jec))  m == <<jec[seq]>>
  <2>1. b \in Seq(S) /\ Len(b) = seq - 1 /\ a \in Seq(S) /\ Len(a) = Len(jec) - seq + 1
        /\ m \in Seq(S) /\ Len(m) = 1
    BY DEF JecIInv
  <2> HIDE DEF S, a, b, m
  <2>2. b \o m \in Seq(S) /\ Len(b \o m) = Len(b) + Len(m)
    BY <2>1, ConcatProperties
  <2>3. (b \o m) \o a \in Seq(S) /\ Len((b \o m) \o a) = Len(b \o m) + Len(a)
    BY <2>1, <2>2, ConcatProperties
  <2>4. Len(jec) \in Nat
    BY DEF JecIInv
  <2>5. Len((b \o m) \o a) = Len(jec) + 1
    BY <2>1, <2>2, <2>3, <2>4
  <2>6. jec' = (b \o m) \o a
    BY <1>1 DEF InsertAt, a, b, m
  <2>. QED
    BY <2>3, <2>5, <2>6 DEF S
<1>. QED
  BY <1>1, <1>2, <1>3 DEF JecIInv, Remembers, size

\* release() keeps what it copies of the half.
LEMMA JecRelease ==
    ASSUME NEW k \in Nat, k # 0, ElementSize = 4 * k, LeastCapacity \in Even \ {0},
           JecIInv, release
    PROVE  JecIInv' /\ Remembers
<1> DEFINE c == IF Len(jec) < LeastCapacity THEN LeastCapacity \div 2 ELSE (Len(jec) + 1) \div 2
<1>1. /\ capacity' = 2 * c
      /\ jec' = [i \in 1 .. Len(jec) |-> IF i <= Copied(c) THEN jec[i] ELSE Unset]
  BY DEF release, refill, size
<1>2. PICK n \in Nat \ {0} : LeastCapacity = 2 * n
  BY DEF Even
<1>3. Len(jec) \in Nat /\ jec \in Seq(Values \cup {Unset})
  BY DEF JecIInv
<1>4. /\ c \in Nat \ {0} /\ Len(jec) <= 2 * c /\ 2 * c \in {LeastCapacity, Len(jec), Len(jec) + 1}
      /\ Len(jec) \div 2 <= c /\ Len(jec) \div 2 \in Nat
  <2>1. CASE Len(jec) < LeastCapacity
    <3>1. LeastCapacity \div 2 = n
      BY <1>2
    <3>. QED
      BY <1>2, <1>3, <2>1, <3>1
  <2>2. CASE ~(Len(jec) < LeastCapacity)
    BY <1>2, <1>3, <2>2
  <2>. QED
    BY <2>1, <2>2
<1> HIDE DEF c
<1>5. Copied(c) >= c - 1 /\ Copied(c) \in Nat
  BY <1>4, CopiedIs
<1>6. jec' \in Seq(Values \cup {Unset}) /\ Len(jec') = Len(jec)
  BY <1>1, <1>3
<1>7. \A i \in 1 .. Len(jec) \div 2 - 1 : jec'[i] = jec[i]
  <2> TAKE i \in 1 .. Len(jec) \div 2 - 1
  <2>1. i \in 1 .. Len(jec) /\ i <= Copied(c)
    BY <1>3, <1>4, <1>5
  <2>. QED
    BY <1>1, <2>1
<1>8. capacity' \in Even \ {0}
  BY <1>1, <1>4 DEF Even
<1>. QED
  BY <1>1, <1>4, <1>6, <1>7, <1>8 DEF JecIInv, Remembers, size

\* Of elements of four, eight, twelve ... bytes, as all that the library puts into a
\* jector have, and from a room that is even, as the eight of the constructor: growing
\* changes no element, every call changes only what it is about, and release() keeps
\* the first half but for one.
THEOREM Forgets ==
    ASSUME ElementSize \in {4 * n : n \in Nat \ {0}}, LeastCapacity \in Even \ {0}
    PROVE  JecSpec => OnlyReleaseForgets
<1>1. PICK k \in Nat : k # 0 /\ ElementSize = 4 * k
  OBVIOUS
<1>2. JecInit => JecIInv
  BY EmptySeq DEF JecInit, JecIInv, Even
<1>3. JecIInv /\ [JecNext]_jecVars => JecIInv' /\ (Remembers \/ UNCHANGED jecVars)
  <2> SUFFICES ASSUME JecIInv, [JecNext]_jecVars
               PROVE  JecIInv' /\ (Remembers \/ UNCHANGED jecVars)
    OBVIOUS
  <2>1. CASE UNCHANGED jecVars
    BY <2>1 DEF JecIInv, jecVars
  <2>2. CASE JecNext
    BY <1>1, <2>2, JecPop, JecDel, JecPush, JecInsert, JecRelease DEF JecNext, size
  <2>. QED
    BY <2>1, <2>2
<1>4. JecSpec => [][Remembers]_jecVars
  BY <1>2, <1>3, PTL DEF JecSpec
<1>. QED
  BY <1>4 DEF OnlyReleaseForgets

-----------------------------------------------------------------------------
(* JHeap *)

(* Both heaps are about an order of the integers, <= or >=, given as the   *)
(* set Ord of the pairs that are in order.  RiseFrom is one round of the   *)
(* loop of float_up_A() and float_up_V(), and Rises says that f is the     *)
(* whole loop, for the m first positions.                                  *)
Orders ==
    {Ord \in SUBSET (Int \X Int) :
        /\ \A x, y \in Int : <<x, y>> \in Ord \/ <<y, x>> \in Ord
        /\ \A x, y, z \in Int : <<x, y>> \in Ord /\ <<y, z>> \in Ord => <<x, z>> \in Ord}

RiseFrom(Ord, h, f, j) ==
    IF j > 1 /\ <<h[j \div 2], h[Len(h)]>> \notin Ord
        THEN [f[j \div 2] EXCEPT ![j] = h[j \div 2]]
        ELSE [h EXCEPT ![j] = h[Len(h)]]
Rises(Ord, h, m, f) == f = [j \in 1 .. m |-> RiseFrom(Ord, h, f, j)]

\* The set of numbers from 1 that a property holds for is all of them, if it holds
\* for each number that it holds for the earlier ones of.
LEMMA StrongInduction ==
    ASSUME NEW N \in Nat, NEW P \in SUBSET (1 .. N),
           \A k \in 1 .. N : (\A j \in 1 .. k - 1 : j \in P) => k \in P
    PROVE  P = 1 .. N
<1> SUFFICES ASSUME (1 .. N) \ P # {} PROVE FALSE
  OBVIOUS
<1>1. (1 .. N) \ P \in SUBSET Nat
  OBVIOUS
<1>2. PICK k \in (1 .. N) \ P : \A j \in (1 .. N) \ P : k <= j
  BY <1>1, Least
<1>3. \A j \in 1 .. k - 1 : j \in 1 .. N /\ ~(k <= j)
  OBVIOUS
<1>. QED
  BY <1>2, <1>3

\* The loop comes to an end: there is such a function.
LEMMA RisesExists ==
    ASSUME NEW Ord, NEW h, NEW N \in Nat
    PROVE  \E f : Rises(Ord, h, N, f)
<1> DEFINE P == {k \in 1 .. N : \E f : Rises(Ord, h, k, f)}
<1>1. ASSUME NEW k \in 1 .. N, \A j \in 1 .. k - 1 : j \in P PROVE k \in P
  <2>1. \E f : Rises(Ord, h, k - 1, f)
    <3>1. CASE k = 1
      <4>1. Rises(Ord, h, 0, [j \in 1 .. 0 |-> 0])
        BY DEF Rises
      <4>. QED
        BY <3>1, <4>1
    <3>2. CASE k # 1
      BY <1>1, <3>2
    <3>. QED
      BY <3>1, <3>2
  <2>2. PICK f : Rises(Ord, h, k - 1, f)
    BY <2>1
  <2> DEFINE g == [j \in 1 .. k |-> RiseFrom(Ord, h, f, j)]
  <2>3. \A j \in 1 .. k - 1 : g[j] = f[j]
    BY <2>2 DEF Rises
  <2>4. ASSUME NEW j \in 1 .. k PROVE RiseFrom(Ord, h, g, j) = RiseFrom(Ord, h, f, j)
    <3>1. CASE j > 1
      <4>1. g[j \div 2] = f[j \div 2]
        BY <2>3, <3>1
      <4>. HIDE DEF g
      <4>. QED
        BY <4>1 DEF RiseFrom
    <3>2. CASE ~(j > 1)
      BY <3>2 DEF RiseFrom
    <3>. QED
      BY <3>1, <3>2
  <2>5. g = [j \in 1 .. k |-> RiseFrom(Ord, h, g, j)]
    BY <2>4
  <2>. HIDE DEF g
  <2>. QED
    BY <2>5 DEF Rises
<1>. HIDE DEF P
<1>2. CASE N = 0
  <2>1. Rises(Ord, h, 0, [j \in 1 .. 0 |-> 0])
    BY DEF Rises
  <2>. QED
    BY <1>2, <2>1
<1>3. CASE N # 0
  <2>1. P \in SUBSET (1 .. N)
    BY DEF P
  <2>2. P = 1 .. N
    BY <1>1, <2>1, StrongInduction
  <2>. QED
    BY <1>3, <2>2 DEF P
<1>. QED
  BY <1>2, <1>3

\* float_up() puts the last element where it belongs: a heap but for the last is a heap
\* then.
LEMMA RisesToHeap ==
    ASSUME NEW Ord \in Orders, NEW h \in Seq(Int), h # <<>>,
           \A i \in 2 .. Len(h) - 1 : <<h[i \div 2], h[i]>> \in Ord,
           NEW f, Rises(Ord, h, Len(h), f)
    PROVE  /\ f[Len(h)] \in Seq(Int) /\ Len(f[Len(h)]) = Len(h)
           /\ \A i \in 2 .. Len(h) : <<f[Len(h)][i \div 2], f[Len(h)][i]>> \in Ord
<1> DEFINE n == Len(h)  k == h[n]
           Good(j) == /\ f[j] \in [1 .. n -> Int]
                      /\ \A i \in 1 .. n : i > j => f[j][i] = h[i]
                      /\ \/ f[j][j] = k
                         \/ j > 1 /\ f[j][j] = h[j \div 2] /\ <<h[j \div 2], k>> \notin Ord
                      /\ \A i \in 2 .. n : (i = n => j = n) /\ i \div 2 # j
                             => <<f[j][i \div 2], f[j][i]>> \in Ord
           P == {j \in 1 .. n : Good(j)}
<1>1. n \in Nat \ {0} /\ h \in [1 .. n -> Int] /\ k \in Int
  BY EmptySeq
<1>10. \A i \in 2 .. n - 1 : <<h[i \div 2], h[i]>> \in Ord
  OBVIOUS
<1>2. /\ \A x, y \in Int : <<x, y>> \in Ord \/ <<y, x>> \in Ord
      /\ \A x, y, z \in Int : <<x, y>> \in Ord /\ <<y, z>> \in Ord => <<x, z>> \in Ord
  BY DEF Orders
<1>3. \A j \in 1 .. n : f[j] = IF j > 1 /\ <<h[j \div 2], k>> \notin Ord
                                THEN [f[j \div 2] EXCEPT ![j] = h[j \div 2]]
                                ELSE [h EXCEPT ![j] = k]
  BY DEF Rises, RiseFrom
<1>11. n = Len(h)
  OBVIOUS
<1> HIDE DEF n, k
<1>4. ASSUME NEW j \in 1 .. n, j = 1 \/ <<h[j \div 2], k>> \in Ord PROVE Good(j)
  <2>1. f[j] = [h EXCEPT ![j] = k]
    <3>1. ~(j > 1 /\ <<h[j \div 2], k>> \notin Ord)
      BY <1>4
    <3>. QED
      BY <1>3, <3>1, Zenon
  <2>2. f[j] \in [1 .. n -> Int] /\ f[j][j] = k /\ \A i \in 1 .. n : i # j => f[j][i] = h[i]
    BY <1>1, <2>1
  <2>3. ASSUME NEW i \in 2 .. n, i = n => j = n, i \div 2 # j PROVE <<f[j][i \div 2], f[j][i]>> \in Ord
    <3>1. i \div 2 \in 1 .. n /\ i \div 2 # i
      BY <1>1
    <3>2. CASE i = j
      <4>1. f[j][i \div 2] = h[i \div 2] /\ f[j][i] = k /\ j # 1
        BY <2>2, <3>1, <3>2
      <4>. QED
        BY <1>4, <3>2, <4>1
    <3>3. CASE i # j
      <4>1. i \in 2 .. n - 1
        BY <1>1, <2>3, <3>3
      <4>2. <<h[i \div 2], h[i]>> \in Ord
        BY <1>10, <4>1
      <4>3. f[j][i] = h[i] /\ f[j][i \div 2] = h[i \div 2]
        BY <2>2, <2>3, <3>1, <3>3
      <4>. QED
        BY <4>2, <4>3
    <3>. QED
      BY <3>2, <3>3
  <2>. QED
    BY <2>2, <2>3
<1>5. ASSUME NEW c \in 1 .. n, c # 1, <<h[c \div 2], k>> \notin Ord, Good(c \div 2) PROVE Good(c)
  <2> DEFINE j == c \div 2
  <2>1. j \in 1 .. n - 1 /\ j < c /\ j \in 1 .. n /\ j # n
    <3>1. c \in Nat /\ c >= 2 /\ c <= n
      BY <1>1, <1>5
    <3>2. c \div 2 \in Nat /\ c \div 2 >= 1 /\ c \div 2 < c
      BY <3>1
    <3>. QED
      BY <1>1, <3>1, <3>2
  <2>7. /\ f[j] \in [1 .. n -> Int]
        /\ \A i \in 1 .. n : i > j => f[j][i] = h[i]
        /\ \/ f[j][j] = k
           \/ j > 1 /\ f[j][j] = h[j \div 2] /\ <<h[j \div 2], k>> \notin Ord
        /\ \A i \in 2 .. n : i # n /\ i \div 2 # j => <<f[j][i \div 2], f[j][i]>> \in Ord
    BY <1>5, <2>1
  <2>2. f[c] = [f[j] EXCEPT ![c] = h[j]]
    <3>1. c > 1 /\ <<h[c \div 2], k>> \notin Ord
      BY <1>1, <1>5
    <3>. QED
      BY <1>3, <3>1, Zenon
  <2>8. <<h[j], k>> \notin Ord /\ c \div 2 = j
    BY <1>5
  <2> HIDE DEF j, Good
  <2>3. f[c] \in [1 .. n -> Int] /\ f[c][c] = h[j] /\ \A i \in 1 .. n : i # c => f[c][i] = f[j][i]
    BY <1>1, <1>5, <2>1, <2>2, <2>7
  <2>4. ASSUME NEW i \in 1 .. n, i > c PROVE f[c][i] = h[i]
    <3>1. i # c /\ i > j
      BY <1>1, <2>1, <2>4
    <3>2. f[c][i] = f[j][i]
      BY <2>3, <3>1
    <3>. QED
      BY <2>7, <3>1, <3>2
  <2>5. <<f[j][j], h[j]>> \in Ord
    <3>1. CASE f[j][j] = k
      BY <1>1, <1>2, <2>8, <2>1, <3>1
    <3>2. CASE j > 1 /\ f[j][j] = h[j \div 2]
      <4>1. j \in 2 .. n - 1
        BY <1>1, <2>1, <3>2
      <4>. QED
        BY <1>10, <3>2, <4>1
    <3>. QED
      BY <2>7, <3>1, <3>2
  <2>6. ASSUME NEW i \in 2 .. n, i = n => c = n, i \div 2 # c PROVE <<f[c][i \div 2], f[c][i]>> \in Ord
    <3>1. i \div 2 \in 1 .. n /\ i \div 2 < i
      BY <1>1
    <3>2. f[c][i \div 2] = f[j][i \div 2]
      BY <2>3, <2>6, <3>1
    <3>3. CASE i = c
      BY <2>3, <2>5, <2>8, <3>2, <3>3
    <3>4. CASE i # c /\ i \div 2 = j
      <4>1. f[c][i] = h[i] /\ i \in 2 .. n - 1
        <5>1. i \in 1 .. n /\ i > j /\ i # n
          BY <1>1, <2>1, <2>6, <3>1, <3>4
        <5>2. f[c][i] = f[j][i]
          BY <2>3, <3>4, <5>1
        <5>3. i \in 2 .. n - 1
          BY <1>1, <5>1
        <5>. QED
          BY <2>7, <5>1, <5>2, <5>3
      <4>2. <<h[j], h[i]>> \in Ord
        BY <1>10, <3>4, <4>1
      <4>3. f[j][j] \in Int /\ h[j] \in Int /\ h[i] \in Int
        BY <1>1, <2>1, <2>7
      <4>. QED
        BY <1>2, <2>5, <3>2, <3>4, <4>1, <4>2, <4>3
    <3>5. CASE i # c /\ i \div 2 # j
      <4>1. f[c][i] = f[j][i] /\ i # n
        BY <2>3, <2>6, <3>5
      <4>. QED
        BY <2>7, <3>2, <3>5, <4>1
    <3>. QED
      BY <3>3, <3>4, <3>5
  <2>9. c > 1 /\ f[c][c] = h[c \div 2] /\ <<h[c \div 2], k>> \notin Ord
    BY <1>1, <1>5, <2>3, <2>8
  <2>10. \A i \in 2 .. n : (i = n => c = n) /\ i \div 2 # c => <<f[c][i \div 2], f[c][i]>> \in Ord
    BY <2>6
  <2>. QED
    BY <2>3, <2>4, <2>9, <2>10 DEF Good
<1>6. ASSUME NEW c \in 1 .. n, \A j \in 1 .. c - 1 : j \in P PROVE c \in P
  <2>1. CASE c = 1 \/ <<h[c \div 2], k>> \in Ord
    BY <1>4, <2>1
  <2>2. CASE ~(c = 1 \/ <<h[c \div 2], k>> \in Ord)
    <3>1. c \div 2 \in 1 .. c - 1
      BY <2>2
    <3>2. Good(c \div 2)
      BY <1>1, <1>6, <3>1
    <3>. QED
      BY <1>5, <2>2, <3>2
  <2>. QED
    BY <2>1, <2>2
<1>7. P = 1 .. n
  <2>1. P \in SUBSET (1 .. n) /\ n \in Nat
    BY <1>1
  <2> HIDE DEF P
  <2>. QED
    BY <1>6, <2>1, StrongInduction
<1>8. Good(n)
  <2> HIDE DEF Good
  <2>. QED
    BY <1>1, <1>7
<1>9. \A i \in 2 .. n : i \div 2 # n
  BY <1>1
<1>12. f[n] \in [1 .. n -> Int] /\ \A i \in 2 .. n : <<f[n][i \div 2], f[n][i]>> \in Ord
  BY <1>8, <1>9
<1>13. f[n] \in Seq(Int) /\ Len(f[n]) = n
  BY <1>1, <1>12
<1>. QED
  BY <1>11, <1>12, <1>13

\* float_up_A() makes a heap of a heap and one more.
LEMMA FloatUpA ==
    ASSUME NEW h \in Seq(Int), h # <<>>, \A i \in 2 .. Len(h) - 1 : h[i \div 2] <= h[i]
    PROVE  /\ float_up_A(h) \in Seq(Int) /\ Len(float_up_A(h)) = Len(h)
           /\ \A i \in 2 .. Len(h) : float_up_A(h)[i \div 2] <= float_up_A(h)[i]
<1> DEFINE Ord == {p \in Int \X Int : p[1] <= p[2]}
           Up(f) == f = [j \in 1 .. Len(h) |->
                             IF j > 1 /\ h[Above(j)] > h[Len(h)]
                                 THEN [f[Above(j)] EXCEPT ![j] = h[Above(j)]]
                                 ELSE [h EXCEPT ![j] = h[Len(h)]]]
<1>1. Ord \in Orders
  BY DEF Orders
<1>2. \A x, y \in Int : <<x, y>> \in Ord <=> x <= y
  OBVIOUS
<1> HIDE DEF Ord
<1>3. Len(h) \in Nat \ {0} /\ \A i \in 1 .. Len(h) : h[i] \in Int
  BY EmptySeq
<1>4. \A i \in 2 .. Len(h) : i \div 2 \in 1 .. Len(h) /\ i \in 1 .. Len(h)
  BY <1>3
<1>5. ASSUME NEW f PROVE Up(f) <=> Rises(Ord, h, Len(h), f)
  <2>1. \A j \in 1 .. Len(h) : j > 1 => (h[j \div 2] > h[Len(h)] <=> <<h[j \div 2], h[Len(h)]>> \notin Ord)
    BY <1>2, <1>3, <1>4
  <2>2. \A j \in 1 .. Len(h) :
            (IF j > 1 /\ h[Above(j)] > h[Len(h)]
                 THEN [f[Above(j)] EXCEPT ![j] = h[Above(j)]]
                 ELSE [h EXCEPT ![j] = h[Len(h)]]) = RiseFrom(Ord, h, f, j)
    BY <2>1 DEF RiseFrom, Above
  <2>. QED
    BY <2>2, Zenon DEF Rises
<1>6. float_up_A(h) = (CHOOSE f : Up(f))[Len(h)]
  BY DEF float_up_A
<1>7. \E f : Up(f)
  BY <1>3, <1>5, RisesExists
<1> DEFINE f == CHOOSE g : Up(g)
<1>8. Up(f)
  BY <1>7
<1> HIDE DEF Up, f
<1>9. Rises(Ord, h, Len(h), f) /\ float_up_A(h) = f[Len(h)]
  BY <1>5, <1>6, <1>8 DEF f
<1>10. \A i \in 2 .. Len(h) - 1 : <<h[i \div 2], h[i]>> \in Ord
  BY <1>2, <1>3, <1>4
<1>11. /\ f[Len(h)] \in Seq(Int) /\ Len(f[Len(h)]) = Len(h)
       /\ \A i \in 2 .. Len(h) : <<f[Len(h)][i \div 2], f[Len(h)][i]>> \in Ord
  BY <1>1, <1>9, <1>10, RisesToHeap
<1>12. \A i \in 2 .. Len(h) : f[Len(h)][i \div 2] <= f[Len(h)][i]
  <2>1. \A i \in 1 .. Len(h) : f[Len(h)][i] \in Int
    BY <1>11
  <2>. QED
    BY <1>2, <1>4, <1>11, <2>1
<1>. QED
  BY <1>9, <1>11, <1>12

\* And so does float_up_V(), in the other order.
LEMMA FloatUpV ==
    ASSUME NEW h \in Seq(Int), h # <<>>, \A i \in 2 .. Len(h) - 1 : h[i \div 2] >= h[i]
    PROVE  /\ float_up_V(h) \in Seq(Int) /\ Len(float_up_V(h)) = Len(h)
           /\ \A i \in 2 .. Len(h) : float_up_V(h)[i \div 2] >= float_up_V(h)[i]
<1> DEFINE Ord == {p \in Int \X Int : p[1] >= p[2]}
           Up(f) == f = [j \in 1 .. Len(h) |->
                             IF j > 1 /\ h[Above(j)] < h[Len(h)]
                                 THEN [f[Above(j)] EXCEPT ![j] = h[Above(j)]]
                                 ELSE [h EXCEPT ![j] = h[Len(h)]]]
<1>1. Ord \in Orders
  BY DEF Orders
<1>2. \A x, y \in Int : <<x, y>> \in Ord <=> x >= y
  OBVIOUS
<1> HIDE DEF Ord
<1>3. Len(h) \in Nat \ {0} /\ \A i \in 1 .. Len(h) : h[i] \in Int
  BY EmptySeq
<1>4. \A i \in 2 .. Len(h) : i \div 2 \in 1 .. Len(h) /\ i \in 1 .. Len(h)
  BY <1>3
<1>5. ASSUME NEW f PROVE Up(f) <=> Rises(Ord, h, Len(h), f)
  <2>1. \A j \in 1 .. Len(h) : j > 1 => (h[j \div 2] < h[Len(h)] <=> <<h[j \div 2], h[Len(h)]>> \notin Ord)
    BY <1>2, <1>3, <1>4
  <2>2. \A j \in 1 .. Len(h) :
            (IF j > 1 /\ h[Above(j)] < h[Len(h)]
                 THEN [f[Above(j)] EXCEPT ![j] = h[Above(j)]]
                 ELSE [h EXCEPT ![j] = h[Len(h)]]) = RiseFrom(Ord, h, f, j)
    BY <2>1 DEF RiseFrom, Above
  <2>. QED
    BY <2>2, Zenon DEF Rises
<1>6. float_up_V(h) = (CHOOSE f : Up(f))[Len(h)]
  BY DEF float_up_V
<1>7. \E f : Up(f)
  BY <1>3, <1>5, RisesExists
<1> DEFINE f == CHOOSE g : Up(g)
<1>8. Up(f)
  BY <1>7
<1> HIDE DEF Up, f
<1>9. Rises(Ord, h, Len(h), f) /\ float_up_V(h) = f[Len(h)]
  BY <1>5, <1>6, <1>8 DEF f
<1>10. \A i \in 2 .. Len(h) - 1 : <<h[i \div 2], h[i]>> \in Ord
  BY <1>2, <1>3, <1>4
<1>11. /\ f[Len(h)] \in Seq(Int) /\ Len(f[Len(h)]) = Len(h)
       /\ \A i \in 2 .. Len(h) : <<f[Len(h)][i \div 2], f[Len(h)][i]>> \in Ord
  BY <1>1, <1>9, <1>10, RisesToHeap
<1>12. \A i \in 2 .. Len(h) : f[Len(h)][i \div 2] >= f[Len(h)][i]
  <2>1. \A i \in 1 .. Len(h) : f[Len(h)][i] \in Int
    BY <1>11
  <2>. QED
    BY <1>2, <1>4, <1>11, <2>1
<1>. QED
  BY <1>9, <1>11, <1>12

\* What the arrays are: heaps of integers.
HeapIInv ==
    /\ jecA \in Seq(Int) /\ \A i \in 2 .. Len(jecA) : jecA[i \div 2] <= jecA[i]
    /\ jecV \in Seq(Int) /\ \A i \in 2 .. Len(jecV) : jecV[i \div 2] >= jecV[i]

\* push_A() and push_V() put a key last, and float it up.
LEMMA HeapPush ==
    ASSUME HeapIInv, NEW k \in Int, push_A(k) \/ push_V(k)
    PROVE  HeapIInv'
<1>1. ASSUME NEW s \in Seq(Int), NEW h, h = Append(s, k)
      PROVE  /\ h \in Seq(Int) /\ h # <<>> /\ Len(h) - 1 = Len(s)
             /\ \A i \in 1 .. Len(s) : h[i] = s[i]
             /\ \A i \in 2 .. Len(s) : i \div 2 \in 1 .. Len(s) /\ i \in 1 .. Len(s)
  BY <1>1
<1>2. CASE push_A(k)
  <2> DEFINE h == Append(jecA, k)
  <2>1. jecA' = float_up_A(h) /\ jecV' = jecV
    BY <1>2 DEF push_A
  <2>2. h \in Seq(Int) /\ h # <<>> /\ \A i \in 2 .. Len(h) - 1 : h[i \div 2] <= h[i]
    <3>1. /\ h \in Seq(Int) /\ h # <<>> /\ Len(h) - 1 = Len(jecA)
          /\ \A i \in 1 .. Len(jecA) : h[i] = jecA[i]
          /\ \A i \in 2 .. Len(jecA) : i \div 2 \in 1 .. Len(jecA) /\ i \in 1 .. Len(jecA)
      BY <1>1 DEF HeapIInv
    <3> HIDE DEF h
    <3>. QED
      BY <3>1 DEF HeapIInv
  <2> HIDE DEF h
  <2>3. /\ jecA' \in Seq(Int) /\ Len(jecA') = Len(h)
        /\ \A i \in 2 .. Len(h) : jecA'[i \div 2] <= jecA'[i]
    BY <2>1, <2>2, FloatUpA
  <2>. QED
    BY <2>1, <2>3 DEF HeapIInv
<1>3. CASE push_V(k)
  <2> DEFINE h == Append(jecV, k)
  <2>1. jecV' = float_up_V(h) /\ jecA' = jecA
    BY <1>3 DEF push_V
  <2>2. h \in Seq(Int) /\ h # <<>> /\ \A i \in 2 .. Len(h) - 1 : h[i \div 2] >= h[i]
    <3>1. /\ h \in Seq(Int) /\ h # <<>> /\ Len(h) - 1 = Len(jecV)
          /\ \A i \in 1 .. Len(jecV) : h[i] = jecV[i]
          /\ \A i \in 2 .. Len(jecV) : i \div 2 \in 1 .. Len(jecV) /\ i \in 1 .. Len(jecV)
      BY <1>1 DEF HeapIInv
    <3> HIDE DEF h
    <3>. QED
      BY <3>1 DEF HeapIInv
  <2> HIDE DEF h
  <2>3. /\ jecV' \in Seq(Int) /\ Len(jecV') = Len(h)
        /\ \A i \in 2 .. Len(h) : jecV'[i \div 2] >= jecV'[i]
    BY <2>1, <2>2, FloatUpV
  <2>. QED
    BY <2>1, <2>3 DEF HeapIInv
<1>. QED
  BY <1>2, <1>3

\* Whatever integers are pushed, in any order and number, the elements of both heaps
\* are in order along every way from the top: the loops of float_up_A() and
\* float_up_V() stop where the new element belongs.
THEOREM Ordered == ASSUME HeapKeys \subseteq Int PROVE HeapSpec => []HeapOrder
<1>1. HeapInit => HeapIInv
  BY DEF HeapInit, HeapIInv
<1>2. HeapIInv /\ [HeapNext]_heapVars => HeapIInv'
  <2>1. HeapIInv /\ HeapNext => HeapIInv'
    BY HeapPush DEF HeapNext
  <2>2. HeapIInv /\ UNCHANGED heapVars => HeapIInv'
    BY DEF HeapIInv, heapVars
  <2>. QED
    BY <2>1, <2>2
<1>3. HeapIInv => HeapOrder
  <2> SUFFICES ASSUME HeapIInv PROVE HeapOrder
    OBVIOUS
  <2>1. DOMAIN jecA \ {1} = 2 .. Len(jecA) /\ DOMAIN jecV \ {1} = 2 .. Len(jecV)
    BY DEF HeapIInv
  <2>. QED
    BY <2>1 DEF HeapIInv, HeapOrder
<1>. QED
  BY <1>1, <1>2, <1>3, PTL DEF HeapSpec

=============================================================================
