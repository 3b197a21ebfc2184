# Libjean in TLA+

TLA+ models of the concurrent and data-structural core of Libjean 1.1, the TLC
configurations that check them and the TLAPS proofs about them.  All sources are
`src/*.cpp`; line numbers below are theirs.

Libjean is a header-style C++ library: allocators, containers, locks, a thread
pool and socket helpers.  There are no tests; what the library promises is in its
comments ("thread-safe 100%", "thread safe, avl_tree", "when true, the write
old_tail is done", ...) and in how its parts use each other.

## 1. Inventory

| component | source | state | operations | what is hard | what makes it correct |
|---|---|---|---|---|---|
| `jlock_rw` | jlock.cpp 12-85 | `r_threads`, `w_threads`, `__mu` | `read_lock/unlock`, `write_lock/unlock` | every step interleaves; writers announce, look, retreat and try again | exclusion; exact counters; waiting threads get in |
| `jlock_spin` | jlock.cpp 102-139 | `_f` | `lock`, `unlock` | relaxed memory order | exclusion and visibility |
| `plock_rw` | jlock.cpp 152-181 | a pthread rwlock | forwards | - | - |
| `jalloc_conc` | jalloc_conc.cpp | free list, `popingthreads`, `mu` | `allocate`, `deallocate`, `init` | compare-and-swap, ABA, reclamation | a block has one owner; none is lost; memory grows on demand |
| `jallocator_t` | jallocator_t.cpp | free list, `mu`, `pool_size` | `allocate`, `deallocate` | failing `malloc` | as above |
| `jallocator` | jallocator.cpp | chunks with free lists and counters | `allocate`, `deallocate` | a chunk freed when full again | counters match lists |
| `str_jalloc` | str_jalloc.cpp | 19 free lists, block headers | `allocate`, `deallocate` | class boundaries | the block is big enough and goes back to its list |
| `jstack` | jstack.cpp | `head`, nodes, `popingThreads`, `__size` | `push`, `pop`, `return_data`, `empty` | as `jalloc_conc`; size apart from list | linearizable stack |
| `jque` | jque.cpp 12-133 | list with a dummy tail, two mutexes, `_size` | `push_back/front`, `pop_front`, `return_data`, `empty` | two mutexes on one list; `_size` hands out permits | linearizable deque |
| `jqueue` | jque.cpp 152-251 | as `jque`, atomics for mutexes, `head_thread` | `push_back/front`, `pop_front` | `tail` moves before its node is written | linearizable deque |
| `jtree_avl` | jtree.cpp 12-293 | tree, rwlock | `find`, `insert`, `del`, `update`, `is_empty`, `get_top` | rebalancing after deletion; unlocked `is_empty`, `get_top` | dictionary; order; heights; balance |
| `jtree_rb` | jtree.cpp 318-1094 | tree with parent pointers, `test_root`, rwlock | `find`, `insert`, `del`, `update` | thirty mirrored cases; a lock kept; look-then-act | dictionary; red-black rules; parent links; lock released |
| `jthread` | jthread.cpp | `done`, `work_que`, threads | `submit`, constructor, destructor, worker | shutdown with tasks queued; who frees a task | each task run at most once, and run if not shut down |
| `jepoll` | jsock.cpp 215-446 | `sockfd_collector`, `clients`, kernel table, `msg_que` | `ep_add`, `ep_del`, `ep_wait`/`collect` | look-then-act; deletion under an event | each descriptor closed once |
| `jpoll` | jsock.cpp 449-527 | `pfds`, rwlock, `__size` | `p_add`, `p_del`, `p_wait` | lock held over `poll` | additions take effect |
| `cnct_manager` | jsock.cpp 529-649 | `reg`, `jq`, clock | `push`, `invalid`, `adjust`, `tick` | order of `adjust` and `invalid`; requeueing | an expired connection is called back once, an invalid one never |
| `jector`, `jheap`, `jhash` | own files | sequences, heaps, buckets | usual | copying by bytes; stale bucket index | abstract sequence, heap, bag |
| `jsock`, `jalloc_origin`, `key_traits`, `instructor` | own files | none | wrappers, conversions, a demonstration | - | - |

How they interact: the containers take memory from two instances of an allocator,
one for nodes and one for values (`jalloc`, `data_jalloc`), by default
`jalloc_conc`.  `pop` returns a pointer to the value's block, which the caller
gives back with `return_data`.  `jthread` runs on a `jque`; `jepoll` and
`cnct_manager` on a `jque` and a `jtree_avl`; the trees on a pthread rwlock.
There are no callbacks into the containers; all interaction between threads is by
shared memory.

`jepoll`, `jpoll`, `jhash` and `jheap` call members that `jector` does not have at
this commit (`is_empty`, `find`), so they do not compile with it.  In `jepoll` and
`jpoll` each is one call with one possible meaning (the index of a descriptor, or -1;
whether the array has no elements), and the models take it so.

## 2. Modules

| module | models | of |
|---|---|---|
| `RWLock` | what a reader-writer lock promises | - |
| `JLockRW` | `jlock_rw` | jlock.cpp |
| `Allocator` | what an allocator promises: a block that is handed out is not handed out again before it is given back | - |
| `AllocatorCalls` | the same, with the calls: two that are given one block are not its behaviour | - |
| `JallocConc` | `jalloc_conc` | jalloc_conc.cpp |
| `Deque` | a deque whose operations take effect at one moment between call and return; `MayFail` says whether a pop may return null although there is an item | - |
| `PermitDeque` | a deque with a count of permits, which is what users of `jque` see | jque.cpp |
| `JStack`, `JQue`, `JQueue` | the three containers | jstack.cpp, jque.cpp |
| `JThread` | the thread pool | jthread.cpp |
| `CnctManager` | `cnct_manager` with its alarm and a clock | jsock.cpp |
| `JEpoll` | `jepoll` over an external kernel | jsock.cpp |
| `JPoll` | `jpoll` | jsock.cpp |
| `Dict` | what a dictionary promises | - |
| `JTreeAvl` | `jtree_avl` | jtree.cpp |
| `RBTree` | the algorithms of `jtree_rb` | jtree.cpp |
| `JTreeRB` | its public operations by several threads | jtree.cpp |
| `StrJalloc`, `Jallocator`, `JallocatorT` | the other allocators | own files |
| `Jector`, `JHeap` | the array, and the pushes of the heaps | own files |
| `JLockRWProofs`, `JStackProofs`, `JQueProofs`, `JQueueProofs`, `PermitDequeProofs`, `JThreadProofs` | proofs about the module of that name | |
| `StructureProofs` | proofs about the allocators, the array and the heaps: `JallocConc`, `StrJalloc`, `JallocatorT`, `Jallocator`, `Jector`, `JHeap` | |
| `JsockProofs` | proofs about three parts of jsock.cpp, `CnctManager`, `JEpoll` and `JPoll` | |
| `MCJallocConc`, `MCJStack`, `MCJQue`, `MCJQueue` | instances for TLC: which calls are made, fairness, progress | |
| `MCStructures` | one instance of the trees, `StrJalloc`, `Jallocator`, `JallocatorT`, `Jector`, `JHeap` and `JPoll`: `load` says which one a behaviour is about | |

How modules compose: `JStack`, `JQue` and `JQueue` use `Allocator` for their two
allocators (that `jalloc_conc` is one is proved in `StructureProofs`), and refine
`Deque`.  `JQue` and `JQueue` do so in two steps, both proved: they refine
`PermitDeque`, and `PermitDeque` refines `Deque` with pops that may fail.
`JThread` and `CnctManager` run on `PermitDeque`, since their progress hangs on
when a pop fails.  `JTreeAvl` and `JTreeRB` refine `Dict`; `CnctManager` and
`JEpoll` take the calls of `jtree_avl` as atomic, which that refinement and its
rwlock justify.

### How state and actions correspond to the code

*Concurrent modules.*  An action is one access to shared memory (an atomic
operation, a lock or unlock, a read or write of a field another thread can reach);
what a thread does to its own memory is part of the neighbouring action.  `pc[t]`
(`place[t]` in `JEpoll`) is the place of thread t in the code, with a letter for the
operation: `w_`/`r_` in the lock, `a_`, `i_`, `d_` for allocate, init and deallocate,
`p_` push, `b_` and `f_` push_back and push_front, `o_` pop.  Memory is sequentially
consistent:
all atomics the modelled code uses have the default order.  `x++` on an atomic is
one action, and `old_head->next` in the argument of a compare-and-swap is read
in an action of its own, before the swap.  A failing `compare_exchange_strong`
overwrites its expected value, which in `push` and `deallocate` is the field
`next` of the node itself.

*Memory.*  A node or block is a model value (an index in `JallocConc`, where a
chunk is contiguous).  What the allocator hands out holds `Junk`: the contents of
fresh memory are never taken for a pointer, and a field that the code leaves
unwritten stays `Junk`, so that the type invariant fails where junk would be
followed.  A pushed value is its data block: two pushes never share one while it
is in use.  The blocks' lifecycle is complete: allocated in a push, returned by a
pop, given back by the caller.

*Trees.*  A section under the write lock is one action, since the lock keeps
every other section away.  A tree of `JTreeAvl` is a value, a node with its two
subtrees, and `node *&` becomes the value that the function returns; so the heights
that nodes remember are data, as in the code, and the invariant compares
them with the real ones.  In `RBTree` a tree is a heap, since parent pointers
make it cyclic: `node *&` becomes a slot (the root, or a child field of a node).
The code spells every case of the fix-ups twice, for either side; the operators
take the side as a parameter, and the map names one spelling.  Between calls the
nodes are renamed by their keys (`Named`), since addresses do not matter.
`JTreeRB` adds the threads: `del` looks up in one section and deletes in another,
`update` writes through a pointer with no lock.  The rwlock's state between
sections is the thread that left it locked (`wr`); for that thread the next lock
call returns `EDEADLK`, which the code ignores, and its unlock frees the lock.
Two updates of one value at once are a data race; each write is taken as one step,
the write of a word.

*The pool.*  `life` in `JThread` is what the owner does: it makes the pool (the
constructor may throw half-way), submits, and destroys it.  The order in which
members go is that of the code: `guard` joins the workers before `work_que` goes.
`work_que` is a `PermitDeque`; `block` and `freed` add what matters of its
`data_jalloc`.  Nobody gives it a block back, so its free list is one chunk at most,
linked from the start to the end, and the n-th task pushed has the n-th block
(`Submit`).  `delete task` (44) of a chunk's first block is a `free` of what `malloc`
returned, and takes the whole chunk away (`freed`), with the tasks and the free list in
it; of any other block it is undefined: the process dies, or the block is lost.  A step
that uses a freed chunk, when it pops the free list, writes a task or runs one (`Uses`),
finds what was there, if nobody has the memory yet, or is undefined.  What is undefined
ends the model (`life` is "undefined"): the properties speak of the pool as long as its
behaviour is defined.

*The manager of connections.*  `now` is the clock in seconds, `alarm` the next
`SIGALRM`, `lp` and `cur` the locals of `tick()`.  `jq` and `reg` are shared with
the callers of `push`, `invalid` and `adjust`, and every access to either is an
action of its own.  The variables `due`, `invalids`, `waits` and `known` are
ghosts: what was promised to the users, and what had been promised when `tick()`
had the entry.  A connection has one user at a time, as a socket has.

*The event loop.*  The kernel of `JEpoll` (`socket`, `backlog`, `peer`, `epset`)
is external and does what `collect()` relies on: level triggering, one event per
ready descriptor in a batch, the lowest free number for a new socket.  The batch is
fixed by `epoll_wait()` while the descriptors go on changing.  Users may delete a
connection that, as far as the messages go, has not ended: between two calls of
`ep_wait()`, as a program with one thread does, or with `DeletesAnyTime` whenever they
like.  `log` is the history of `msg_que` together with the users' deletions; `who`
in it is a ghost, since a real message has the number only.

*Small components.*  The blocks of `StrJalloc` are a class and a number, and
`ptr` are its free lists; the two header bytes are `class` of the block, which
`held` remembers.  `Jallocator`'s `rest` and `freeptr` are those of `map`'s
elements.  `Jector` keeps what is below `__size`; `Copied` is what the copying of
longs in `refill()` brings over of elements of `ElementSize` bytes.  In `JHeap` the
swaps of a loop are what they come to: the elements that the new one meets move down
one place each (`up`).  `prw` in `JPoll` is the set of threads that have the lock.

*Progress.*  The threads call for ever.  Lock-free code promises no thread that its
own call returns, since others may make its compare-and-swap fail for ever; what it
promises, and `CallsReturn` states, is that as long as calls are running some call
returns: it is never the case that from some moment on threads are inside calls and
nobody leaves one.  A mutex left locked, a counter left raised, a retry that can
never succeed and a wait of two threads for each other all violate it.  For
`jstack` it has two parts, `PushesReturn` even when other threads stop for ever
inside `pop`, and `PopsReturn` when all threads run.  The call that returns while
threads are popping may be a push: pushes that keep succeeding change the head a pop
has just read (jstack.cpp 86), and while that pop tries again those that have left the
loop wait for `popingThreads`, so that no pop may ever return.  In the instance, with two
nodes, some pop always returns, since the pushes soon wait for a free node; the code's
allocator asks `malloc` for more, and the property does not build on that bound.

## 3. Runs

| run | instance | shows |
|---|---|---|
| `JLockRW` | 4 threads, each reader and writer | `CountsExact`, refinement of `RWLock` (`ImplementsRWLock`), and `QuietSideLetsOtherIn`: when readers or writers keep quiet for good the others get in |
| `JallocConc` | 3 threads, chunks of 2, 6 blocks, demand 4 | `Conservation`, no ABA and no read of a caller's block (`SnapshotsAreSafe`), `BoundedGrowth`, refinement of `AllocatorCalls`, `CallsReturn` |
| `JStack` | 3 threads, 2 nodes, 2 items | `Conservation`, the account of `__size`, refinement of `Deque` with exact pops, `CallsReturn` |
| `JQue` | 3 threads, 3 nodes, 2 items | `Conservation`, `EndsApart`, refinement of `PermitDeque`, `CallsReturn` |
| `JQueue` | 3 threads, 3 nodes, 2 items, from an empty deque whose node a `push_back` made (`WarmInit`) | `ValMeansWritten`, `Conservation`, refinement of `Deque` with failing pops, `CallsReturn` |
| `JThread` | 2 workers, 3 tasks, chunks of 2 | a task is in one place and run at most once (`OncePerTask`), no worker is inside the queue when the object goes (`QueueOutlivesWorkers`), a chunk of its memory is freed once at most and after its first task was run (`FreedOnce`), `TasksGetRun`, `DestructorReturns`, `ConstructorHangs` |
| `JThread_delete` | same | **violated** `TasksInMemory`: the delete of the first task frees the memory of those behind it |
| `CnctManager` | 1 user, 2 connections, a clock of 5 seconds | `OneEntry`, `NeverEarly`, an overdue connection waits a bounded number of ticks (`NotLate`), `ManagedEnds` |
| `CnctManager_invalid` | same | **violated** `InvalidIsDropped`: `invalid()` after `adjust()` does nothing |
| `JEpoll` | 2 connections, 2 messages each, `ep_del()` by `collect()`, by users between two `ep_wait()`, and by the destructor | `EachStoryWhole`, `TablesAgree`, `ClosesOnlyClosed`, `ClosedGetClosed` |
| `MCStructures` | trees: 9 and 10 keys, and 2 threads with 3 keys; the others in their bounds below | `TreesSound`, refinement of `Dict` by both trees (`ImplementsDict`), `BlocksFit`, `BlocksSafe` (of the three allocators), `OnlyReleaseForgets`, `SizeCovered` |
| `JTreeAvl_shrink` | 8 keys | **violated** `Balanced`: deletion breaks the balance |

Four more configurations reproduce what section 4 says and can be run by hand:
`JLockRW_livelock.cfg` (module `JLockRW`, `ReadersGetIn` fails), `JQueue_cold.cfg`
(module `MCJQueue`, `ValMeansWritten` fails), `JEpoll_del.cfg` (module `JEpoll`,
`ClosesOnlyClosed` fails) and `JTreeRB_lock.cfg` (module `JTreeRB`, `IdleMeansUnlocked`
fails).

What some properties amount to.  `SizeAccounts` of `JStack` gives the exact
difference between `__size` and the list: a pop that has taken its node and not
counted it, and pushes counted around it, let `empty()` say yes of a stack with an
item whose push has returned.  Since `_size` of `jque` is too low while a
failing pop has not undone its decrement, a pop may return null although there
is an item; that this takes another call under way is the theorem `Company` about
`PermitDeque`.  `EachStoryWhole` says that a reader of the messages, who sees
numbers that are used again, can tell the connections apart.  `NotLate` has its
weight in the `break` of `tick()`: an entry that is still live is put back, at
either end, and those behind it wait for the next alarm.  `TasksGetRun` must
allow that two workers' failing pops refuse each other for ever (`Crowded`):
each takes a permit that is not there, and while it has not given it back the
other's pop finds the count too low, although a task is queued.

*Bounds.*  Four threads in `JLockRW` let two writers overlap while a reader is in
and a fourth thread waits; the proofs cover any number.  In the lock-free modules
three threads are the least for ABA (one with a snapshot, two that move the node
away and back), for a wait on `popingthreads` that a third thread prolongs, and for
a compare-and-swap that fails twice.  Chunks of 2 and a demand of 4 make the free
list run empty under several threads at once and refill; the sixth block is there
to be malloc'ed if `BoundedGrowth` were wrong.  Two items and, with the dummy of
the deques, three nodes fill, drain and reuse the memory, with a freed node coming
back under another thread while the push of a third still expects it at the head.
The capacity of memory (`Nodes`, `Items`, `NumBlocks`) is a bound of the model: a
push whose allocator is empty is not started.  `MaxDemand` keeps the callers of
`JallocConc` within its memory.

Two workers are the least whose pops collide with each other and with a push by
the owner or by a running task; three tasks let one be queued while both workers
have one, and with chunks of 2 two of them are first tasks and one is not.  In `CnctManager` calls are made up to second 2 (`LastCall`), with
`Secs` = 1, and the clock stops when every deadline that can exist has passed
(`LastMoment`), while the ticks go on.  So connections can be pushed and adjusted
before, at and after each other's deadlines; two of them are enough for one to
stand in front of the other.  `Patience` is 2 ticks there; with calls up to second
3 it is 3, one rotation of the queue plus the ticks that an adjusted connection can
stay at the front.  Two connections and a listener in `JEpoll` let a number be
used again while its old event is in a batch; with three connections of one
message each the safety properties hold too (2.1 million states).

Eight keys are the least for an AVL deletion that leaves a node unbalanced;
`MCStructures` takes nine, so that the trees go on being changed afterwards.  Ten
keys reach every branch of `recurse_fix` on both sides, at the root and below it;
three keys under two threads are enough for a node with two children, whose
deletion moves the value that an update points to.  `StrJalloc` has one chunk of two
blocks per class and requests at the bounds of the classes (0, 255, 256, 257, 769,
1025; the theorems `DesizeFits` and `DesizeIsLeast` are about every size), `Jallocator` three chunks of two blocks, `JallocatorT` two refills, `Jector`
growth from a capacity of 4 to 8 and `release()` at any moment, `JHeap` five elements,
so that one floats up two levels, and `JPoll` two threads and three descriptors.

*Reductions.*  A data block is given back only by a caller, and nothing keeps a
pointer to it afterwards, so which free one a push gets makes no difference: the
instances take one fixed choice (`FirstFree`).  Nodes are different, stale
snapshots of them are what the algorithms are about, and the allocator may hand
out any.  The shape of a tree does not depend on the values: two keys have
more than one (`ManyValued`) in `MCStructures`.  There the lone thread of the
red-black tree (`load` is "alone") only inserts and deletes, and the dictionary is
checked where the threads share the tree.  `JEpoll` and `CnctManager` take the calls
of the tree, and `JEpoll` those of the queue, as atomic.  No run uses symmetry.

*Fairness.*  A thread that is inside a call keeps running: weak fairness of its
steps, which is what a preemptive scheduler gives.  No thread has to call.
`MCJStack` assumes it of the pushing threads only; `PopsReturn` has the rest as a
hypothesis (`EveryoneRuns`).  `PollSpec`, the specification of the
livelock run, is stronger: a spinning reader that would find 0 infinitely often
reads it some time (strong fairness of `ReadEnter`), since its polls are not
synchronised with the writers; so the counterexample is not one of scheduling.

`JThread`: every worker and a call of the owner keep running and tasks end (the
library cannot promise anything of a task that does not).  The owner need not
submit or destroy.  `CnctManager`: time passes, an alarm that is set goes off and
its `tick()` goes on, and a call that was begun is finished.  `JEpoll`: `ep_wait()`
is called again and again until the destructor begins, and the threads go on;
nothing is assumed of the other ends.

*Deadlock.*  `JThread` ends when the pool is gone, or its process, and `JEpoll` when
all connections are closed and the object is gone; in `MCStructures` full heaps and
allocators at their bounds stop.  These runs do not check deadlock; that nobody
waits in vain in the first two is what their liveness properties say.

*Mutants.*  Operators under a comment `Mutant:` are plausible errors (a dropped
test, a retry left out, a stale height), not part of any specification; each of the
checked properties is refuted when the mutant takes the place of the operator
below it.

## 4. Where the code does not keep its word

Shown by runs:

1. `jthread::worker_thread` (jthread.cpp 44): gives its task to `delete`, though the
   block is the queue's (`return_data` is there for it, jque.cpp 42).  The block of the
   first task is the chunk's first, so the whole chunk is freed, under the tasks that are
   queued behind it, and that of the next one ends the process, as a rule.
   The allocator "can not return mem to OS" (jalloc_conc.cpp 16).
2. `jtree_avl::test_fix` (jtree.cpp 102, 115): a higher child that leans neither
   way needs one rotation, the code makes two.  Further calls can widen the
   difference, since only a difference of exactly two is looked at; `find` stays right.
3. `cnct_manager::invalid` (jsock.cpp 579): inserts -1 into `reg`, and `insert` leaves
   a key alone that is there.  After an `adjust` the call has no effect, and `tick`
   calls the connection back instead of dropping it.

Reproduced by the four further configurations:

4. `jtree_rb::insert` (jtree.cpp 413): returns with the lock held when the tree is empty,
   and stays the only thread that can use the tree until it comes back.  The class
   comment says "thread safe" (320), the class itself "not thread-safe" (322).
5. `jlock_rw` (jlock.cpp 30-41, 54): a writer announces itself before it looks.
   While a reader spins, writer 1 announces, writer 2 announces, writer 1
   retreats, announces again, writer 2 retreats, ...: `w_threads` stays above
   0, `r_threads` stays above 0, and nobody gets in.
6. `jqueue` (jque.cpp 187): the first node's value is set by the constructor, so
   the test of line 240 does not wait for the first `push_back`.  Everything else
   holds once the first node has no value (`JQueue`).
7. `jepoll` (jsock.cpp 308, 376): a user's `ep_del` while a batch holds an event of the
   connection: the number is used again by the next `accept` of the batch, `recv`
   finds nothing, and the new connection is closed although its other end is alive.
   Without reuse `collect` finds no entry and dereferences null (356).

Read in the code, and visible in the models:

* `cnct_manager`: an `adjust` that comes after `tick` has looked the connection up is
  too late (`known` in `NeverEarly`); two adjusts that both find no entry make the
  second `insert` lose its later deadline; the entry that such an `adjust` leaves in
  `reg` after the connection was called back meets the next user of the number.
* `jthread`: `hardware_concurrency()` may be 0, then no task is ever run; tasks queued
  when the pool is destroyed are dropped; a constructor that cannot make its second
  thread joins the first, which nobody tells to leave (`ConstructorHangs`).
* `jepoll`: `accept` that fails ends the program (360); `epfd` is never closed;
  `int2str(0)` is the empty string.
* `jpoll`: `p_wait` holds the read lock over `poll(..., -1)`, so that `p_add` and
  `p_del` wait for a peer; `operator[]` takes no lock, so that the element a reader was
  about to use, or has a reference to, may be gone or have moved (`SizeCovered` is about
  the two numbers at one moment only).
* `jheap`: `pop_A` would take the last element of the other heap, `jecV` (128), and leave
  the greatest of `jecA` at the root, if its call of `is_empty` compiled; the order of
  the heaps (`HeapOrder`) holds since they only grow.
* `jstack`: a pop may lose to pushes for ever, as section 2 says under Progress.
* `jqueue`: `head_thread` has no initialiser (182).  C++20 makes it 0, and so the models
  start; before, the first pop may wait for a count that never comes.
* `jector`: `release` keeps the first half only (173); `del` at full capacity reads one
  element past the end; elements whose size is no multiple of 4 can
  lose the last ones when the array grows, and those of 4 bytes one more in `release`;
  the library has none of the former kind.
* `jallocator`: `allocate` takes one block of every chunk and returns the last (85): the
  others are lost, though never handed out twice.
* `jallocator_t`: `allocate` starts over for ever when `malloc` fails.

## 5. Proofs

`JLockRWProofs` proves about `JLockRW`, for any disjoint or overlapping finite
sets of readers and writers (`ThreadsAssumption`):

* `Invariance`: `Spec => []IInv`;
* `TypeCorrect`: `Spec => []TypeOK`;
* `Exclusion`: `Spec => []MutualExclusion`;
* `Counting`: `Spec => []CountsExact`;
* `Refinement`: `Spec => ImplementsRWLock`.

Mutual exclusion is not inductive: it says nothing of a writer between its check
and the mutex.  `IInv` adds the three facts the argument needs.  The counters are
the numbers of announced threads (`CountsExact`), so a 0 that a thread reads means
that the other side has nobody announced (`ZeroMeansNobody`).  From a writer's
successful check to the end of `write_unlock` no reader is in
(`CheckedWriterExcludes`): a reader in its section is announced, so the check
fails; a reader that wants to enter finds the writer announced.  And the mutex
belongs exactly to the thread that writes (`MutexOwner`).  Lemmas
`AtEnter`, `AtLeave` and `AtStay` say how one thread's move changes the number of
threads at a set of places; `StepIInv` goes through the actions one by one, each
with one step per conjunct.  `StepRefines` maps `ReadEnter` to `BeginRead`,
`WriteMutex` to `BeginWrite`, the unlocks to the ends, and all else to a stutter.

`StructureProofs` proves about `JallocConc`, for any finite set of threads, any size
of chunk, memory and demand (`SizesAssumption`):

* `Sound`: `Spec => []IInv`;
* `Conserved`: `Spec => []Conservation`;
* `NoABA`: `Spec => []SnapshotsAreSafe`;
* `Grows`: `Spec => []BoundedGrowth`;
* `Refinement`: `Spec => ImplementsAllocator`.

The argument of the lock-free pop is the part `Snapshots` of `IInv`.  A thread in the
loop of `allocate()` holds a block that is on the list, or that another thread has
taken off and is still waiting with; and the link it read is still the block's link.
The compare-and-swap alone would not give that: it sees only that the head is the same
again.  What gives it is that a block comes back to the list only through a caller,
that its caller gets it only when `popingthreads` has been 0, and that `popingthreads`
is the number of threads in the loop (`Counted`): while one thread looks at a block, no
thread that has taken it can return (`StepSnapshots`).  `Places` and `ListSound` say
where the blocks are: the list holds exactly those that no caller and no call has, once
each.  The list is a set here, closed under the links, reached from the head, with no
part that goes round.  `Effect` sorts the steps by what they do to it: malloc, link a
chunk or a block, take one off, return it, take it back, or nothing.
`Growth` counts: memory is asked for under the mutex when the list is empty, so then
every block is with a caller or a call (`EmptyMeansDemand`), and these are at most
`MaxDemand`.

`JStackProofs` proves about `JStack`, for any finite sets of threads, nodes and items
(`NamesAssumption`):

* `Sound`: `Spec => []IInv`;
* `SizeIsRight`: `Spec => []SizeAccounts`;
* `Conserved`: `Spec => []Conservation`;
* `Linearizable`: `Spec => ImplementsStack`.

The invariant is that of the allocator with the data added.  `Chained` says that
`List`, which the model computes by following the links, is the sequence that the links
describe; `ItemsKept`, that each node in use has an item of its own.  The
linearization points are the swaps of `push` and `pop` and the load or failed swap
that sees an empty stack; at the swap of a pop `Snapshots` says that the new head is
the second node, so that the pop takes the first item and no other.

`JQueProofs` proves about `JQue`, under the same assumption:

* `Sound`: `Spec => []IInv`;
* `Refinement`: `Spec => ImplementsPermitDeque`;
* `NeverMeet`: `Spec => []EndsApart`;
* `Conserved`: `Spec => []Conservation`.

Each end is a critical section, so that what a call has read stays true while it holds
its mutex (`Locked`, `CallsFit`).  But the mutexes do not keep the ends from meeting at
the one empty node: what keeps a pop away from it is its permit.  So the invariant of
`PermitDequeProofs` is a part of `IInv`, for the content and the calls that the
refinement maps to: a pop with a permit finds an item, so `head` is not `tail`
(`EntitledFinds`).  The refinement and the invariant are proved together: a step keeps
the invariant of the deque with permits because it is a step of it (`StepPermits`).
Since `JThreadProofs` and `JsockProofs` are about that deque, what they prove
holds of the pool and the manager over `jque` itself; with the refinement below,
`jque` is an atomic deque whose pops may fail.

`JQueueProofs` proves about `JQueue`, under the same assumption:

* `Sound`: `WarmSpec => []IInv`;
* `Written`: `WarmSpec => []ValMeansWritten`;
* `Refinement`: `WarmSpec` implies the specification of `PermitDeque`;
* `Linearizable`: `WarmSpec => ImplementsLaxDeque`;
* `Conserved`: `WarmSpec => []Conservation`.

`WarmSpec` differs from `Spec` in its initial states only: the deque is empty and its
one node has no value, as one `push_back` and one `pop_front` leave it.  From what the
constructor leaves, `ValMeansWritten` is false (`JQueue_cold.cfg`, section 4), so there is
nothing to prove of it.

Here `push_back` moves `tail` first and links and fills the node it moved away from
later, so that for a while the fields of several nodes in the middle of the list are
not what they will be.  The invariant therefore speaks of the final fields, `Links` and
`Values`: those of memory, or, for a node that some `push_back` still owes
(`Owes`), the node and the item of that call.  `List` is the sequence along the final
links (`Chained`), and a `push_back` appends to it in its compare-and-swap and not
later (`ListAppend`, `LinksStay`).  `Filling` says why the final fields are well
defined and why a value means a written node: the tail has no value, a node that is
owed has none either, and one thread owes it (`Single`).  `Snapshots` is the part about
pops, as in `JStack`: what a pop looks at is on the list, or was taken off by a pop that
has not freed it; it is filled once the pop has seen its value, and the link that was
read is still the link.  It survives because a node is freed only when `head_thread`
is 0, that is when nobody is in the loop (`Counted`, `AloneToFree`).  And, as in `JQue`,
a pop reaches neither the tail nor an empty list because of its permit: the invariant
of `PermitDequeProofs` is a part of `IInv` (`EntitledFinds`), kept because every step is
a step of the deque with permits (`StepRefines`).  A pop of that deque that waits for
its value to be written has taken nothing yet, so the spinning of line 237 is no part of
the refinement; that it ends is the liveness property `CallsReturn` of the run.
`Effect` sorts the seventeen steps and the calls by what they do to the list and to the
nodes, and the lemmas about the parts of the invariant go by these kinds.  The last
theorem counts: `OneEach`, `NodesCounted` and `BlocksCounted` turn the disjointness in
`Places` and `ItemsKept` into the sums of `Conservation`.

The lists of `JStack`, `JQue` and `JQueue` are walked by a function that calls itself.
`FromExists` shows that there is such a function, and `ListIs` that it computes the
list that the links describe; both are by induction on the number of nodes, which
comes from lemma `Least`, that a set of natural numbers has a least element.

`PermitDequeProofs` proves about `PermitDeque`, for any finite set of threads:

* `Accounting`: `_size` is the length less the pops that are entitled, the pushes
  not yet counted and the refused pops not yet undone (`SizeAccounts`), and every
  entitled pop has an item (`PermitsCovered`);
* `Company`: a pop misses an item only while another thread is in a call;
* `Refinement`: it implements `Deque` with pops that may fail.

The inductive invariant is the type, `SizeAccounts` and `PermitsCovered`: a pop takes
a permit only from a positive count, so the length exceeds the number of entitled
pops before it becomes one more.  Lemma `Moves` says how one call's move changes the
number of calls at a place.  `Company` is the account at the moment of the
refusal: a count that is not positive in front of an item means a thread at one of the
other three places.

`JThreadProofs` proves about `JThread`, for any finite set of workers, any tasks and
any size of the chunks (`SizeAssumption`):

* `Once`: `Spec => []OncePerTask`;
* `Outlived`: `Spec => []QueueOutlivesWorkers`;
* `FreedByFirst`: `Spec => []FreedOnce`;
* `Hangs`: `Spec => ConstructorHangs`.

`JsockProofs` proves about `CnctManager`, for any finite set of users and any
connections, timeout and bound of the time (`SecsAssumption`; `Nothing` is no
connection and no entry, `NothingAssumption`):

* `Managed`: `Spec => []OneEntry`;
* `Early`: `Spec => NeverEarly`.

Both are about a queue that belongs to another module, and are laid out alike.  The
invariant `IInv` has four parts.  The first is the invariant of `PermitDequeProofs`,
by `INSTANCE`: every step of the pool or the manager is a step of the queue or leaves
it alone (`QueueSteps`), and a pop with a permit finds something
(`QP!EntitledFinds`), without which the item of a pop could be anything.  The second
is the type.  The third says that where a thread is in its call of the queue fits
where it is in the caller's code (`CallsFit`, `HandsFit`).  The fourth is what the
properties say with `Cardinality`, said of the single places: `Story(k)`, a task is
nowhere and not given, in one place and not run, or nowhere and run once;
`Story(c)`, a connection has one entry if it is managed and none otherwise.
`StorySteps` goes through the actions: each moves at most one item, from its place to
the next, and the lemmas `...Moves` say how one step changes the places of every item.

`FreedByFirst` follows the memory of the tasks, with three more parts of the invariant.
`Numbered`: no two tasks have one block, because a submission takes the next number.
`Handed`: a worker has its task from the pop to the `delete`, no other worker has it,
and at the `delete` it was run.  `Freeing`: the first task of each freed chunk was run
and no worker has it any more.  So a worker at the `delete` of a first task cannot be at
a chunk that is freed: chunk and place determine the block (`FirstOfChunk`), the block
its task, and that task is still with the worker.  `Hangs` rests on a part of
`CallsFit`: while the constructor has not returned, `done` is not set and no worker has
left.

`Early` needs more (`TInv`), because `tick()` compares the time with what it finds in
the entry or in `reg`, and the promise is made elsewhere.  An entry without a record
carries its connection's deadline (`EntriesFit`); a record that is a time is the
deadline (`RecordsFit`); no two users are at one connection, so that what an
`adjust()` has found in `reg` is still so when it acts on it, unless `tick()` has
done with the connection (`AdjustsFit`); and deadlines only grow, so that what
`tick()` read is not before what it knew when it took the entry (`KnownFits`).

`JsockProofs` also proves about `JEpoll`, for any finite set of connections that each
send any number of messages (`FiniteAssumption`; no connection is called like a mark of
the tables, `NamesAssumption`), when users delete between two calls of `ep_wait()`
(`~DeletesAnyTime`, the hypothesis of each theorem: `JEpoll_del.cfg` shows that
`ClosesOnlyClosed` fails without it):

* `StoriesWhole`: `EpSpec => []EachStoryWhole`;
* `Agreement`: `EpSpec => []TablesAgree`;
* `ClosedOnly`: `EpSpec => ClosesOnlyClosed`.

The three hang together, and `EpIInv` is inductive only as a whole.  `Schedule` says
that one thread works at a time and on an open descriptor; this is where the hypothesis
is needed.  `TablesAgree` speaks of the moments between two calls; `Tables` says for
every moment what each table has, namely what is open but for the descriptor that is
being added or deleted and has not come that far.  `Placed` gives a connection one place
only, in the backlog or at one number: so a `recv()` cannot empty the inbox for another
event of the batch.  `Batch` carries what `epoll_wait()` saw to the time of its use: the
descriptors of the rest of the batch are still in the epoll set and still readable,
because the events are distinct, only the descriptor in hand is deleted, and a new
socket takes a number that was closed and so is in no event.  From it, `find()` finds,
`accept()` gets a connection, and an empty message means the end (`FindIs`, `AcceptIs`,
`RecvIs`, `DelFindIs`).  `Told` says what a reader of the messages takes each number for:
the connection that has it, unless that is still to be announced or its end has been
told.  What a number means is the last message about it (`MeansIs`, `MeansAppended`;
`Greatest` is why there is a last one); a step tells nothing, or one message that says
just what it changes (`NothingTold`, `OneTold`).

`StructureProofs` also proves about `StrJalloc`, for every `PerChunk \in Nat \ {0}` and any
`Sizes` and `MaxBlocks`:

* `DesizeFits`, `DesizeIsLeast`: for every size from 1 to 1024 the class of `desize`
  exists, is large enough, and no smaller one is;
* `Fits`: `StrSpec => []BlocksFit`;
* `Once`: `StrSpec => []EveryBlockOnce`.

`TakeFirst` and `PutFirst` are the facts about a list without repetitions that the
three actions need; `BlocksFit` is inductive together with the classes of the blocks,
because a request is served from its own class or a larger one (`SizesGrow`).

The other small components are sequential or behind one lock.  `Jallocator` and
`JallocatorT` are taken by `INSTANCE` (`J` and `JT`), so that their constants and
variables have other names here.

* `NoneLost` (`StructureProofs`, `FirstPool \in Nat`): `JT!Spec => []JT!NoBlockLost` of
  `JallocatorT`.  The refill is the step to look at: it numbers its blocks from `made`,
  and that none of them is in the list or with a user needs that the list is empty then
  and the users have all the rest (`PoolIInv`).
* `ChunksStay` (`PerChunk \in Nat \ {0}`): `J!Spec => []J!ChunksAreSafe` of `Jallocator`.
  `allocate()` takes a block of every chunk and loses all but one, so `rest` is not the
  number of blocks that the user does not have.  What holds is that `rest` is the length of
  the free list, that this has some of the chunk's blocks, each once, and none of the
  user's (`Exact`): so a list of `PerChunk` blocks has them all (`KeptReturned`).
* `Forgets` (`ElementSize` any multiple of 4, an even first capacity, as the elements of
  all jectors of the library and the constructor have them):
  `JecSpec => OnlyReleaseForgets` of `Jector`.  `refill()` copies longs, so the
  bytes of an odd number of short elements are not all copied (`CopiedIs`); the capacity
  is always even (`JecIInv`), but half of it, which `release()` copies, need not be.
* `Ordered` (`HeapKeys \subseteq Int`): `HeapSpec => []HeapOrder` of `JHeap`.  Both loops
  are one, about an order of the integers that is `<=` or `>=`.  `RisesExists` says that
  the loop comes to an end, and `RisesToHeap` what it has done when it has come from
  position j: below j nothing has changed, at j is the new element or the one
  that was above it, and all but the places below j are in order.
* `Covered` (`JsockProofs`, a finite set of threads): `PollSpec => []SizeCovered` of
  `JPoll`.  It needs that a thread at work in the array is alone with the lock, so that
  what `p_del()` has counted out is still there when it erases it, and that no
  descriptor is in the array twice (`PollIInv`).

The run `MCStructures` checks the first two as `BlocksSafe`, together with
`EveryBlockOnce`, each of the component that a behaviour is about.  That both heaps are
in order is proved and not checked by a run.

Only model-checked: all liveness (fairness and ENABLED are out of the prover's
reach), and how long a connection waits (`NotLate`), since it holds for the value of
`Patience` that goes with the bounds of the run and not for every value.  The trees
(`TreesSound`, `ImplementsDict`) use RECURSIVE operators, about which the prover cannot
reason.  The proofs take memory as sequentially consistent, as the models do, and an
allocator's failure to find memory as a push that does not start.

## 6. Not modelled

* Memory orders: the models are sequentially consistent, so `jlock_spin` (100-139),
  whose only question is its relaxed order, would show nothing.  `plock_rw` forwards
  to pthreads.
* Wrappers, conversions and console programs: `jsock`'s calls, `jalloc_origin`,
  `key_traits`, `instructor`.
* `jhash`, a template that nothing uses and whose constructor cannot be compiled
  (`pthread_rwlock_init` with one argument); of `jheap` the pops, which
  call an `is_empty` that `jector` does not have, and the tops, which return an `obj *`
  as a `T *`.
* Failure of `malloc`, which the code does not handle.  The branch of `collect` for
  edge triggering, which nothing can choose.
* Unlocked reads that change nothing: `is_empty`, `get_top`, `get_size` (`SizeAccounts`
  says what a read of the size is worth).

What could be added: theorems about the trees, with their recursion written as
functions; a bound for `NotLate` that depends on the number of connections; and users
of `jepoll` and `cnct_manager` together, as a server has them.
