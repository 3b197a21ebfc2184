-------------------------------- MODULE JQue --------------------------------
(***************************************************************************)
(* jque of jque.cpp: a deque with one mutex for each end.  The last node   *)
(* is always an empty one, so that push_back fills it and appends a new    *)
(* empty node under mut, while pop_front and push_front work on head under *)
(* muh.  The two ends meet only through _size: a pop takes one from it     *)
(* before it touches head, and gives it back if there was nothing to take. *)
(*                                                                         *)
(* One action is one access to memory that another thread may look at; in  *)
(* a critical section these are the single assignments.  Nodes and data    *)
(* blocks come from two allocators (module Allocator).                     *)
(***************************************************************************)
EXTENDS Integers, Sequences, FiniteSets

CONSTANTS Threads,
          Nodes,        \* bound: the nodes the allocator can provide
          Items,        \* bound: the data blocks the other allocator can provide
          NoItem,
          Null,
          Junk,         \* what a freshly allocated node holds
          NoThread

ASSUME NamesAssumption ==
    /\ Null \notin Nodes /\ Junk \notin Nodes \cup Items /\ Null # Junk
    /\ NoItem \notin Items /\ NoThread \notin Threads
    /\ IsFiniteSet(Threads) /\ IsFiniteSet(Nodes) /\ IsFiniteSet(Items)

VARIABLES head, tail,
          next, val,        \* the two fields of every node
          muh, mut,         \* the owners of the two mutexes
          size,             \* _size
          nodes, blocks,    \* what the two allocators have handed out
          held,             \* the data blocks that pop_front() has returned
          pc,
          ptr,              \* each thread's node: new_tail, new_head or r
          item              \* each thread's data block: new_value or res

list == <<head, tail, next, val>>
locks == <<muh, mut>>
memory == <<nodes, blocks, held>>
local == <<ptr, item>>
vars == <<list, locks, size, memory, pc, local>>

NodeAlloc == INSTANCE Allocator WITH Blocks <- Nodes, inUse <- nodes
DataAlloc == INSTANCE Allocator WITH Blocks <- Items, inUse <- blocks

Goto(t, from, to) == pc[t] = from /\ pc' = [pc EXCEPT ![t] = to]

\* The constructor makes the first empty node.
Init ==
    /\ \E n \in Nodes :
          /\ head = n /\ tail = n /\ nodes = {n}
          /\ next = [m \in Nodes |-> IF m = n THEN Null ELSE Junk]
    /\ val = [m \in Nodes |-> Junk]
    /\ muh = NoThread /\ mut = NoThread
    /\ size = 0
    /\ blocks = {} /\ held = {}
    /\ pc = [t \in Threads |-> "idle"]
    /\ ptr = [t \in Threads |-> Null]
    /\ item = [t \in Threads |-> NoItem]

-----------------------------------------------------------------------------
(* push_back(), the same for T& and T&& *)

\* the allocations and new_tail->next = nullptr
PushBackCall(t, n, d) ==
    /\ Goto(t, "idle", "b_lock")
    /\ NodeAlloc!Allocate(n)
    /\ DataAlloc!Allocate(d)
    /\ next' = [next EXCEPT ![n] = Null]
    /\ ptr' = [ptr EXCEPT ![t] = n]
    /\ item' = [item EXCEPT ![t] = d]
    /\ UNCHANGED <<head, tail, val, locks, size, held>>

BackLock(t) ==
    /\ Goto(t, "b_lock", "b_val")
    /\ mut = NoThread
    /\ mut' = t
    /\ UNCHANGED <<list, muh, size, memory, local>>

\* tail->val = new_value
BackVal(t) ==
    /\ Goto(t, "b_val", "b_next")
    /\ val' = [val EXCEPT ![tail] = item[t]]
    /\ UNCHANGED <<head, tail, next, locks, size, memory, local>>

\* tail->next = new_tail
BackNext(t) ==
    /\ Goto(t, "b_next", "b_tail")
    /\ next' = [next EXCEPT ![tail] = ptr[t]]
    /\ UNCHANGED <<head, tail, val, locks, size, memory, local>>

\* tail = new_tail
BackTail(t) ==
    /\ Goto(t, "b_tail", "b_unlock")
    /\ tail' = ptr[t]
    /\ UNCHANGED <<head, next, val, locks, size, memory, local>>

\* Mutant: mut is not unlocked.
KeepsMut(t) ==
    /\ Goto(t, "b_unlock", "count")
    /\ UNCHANGED <<list, locks, size, memory, local>>

BackUnlock(t) ==
    /\ Goto(t, "b_unlock", "count")
    /\ mut' = NoThread
    /\ UNCHANGED <<list, muh, size, memory, local>>

\* _size++, the last step of both pushes
PushCount(t) ==
    /\ Goto(t, "count", "idle")
    /\ size' = size + 1
    /\ ptr' = [ptr EXCEPT ![t] = Null]
    /\ item' = [item EXCEPT ![t] = NoItem]
    /\ UNCHANGED <<list, locks, memory>>

(* push_front(), the same for T& and T&& *)

PushFrontCall(t, n, d) ==
    /\ Goto(t, "idle", "f_lock")
    /\ NodeAlloc!Allocate(n)
    /\ DataAlloc!Allocate(d)
    /\ val' = [val EXCEPT ![n] = d]
    /\ ptr' = [ptr EXCEPT ![t] = n]
    /\ item' = [item EXCEPT ![t] = d]
    /\ UNCHANGED <<head, tail, next, locks, size, held>>

FrontLock(t) ==
    /\ Goto(t, "f_lock", "f_next")
    /\ muh = NoThread
    /\ muh' = t
    /\ UNCHANGED <<list, mut, size, memory, local>>

\* new_head->next = head
FrontNext(t) ==
    /\ Goto(t, "f_next", "f_head")
    /\ next' = [next EXCEPT ![ptr[t]] = head]
    /\ UNCHANGED <<head, tail, val, locks, size, memory, local>>

\* head = new_head
FrontHead(t) ==
    /\ Goto(t, "f_head", "f_unlock")
    /\ head' = ptr[t]
    /\ UNCHANGED <<tail, next, val, locks, size, memory, local>>

FrontUnlock(t) ==
    /\ Goto(t, "f_unlock", "count")
    /\ muh' = NoThread
    /\ UNCHANGED <<list, mut, size, memory, local>>

(* pop_front() and return_data() *)

PopCall(t) == Goto(t, "idle", "o_take") /\ UNCHANGED <<list, locks, size, memory, local>>

\* Mutant: if (k < 0): a permit that is not there.
TakesFromEmpty(t) ==
    /\ Goto(t, "o_take", IF size < 0 THEN "o_undo" ELSE "o_lock")
    /\ size' = size - 1
    /\ UNCHANGED <<list, locks, memory, local>>

\* int k = _size--; if (k <= 0)
PopTake(t) ==
    /\ Goto(t, "o_take", IF size <= 0 THEN "o_undo" ELSE "o_lock")
    /\ size' = size - 1
    /\ UNCHANGED <<list, locks, memory, local>>

\* _size++; return nullptr
PopUndo(t) ==
    /\ Goto(t, "o_undo", "idle")
    /\ size' = size + 1
    /\ UNCHANGED <<list, locks, memory, local>>

\* Mutant: pop_front() does not take muh.
PopsUnlocked(t) ==
    /\ Goto(t, "o_lock", "o_read")
    /\ UNCHANGED <<list, locks, size, memory, local>>

PopLock(t) ==
    /\ Goto(t, "o_lock", "o_read")
    /\ muh = NoThread
    /\ muh' = t
    /\ UNCHANGED <<list, mut, size, memory, local>>

\* r = head
PopRead(t) ==
    /\ Goto(t, "o_read", "o_head")
    /\ ptr' = [ptr EXCEPT ![t] = head]
    /\ UNCHANGED <<list, locks, size, memory, item>>

\* head = r->next
PopHead(t) ==
    /\ Goto(t, "o_head", "o_unlock")
    /\ head' = next[ptr[t]]
    /\ UNCHANGED <<tail, next, val, locks, size, memory, local>>

PopUnlock(t) ==
    /\ Goto(t, "o_unlock", "o_val")
    /\ muh' = NoThread
    /\ UNCHANGED <<list, mut, size, memory, local>>

\* res = r->val
PopVal(t) ==
    /\ Goto(t, "o_val", "o_free")
    /\ item' = [item EXCEPT ![t] = val[ptr[t]]]
    /\ UNCHANGED <<list, locks, size, memory, ptr>>

\* Mutant: the node is not freed.
KeepsNode(t) ==
    /\ Goto(t, "o_free", "idle")
    /\ held' = held \cup {item[t]}
    /\ ptr' = [ptr EXCEPT ![t] = Null]
    /\ item' = [item EXCEPT ![t] = NoItem]
    /\ UNCHANGED <<list, locks, size, nodes, blocks>>

\* jalloc.deallocate(r); return res
PopFree(t) ==
    /\ Goto(t, "o_free", "idle")
    /\ NodeAlloc!Deallocate(ptr[t])
    /\ next' = [next EXCEPT ![ptr[t]] = Junk]
    /\ val' = [val EXCEPT ![ptr[t]] = Junk]
    /\ held' = held \cup {item[t]}
    /\ ptr' = [ptr EXCEPT ![t] = Null]
    /\ item' = [item EXCEPT ![t] = NoItem]
    /\ UNCHANGED <<head, tail, locks, size, blocks>>

ReturnData(d) ==
    /\ d \in held
    /\ held' = held \ {d}
    /\ DataAlloc!Deallocate(d)
    /\ UNCHANGED <<list, locks, size, nodes, pc, local>>

-----------------------------------------------------------------------------

Call(t) == \/ PopCall(t)
           \/ \E n \in Nodes, d \in Items : PushBackCall(t, n, d) \/ PushFrontCall(t, n, d)

Step(t) == \/ BackLock(t) \/ BackVal(t) \/ BackNext(t) \/ BackTail(t) \/ BackUnlock(t)
           \/ FrontLock(t) \/ FrontNext(t) \/ FrontHead(t) \/ FrontUnlock(t)
           \/ PushCount(t)
           \/ PopTake(t) \/ PopUndo(t) \/ PopLock(t) \/ PopRead(t) \/ PopHead(t) \/ PopUnlock(t)
           \/ PopVal(t) \/ PopFree(t)

Next == \/ \E t \in Threads : Call(t) \/ Step(t)
        \/ \E d \in Items : ReturnData(d)

Spec == Init /\ [][Next]_vars

-----------------------------------------------------------------------------
(* Properties *)

Labels == {"idle", "b_lock", "b_val", "b_next", "b_tail", "b_unlock", "count",
           "f_lock", "f_next", "f_head", "f_unlock",
           "o_take", "o_undo", "o_lock", "o_read", "o_head", "o_unlock", "o_val", "o_free"}

At(labels) == {t \in Threads : pc[t] \in labels}

\* The types of the variables; head and tail always are nodes, so no pop ever
\* dereferences a null or freed head.
TypeOK ==
    /\ head \in nodes /\ tail \in nodes
    /\ next \in [Nodes -> Nodes \cup {Null, Junk}]
    /\ val \in [Nodes -> Items \cup {Junk}]
    /\ muh \in Threads \cup {NoThread} /\ mut \in Threads \cup {NoThread}
    /\ size \in Int
    /\ nodes \subseteq Nodes /\ blocks \subseteq Items /\ held \subseteq Items
    /\ pc \in [Threads -> Labels]
    /\ ptr \in [Threads -> Nodes \cup {Null}]
    /\ item \in [Threads -> Items \cup {NoItem}]

\* The first k nodes (fewer if there are not as many) from node n on; the list ends at tail.
From[k \in 0 .. Cardinality(Nodes)] ==
    [n \in Nodes \cup {Null, Junk} |->
        IF k = 0 \/ n \notin Nodes \ {tail} THEN <<>> ELSE <<n>> \o From[k - 1][next[n]]]

List == From[Cardinality(Nodes)][head]

Listed == LET listed == List IN {listed[i] : i \in DOMAIN listed}

\* A pop holding a permit never reaches the empty node that push_back is filling
\* under the other mutex: the two ends never touch the same node unsynchronised.
EndsApart == \A t \in At({"o_head", "o_unlock", "o_val", "o_free"}) : ptr[t] # tail

\* Nothing leaks and nothing is in two places: the nodes in use are the tail,
\* those on the list and the one each running push or pop has to itself; the
\* data blocks in use are those of items on the list, in calls and with callers.
Private(t) ==
    IF pc[t] \in {"b_lock", "b_val", "b_next", "b_tail", "f_lock", "f_next", "f_head",
                  "o_unlock", "o_val", "o_free"}
        THEN {ptr[t]} ELSE {}

PrivateItem(t) ==
    CASE pc[t] \in {"b_lock", "b_val", "b_next", "b_tail", "f_lock", "f_next", "f_head", "o_free"}
             -> {item[t]}
      [] pc[t] \in {"o_unlock", "o_val"} -> {val[ptr[t]]}
      [] OTHER -> {}

Privates == {t \in Threads : Private(t) # {}}

Conservation ==
    /\ TypeOK
    /\ nodes = {tail} \cup Listed \cup UNION {Private(t) : t \in Threads}
    /\ Cardinality(nodes) = 1 + Len(List) + Cardinality(Privates)
    /\ blocks = held \cup {val[n] : n \in Listed} \cup UNION {PrivateItem(t) : t \in Threads}
    /\ Cardinality(blocks) = Cardinality(held) + Len(List) + Cardinality(Privates)

\* How far the call of thread t is, and the items front first.
OpOf(label) ==
    CASE label \in {"b_lock", "b_val", "b_next", "b_tail"} -> "push_back"
      [] label \in {"f_lock", "f_next", "f_head"} -> "push_front"
      [] label \in {"b_unlock", "f_unlock", "count"} -> "linked"
      [] label = "o_take" -> "pop_front"
      [] label = "o_undo" -> "refused"
      [] label \in {"o_lock", "o_read", "o_head"} -> "entitled"
      [] label \in {"o_unlock", "o_val", "o_free"} -> "done"
      [] OTHER -> "idle"

ItemOf(t) ==
    CASE OpOf(pc[t]) \in {"push_back", "push_front"} \/ pc[t] = "o_free" -> item[t]
      [] pc[t] \in {"o_unlock", "o_val"} -> val[ptr[t]]
      [] OTHER -> NoItem

Content == LET listed == List IN [i \in DOMAIN listed |-> val[listed[i]]]
CallsOf == [t \in Threads |-> [op |-> OpOf(pc[t]), item |-> ItemOf(t)]]

\* jque implements the deque with permits: every push and pop takes effect at one
\* moment of its call, a pop that has its permit always gets the front item, no
\* item is lost, invented, popped twice or out of order, and _size is exact but
\* for the calls in flight.
Permits == INSTANCE PermitDeque WITH content <- Content, call <- CallsOf
ImplementsPermitDeque == Permits!Spec

=============================================================================
