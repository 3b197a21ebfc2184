------------------------------- MODULE JQueue -------------------------------
(***************************************************************************)
(* jqueue of jque.cpp: the lock-free deque.  push_back moves tail to a new *)
(* empty node and only then fills the node it moved away from, link first, *)
(* value last; pop_front spins on the value of the head until it is there. *)
(* As in jque a pop takes its permit from size first; as in jstack it      *)
(* frees its node when no other pop holds a snapshot (head_thread).        *)
(*                                                                         *)
(* One action is one access to shared memory.  Nodes and data blocks come  *)
(* from two allocators (module Allocator).                                 *)
(***************************************************************************)
EXTENDS Integers, Sequences, FiniteSets

CONSTANTS Threads,
          Nodes,        \* bound: the nodes the allocator can provide
          Items,        \* bound: the data blocks the other allocator can provide
          NoItem,       \* a null val
          Raw,          \* the data block of the first node: no T was made in it
          Null,
          Junk,         \* what a freshly allocated node holds
          Leftovers     \* what the constructor may leave in head_thread: it has
                        \* no initialiser, so {0} since C++20, anything before

ASSUME NamesAssumption ==
    /\ Null \notin Nodes /\ Junk \notin Nodes \cup Items /\ Null # Junk
    /\ NoItem \notin Items /\ Raw \notin Items \cup {NoItem, Junk}
    /\ Leftovers \subseteq Nat
    /\ IsFiniteSet(Threads) /\ IsFiniteSet(Nodes) /\ IsFiniteSet(Items)

VARIABLES head, tail,
          next, val,        \* the two fields of every node
          size,
          head_thread,
          nodes, blocks,    \* what the two allocators have handed out
          held,             \* the data blocks that pop_front() has returned
          pc,
          new,              \* each thread's new_node
          old,              \* each thread's old_tail or old_head
          nxt,              \* each thread's copy of old_head->next
          item              \* each thread's data block: val or r

list == <<head, tail, next, val>>
counters == <<size, head_thread>>
memory == <<nodes, blocks, held>>
local == <<new, old, nxt, item>>
vars == <<list, counters, memory, pc, local>>

NodeAlloc == INSTANCE Allocator WITH Blocks <- Nodes, inUse <- nodes
DataAlloc == INSTANCE Allocator WITH Blocks <- Items, inUse <- blocks

Goto(t, from, to) == pc[t] = from /\ pc' = [pc EXCEPT ![t] = to]

\* What the constructor makes: one node, with a data block for its value.
Init ==
    /\ \E n \in Nodes :
          /\ head = n /\ tail = n /\ nodes = {n}
          /\ next = [m \in Nodes |-> IF m = n THEN Null ELSE Junk]
          /\ val = [m \in Nodes |-> IF m = n THEN Raw ELSE Junk]
    /\ size = 0
    /\ head_thread \in Leftovers
    /\ blocks = {} /\ held = {}
    /\ pc = [t \in Threads |-> "idle"]
    /\ new = [t \in Threads |-> Null]
    /\ old = [t \in Threads |-> Null]
    /\ nxt = [t \in Threads |-> Null]
    /\ item = [t \in Threads |-> NoItem]

-----------------------------------------------------------------------------
(* push_back() *)

\* Mutant: new_node->val keeps what the memory held.
LeavesValAsFound(t, n, d) ==
    /\ Goto(t, "idle", "b_load")
    /\ NodeAlloc!Allocate(n)
    /\ DataAlloc!Allocate(d)
    /\ new' = [new EXCEPT ![t] = n]
    /\ item' = [item EXCEPT ![t] = d]
    /\ UNCHANGED <<list, counters, held, old, nxt>>

PushBackCall(t, n, d) ==
    /\ Goto(t, "idle", "b_load")
    /\ NodeAlloc!Allocate(n)
    /\ DataAlloc!Allocate(d)
    /\ val' = [val EXCEPT ![n] = NoItem]
    /\ new' = [new EXCEPT ![t] = n]
    /\ item' = [item EXCEPT ![t] = d]
    /\ UNCHANGED <<head, tail, next, counters, held, old, nxt>>

\* old_tail = tail.load()
BackLoad(t) ==
    /\ Goto(t, "b_load", "b_cas")
    /\ old' = [old EXCEPT ![t] = tail]
    /\ UNCHANGED <<list, counters, memory, new, nxt, item>>

BackCas(t) ==
    /\ IF tail = old[t]
           THEN Goto(t, "b_cas", "b_next") /\ tail' = new[t] /\ UNCHANGED old
           ELSE Goto(t, "b_cas", "b_cas") /\ old' = [old EXCEPT ![t] = tail] /\ UNCHANGED tail
    /\ UNCHANGED <<head, next, val, counters, memory, new, nxt, item>>

\* old_tail->next = new_node
BackNext(t) ==
    /\ Goto(t, "b_next", "b_val")
    /\ next' = [next EXCEPT ![old[t]] = new[t]]
    /\ UNCHANGED <<head, tail, val, counters, memory, local>>

\* old_tail->val = val
BackVal(t) ==
    /\ Goto(t, "b_val", "count")
    /\ val' = [val EXCEPT ![old[t]] = item[t]]
    /\ UNCHANGED <<head, tail, next, counters, memory, local>>

\* size++, the last step of both pushes
PushCount(t) ==
    /\ Goto(t, "count", "idle")
    /\ size' = size + 1
    /\ new' = [new EXCEPT ![t] = Null]
    /\ old' = [old EXCEPT ![t] = Null]
    /\ item' = [item EXCEPT ![t] = NoItem]
    /\ UNCHANGED <<list, head_thread, memory, nxt>>

(* push_front() *)

PushFrontCall(t, n, d) ==
    /\ Goto(t, "idle", "f_load")
    /\ NodeAlloc!Allocate(n)
    /\ DataAlloc!Allocate(d)
    /\ val' = [val EXCEPT ![n] = d]
    /\ new' = [new EXCEPT ![t] = n]
    /\ item' = [item EXCEPT ![t] = d]
    /\ UNCHANGED <<head, tail, next, counters, held, old, nxt>>

\* new_node->next = head.load()
FrontLoad(t) ==
    /\ Goto(t, "f_load", "f_cas")
    /\ next' = [next EXCEPT ![new[t]] = head]
    /\ UNCHANGED <<head, tail, val, counters, memory, local>>

\* Mutant: the compare-and-swap is not repeated.
FrontTriesOnce(t) ==
    /\ Goto(t, "f_cas", "count")
    /\ head' = IF next[new[t]] = head THEN new[t] ELSE head
    /\ UNCHANGED <<tail, next, val, counters, memory, local>>

\* a failure stores the head in new_node->next
FrontCas(t) ==
    /\ pc[t] = "f_cas"
    /\ IF next[new[t]] = head
           THEN Goto(t, "f_cas", "count") /\ head' = new[t] /\ UNCHANGED next
           ELSE next' = [next EXCEPT ![new[t]] = head] /\ UNCHANGED <<head, pc>>
    /\ UNCHANGED <<tail, val, counters, memory, local>>

(* pop_front(); the caller frees the data block when it is done with it *)

PopCall(t) == Goto(t, "idle", "o_take") /\ UNCHANGED <<list, counters, memory, local>>

\* int k = size--; if (k <= 0)
PopTake(t) ==
    /\ Goto(t, "o_take", IF size <= 0 THEN "o_undo" ELSE "o_enter")
    /\ size' = size - 1
    /\ UNCHANGED <<list, head_thread, memory, local>>

\* size++; return nullptr
PopUndo(t) ==
    /\ Goto(t, "o_undo", "idle")
    /\ size' = size + 1
    /\ UNCHANGED <<list, head_thread, memory, local>>

\* head_thread++
PopEnter(t) ==
    /\ Goto(t, "o_enter", "o_load")
    /\ head_thread' = head_thread + 1
    /\ UNCHANGED <<list, size, memory, local>>

\* old_head = head.load()
PopLoad(t) ==
    /\ Goto(t, "o_load", "o_test")
    /\ old' = [old EXCEPT ![t] = head]
    /\ UNCHANGED <<list, counters, memory, new, nxt, item>>

\* the turn of the loop in which old_head->val is not null; the others only spin
PopTest(t) ==
    /\ Goto(t, "o_test", "o_next")
    /\ val[old[t]] # NoItem
    /\ UNCHANGED <<list, counters, memory, local>>

\* the argument old_head->next is read before the compare-and-swap
PopNext(t) ==
    /\ Goto(t, "o_next", "o_cas")
    /\ nxt' = [nxt EXCEPT ![t] = next[old[t]]]
    /\ UNCHANGED <<list, counters, memory, new, old, item>>

\* Mutant: a store instead of the compare-and-swap.
StoresInsteadOfCas(t) ==
    /\ Goto(t, "o_cas", "o_read")
    /\ head' = nxt[t]
    /\ nxt' = [nxt EXCEPT ![t] = Null]
    /\ UNCHANGED <<tail, next, val, counters, memory, new, old, item>>

PopCas(t) ==
    /\ IF head = old[t]
           THEN Goto(t, "o_cas", "o_read") /\ head' = nxt[t] /\ UNCHANGED old
           ELSE Goto(t, "o_cas", "o_test") /\ old' = [old EXCEPT ![t] = head] /\ UNCHANGED head
    /\ nxt' = [nxt EXCEPT ![t] = Null]
    /\ UNCHANGED <<tail, next, val, counters, memory, new, item>>

\* r = old_head->val
PopRead(t) ==
    /\ Goto(t, "o_read", "o_exit")
    /\ item' = [item EXCEPT ![t] = val[old[t]]]
    /\ UNCHANGED <<list, counters, memory, new, old, nxt>>

\* Mutant: head_thread-- is missing.
NeverLeaves(t) ==
    /\ Goto(t, "o_exit", "o_wait")
    /\ UNCHANGED <<list, counters, memory, local>>

\* head_thread--
PopExit(t) ==
    /\ Goto(t, "o_exit", "o_wait")
    /\ head_thread' = head_thread - 1
    /\ UNCHANGED <<list, size, memory, local>>

\* while (head_thread); jalloc.deallocate(old_head); return r
PopReturn(t) ==
    /\ Goto(t, "o_wait", "idle")
    /\ head_thread = 0
    /\ NodeAlloc!Deallocate(old[t])
    /\ next' = [next EXCEPT ![old[t]] = Junk]
    /\ val' = [val EXCEPT ![old[t]] = Junk]
    /\ held' = held \cup {item[t]}
    /\ old' = [old EXCEPT ![t] = Null]
    /\ item' = [item EXCEPT ![t] = NoItem]
    /\ UNCHANGED <<head, tail, counters, blocks, new, nxt>>

\* jqueue has no return_data(): the caller gives the block back in its own way.
CallerFrees(d) ==
    /\ d \in held
    /\ held' = held \ {d}
    /\ DataAlloc!Deallocate(d)
    /\ UNCHANGED <<list, counters, nodes, pc, local>>

-----------------------------------------------------------------------------

Call(t) == \/ PopCall(t)
           \/ \E n \in Nodes, d \in Items : PushBackCall(t, n, d) \/ PushFrontCall(t, n, d)

Step(t) == \/ BackLoad(t) \/ BackCas(t) \/ BackNext(t) \/ BackVal(t)
           \/ FrontLoad(t) \/ FrontCas(t)
           \/ PushCount(t)
           \/ PopTake(t) \/ PopUndo(t) \/ PopEnter(t) \/ PopLoad(t) \/ PopTest(t)
           \/ PopNext(t) \/ PopCas(t) \/ PopRead(t) \/ PopExit(t) \/ PopReturn(t)

Next == \/ \E t \in Threads : Call(t) \/ Step(t)
        \/ \E d \in Items : CallerFrees(d)

Spec == Init /\ [][Next]_vars

\* What the constructor, a push_back() and a pop_front() leave behind, each from
\* call to return: the deque is empty again, and its last node is one that a
\* push_back() made.  The pop has returned, so head_thread was and is 0.
WarmInit ==
    /\ \E n \in Nodes :
          /\ head = n /\ tail = n /\ nodes = {n}
          /\ val = [m \in Nodes |-> IF m = n THEN NoItem ELSE Junk]
    /\ next = [n \in Nodes |-> Junk]
    /\ size = 0 /\ head_thread = 0
    /\ blocks = {} /\ held = {}
    /\ pc = [t \in Threads |-> "idle"]
    /\ new = [t \in Threads |-> Null]
    /\ old = [t \in Threads |-> Null]
    /\ nxt = [t \in Threads |-> Null]
    /\ item = [t \in Threads |-> NoItem]

WarmSpec == WarmInit /\ [][Next]_vars

-----------------------------------------------------------------------------
(* Properties *)

Labels == {"idle", "b_load", "b_cas", "b_next", "b_val", "count", "f_load", "f_cas",
           "o_take", "o_undo", "o_enter", "o_load", "o_test", "o_next", "o_cas",
           "o_read", "o_exit", "o_wait"}

At(labels) == {t \in Threads : pc[t] \in labels}

\* The types of the variables; head and tail always are nodes in use, so no
\* pop follows the uninitialised link of the last node.
TypeOK ==
    /\ head \in nodes /\ tail \in nodes
    /\ next \in [Nodes -> Nodes \cup {Null, Junk}]
    /\ val \in [Nodes -> Items \cup {NoItem, Raw, Junk}]
    /\ size \in Int /\ head_thread \in Nat
    /\ nodes \subseteq Nodes /\ blocks \subseteq Items /\ held \subseteq Items
    /\ pc \in [Threads -> Labels]
    /\ new \in [Threads -> Nodes \cup {Null}]
    /\ old \in [Threads -> Nodes \cup {Null}]
    /\ nxt \in [Threads -> Nodes \cup {Null}]
    /\ item \in [Threads -> Items \cup {NoItem}]

\* Node n was the tail and the push_back of thread t still has to fill it.
Owes(t, n) == pc[t] \in {"b_next", "b_val"} /\ old[t] = n

\* The fields as they will be once every push_back has filled its node.
Filler(n) == CHOOSE t \in Threads : Owes(t, n)
FinalNext(n) == IF \E t \in Threads : Owes(t, n) THEN new[Filler(n)] ELSE next[n]
FinalVal(n) == IF \E t \in Threads : Owes(t, n) THEN item[Filler(n)] ELSE val[n]

\* The first k nodes (fewer if there are not as many) from node n on; the list ends at tail.
From[k \in 0 .. Cardinality(Nodes)] ==
    [n \in Nodes \cup {Null, Junk} |->
        IF k = 0 \/ n \notin Nodes \ {tail} THEN <<>> ELSE <<n>> \o From[k - 1][FinalNext(n)]]

List == From[Cardinality(Nodes)][head]

Listed == LET listed == List IN {listed[i] : i \in DOMAIN listed}

\* When a pop has seen a value in old_head, "the write old_tail is done": no
\* push_back is still going to write to that node.
ValMeansWritten ==
    \A t, u \in Threads : pc[t] \in {"o_next", "o_cas"} => ~ Owes(u, old[t])

\* The node a running call has to itself, and its data block.
Private(t) ==
    CASE pc[t] \in {"b_load", "b_cas", "f_load", "f_cas"} -> {new[t]}
      [] pc[t] \in {"o_read", "o_exit", "o_wait"} -> {old[t]}
      [] OTHER -> {}

PrivateItem(t) ==
    CASE pc[t] \in {"b_load", "b_cas", "f_load", "f_cas", "o_exit", "o_wait"} -> {item[t]}
      [] pc[t] = "o_read" -> {val[old[t]]}
      [] OTHER -> {}

Privates == {t \in Threads : Private(t) # {}}

\* Nothing leaks and nothing is in two places: the nodes in use are the tail,
\* those on the list and the one each running push or pop has to itself; the
\* data blocks in use are those of items on the list, in calls and with callers.
Conservation ==
    /\ TypeOK
    /\ nodes = {tail} \cup Listed \cup UNION {Private(t) : t \in Threads}
    /\ Cardinality(nodes) = 1 + Len(List) + Cardinality(Privates)
    /\ blocks = held \cup {FinalVal(n) : n \in Listed}
                     \cup UNION {PrivateItem(t) : t \in Threads}
    /\ Cardinality(blocks) = Cardinality(held) + Len(List) + Cardinality(Privates)

\* The call of thread t as a caller sees it.
Refined(t) ==
    CASE pc[t] = "idle" -> [op |-> "idle", item |-> NoItem]
      [] pc[t] \in {"b_load", "b_cas"} -> [op |-> "push_back", item |-> item[t]]
      [] pc[t] \in {"f_load", "f_cas"} -> [op |-> "push_front", item |-> item[t]]
      [] pc[t] \in {"o_take", "o_enter", "o_load", "o_test", "o_next", "o_cas"} ->
             [op |-> "pop_front", item |-> NoItem]
      [] pc[t] = "o_read" -> [op |-> "done", item |-> val[old[t]]]
      [] pc[t] \in {"o_exit", "o_wait"} -> [op |-> "done", item |-> item[t]]
      [] OTHER -> [op |-> "done", item |-> NoItem]

\* jqueue implements a deque whose pop_front() may return nullptr although there
\* is an item: items leave in the order in which push_back moved tail, however
\* late each of them is filled.
Lax == INSTANCE Deque WITH
    MayFail <- TRUE,
    content <- LET listed == List IN [i \in DOMAIN listed |-> FinalVal(listed[i])],
    call <- [t \in Threads |-> Refined(t)]

ImplementsLaxDeque == Lax!Spec

=============================================================================
