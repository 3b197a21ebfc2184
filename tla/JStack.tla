------------------------------- MODULE JStack -------------------------------
(***************************************************************************)
(* jstack of jstack.cpp: a lock-free stack of nodes, each with a pointer   *)
(* to a data block.  push links a node with a compare-and-swap and then    *)
(* counts it; pop unlinks one between popingThreads++ and popingThreads--, *)
(* waits until no thread is between the two, uncounts the node and frees   *)
(* it.  The caller owns the data block until return_data().                *)
(*                                                                         *)
(* One action is one access to shared memory.  Nodes and data blocks come  *)
(* from two allocators (module Allocator, which JallocConc implements);    *)
(* the link of a free node is the allocator's, hence Junk.                 *)
(***************************************************************************)
EXTENDS Integers, Sequences, FiniteSets

CONSTANTS Threads,
          Nodes,        \* bound: the nodes the allocator can provide
          Items,        \* bound: the data blocks the other allocator can provide
          NoItem,
          Null,
          Junk

ASSUME NamesAssumption ==
    /\ Null \notin Nodes /\ Junk \notin Nodes /\ Null # Junk /\ NoItem \notin Items
    /\ IsFiniteSet(Threads) /\ IsFiniteSet(Nodes) /\ IsFiniteSet(Items)

VARIABLES head,
          next, data,       \* the two fields of every node
          popingThreads,
          size,             \* __size
          nodes, blocks,    \* what the two allocators have handed out
          held,             \* the data blocks that pop() has returned
          pc,
          lp,               \* each thread's node: lp in push, old_head in pop
          nxt               \* each thread's copy of old_head->next

shared == <<head, next, data, popingThreads, size>>
memory == <<nodes, blocks, held>>
vars == <<shared, memory, pc, lp, nxt>>

NodeAlloc == INSTANCE Allocator WITH Blocks <- Nodes, inUse <- nodes
DataAlloc == INSTANCE Allocator WITH Blocks <- Items, inUse <- blocks

Goto(t, from, to) == pc[t] = from /\ pc' = [pc EXCEPT ![t] = to]

SetLp(t, n) == lp' = [lp EXCEPT ![t] = n]

Init ==
    /\ head = Null
    /\ next = [n \in Nodes |-> Junk]
    /\ data = [n \in Nodes |-> NoItem]
    /\ popingThreads = 0
    /\ size = 0
    /\ nodes = {} /\ blocks = {} /\ held = {}
    /\ pc = [t \in Threads |-> "idle"]
    /\ lp = [t \in Threads |-> Null]
    /\ nxt = [t \in Threads |-> Null]

-----------------------------------------------------------------------------
(* push(), the same for T& and T&& *)

\* the two allocations and the new T: nobody else sees them yet
PushCall(t, n, d) ==
    /\ Goto(t, "idle", "p_load")
    /\ NodeAlloc!Allocate(n)
    /\ DataAlloc!Allocate(d)
    /\ data' = [data EXCEPT ![n] = d]
    /\ SetLp(t, n)
    /\ UNCHANGED <<head, next, popingThreads, size, held, nxt>>

\* lp->next = head.load()
PushLoad(t) ==
    /\ Goto(t, "p_load", "p_cas")
    /\ next' = [next EXCEPT ![lp[t]] = head]
    /\ UNCHANGED <<head, data, popingThreads, size, memory, lp, nxt>>

\* Mutant: the compare-and-swap is not repeated.
LinksOnce(t) ==
    /\ Goto(t, "p_cas", "p_count")
    /\ head' = IF next[lp[t]] = head THEN lp[t] ELSE head
    /\ UNCHANGED <<next, data, popingThreads, size, memory, lp, nxt>>

\* Mutant: a failure leaves the expected value as it was.
ExpectsOldHead(t) ==
    /\ pc[t] = "p_cas"
    /\ IF next[lp[t]] = head
           THEN Goto(t, "p_cas", "p_count") /\ head' = lp[t]
           ELSE Goto(t, "p_cas", "p_cas") /\ UNCHANGED head
    /\ UNCHANGED <<next, data, popingThreads, size, memory, lp, nxt>>

\* compare_exchange_strong(lp->next, lp): a failure stores the head in lp->next
PushCas(t) ==
    /\ pc[t] = "p_cas"
    /\ IF next[lp[t]] = head
           THEN /\ Goto(t, "p_cas", "p_count")
                /\ head' = lp[t]
                /\ UNCHANGED next
           ELSE /\ next' = [next EXCEPT ![lp[t]] = head]
                /\ UNCHANGED <<head, pc>>
    /\ UNCHANGED <<data, popingThreads, size, memory, lp, nxt>>

\* __size++
PushCount(t) ==
    /\ Goto(t, "p_count", "idle")
    /\ size' = size + 1
    /\ SetLp(t, Null)
    /\ UNCHANGED <<head, next, data, popingThreads, memory, nxt>>

(* pop() and return_data() *)

PopCall(t) == Goto(t, "idle", "o_enter") /\ UNCHANGED <<shared, memory, lp, nxt>>

\* popingThreads++
PopEnter(t) ==
    /\ Goto(t, "o_enter", "o_load")
    /\ popingThreads' = popingThreads + 1
    /\ UNCHANGED <<head, next, data, size, memory, lp, nxt>>

\* old_head becomes the head just read; the loop is over if there is none
SeeHead(t, from) ==
    /\ Goto(t, from, IF head = Null THEN "o_exit" ELSE "o_next")
    /\ SetLp(t, head)

PopLoad(t) == SeeHead(t, "o_load") /\ UNCHANGED <<shared, memory, nxt>>

\* the argument old_head->next is read before the compare-and-swap
PopNext(t) ==
    /\ Goto(t, "o_next", "o_cas")
    /\ nxt' = [nxt EXCEPT ![t] = next[lp[t]]]
    /\ UNCHANGED <<shared, memory, lp>>

\* Mutant: a lost race is taken for an empty stack.
FailsAsEmpty(t) ==
    /\ nxt' = [nxt EXCEPT ![t] = Null]
    /\ Goto(t, "o_cas", "o_exit")
    /\ IF head = lp[t]
           THEN head' = nxt[t] /\ UNCHANGED lp
           ELSE SetLp(t, Null) /\ UNCHANGED head
    /\ UNCHANGED <<next, data, popingThreads, size, memory>>

PopCas(t) ==
    /\ nxt' = [nxt EXCEPT ![t] = Null]
    /\ \/ /\ head = lp[t]
          /\ Goto(t, "o_cas", "o_exit")
          /\ head' = nxt[t]
          /\ UNCHANGED lp
       \/ /\ head # lp[t]
          /\ SeeHead(t, "o_cas")
          /\ UNCHANGED head
    /\ UNCHANGED <<next, data, popingThreads, size, memory>>

\* popingThreads--
PopExit(t) ==
    /\ Goto(t, "o_exit", "o_wait")
    /\ popingThreads' = popingThreads - 1
    /\ UNCHANGED <<head, next, data, size, memory, lp, nxt>>

\* while (popingThreads) yield; return nullptr if there was no node
PopWait(t) ==
    /\ popingThreads = 0
    /\ Goto(t, "o_wait", IF lp[t] = Null THEN "idle" ELSE "o_count")
    /\ UNCHANGED <<shared, memory, lp, nxt>>

\* Mutant: __size-- is missing.
NeverUncounts(t) ==
    /\ Goto(t, "o_count", "o_free")
    /\ UNCHANGED <<shared, memory, lp, nxt>>

\* __size--
PopCount(t) ==
    /\ Goto(t, "o_count", "o_free")
    /\ size' = size - 1
    /\ UNCHANGED <<head, next, data, popingThreads, memory, lp, nxt>>

\* res = old_head->data; jalloc.deallocate(old_head); return res
PopFree(t) ==
    /\ Goto(t, "o_free", "idle")
    /\ held' = held \cup {data[lp[t]]}
    /\ NodeAlloc!Deallocate(lp[t])
    /\ next' = [next EXCEPT ![lp[t]] = Junk]
    /\ SetLp(t, Null)
    /\ UNCHANGED <<head, data, popingThreads, size, blocks, nxt>>

ReturnData(d) ==
    /\ d \in held
    /\ held' = held \ {d}
    /\ DataAlloc!Deallocate(d)
    /\ UNCHANGED <<shared, nodes, pc, lp, nxt>>

-----------------------------------------------------------------------------

PushStep(t) == PushLoad(t) \/ PushCas(t) \/ PushCount(t)

PopStep(t) == \/ PopEnter(t) \/ PopLoad(t) \/ PopNext(t) \/ PopCas(t)
              \/ PopExit(t) \/ PopWait(t) \/ PopCount(t) \/ PopFree(t)

Call(t) == PopCall(t) \/ \E n \in Nodes, d \in Items : PushCall(t, n, d)

Next == \/ \E t \in Threads : Call(t) \/ PushStep(t) \/ PopStep(t)
        \/ \E d \in Items : ReturnData(d)

Spec == Init /\ [][Next]_vars

-----------------------------------------------------------------------------
(* Properties *)

Labels == {"idle", "p_load", "p_cas", "p_count", "o_enter", "o_load", "o_next",
           "o_cas", "o_exit", "o_wait", "o_count", "o_free"}

At(labels) == {t \in Threads : pc[t] \in labels}

\* The types of the variables; head and the threads' pointers are nodes, never
\* the link of a node that the allocator has taken back.
TypeOK ==
    /\ head \in Nodes \cup {Null}
    /\ next \in [Nodes -> Nodes \cup {Null, Junk}]
    /\ data \in [Nodes -> Items \cup {NoItem}]
    /\ popingThreads \in 0 .. Cardinality(Threads)
    /\ size \in Int
    /\ nodes \subseteq Nodes /\ blocks \subseteq Items /\ held \subseteq Items
    /\ pc \in [Threads -> Labels]
    /\ lp \in [Threads -> Nodes \cup {Null}]
    /\ nxt \in [Threads -> Nodes \cup {Null}]

\* The first k nodes (fewer if there are not as many) from node n on.
From[k \in 0 .. Cardinality(Nodes)] ==
    [n \in Nodes \cup {Null, Junk} |->
        IF k = 0 \/ n \notin Nodes THEN <<>> ELSE <<n>> \o From[k - 1][next[n]]]

List == From[Cardinality(Nodes)][head]

Listed == LET listed == List IN {listed[i] : i \in DOMAIN listed}

\* The node that thread t alone can reach: not yet linked, or unlinked.
Private(t) ==
    IF pc[t] \in {"p_load", "p_cas", "o_exit", "o_wait", "o_count", "o_free"}
        THEN {lp[t]} \ {Null}
        ELSE {}

Privates == UNION {Private(t) : t \in Threads}

\* jstack is a stack: every push and pop takes effect at one moment of its call,
\* no item is lost, invented or popped twice, and pop() returns nullptr only if
\* the stack was empty during the call.
Refined(t) ==
    CASE pc[t] = "idle" -> [op |-> "idle", item |-> NoItem]
      [] pc[t] \in {"p_load", "p_cas"} -> [op |-> "push_front", item |-> data[lp[t]]]
      [] pc[t] \in {"o_enter", "o_load", "o_next", "o_cas"} ->
             [op |-> "pop_front", item |-> NoItem]
      [] OTHER -> [op |-> "done",
                   item |-> IF Private(t) = {} THEN NoItem ELSE data[lp[t]]]

Stack == INSTANCE Deque WITH
    MayFail <- FALSE,
    content <- LET listed == List IN [i \in DOMAIN listed |-> data[listed[i]]],
    call <- [t \in Threads |-> Refined(t)]

ImplementsStack == Stack!Spec

\* Nothing leaks and nothing is in two places: the nodes in use are those on the
\* list and those of exactly one thread each, the data blocks in use are those
\* of these nodes and those the callers hold.
Conservation ==
    /\ TypeOK
    /\ nodes = Listed \cup Privates
    /\ Cardinality(nodes) = Len(List) + Cardinality({t \in Threads : Private(t) # {}})
    /\ blocks = held \cup {data[n] : n \in nodes}
    /\ Cardinality(blocks) = Cardinality(held) + Cardinality(nodes)

\* __size is the length of the list, less the pushes that have linked but not
\* counted, plus the pops that have unlinked but not uncounted; so it is exact
\* whenever no call is running.
SizeAccounts ==
    size = Len(List) - Cardinality(At({"p_count"}))
         + Cardinality({t \in At({"o_exit", "o_wait", "o_count"}) : lp[t] # Null})

=============================================================================
