---------------------------- MODULE JallocatorT ----------------------------
(***************************************************************************)
(* jallocator_t of jallocator_t.cpp: a free list behind a mutex and a pool *)
(* that doubles.  A section under the mutex is one action; allocate() that *)
(* has found nothing fills the list, gives the mutex back and starts over. *)
(***************************************************************************)
EXTENDS Integers, Sequences

CONSTANTS FirstPool,    \* 32 in the code
          MaxBlocks     \* bound

VARIABLES freeChunk, pool_size,
          made,         \* how many blocks there are
          held          \* those that users have

vars == <<freeChunk, pool_size, made, held>>

Init == freeChunk = <<>> /\ pool_size = FirstPool /\ made = 0 /\ held = {}

Allocate ==
    /\ freeChunk # <<>>
    /\ freeChunk' = Tail(freeChunk)
    /\ held' = held \cup {Head(freeChunk)}
    /\ UNCHANGED <<pool_size, made>>

\* init(), which leaves everything as it is when malloc() fails
Refill ==
    /\ freeChunk = <<>>
    /\ made + pool_size <= MaxBlocks
    /\ freeChunk' = [i \in 1 .. pool_size |-> made + i]
    /\ made' = made + pool_size
    /\ pool_size' = 2 * pool_size
    /\ UNCHANGED held

Deallocate(b) ==
    /\ b \in held
    /\ held' = held \ {b}
    /\ freeChunk' = <<b>> \o freeChunk
    /\ UNCHANGED <<pool_size, made>>

Next == Allocate \/ Refill \/ \E b \in held : Deallocate(b)

Spec == Init /\ [][Next]_vars

-----------------------------------------------------------------------------
(* Properties *)

\* Every block there is is in the list or with a user, and once: a refill, which
\* numbers its blocks from made, meets none of those that users still have.
NoBlockLost ==
    /\ {freeChunk[i] : i \in DOMAIN freeChunk} = (1 .. made) \ held
    /\ \A i, j \in DOMAIN freeChunk : freeChunk[i] = freeChunk[j] => i = j

=============================================================================
