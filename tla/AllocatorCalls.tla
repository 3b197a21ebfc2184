--------------------------- MODULE AllocatorCalls ---------------------------
(***************************************************************************)
(* An allocator as its callers' threads see it: allocate() takes a block   *)
(* at one moment of its call and returns that very block.  Two calls that  *)
(* are given one block would be no behaviour of this module, although the  *)
(* set of blocks in use would not show it.                                 *)
(***************************************************************************)
EXTENDS Allocator

CONSTANTS Threads, Null

VARIABLE got            \* the block that each thread's allocate() has taken, or Null

vars == <<inUse, got>>

CallsInit == Init /\ got = [t \in Threads |-> Null]

Take(t, b) == got[t] = Null /\ Allocate(b) /\ got' = [got EXCEPT ![t] = b]

Return(t) == got[t] # Null /\ got' = [got EXCEPT ![t] = Null] /\ UNCHANGED inUse

GiveBack(b) ==
    /\ \A t \in Threads : got[t] # b
    /\ Deallocate(b)
    /\ UNCHANGED got

CallsNext ==
    \/ \E t \in Threads : Return(t) \/ \E b \in Blocks : Take(t, b)
    \/ \E b \in Blocks : GiveBack(b)

CallsSpec == CallsInit /\ [][CallsNext]_vars

=============================================================================
