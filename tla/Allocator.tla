----------------------------- MODULE Allocator -----------------------------
(***************************************************************************)
(* What an allocator of equal-sized blocks promises: a block is handed out *)
(* only while nobody has it, and stays out until it is given back.  The    *)
(* containers take any allocator with allocate() and deallocate() as a     *)
(* template parameter; this is the contract they rely on.                  *)
(***************************************************************************)

CONSTANT Blocks         \* the blocks there are

VARIABLE inUse          \* the blocks that callers hold

Init == inUse = {}

Allocate(b) == b \notin inUse /\ inUse' = inUse \cup {b}

Deallocate(b) == b \in inUse /\ inUse' = inUse \ {b}

Next == \E b \in Blocks : Allocate(b) \/ Deallocate(b)

Spec == Init /\ [][Next]_inUse

=============================================================================
