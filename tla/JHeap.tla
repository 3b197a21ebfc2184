------------------------------- MODULE JHeap -------------------------------
(***************************************************************************)
(* jheap of jheap.cpp, as far as it compiles: pop_A(), pop_V(), topA() and *)
(* topV() do not, so that a heap only grows.  Positions start with 1 here, *)
(* and elements are their keys.                                            *)
(***************************************************************************)
EXTENDS Integers, Sequences

CONSTANTS HeapKeys, MaxHeap \* bound

VARIABLES jecA, jecV

heapVars == <<jecA, jecV>>

\* The position above j in the tree
Above(j) == j \div 2

\* What the last element is swapped with comes down one place on its way; up[j] is
\* the heap when that has come from position j.  The topmost is compared with itself.
float_up_A(h) ==
    LET n == Len(h)
        up[j \in 1 .. n] ==
            IF j > 1 /\ h[Above(j)] > h[n] THEN [up[Above(j)] EXCEPT ![j] = h[Above(j)]]
                                           ELSE [h EXCEPT ![j] = h[n]]
    IN up[n]

float_up_V(h) ==
    LET n == Len(h)
        up[j \in 1 .. n] ==
            IF j > 1 /\ h[Above(j)] < h[n] THEN [up[Above(j)] EXCEPT ![j] = h[Above(j)]]
                                           ELSE [h EXCEPT ![j] = h[n]]
    IN up[n]

HeapInit == jecA = <<>> /\ jecV = <<>>

push_A(k) ==
    /\ Len(jecA) < MaxHeap
    /\ jecA' = float_up_A(Append(jecA, k))
    /\ UNCHANGED jecV

push_V(k) ==
    /\ Len(jecV) < MaxHeap
    /\ jecV' = float_up_V(Append(jecV, k))
    /\ UNCHANGED jecA

HeapNext == \E k \in HeapKeys : push_A(k) \/ push_V(k)

HeapSpec == HeapInit /\ [][HeapNext]_heapVars

-----------------------------------------------------------------------------
(* Properties *)

\* The first element of jecA is its least and that of jecV its greatest, and so it
\* is of the elements below every position.
HeapOrder ==
    /\ \A j \in DOMAIN jecA \ {1} : jecA[j \div 2] <= jecA[j]
    /\ \A j \in DOMAIN jecV \ {1} : jecV[j \div 2] >= jecV[j]

=============================================================================
