------------------------------- MODULE Jector -------------------------------
(***************************************************************************)
(* jector of jector.cpp: a growing array.  What lies beyond __size is not  *)
(* read before it is written, so jec has only the elements up to it.       *)
(***************************************************************************)
EXTENDS Integers, SequencesExt

CONSTANTS Values,
          Unset,            \* what an element is that was not copied
          ElementSize,      \* sizeof(T)
          LeastCapacity,    \* 8 in the code: the capacity at first
          MostElements      \* bound

VARIABLES jec, capacity

jecVars == <<jec, capacity>>

size == Len(jec)

\* Mutant: the last long is not copied.
CopiedShort(c) == (8 * ((c * ElementSize - 1) \div 8)) \div ElementSize

\* The elements that refill() copies when __capacity was c: it copies longs, and
\* the loop that should bring the bytes of a half one starts before the last long,
\* unless there is none.
Copied(c) ==
    IF c * ElementSize < 8 THEN c ELSE (8 * ((c * ElementSize) \div 8)) \div ElementSize

refill(c) ==
    /\ capacity' = 2 * c
    /\ jec' = [i \in 1 .. size |-> IF i <= Copied(c) THEN jec[i] ELSE Unset]

JecInit == jec = <<>> /\ capacity = LeastCapacity

\* refill() for one more element, if there is no room: what jec is then
Grown == [i \in 1 .. size |->
              IF size < capacity \/ i <= Copied(capacity) THEN jec[i] ELSE Unset]

Grow == capacity' = IF size < capacity THEN capacity ELSE 2 * capacity

push_back(v) == size < MostElements /\ Grow /\ jec' = Append(Grown, v)

pop_back == size > 0 /\ jec' = Front(jec) /\ UNCHANGED capacity

del(seq) == jec' = RemoveAt(jec, seq) /\ UNCHANGED capacity

\* makes room before the element, which is then there twice
insert(seq) == size < MostElements /\ Grow /\ jec' = InsertAt(Grown, seq, Grown[seq])

\* the capacity is set to half of what is needed before refill() doubles it
release == refill(IF size < LeastCapacity THEN LeastCapacity \div 2 ELSE (size + 1) \div 2)

JecNext ==
    \/ pop_back \/ release
    \/ \E v \in Values : push_back(v)
    \/ \E seq \in 1 .. size : del(seq) \/ insert(seq)

JecSpec == JecInit /\ [][JecNext]_jecVars

-----------------------------------------------------------------------------
(* Properties *)

Remembers ==
    \/ \E v \in Values : jec' = Append(jec, v)
    \/ \E seq \in 1 .. size : jec' = RemoveAt(jec, seq) \/ jec' = InsertAt(jec, seq, jec[seq])
    \/ /\ size' = size /\ capacity' \in {LeastCapacity, size, size + 1}
       /\ \A i \in 1 .. size \div 2 - 1 : jec'[i] = jec[i]

\* Growing changes no element and every call changes only what it is about, except
\* for release(): it keeps the first half, and of elements shorter than a long
\* perhaps one less.
OnlyReleaseForgets == [][Remembers]_jecVars

=============================================================================
