----------------------------- MODULE Jallocator -----------------------------
(***************************************************************************)
(* jalloc of jallocator.cpp: chunks with a free list each, for one thread. *)
(* allocate() takes a block of every chunk that has one and returns only   *)
(* the last: the others are lost.  deallocate() gives a chunk back to the  *)
(* system when all its blocks are free, which never comes of a chunk that  *)
(* has lost one.                                                           *)
(***************************************************************************)
EXTENDS Integers, FiniteSets, SequencesExt

CONSTANTS PerChunk,     \* 64 in the code
          Chunks        \* bound: the numbers of the chunks

VARIABLES map,          \* the chunks: number, free list, rest
          held          \* the blocks that the user has

vars == <<map, held>>

Init == map = <<>> /\ held = {}

Numbers == {map[i].no : i \in DOMAIN map}
NewChunk == [no |-> CHOOSE c \in Chunks : c \notin Numbers,
             freeptr |-> [i \in 1 .. PerChunk |-> i], rest |-> PerChunk]

Less(m) == IF m.rest > 0 THEN [m EXCEPT !.rest = @ - 1, !.freeptr = Tail(@)] ELSE m

\* Takes from every chunk, returns the block of the last one that had any.
Take(chunks) ==
    LET last == SelectLastInSeq(chunks, LAMBDA m : m.rest > 0) IN
    /\ map' = [i \in DOMAIN chunks |-> Less(chunks[i])]
    /\ held' = held \cup {<<chunks[last].no, Head(chunks[last].freeptr)>>}

Allocate ==
    /\ \E i \in DOMAIN map : map[i].rest > 0
    /\ Take(map)

\* init(), and allocate() again
AllocateNew ==
    /\ \A i \in DOMAIN map : map[i].rest = 0
    /\ Chunks \ Numbers # {}
    /\ Take(Append(map, NewChunk))

\* Mutant: the chunk goes one block too early.
DeallocateEarly(b) ==
    LET i == SelectInSeq(map, LAMBDA m : m.no = b[1])
        m == [map[i] EXCEPT !.rest = @ + 1, !.freeptr = <<b[2]>> \o @] IN
    /\ held' = held \ {b}
    /\ map' = IF m.rest >= PerChunk - 1 THEN RemoveAt(map, i) ELSE [map EXCEPT ![i] = m]

\* include() finds the chunk
Deallocate(b) ==
    LET i == SelectInSeq(map, LAMBDA m : m.no = b[1])
        m == [map[i] EXCEPT !.rest = @ + 1, !.freeptr = <<b[2]>> \o @] IN
    /\ held' = held \ {b}
    /\ map' = IF m.rest = PerChunk THEN RemoveAt(map, i) ELSE [map EXCEPT ![i] = m]

Next == Allocate \/ AllocateNew \/ \E b \in held : Deallocate(b)

Spec == Init /\ [][Next]_vars

-----------------------------------------------------------------------------
(* Properties *)

\* A chunk stays as long as a user has a block of it, and nobody has what it has
\* free: the count that decides when it goes is exact, whatever it has lost.
ChunksAreSafe ==
    /\ \A b \in held : b[1] \in Numbers
    /\ \A i \in DOMAIN map : LET m == map[i] IN
          /\ m.rest = Len(m.freeptr)
          /\ Cardinality(ToSet(m.freeptr)) = m.rest
          /\ \A n \in ToSet(m.freeptr) : <<m.no, n>> \notin held

=============================================================================
