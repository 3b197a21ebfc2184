---------------------------- MODULE MCStructures ----------------------------
(***************************************************************************)
(* One instance for TLC of the components that need little of it.  Every   *)
(* behaviour is about one of them, its load.  str_jalloc, jector, jheap    *)
(* and jpoll have the variables of their modules; a to g are whatever the  *)
(* others keep.                                                            *)
(*                                                                         *)
(* The red-black tree has two loads: one thread with many keys, for the    *)
(* shapes of the tree, and all threads with few keys, for the order of     *)
(* their steps.  Alone with the tree, a thread runs every call to its end, *)
(* and the values do not matter: it inserts and deletes.                   *)
(***************************************************************************)
EXTENDS StrJalloc, Jector, JHeap, JPoll

CONSTANTS Keys, NoVal, Threads, NoThread, NoValue,  \* of JTreeRB
          FewKeys,      \* bound: the keys that the threads share
          ManyValued,   \* bound: those of a tree's keys that have more than one value
          Alone,        \* the thread that works alone
          AvlKeys       \* bound: the keys of the AVL tree

ASSUME KeysAssumption ==
    /\ ManyValued \subseteq FewKeys /\ FewKeys \subseteq Keys /\ Keys \subseteq Nat \ {0}
    /\ AvlKeys \subseteq Nat
ASSUME NamesAssumption == Alone \in Threads /\ NoThread \notin Threads /\ NoValue \notin Values

VARIABLES load, a, b, c, d, e, f, g

cells == <<a, b, c, d, e, f, g>>
ownVars == <<strVars, jecVars, heapVars, pollVars>>

OwnLoads == {"str_jalloc", "jector", "jheap", "jpoll"}
Loads == {"alone", "shared", "avl", "jalloc", "jallocator_t"} \cup OwnLoads

RB == INSTANCE JTreeRB WITH
    tree <- a, data <- b, wr <- c, pc <- d, key <- e, ptr <- f, new <- g
Avl == INSTANCE JTreeAvl WITH Keys <- AvlKeys, root <- a
Jalloc == INSTANCE Jallocator WITH Chunks <- 1 .. 3, map <- a, held <- b
JallocT == INSTANCE JallocatorT WITH
    FirstPool <- 2, MaxBlocks <- 6, freeChunk <- a, pool_size <- b, made <- c, held <- d

-----------------------------------------------------------------------------

OnTree == load \in {"alone", "shared"}

KeysOf == IF load = "alone" THEN Keys ELSE FewKeys
ValuesOf(k) ==
    IF load # "alone" /\ k \in ManyValued THEN Values ELSE {CHOOSE v \in Values : TRUE}
Callers == IF load = "alone" THEN {Alone} ELSE Threads

NextRB == \E t \in Callers :
    \/ RB!Find(t) \/ RB!DelErase(t) \/ RB!UpdateWrite(t)
    \/ \E k \in KeysOf : RB!DelFind(t, k)
    \/ \E k \in KeysOf : \E v \in ValuesOf(k) :
          \/ RB!Insert(t, k, v)
          \/ load = "shared" /\ RB!UpdateFind(t, k, v)

NextAvl == \E k \in AvlKeys :
    \/ Avl!Del(k)
    \/ \E v \in ValuesOf(k) : Avl!Insert(k, v) \/ Avl!Update(k, v)

MCInit ==
    /\ load \in Loads
    /\ StrInit /\ JecInit /\ HeapInit /\ PollInit
    /\ \/ OnTree /\ RB!Init
       \/ load = "avl" /\ Avl!Init
       \/ load \in OwnLoads /\ a = 0
       \/ load = "jalloc" /\ Jalloc!Init
       \/ load = "jallocator_t" /\ JallocT!Init
    /\ load \in OwnLoads \cup {"avl"} => b = 0
    /\ ~OnTree /\ load # "jallocator_t" => c = 0 /\ d = 0
    /\ ~OnTree => e = 0 /\ f = 0 /\ g = 0

MCNext ==
    /\ UNCHANGED load
    /\ \/ /\ UNCHANGED cells
          /\ \/ load = "str_jalloc" /\ StrNext /\ UNCHANGED <<jecVars, heapVars, pollVars>>
             \/ load = "jector" /\ JecNext /\ UNCHANGED <<strVars, heapVars, pollVars>>
             \/ load = "jheap" /\ HeapNext /\ UNCHANGED <<strVars, jecVars, pollVars>>
             \/ load = "jpoll" /\ PollNext /\ UNCHANGED <<strVars, jecVars, heapVars>>
       \/ /\ UNCHANGED ownVars
          /\ \/ OnTree /\ NextRB
             \/ load = "avl" /\ NextAvl /\ UNCHANGED <<b, c, d, e, f, g>>
             \/ load = "jalloc" /\ Jalloc!Next /\ UNCHANGED <<c, d, e, f, g>>
             \/ load = "jallocator_t" /\ JallocT!Next /\ UNCHANGED <<e, f, g>>

MCSpec == MCInit /\ [][MCNext]_<<ownVars, cells, load>>

-----------------------------------------------------------------------------
(* The properties of the trees and of jalloc and jallocator_t, each for the behaviours *)
(* about it; those of the others are in their modules.                                 *)

\* JTreeRB: the links are those of a search tree, and its colours are right.
\* JTreeAvl: remembered heights are exact, and insertion repairs what it unbalances.
TreesSound ==
    /\ OnTree => RB!WellLinked /\ RB!RedBlack
    /\ load = "avl" => Avl!HeightsExact /\ Avl!InsertionKeepsBalance

\* What find() shows of a tree is a dictionary: no operation disturbs a key that is
\* not its own, also where threads share the tree and del() and update() look and
\* act in two steps.
D == INSTANCE Dict WITH
    Keys <- FewKeys, Absent <- NoValue,
    contents <- [k \in FewKeys |-> IF load = "shared" THEN RB!Seen(k) ELSE NoValue]

A == INSTANCE JTreeAvl WITH Keys <- AvlKeys, root <- IF load = "avl" THEN a ELSE [nil |-> TRUE]

ImplementsDict == D!Spec /\ A!ImplementsDict

\* StrJalloc and JallocatorT lose no block and give none twice, through whichever class
\* or refill it comes; Jallocator gives no chunk back to the system while one of its
\* blocks is in use.
BlocksSafe ==
    /\ load = "str_jalloc" => EveryBlockOnce
    /\ load = "jallocator_t" => JallocT!NoBlockLost
    /\ load = "jalloc" => Jalloc!ChunksAreSafe

=============================================================================
