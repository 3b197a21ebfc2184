----------------------------- MODULE StrJalloc -----------------------------
(***************************************************************************)
(* str_jalloc of str_jalloc.cpp: blocks of nineteen sizes, each with a     *)
(* free list.  A request that finds its own list empty takes a larger      *)
(* block; only when there is none either is a chunk made.  The two bytes   *)
(* in front of a block say where it goes when it is given back.            *)
(*                                                                         *)
(* A block is its class and its number in it.  Requests of 0 bytes get     *)
(* nullptr, and those above 1024 go to malloc() and free().                *)
(***************************************************************************)
EXTENDS Integers, Sequences

CONSTANTS Sizes,        \* the sizes that users ask for: 0 .. in the code
          PerChunk,     \* 64 in the code
          MaxBlocks     \* bound: the blocks of a class

Largest == 1024
Classes == 0 .. 18

size_list == [n \in Classes |->
    CASE n < 16 -> 16 * (n + 1) [] n = 16 -> 512 [] n = 17 -> 768 [] OTHER -> Largest]

\* Mutant: rounds down.
desize_down(size) ==
    CASE size <= 256 -> size \div 16 - 1
      [] size > 256 /\ size <= 512 -> 16
      [] size > 512 /\ size <= 768 -> 17
      [] OTHER -> 18

desize(size) ==
    CASE size <= 256 -> (size + 15) \div 16 - 1
      [] size > 256 /\ size <= 512 -> 16
      [] size > 512 /\ size <= 768 -> 17
      [] OTHER -> 18

VARIABLES ptr,          \* the free lists
          made,         \* how many blocks of each class there are
          held          \* the blocks that users have: class, number, size asked for

strVars == <<ptr, made, held>>

StrInit ==
    /\ ptr = [n \in Classes |-> <<>>]
    /\ made = [n \in Classes |-> 0]
    /\ held = {}

\* while (q < 18 && !ptr[q]) q++
IsFirst(q, size) ==
    /\ q \in desize(size) .. 18 /\ ptr[q] # <<>>
    /\ \A n \in desize(size) .. q - 1 : ptr[n] = <<>>

Served(size) == size \in Sizes /\ size \in 1 .. Largest

Hand(q, list, size) ==
    /\ ptr' = [ptr EXCEPT ![q] = Tail(list)]
    /\ held' = held \cup {[class |-> q, no |-> Head(list), size |-> size]}

Allocate(size) ==
    /\ Served(size)
    /\ \E q \in Classes : IsFirst(q, size) /\ Hand(q, ptr[q], size)
    /\ UNCHANGED made

\* init(q): the blocks of the new chunk, in order
NewBlocks(q) == [i \in 1 .. PerChunk |-> made[q] + i]

AllocateNew(size) ==
    LET q == desize(size) IN
    /\ Served(size)
    /\ \A n \in q .. 18 : ptr[n] = <<>>
    /\ made[q] + PerChunk <= MaxBlocks
    /\ made' = [made EXCEPT ![q] = @ + PerChunk]
    /\ Hand(q, NewBlocks(q), size)

Deallocate(b) ==
    /\ b \in held
    /\ held' = held \ {b}
    /\ ptr' = [ptr EXCEPT ![b.class] = <<b.no>> \o @]
    /\ UNCHANGED made

StrNext == \/ \E size \in Sizes : Allocate(size) \/ AllocateNew(size)
           \/ \E b \in held : Deallocate(b)

StrSpec == StrInit /\ [][StrNext]_strVars

-----------------------------------------------------------------------------
(* Properties *)

NumbersOf(n) == {b.no : b \in {h \in held : h.class = n}}
Listed(n) == {ptr[n][i] : i \in DOMAIN ptr[n]}

\* What a user has is large enough for what it asked for, whichever larger class
\* it came from and however often blocks have gone up and down.
BlocksFit == \A b \in held : b.size <= size_list[b.class]

\* Every block that was made is in the free list of its class or with one user:
\* none is listed twice or handed out twice, and none is lost.
EveryBlockOnce ==
    /\ \A n \in Classes :
          /\ Listed(n) \cup NumbersOf(n) = 1 .. made[n]
          /\ Listed(n) \cap NumbersOf(n) = {}
          /\ \A i, j \in DOMAIN ptr[n] : ptr[n][i] = ptr[n][j] => i = j
    /\ \A b, c \in held : b.class = c.class /\ b.no = c.no => b = c

=============================================================================
