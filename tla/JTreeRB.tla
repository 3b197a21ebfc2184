------------------------------ MODULE JTreeRB ------------------------------
(***************************************************************************)
(* jtree_rb of jtree.cpp: the red-black tree of module RBTree behind a     *)
(* pthread rwlock, called by several threads.                              *)
(*                                                                         *)
(* A section under the lock is one action: the lock keeps every other      *)
(* section away.  What is left of the lock is the thread that still has it *)
(* when it leaves (insert() into an empty tree).  To that thread the next  *)
(* lock call returns EDEADLK, which the code ignores, and the unlock that  *)
(* follows frees the lock.  del() and update() do find() first and act     *)
(* afterwards; update() writes through the pointer with no lock at all.    *)
(***************************************************************************)
EXTENDS RBTree, FiniteSets

CONSTANTS Threads, NoThread,
          Values, NoValue

(* A data block is the i-th that was made for its key: blocks are not given *)
(* back by del(), so one that a thread still points to is not made again.   *)
Blocks == Keys \X (0 .. Cardinality(Threads))

VARIABLES tree,         \* the record of module RBTree; val is a block
          data,         \* what is in every block
          wr,           \* prw: the thread that holds it for writing
          pc,
          key,          \* the argument of each thread's del() or update()
          ptr,          \* the pointer p of update()
          new           \* the argument v of update()

locals == <<pc, key, ptr, new>>
vars == <<tree, data, wr, locals>>

Init ==
    /\ tree = Empty
    /\ data = [b \in Blocks |-> NoValue]
    /\ wr = NoThread
    /\ pc = [t \in Threads |-> "idle"]
    /\ key = [t \in Threads |-> Null]
    /\ ptr = [t \in Threads |-> NoVal]
    /\ new = [t \in Threads |-> NoValue]

\* A lock call of thread t returns: at once, or with EDEADLK.
Locks(t) == wr \in {t, NoThread}

\* find(): the pointer to the value, or null
Lookup(k) == LET n == Get(tree, Locate(tree, k, RootSlot))
             IN  IF n = Null THEN NoVal ELSE tree.val[n]

\* The blocks that a tree or an update() points to; what is in the others is
\* forgotten, since nothing reads it again.
InUse(t, p) == {t.val[n] : n \in Nodes} \cup {p[u] : u \in Threads}
Kept(d, t, p) == [b \in Blocks |-> IF b \in InUse(t, p) THEN d[b] ELSE NoValue]

Fresh(k) == CHOOSE b \in Blocks :
    /\ b[1] = k
    /\ b \notin InUse(tree, ptr)
    /\ \A c \in Blocks : c[1] = k /\ c[2] < b[2] => c \in InUse(tree, ptr)

-----------------------------------------------------------------------------

\* insert(): the return for an empty tree leaves the lock locked
Insert(t, k, v) ==
    /\ pc[t] = "idle"
    /\ Locks(t)
    /\ wr' = IF tree.root = Null THEN t ELSE NoThread
    /\ tree' = insert(tree, k, Fresh(k))
    /\ data' = IF Lookup(k) = NoVal THEN [data EXCEPT ![Fresh(k)] = v] ELSE data
    /\ UNCHANGED locals

\* del(): if (!find(k)) return, under the lock and out again
DelFind(t, k) ==
    /\ pc[t] = "idle"
    /\ Locks(t)
    /\ wr' = NoThread
    /\ Lookup(k) # NoVal
    /\ pc' = [pc EXCEPT ![t] = "del"]
    /\ key' = [key EXCEPT ![t] = k]
    /\ UNCHANGED <<tree, data, ptr, new>>

\* the second section of del(), with whatever the tree is by now
DelErase(t) ==
    /\ pc[t] = "del"
    /\ Locks(t)
    /\ wr' = NoThread
    /\ tree' = Named(del(tree, key[t], RootSlot))
    /\ pc' = [pc EXCEPT ![t] = "idle"]
    /\ key' = [key EXCEPT ![t] = Null]
    /\ data' = Kept(data, tree', ptr)
    /\ UNCHANGED <<ptr, new>>

\* find(), also the first half of a del() or update() of a key that is not there
Find(t) ==
    /\ pc[t] = "idle"
    /\ Locks(t)
    /\ wr' = NoThread
    /\ UNCHANGED <<tree, data, locals>>

\* update(): p = find(k)
UpdateFind(t, k, v) ==
    /\ pc[t] = "idle"
    /\ Locks(t)
    /\ wr' = NoThread
    /\ Lookup(k) # NoVal
    /\ pc' = [pc EXCEPT ![t] = "update"]
    /\ key' = [key EXCEPT ![t] = k]
    /\ ptr' = [ptr EXCEPT ![t] = Lookup(k)]
    /\ new' = [new EXCEPT ![t] = v]
    /\ UNCHANGED <<tree, data>>

\* *p = v, without the lock
UpdateWrite(t) ==
    /\ pc[t] = "update"
    /\ pc' = [pc EXCEPT ![t] = "idle"]
    /\ key' = [key EXCEPT ![t] = Null]
    /\ ptr' = [ptr EXCEPT ![t] = NoVal]
    /\ new' = [new EXCEPT ![t] = NoValue]
    /\ data' = Kept([data EXCEPT ![ptr[t]] = new[t]], tree, ptr')
    /\ UNCHANGED <<tree, wr>>

Next == \E t \in Threads :
    \/ Find(t) \/ DelErase(t) \/ UpdateWrite(t)
    \/ \E k \in Keys : DelFind(t, k)
    \/ \E k \in Keys, v \in Values : Insert(t, k, v) \/ UpdateFind(t, k, v)

Spec == Init /\ [][Next]_vars

-----------------------------------------------------------------------------
(* Properties *)

RECURSIVE KeysFrom(_)
KeysFrom(n) ==
    IF n = Null THEN {}
    ELSE {tree.key[n]} \cup KeysFrom(tree.kid["l"][n]) \cup KeysFrom(tree.kid["r"][n])

\* The nodes of the tree: between calls a node is named by its key.
InTree == KeysFrom(tree.root)

\* The parent pointers, which the fix-ups climb by, are the inverse of the child
\* pointers, no pointer leads into freed memory, no node in use is out of reach,
\* and no fix-up is left pending.
WellLinked ==
    /\ tree.root # Null => tree.pa[tree.root] = Null
    /\ \A n \in InTree, side \in {"l", "r"} :
          tree.kid[side][n] # Null => tree.pa[tree.kid[side][n]] = n
    /\ InTree = {n \in Nodes : tree.key[n] # Free}
    /\ tree.test_root = Null

\* The number of black nodes on the paths down from n, or -1 if they differ.
RECURSIVE BlackHeight(_)
BlackHeight(n) ==
    IF n = Null THEN 0
    ELSE LET l == BlackHeight(tree.kid["l"][n])
             r == BlackHeight(tree.kid["r"][n])
         IN  IF l = -1 \/ l # r THEN -1 ELSE l + tree.color[n]

\* The red-black rules hold after every insertion and deletion: the root is
\* black, no red node has a red child, all paths have as many black nodes.
RedBlack ==
    /\ ~ IsRed(tree, tree.root)
    /\ \A n \in InTree : IsRed(tree, n) =>
          \A side \in {"l", "r"} : ~ IsRed(tree, tree.kid[side][n])
    /\ BlackHeight(tree.root) # -1

\* What find() sees of key k.
Seen(k) == LET p == Lookup(k) IN IF p = NoVal THEN NoValue ELSE data[p]

\* A "thread safe" tree that nobody is using is unlocked.
IdleMeansUnlocked == (\A t \in Threads : pc[t] = "idle") => wr = NoThread

=============================================================================
