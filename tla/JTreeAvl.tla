------------------------------ MODULE JTreeAvl ------------------------------
(***************************************************************************)
(* jtree_avl of jtree.cpp.  Every public operation but is_empty() and      *)
(* get_top() holds the tree's pthread rwlock from its first access to its  *)
(* last, so an operation is one action.                                    *)
(*                                                                         *)
(* The code's functions take a reference to a child pointer and assign to  *)
(* it; here they take a tree and return the tree that the pointer leads to *)
(* afterwards.  A tree is Nil or a node with the code's fields; lh and rh  *)
(* are the heights the node remembers, which nothing but the code keeps    *)
(* equal to the real ones.  The height that insert and del return is       *)
(* always Height of the tree they leave, so it is not returned here.       *)
(***************************************************************************)
EXTENDS Integers

CONSTANTS Keys,         \* bound: the keys the callers use
          Values,
          NoValue       \* what a caller sees of a key that is not there

VARIABLE root

Nil == [nil |-> TRUE]

Leaf(k, v) == [key |-> k, val |-> v, lh |-> 0, rh |-> 0, lc |-> Nil, rc |-> Nil]

Max2(a, b) == IF a > b THEN a ELSE b

\* what update_height() and the callers of insert() and del() take for the height of t
Height(t) == IF t = Nil THEN 0 ELSE Max2(t.lh, t.rh) + 1

UpdateHeight(t) == [t EXCEPT !.lh = Height(t.lc), !.rh = Height(t.rc)]

WithLeft(t, c) == [t EXCEPT !.lc = c, !.lh = Height(c)]
WithRight(t, c) == [t EXCEPT !.rc = c, !.rh = Height(c)]

(* The rotations: lblc lifts the right child, rblc the left one. *)
lblc(t) ==
    LET r == t.rc
    IN  UpdateHeight([r EXCEPT !.lc = UpdateHeight([t EXCEPT !.rc = r.lc])])

rblc(t) ==
    LET l == t.lc
    IN  UpdateHeight([l EXCEPT !.rc = UpdateHeight([t EXCEPT !.lc = l.rc])])

test_fix(t) ==
    CASE t.lh - t.rh = 2 ->
             IF t.lc.lh > t.lc.rh THEN rblc(t) ELSE rblc([t EXCEPT !.lc = lblc(t.lc)])
      [] t.lh - t.rh = -2 ->
             IF t.rc.rh > t.rc.lh THEN lblc(t) ELSE lblc([t EXCEPT !.rc = rblc(t.rc)])
      [] OTHER -> t

RECURSIVE insert(_, _, _)
insert(k, v, t) ==
    CASE t = Nil -> Leaf(k, v)
      [] t # Nil /\ t.key > k -> test_fix(WithLeft(t, insert(k, v, t.lc)))
      [] t # Nil /\ t.key < k -> test_fix(WithRight(t, insert(k, v, t.rc)))
      [] OTHER -> t

RECURSIVE Rightmost(_)
Rightmost(t) == IF t.rc = Nil THEN t ELSE Rightmost(t.rc)

RECURSIVE del(_, _)

\* Mutant: the predecessor brings its key and not its value.
UnlinkKeepsVal(t) ==
    CASE t.rc = Nil -> t.lc
      [] t.rc # Nil /\ t.lc = Nil -> t.rc
      [] OTHER -> LET q == Rightmost(t.lc)
                  IN  test_fix(WithLeft([t EXCEPT !.key = q.key], del(q.key, t.lc)))

\* del() when it has found the node: its predecessor takes the place of a node
\* with two children
Unlink(t) ==
    CASE t.rc = Nil -> t.lc
      [] t.rc # Nil /\ t.lc = Nil -> t.rc
      [] OTHER -> LET q == Rightmost(t.lc)
                  IN  test_fix(WithLeft([t EXCEPT !.key = q.key, !.val = q.val],
                                        del(q.key, t.lc)))

del(k, t) ==
    CASE t = Nil -> Nil
      [] t # Nil /\ t.key > k -> test_fix(WithLeft(t, del(k, t.lc)))
      [] t # Nil /\ t.key < k -> test_fix(WithRight(t, del(k, t.rc)))
      [] OTHER -> Unlink(t)

RECURSIVE find(_, _)
find(k, t) ==
    CASE t = Nil -> Nil
      [] t # Nil /\ t.key > k -> find(k, t.lc)
      [] t # Nil /\ t.key < k -> find(k, t.rc)
      [] OTHER -> t

\* *(res->val) = v for the node res that find() leads to
RECURSIVE SetVal(_, _, _)
SetVal(k, v, t) ==
    CASE t.key > k -> [t EXCEPT !.lc = SetVal(k, v, t.lc)]
      [] t.key < k -> [t EXCEPT !.rc = SetVal(k, v, t.rc)]
      [] OTHER -> [t EXCEPT !.val = v]

-----------------------------------------------------------------------------

Init == root = Nil

Insert(k, v) == root' = insert(k, v, root)

Del(k) == root' = del(k, root)

Update(k, v) ==
    /\ find(k, root) # Nil
    /\ root' = SetVal(k, v, root)

Next == \E k \in Keys : \/ Del(k)
                        \/ \E v \in Values : Insert(k, v) \/ Update(k, v)

Spec == Init /\ [][Next]_root

-----------------------------------------------------------------------------
(* Properties *)

RECURSIVE Nodes(_)
Nodes(t) == IF t = Nil THEN {} ELSE {t} \cup Nodes(t.lc) \cup Nodes(t.rc)

RECURSIVE RealHeight(_)
RealHeight(t) == IF t = Nil THEN 0 ELSE 1 + Max2(RealHeight(t.lc), RealHeight(t.rc))

\* The heights that the nodes remember are the heights of their subtrees, after
\* double rotations and deletions too: test_fix() never judges by a stale one.
HeightsExact ==
    \A n \in Nodes(root) : n.lh = RealHeight(n.lc) /\ n.rh = RealHeight(n.rc)

\* The AVL condition: the subtrees of a node differ by at most one in height.
IsBalanced(t) == \A n \in Nodes(t) : RealHeight(n.lc) - RealHeight(n.rc) \in -1 .. 1

Balanced == IsBalanced(root)

\* test_fix() repairs whatever an insertion does to a balanced tree, also to one
\* that deletions have made, with shapes that insertions alone never produce.
InsertionKeepsBalance ==
    Balanced => \A k \in Keys, v \in Values : IsBalanced(insert(k, v, root))

\* What find() sees of the tree is a dictionary: no operation disturbs any key
\* but its own, however the tree is rebalanced.
D == INSTANCE Dict WITH
    Absent <- NoValue,
    contents <- [k \in Keys |-> LET n == find(k, root) IN IF n = Nil THEN NoValue ELSE n.val]

ImplementsDict == D!Spec

=============================================================================
