------------------------------- MODULE RBTree -------------------------------
(***************************************************************************)
(* The algorithms of jtree_rb (jtree.cpp): insertion and deletion in a     *)
(* red-black tree whose nodes point to their parents.                      *)
(*                                                                         *)
(* A tree is a record h of what is in memory: root, test_root and, for     *)
(* every node, kid["l"] and kid["r"] (lc and rc in the code), pa, color,   *)
(* key and val.  A `node *&' is a slot: the root, or one of the two child  *)
(* pointers of a node; a node is known by the slot that leads to it.  The  *)
(* code spells out every case twice, once per side; the operators take the *)
(* side as a parameter.                                                    *)
(***************************************************************************)
EXTENDS Integers

CONSTANTS Keys,         \* bound: the keys the callers use, positive numbers
          NoVal         \* the val of memory that holds no node

Null == 0
Free == -1              \* the key of memory that holds no node
Nodes == Keys           \* as many nodes as keys are enough

red == 0
black == 1

Other(side) == IF side = "l" THEN "r" ELSE "l"

Empty == [root |-> Null, test_root |-> Null,
          kid |-> [side \in {"l", "r"} |-> [n \in Nodes |-> Null]],
          pa |-> [n \in Nodes |-> Null],
          color |-> [n \in Nodes |-> black],
          key |-> [n \in Nodes |-> Free],
          val |-> [n \in Nodes |-> NoVal]]

(* Slots. *)
RootSlot == [of |-> Null, side |-> "l"]
KidSlot(n, side) == [of |-> n, side |-> side]

Get(h, s) == IF s.of = Null THEN h.root ELSE h.kid[s.side][s.of]

Put(h, s, n) ==
    IF s.of = Null THEN [h EXCEPT !.root = n] ELSE [h EXCEPT !.kid[s.side][s.of] = n]

\* The side of its parent that node n is on, and the slot that leads to n.
SideOf(h, n) == IF h.kid["l"][h.pa[n]] = n THEN "l" ELSE "r"
SlotOf(h, n) == IF n = h.root THEN RootSlot ELSE KidSlot(h.pa[n], SideOf(h, n))

(* Colours; a null pointer counts as black in every test. *)
IsRed(h, n) == n # Null /\ h.color[n] = red
Paint(h, nodes, c) == [h EXCEPT !.color = [n \in Nodes |-> IF n \in nodes THEN c ELSE @[n]]]

\* lblc (side "l") and rblc (side "r"): the node in slot s goes down on that
\* side, its child from the other side comes up into the slot.
Rotate(h, s, side) ==
    LET x == Get(h, s)
        y == h.kid[Other(side)][x]
        z == h.kid[side][y]
        up == [n \in Nodes |-> CASE n = x -> y
                                 [] n = y -> h.pa[x]
                                 [] n = z -> x
                                 [] OTHER -> h.pa[n]]
    IN  Put([h EXCEPT !.pa = up, !.kid[Other(side)][x] = z, !.kid[side][y] = x], s, y)

-----------------------------------------------------------------------------
(* Insertion *)

\* The uncle of n is black: n goes above its parent if it is an inner grandchild,
\* and then the middle one of the three above the grandparent.
FixByRotation(h, n, side) ==
    LET pa == h.pa[n]
        gpa == h.pa[pa]
        inner == n = h.kid[Other(side)][pa]
        top == IF inner THEN n ELSE pa
        painted == Paint(Paint([h EXCEPT !.test_root = top], {top}, black), {gpa}, red)
        straight == IF inner THEN Rotate(painted, KidSlot(gpa, side), side) ELSE painted
    IN  Rotate(straight, SlotOf(straight, gpa), Other(side))

\* The uncle is red: the grandparent takes over the red of its children.
FixByColor(h, n) ==
    LET gpa == h.pa[h.pa[n]]
        kids == {h.kid["l"][gpa], h.kid["r"][gpa]}
    IN  Paint(Paint([h EXCEPT !.test_root = gpa], kids, black), {gpa}, red)

test_fix(h, n) ==
    IF \/ h.pa[n] = Null \/ h.pa[h.pa[n]] = Null
       \/ ~ (IsRed(h, n) /\ IsRed(h, h.pa[n]))
        THEN [h EXCEPT !.test_root = Null]
        ELSE LET side == SideOf(h, h.pa[n])
             IN  IF IsRed(h, h.kid[Other(side)][h.pa[h.pa[n]]])
                     THEN FixByColor(h, n)
                     ELSE FixByRotation(h, n, side)

\* while (test_root) test_fix(test_root)
RECURSIVE FixUp(_)
FixUp(h) == IF h.test_root = Null THEN h ELSE FixUp(test_fix(h, h.test_root))

\* The slot where the search for key k ends.
RECURSIVE Locate(_, _, _)
Locate(h, k, s) ==
    LET n == Get(h, s)
    IN  CASE n = Null -> s
          [] n # Null /\ h.key[n] > k -> Locate(h, k, KidSlot(n, "l"))
          [] n # Null /\ h.key[n] < k -> Locate(h, k, KidSlot(n, "r"))
          [] OTHER -> s

\* create_node(k, v) at address n, linked into slot s
create_node(h, n, k, v, s) ==
    LET made == [h EXCEPT !.kid["l"][n] = Null, !.kid["r"][n] = Null, !.pa[n] = s.of,
                          !.color[n] = red, !.key[n] = k, !.val[n] = v]
    IN  Put(made, s, n)

\* insert(k, v): in an empty tree it only makes the root
insert(h, k, v) ==
    LET s == Locate(h, k, RootSlot)
        linked == create_node(h, k, k, v, s)
        fixed == FixUp(test_fix(linked, k))
        done == IF Get(h, s) # Null THEN h ELSE IF h.root = Null THEN linked ELSE fixed
    IN  Paint(done, {done.root}, black)

-----------------------------------------------------------------------------
(* Deletion *)

\* The parent is red: rotations at the parent settle it.
FixRedParent(h, n, side) ==
    LET p == h.pa[n]
        s == SlotOf(h, p)
        cou == h.kid[Other(side)][p]
        far == h.kid[Other(side)][cou]
        near == h.kid[side][cou]
    IN  CASE IsRed(h, far) ->
                 Rotate(Paint(Paint(h, {far, p}, black), {cou}, red), s, side)
          [] ~ IsRed(h, far) /\ IsRed(h, near) ->
                 LET painted == Paint(Paint(h, {near}, black), {cou}, red)
                 IN  Rotate(Rotate(painted, KidSlot(p, Other(side)), Other(side)), s, side)
          [] OTHER -> Rotate(h, s, side)

\* Mutant: one rotation, whichever nephew is red, and no colours.
FixOuterOnly(h, n, side) == Rotate(h, SlotOf(h, h.pa[n]), side)

\* Parent and cousin are black and the cousin has a red child.
FixBlackCousin(h, n, side) ==
    LET p == h.pa[n]
        s == SlotOf(h, p)
        cou == h.kid[Other(side)][p]
        far == h.kid[Other(side)][cou]
        near == h.kid[side][cou]
    IN  IF IsRed(h, far)
            THEN Rotate(Paint(h, {far}, black), s, side)
            ELSE LET lifted == Rotate(Paint(h, {near}, black), KidSlot(p, Other(side)), Other(side))
                 IN  Rotate(lifted, s, side)

\* The parent is black and the cousin red.  The first branch is two of the code's,
\* which do the same: the far grandchild is red and the near one is or is not.
FixRedCousin(h, n, side) ==
    LET p == h.pa[n]
        s == SlotOf(h, p)
        cou == h.kid[Other(side)][p]
        g == h.kid[side][cou]
        far == h.kid[Other(side)][g]
        near == h.kid[side][g]
        h1 == Paint(h, {cou}, black)
    IN  CASE IsRed(h, far) ->
                 LET h2 == Rotate(Paint(Paint(h1, {g}, red), {far}, black), s, side)
                 IN  Rotate(h2, KidSlot(cou, side), side)
          [] ~ IsRed(h, far) /\ IsRed(h, near) ->
                 LET h2 == Rotate(Rotate(h1, s, side), KidSlot(p, Other(side)), Other(side))
                 IN  Rotate(h2, KidSlot(cou, side), side)
          [] OTHER -> Rotate(Paint(h1, {g}, red), s, side)

\* The subtree in slot sl is one black node short, or about to be.
RECURSIVE recurse_fix(_, _)
recurse_fix(h, sl) ==
    LET n == Get(h, sl)
        p == h.pa[n]
        side == SideOf(h, n)
        cou == h.kid[Other(side)][p]
        nephews == {h.kid["l"][cou], h.kid["r"][cou]}
    IN  CASE n = h.root -> h
          [] n # h.root /\ IsRed(h, p) -> FixRedParent(h, n, side)
          [] n # h.root /\ ~ IsRed(h, p) /\ IsRed(h, cou) -> FixRedCousin(h, n, side)
          [] n # h.root /\ ~ IsRed(h, p) /\ ~ IsRed(h, cou) ->
                 IF \E m \in nephews : IsRed(h, m)
                     THEN FixBlackCousin(h, n, side)
                     ELSE LET h1 == Paint(h, {cou}, red)
                          IN  IF p = h.root THEN h1 ELSE recurse_fix(h1, SlotOf(h1, p))

\* The node in slot s leaves the tree.
Drop(h, s) ==
    LET q == Get(h, s)
    IN  Put([h EXCEPT !.key[q] = Free, !.val[q] = NoVal, !.pa[q] = Null, !.color[q] = black], s, Null)

copy_b2a(h, a, b) == [h EXCEPT !.key[a] = h.key[b], !.val[a] = h.val[b]]

RECURSIVE Rightmost(_, _)
Rightmost(h, n) == IF h.kid["r"][n] = Null THEN n ELSE Rightmost(h, h.kid["r"][n])

RECURSIVE del(_, _, _)

\* The node in slot s gets the key and value of a node b below it on that side,
\* and b's key is deleted there instead.
Replace(h, s, b, side) ==
    del(copy_b2a(h, Get(h, s), b), h.key[b], KidSlot(Get(h, s), side))

\* del() when slot s leads to the node
Unlink(h, s) ==
    LET n == Get(h, s)
        l == h.kid["l"][n]
        r == h.kid["r"][n]
    IN  CASE l # Null /\ r # Null -> Replace(h, s, Rightmost(h, l), "l")
          [] l # Null /\ r = Null -> Replace(h, s, l, "l")
          [] l = Null /\ r # Null -> Replace(h, s, r, "r")
          [] l = Null /\ r = Null -> Drop(IF IsRed(h, n) THEN h ELSE recurse_fix(h, s), s)

del(h, k, s) ==
    LET found == Locate(h, k, s)
    IN  IF Get(h, found) = Null THEN h ELSE Unlink(h, found)

(***************************************************************************)
(* Addresses do not matter: between two operations every node is known by  *)
(* its key, so that trees that differ in their addresses alone are one     *)
(* state.  A pointer into freed memory stays recognisable (Free).          *)
(***************************************************************************)
Named(h) ==
    LET at(k) == CHOOSE n \in Nodes : h.key[n] = k
        there == {h.key[n] : n \in Nodes} \ {Free}
        name(n) == IF n = Null THEN Null ELSE h.key[n]
        of(f, default) == [k \in Nodes |-> IF k \in there THEN f[at(k)] ELSE default]
        ptr(f) == [k \in Nodes |-> IF k \in there THEN name(f[at(k)]) ELSE Null]
    IN  [root |-> name(h.root), test_root |-> name(h.test_root),
         kid |-> [side \in {"l", "r"} |-> ptr(h.kid[side])],
         pa |-> ptr(h.pa),
         color |-> of(h.color, black),
         key |-> of(h.key, Free),
         val |-> of(h.val, NoVal)]

=============================================================================
