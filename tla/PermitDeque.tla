---------------------------- MODULE PermitDeque ----------------------------
(***************************************************************************)
(* jque as its users see it: a deque with a count of permits.  A push      *)
(* counts its item after it has linked it; a pop takes a permit before it  *)
(* touches the deque, and gives it back when there was none to take.  An   *)
(* entitled pop removes the front item without looking whether there is    *)
(* one.  JQue implements this module, and this module implements Deque     *)
(* with pops that may fail; the users of jque are modelled over it, since  *)
(* when a pop may fail matters to them.                                    *)
(***************************************************************************)
EXTENDS Integers, Sequences, FiniteSets

CONSTANTS Threads, Items, NoItem

VARIABLES content,      \* the items, front first
          size,         \* _size
          call          \* each thread's call: how far it is, and its item or result

vars == <<content, size, call>>

Pushes == {"push_back", "push_front"}
Ops == {"idle", "linked", "pop_front", "entitled", "refused"}
Calls == [op : Pushes \cup {"done"}, item : Items] \cup [op : Ops, item : {NoItem}]

At(op) == [op |-> op, item |-> NoItem]
Idle == At("idle")

Init == content = <<>> /\ size = 0 /\ call = [t \in Threads |-> Idle]

\* Thread t's call goes from op to c.
Becomes(t, op, c) == call[t].op = op /\ call' = [call EXCEPT ![t] = c]

Push(t, op, d) ==
    /\ op \in Pushes
    /\ Becomes(t, "idle", [op |-> op, item |-> d])
    /\ UNCHANGED <<content, size>>

LinkBack(t) ==
    /\ Becomes(t, "push_back", At("linked"))
    /\ content' = Append(content, call[t].item)
    /\ UNCHANGED size

LinkFront(t) ==
    /\ Becomes(t, "push_front", At("linked"))
    /\ content' = <<call[t].item>> \o content
    /\ UNCHANGED size

\* _size++, and the push returns
Count(t) == Becomes(t, "linked", Idle) /\ size' = size + 1 /\ UNCHANGED content

Pop(t) == Becomes(t, "idle", At("pop_front")) /\ UNCHANGED <<content, size>>

\* int k = _size--; if (k <= 0)
Take(t) ==
    /\ Becomes(t, "pop_front", At(IF size <= 0 THEN "refused" ELSE "entitled"))
    /\ size' = size - 1
    /\ UNCHANGED content

\* _size++, and the pop returns nullptr
Undo(t) == Becomes(t, "refused", Idle) /\ size' = size + 1 /\ UNCHANGED content

Remove(t) ==
    /\ Becomes(t, "entitled", [op |-> "done", item |-> Head(content)])
    /\ content' = Tail(content)
    /\ UNCHANGED size

Return(t) == Becomes(t, "done", Idle) /\ UNCHANGED <<content, size>>

Step(t) == LinkBack(t) \/ LinkFront(t) \/ Count(t) \/ Take(t) \/ Undo(t) \/ Remove(t) \/ Return(t)

Next == \E t \in Threads :
    \/ Step(t)
    \/ Pop(t)
    \/ \E d \in Items, op \in Pushes : Push(t, op, d)

Spec == Init /\ [][Next]_vars

-----------------------------------------------------------------------------
(* Properties *)

TypeOK ==
    /\ content \in Seq(Items)
    /\ size \in Int
    /\ call \in [Threads -> Calls]

InOp(op) == {t \in Threads : call[t].op = op}

\* _size is the number of items nobody is entitled to yet, less the pushes not
\* counted and the failed pops not undone.
SizeAccounts ==
    size = Len(content) - Cardinality(InOp("entitled"))
         - Cardinality(InOp("linked")) - Cardinality(InOp("refused"))

\* Every entitled pop has an item to remove, whatever the others do first.
PermitsCovered == Cardinality(InOp("entitled")) <= Len(content)

\* pop_front() misses an item only while another thread is in the middle of a
\* call: a thread alone with the deque never gets nullptr from a full one.
NullNeedsCompany ==
    [][\A t \in Threads :
          call[t].op = "pop_front" /\ call'[t].op = "refused" /\ content # <<>>
              => \E u \in Threads \ {t} : call[u].op # "idle"]_vars

\* It is a deque whose pop_front() may return nullptr although there is an item;
\* otherwise every push and pop takes effect at one moment of its call.
SeenOp(op) == CASE op \in {"linked", "refused"} -> "done"
                [] op = "entitled" -> "pop_front"
                [] OTHER -> op

Lax == INSTANCE Deque WITH
    MayFail <- TRUE,
    call <- [t \in Threads |-> [op |-> SeenOp(call[t].op), item |-> call[t].item]]

ImplementsLaxDeque == Lax!Spec

=============================================================================
