------------------------------- MODULE Deque -------------------------------
(***************************************************************************)
(* What a concurrent deque promises: every call takes effect at one moment *)
(* between its invocation and its return, and the effects, in that order,  *)
(* are those of a sequence.  jstack is this object used from one end only; *)
(* jque and jqueue push at both ends.                                      *)
(*                                                                         *)
(* MayFail says whether pop_front may return nullptr although there is an  *)
(* item: FALSE is the deque one would like, TRUE the deque with spurious   *)
(* failures that the counters of jque and jqueue provide.                  *)
(***************************************************************************)
EXTENDS Sequences

CONSTANTS Threads, Items, NoItem, MayFail

VARIABLES content,      \* the items, front first
          call          \* each thread's call: its operation and its item or result

vars == <<content, call>>

Calls == [op : {"idle", "push_back", "push_front", "pop_front", "done"},
          item : Items \cup {NoItem}]

Idle == [op |-> "idle", item |-> NoItem]

Init == content = <<>> /\ call = [t \in Threads |-> Idle]

\* Thread t's call goes from operation op to c.
Becomes(t, op, c) == call[t].op = op /\ call' = [call EXCEPT ![t] = c]

Done(d) == [op |-> "done", item |-> d]

Invoke(t) ==
    /\ \/ \E d \in Items, op \in {"push_back", "push_front"} :
              Becomes(t, "idle", [op |-> op, item |-> d])
       \/ Becomes(t, "idle", [op |-> "pop_front", item |-> NoItem])
    /\ UNCHANGED content

PushBack(t) ==
    /\ Becomes(t, "push_back", Done(NoItem))
    /\ content' = Append(content, call[t].item)

PushFront(t) ==
    /\ Becomes(t, "push_front", Done(NoItem))
    /\ content' = <<call[t].item>> \o content

PopFront(t) ==
    /\ content # <<>>
    /\ Becomes(t, "pop_front", Done(Head(content)))
    /\ content' = Tail(content)

PopNothing(t) ==
    /\ MayFail \/ content = <<>>
    /\ Becomes(t, "pop_front", Done(NoItem))
    /\ UNCHANGED content

Return(t) == Becomes(t, "done", Idle) /\ UNCHANGED content

Next == \E t \in Threads : \/ Invoke(t) \/ Return(t)
                           \/ PushBack(t) \/ PushFront(t)
                           \/ PopFront(t) \/ PopNothing(t)

Spec == Init /\ [][Next]_vars

=============================================================================
