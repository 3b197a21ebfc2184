------------------------------- MODULE MCJQue -------------------------------
(***************************************************************************)
(* An instance of JQue for TLC, with fairness and progress.  The threads   *)
(* call for ever.                                                          *)
(***************************************************************************)
EXTENDS JQue

\* Which free data block a push gets makes no difference: nobody remembers one
\* that was given back.  Which node it gets does, and is left open.
FirstFree == CHOOSE d \in Items : d \notin blocks

MCCall(t) ==
    \/ PopCall(t)
    \/ /\ blocks # Items
       /\ \E n \in Nodes : PushBackCall(t, n, FirstFree) \/ PushFrontCall(t, n, FirstFree)

MCNext ==
    \/ \E t \in Threads : MCCall(t) \/ Step(t)
    \/ \E d \in Items : ReturnData(d)

\* Every thread that is inside a call keeps running.
MCSpec == Init /\ [][MCNext]_vars /\ \A t \in Threads : WF_vars(Step(t))

\* The two mutexes and the permits in _size never leave threads waiting for
\* each other: as long as calls are running some call returns, whatever the mix.
CallsReturn ==
    \/ []<>(\A t \in Threads : pc[t] = "idle")
    \/ []<><<\E t \in Threads : pc[t] # "idle" /\ pc'[t] = "idle">>_vars

=============================================================================
