------------------------------ MODULE MCJQueue ------------------------------
(***************************************************************************)
(* Instances of JQueue for TLC, with fairness and progress; the threads    *)
(* call for ever.  The cold run starts where the constructor ends.  The    *)
(* warm run starts where one thread has pushed and popped one item: the    *)
(* deque is empty again, and its last node, LastNode, is one that a        *)
(* push_back made instead of the constructor.                              *)
(***************************************************************************)
EXTENDS JQueue

CONSTANT LastNode

\* Which free data block a push gets makes no difference: nobody remembers one
\* that was given back.  Which node it gets does, and is left open.
FirstFree == CHOOSE d \in Items : d \notin blocks

MCCall(t) ==
    \/ PopCall(t)
    \/ /\ blocks # Items
       /\ \E n \in Nodes : PushBackCall(t, n, FirstFree) \/ PushFrontCall(t, n, FirstFree)

MCNext ==
    \/ \E t \in Threads : MCCall(t) \/ Step(t)
    \/ \E d \in Items : CallerFrees(d)

MCWarmInit == WarmInit /\ head = LastNode

\* Every thread that is inside a call keeps running.
MCWarmSpec ==
    /\ MCWarmInit
    /\ [][MCNext]_vars
    /\ \A t \in Threads : WF_vars(Step(t))

MCColdSpec == Init /\ [][MCNext]_vars

\* Pops that spin on a value, pops that wait for head_thread and pushes that
\* retry never leave each other waiting: as long as calls are running some call
\* returns.
CallsReturn ==
    \/ []<>(\A t \in Threads : pc[t] = "idle")
    \/ []<><<\E t \in Threads : pc[t] # "idle" /\ pc'[t] = "idle">>_vars

=============================================================================
