------------------------------ MODULE MCJStack ------------------------------
(***************************************************************************)
(* An instance of JStack for TLC, with fairness and progress.  The threads *)
(* call for ever.                                                          *)
(***************************************************************************)
EXTENDS JStack

\* Which free data block a push gets makes no difference: nobody remembers one
\* that was given back.  Which node it gets does, and is left open.
FirstFree == CHOOSE d \in Items : d \notin blocks

MCCall(t) ==
    \/ PopCall(t)
    \/ blocks # Items /\ \E n \in Nodes : PushCall(t, n, FirstFree)

MCNext ==
    \/ \E t \in Threads : MCCall(t) \/ PushStep(t) \/ PopStep(t)
    \/ \E d \in Items : ReturnData(d)

\* Only a thread inside push() has to keep running.
MCSpec == Init /\ [][MCNext]_vars /\ \A t \in Threads : WF_vars(PushStep(t))

EveryoneRuns == \A t \in Threads : WF_vars(PopStep(t))

Pushing == At({"p_load", "p_cas", "p_count"})
Popping == At({"o_enter", "o_load", "o_next", "o_cas", "o_exit", "o_wait", "o_count", "o_free"})

\* Once push() has its memory it is lock-free: as long as threads are pushing
\* some push returns, even when other threads stop for ever in the middle of a pop.
PushesReturn ==
    []<>(Pushing = {}) \/ []<><<\E t \in Pushing : pc'[t] = "idle">>_vars

\* Threads that wait for popingThreads never wait for each other: as long as
\* threads are popping some call returns, if none of them stops.  It may be that
\* only pushes do: each one changes the head that a pop has just read, and while
\* that pop tries again no other that has left the loop gets past popingThreads.
PopsReturn ==
    EveryoneRuns =>
        \/ []<>(Popping = {})
        \/ []<><<\E t \in Threads : pc[t] # "idle" /\ pc'[t] = "idle">>_vars

\* Neither the retries of the two compare-and-swap loops nor the wait at the end
\* of pop() can go on for ever with nobody getting through.  That pops return while
\* pushes keep returning is not promised: it holds where the memory of the stack is
\* bounded, since the pushes then have to wait for a pop, and malloc() has no bound.
CallsReturn == PushesReturn /\ PopsReturn

=============================================================================
