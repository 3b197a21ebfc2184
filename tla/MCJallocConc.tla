---------------------------- MODULE MCJallocConc ----------------------------
(***************************************************************************)
(* An instance of JallocConc for TLC, with fairness and progress.  The     *)
(* threads call for ever.                                                  *)
(***************************************************************************)
EXTENDS JallocConc

\* Every thread that is inside a call keeps running.
MCSpec == Spec /\ \A t \in Threads : WF_vars(Step(t))

\* Retries, the wait for popingthreads and the mutex of init() never leave
\* threads waiting for each other: as long as calls are running some call returns.
CallsReturn ==
    \/ []<>(\A t \in Threads : pc[t] = "idle")
    \/ []<><<\E t \in Threads : pc[t] # "idle" /\ pc'[t] = "idle">>_vars

=============================================================================
