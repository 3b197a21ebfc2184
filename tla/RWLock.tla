------------------------------ MODULE RWLock ------------------------------
(***************************************************************************)
(* What a read-write lock promises its callers: any number of readers may  *)
(* hold it together, a writer holds it alone, and nothing else is said     *)
(* about who gets it next.  jlock_rw (module JLockRW) is shown to          *)
(* implement it; callers of a lock are specified against this module.      *)
(***************************************************************************)

CONSTANTS Readers,      \* threads that may call read_lock
          Writers       \* threads that may call write_lock (may overlap Readers)

VARIABLES reading,      \* the threads that hold the lock for reading
          writing       \* the threads that hold the lock for writing

vars == <<reading, writing>>

Init == reading = {} /\ writing = {}

BeginRead(t) ==
    /\ t \notin reading
    /\ writing = {}
    /\ reading' = reading \cup {t}
    /\ UNCHANGED writing

EndRead(t) ==
    /\ t \in reading
    /\ reading' = reading \ {t}
    /\ UNCHANGED writing

BeginWrite(t) ==
    /\ reading = {}
    /\ writing = {}
    /\ writing' = {t}
    /\ UNCHANGED reading

EndWrite(t) ==
    /\ t \in writing
    /\ writing' = writing \ {t}
    /\ UNCHANGED reading

Next == \/ \E t \in Readers : BeginRead(t) \/ EndRead(t)
        \/ \E t \in Writers : BeginWrite(t) \/ EndWrite(t)

Spec == Init /\ [][Next]_vars

=============================================================================
