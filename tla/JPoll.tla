------------------------------- MODULE JPoll -------------------------------
(***************************************************************************)
(* jpoll of jsock.cpp: an array of pollfds behind a pthread rwlock, and    *)
(* its size, which p_add() counts after it has given back the lock.        *)
(* Readers of the object use size() and operator[] with no lock.           *)
(***************************************************************************)
EXTENDS Integers, FiniteSets, SequencesExt

CONSTANTS Pollers, PollFds

VARIABLES pfds, counted, \* counted is __size
          prw,           \* the threads with the lock: writer or readers
          doing, about   \* where they are, and the descriptors they are called with

pollVars == <<pfds, counted, prw, doing, about>>

PollInit ==
    /\ pfds = <<>> /\ counted = 0
    /\ prw = {}
    /\ doing = [t \in Pollers |-> "idle"] /\ about = [t \in Pollers |-> 0]

PollGoto(t, from, to) == doing[t] = from /\ doing' = [doing EXCEPT ![t] = to]
Writing == \E t \in prw : doing[t] \in {"add", "del", "erase"}

\* p_add() and p_del() wait for the write lock, p_wait() for the read lock
Lock(t, to, fd) ==
    /\ prw = {} \/ (to = "poll" /\ ~Writing)
    /\ PollGoto(t, "idle", to)
    /\ prw' = prw \cup {t}
    /\ about' = [about EXCEPT ![t] = fd]
    /\ UNCHANGED <<pfds, counted>>

\* Each descriptor is added by one thread at a time, and once.
AddLock(t, fd) ==
    /\ \A i \in DOMAIN pfds : pfds[i] # fd
    /\ \A u \in Pollers : about[u] # fd
    /\ Lock(t, "add", fd)

\* push_back(), and the lock is given back
AddPush(t) ==
    /\ PollGoto(t, "add", "count")
    /\ pfds' = Append(pfds, about[t])
    /\ prw' = prw \ {t}
    /\ UNCHANGED <<counted, about>>

AddCount(t) ==
    /\ PollGoto(t, "count", "idle")
    /\ counted' = counted + 1
    /\ about' = [about EXCEPT ![t] = 0]
    /\ UNCHANGED <<pfds, prw>>

DelLock(t, fd) == Lock(t, "del", fd)

Has(t) == \E i \in DOMAIN pfds : pfds[i] = about[t]

\* Mutant: the count is decremented whether or not the descriptor was found.
DelCountAlways(t) ==
    /\ PollGoto(t, "del", "erase")
    /\ counted' = counted - 1
    /\ UNCHANGED <<pfds, prw, about>>

\* __size-- when the descriptor is there
DelCount(t) ==
    /\ PollGoto(t, "del", "erase")
    /\ counted' = IF Has(t) THEN counted - 1 ELSE counted
    /\ UNCHANGED <<pfds, prw, about>>

\* pfds.del(i) for the first that was found, and the lock is given back
DelErase(t) ==
    LET i == SelectInSeq(pfds, LAMBDA fd : fd = about[t]) IN
    /\ PollGoto(t, "erase", "idle")
    /\ pfds' = IF i = 0 THEN pfds ELSE RemoveAt(pfds, i)
    /\ prw' = prw \ {t}
    /\ about' = [about EXCEPT ![t] = 0]
    /\ UNCHANGED counted

\* p_wait(): the read lock is held until some descriptor is ready
WaitLock(t) == Lock(t, "poll", 0)

WaitEnd(t) ==
    /\ PollGoto(t, "poll", "idle")
    /\ prw' = prw \ {t}
    /\ UNCHANGED <<pfds, counted, about>>

PollNext == \E t \in Pollers :
    \/ AddPush(t) \/ AddCount(t) \/ DelCount(t) \/ DelErase(t) \/ WaitLock(t) \/ WaitEnd(t)
    \/ \E fd \in PollFds : AddLock(t, fd) \/ DelLock(t, fd)

PollSpec == PollInit /\ [][PollNext]_pollVars

-----------------------------------------------------------------------------
(* Properties *)

\* At every moment size() is the length of the array, less what is added and not
\* counted and what is counted out and not yet erased, and so never more.  It says
\* nothing of a reader whose size() is old when it comes to operator[], or whose
\* element moves with the array: against these the class has no means.
SizeCovered ==
    counted = Len(pfds) - Cardinality({t \in Pollers : doing[t] = "count"})
                        - Cardinality({t \in Pollers : doing[t] = "erase" /\ Has(t)})

=============================================================================
