------------------------------ MODULE JLockRW ------------------------------
(***************************************************************************)
(* jlock_rw of jlock.cpp: a read-write lock made of two atomic counters    *)
(* and a std::mutex.  A writer announces itself in w_threads, looks at     *)
(* r_threads, and either goes on to the mutex or takes its announcement    *)
(* back and tries again; a reader announces itself in r_threads and polls  *)
(* w_threads until it reads 0.  Each action is one access to shared state, *)
(* so TLC interleaves the threads wherever the hardware may.               *)
(***************************************************************************)
EXTENDS Integers, FiniteSets

CONSTANTS Readers,      \* threads that may call read_lock
          Writers,      \* threads that may call write_lock (may overlap Readers)
          NoThread      \* the owner of an unlocked mutex

Threads == Readers \cup Writers

ASSUME ThreadsAssumption == IsFiniteSet(Threads) /\ NoThread \notin Threads

VARIABLES r_threads,    \* atomic_int: readers announced
          w_threads,    \* atomic_int: writers announced
          mu,           \* __mu: the thread that holds the mutex, or NoThread
          pc            \* where each thread is in its current call

vars == <<r_threads, w_threads, mu, pc>>

Goto(t, from, to) == pc[t] = from /\ pc' = [pc EXCEPT ![t] = to]

Init ==
    /\ r_threads = 0
    /\ w_threads = 0
    /\ mu = NoThread
    /\ pc = [t \in Threads |-> "idle"]

-----------------------------------------------------------------------------
(* write_lock: the for(;;) loop, and write_unlock *)

\* w_threads.fetch_add(1), at the call and at every turn of the loop
WriteAnnounce(t) ==
    /\ Goto(t, "idle", "w_check") \/ Goto(t, "w_again", "w_check")
    /\ w_threads' = w_threads + 1
    /\ UNCHANGED <<r_threads, mu>>

\* Mutant: a writer gives way to other writers too.
ChecksWritersToo(t) ==
    /\ Goto(t, "w_check", IF r_threads = 0 /\ w_threads = 1 THEN "w_mutex" ELSE "w_retreat")
    /\ UNCHANGED <<r_threads, w_threads, mu>>

\* if (0 == r_threads)
WriteCheck(t) ==
    /\ Goto(t, "w_check", IF r_threads = 0 THEN "w_mutex" ELSE "w_retreat")
    /\ UNCHANGED <<r_threads, w_threads, mu>>

\* Mutant: the mutex is not waited for.
EntersWithoutMutex(t) ==
    /\ Goto(t, "w_mutex", "writing")
    /\ mu' = t
    /\ UNCHANGED <<r_threads, w_threads>>

\* __mu.lock()
WriteMutex(t) ==
    /\ Goto(t, "w_mutex", "writing")
    /\ mu = NoThread
    /\ mu' = t
    /\ UNCHANGED <<r_threads, w_threads>>

\* Mutant: the retreat forgets fetch_sub.
RetreatsSilently(t) ==
    /\ Goto(t, "w_retreat", "w_again")
    /\ UNCHANGED <<r_threads, w_threads, mu>>

\* w_threads.fetch_sub(1); yield
WriteRetreat(t) ==
    /\ Goto(t, "w_retreat", "w_again")
    /\ w_threads' = w_threads - 1
    /\ UNCHANGED <<r_threads, mu>>

\* __mu.unlock(), the first half of write_unlock
WriteUnlock(t) ==
    /\ Goto(t, "writing", "w_leave")
    /\ mu' = NoThread
    /\ UNCHANGED <<r_threads, w_threads>>

\* w_threads.fetch_sub(1), the second half
WriteLeave(t) ==
    /\ Goto(t, "w_leave", "idle")
    /\ w_threads' = w_threads - 1
    /\ UNCHANGED <<r_threads, mu>>

(* read_lock and read_unlock *)

ReadAnnounce(t) ==
    /\ Goto(t, "idle", "r_spin")
    /\ r_threads' = r_threads + 1
    /\ UNCHANGED <<w_threads, mu>>

\* the poll that ends while (w_threads > 0); the others change nothing
ReadEnter(t) ==
    /\ Goto(t, "r_spin", "reading")
    /\ ~ w_threads > 0
    /\ UNCHANGED <<r_threads, w_threads, mu>>

ReadUnlock(t) ==
    /\ Goto(t, "reading", "idle")
    /\ r_threads' = r_threads - 1
    /\ UNCHANGED <<w_threads, mu>>

-----------------------------------------------------------------------------

WriterStep(t) == \/ WriteCheck(t) \/ WriteMutex(t) \/ WriteRetreat(t)
                 \/ WriteUnlock(t) \/ WriteLeave(t)

ReaderStep(t) == ReadEnter(t) \/ ReadUnlock(t)

Next == \/ \E t \in Writers : WriteAnnounce(t) \/ WriterStep(t)
        \/ \E t \in Readers : ReadAnnounce(t) \/ ReaderStep(t)

Spec == Init /\ [][Next]_vars

(***************************************************************************)
(* A thread that is inside a call keeps running (the scheduler is fair);   *)
(* no thread has to make a call.                                           *)
(***************************************************************************)
Fairness ==
    /\ \A t \in Writers : /\ WF_vars(WriterStep(t))
                          /\ WF_vars(pc[t] = "w_again" /\ WriteAnnounce(t))
    /\ \A t \in Readers : WF_vars(ReaderStep(t))

FairSpec == Spec /\ Fairness

(***************************************************************************)
(* The polls of a spinning reader are not synchronised with the writers:   *)
(* if w_threads is 0 again and again, some poll hits it.                   *)
(***************************************************************************)
PollSpec == FairSpec /\ \A t \in Readers : SF_vars(ReadEnter(t))

-----------------------------------------------------------------------------
(* Properties *)

Labels == {"idle", "w_check", "w_mutex", "w_retreat", "w_again", "writing",
           "w_leave", "r_spin", "reading"}

At(labels) == {t \in Threads : pc[t] \in labels}

AnnouncedReaders == At({"r_spin", "reading"})
AnnouncedWriters == At({"w_check", "w_mutex", "w_retreat", "writing", "w_leave"})

\* The types of the four variables.
TypeOK ==
    /\ r_threads \in Nat
    /\ w_threads \in Nat
    /\ mu \in Threads \cup {NoThread}
    /\ pc \in [Threads -> Labels]

\* read_lock and write_lock never let a writer in together with a reader or
\* with another writer, although each side only looks at the other's counter
\* after raising its own.
MutualExclusion ==
    \A t, u \in Threads : t # u /\ pc[t] = "writing" => pc[u] \notin {"reading", "writing"}

\* The counters count: every path through write_lock, the retreat included,
\* gives back what it took, so a quiet lock is a free lock.
CountsExact ==
    /\ r_threads = Cardinality(AnnouncedReaders)
    /\ w_threads = Cardinality(AnnouncedWriters)

\* A writer that has looked at r_threads and found it 0 keeps every reader
\* out until write_unlock has finished, even between the check and the mutex
\* and between the two halves of write_unlock.
CheckedWriterExcludes ==
    At({"w_mutex", "writing", "w_leave"}) # {} => At({"reading"}) = {}

\* The owner of the mutex is the writer in its critical section.
MutexOwner == \A t \in Threads : mu = t <=> pc[t] = "writing"

\* The inductive invariant behind MutualExclusion.
IInv == TypeOK /\ CountsExact /\ CheckedWriterExcludes /\ MutexOwner

\* jlock_rw implements the read-write lock its callers rely on.
RW == INSTANCE RWLock WITH reading <- At({"reading"}), writing <- At({"writing"})
ImplementsRWLock == RW!Spec

\* When the readers stay away, the writers that wait are served one after the
\* other: none of them blocks the mutex or the loop for the rest.
QuietReadersAdmitWriters ==
    <>[](AnnouncedReaders = {})
        => ((At({"w_again", "w_check", "w_mutex", "w_retreat"}) # {}) ~> (At({"writing"}) # {}))

\* When the writers stay away, every reader that spins gets in: no announcement
\* of a writer is left behind by its retreats.
QuietWritersAdmitReaders ==
    <>[](AnnouncedWriters \cup At({"w_again"}) = {})
        => \A t \in Readers : pc[t] = "r_spin" ~> pc[t] = "reading"

\* Neither side leaves behind an announcement that keeps the other out for ever:
\* the retreats of write_lock give back what they took, in whatever order.
QuietSideLetsOtherIn == QuietReadersAdmitWriters /\ QuietWritersAdmitReaders

\* A reader that waits in read_lock gets in ("read is fast, so spin", "spin and
\* wait for write threads").
ReadersGetIn == \A t \in Readers : pc[t] = "r_spin" ~> pc[t] = "reading"

=============================================================================
