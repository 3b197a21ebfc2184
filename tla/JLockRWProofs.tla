--------------------------- MODULE JLockRWProofs ---------------------------
(***************************************************************************)
(* jlock_rw excludes for any finite set of threads: IInv is inductive, and *)
(* it implies mutual exclusion and the refinement of RWLock.               *)
(***************************************************************************)
EXTENDS JLockRW, FiniteSetTheorems, TLAPS

\* A set of threads singled out by their program counters is finite.
LEMMA AtIsFinite ==
    ASSUME NEW S
    PROVE  /\ IsFiniteSet(At(S))
           /\ Cardinality(At(S)) \in Nat
<1>1. At(S) \subseteq Threads
  BY DEF At
<1>2. IsFiniteSet(At(S))
  BY <1>1, ThreadsAssumption, FS_Subset
<1>. QED
  BY <1>2, FS_CardinalityType

\* A thread that moves into a set of labels adds one to its count.
LEMMA AtEnter ==
    ASSUME NEW S, NEW t \in Threads, NEW lbl, pc \in [Threads -> Labels],
           pc' = [pc EXCEPT ![t] = lbl], pc[t] \notin S, lbl \in S
    PROVE  Cardinality(At(S)') = Cardinality(At(S)) + 1
<1>1. At(S)' = At(S) \cup {t} /\ t \notin At(S)
  BY DEF At
<1>. QED
  BY <1>1, AtIsFinite, FS_AddElement

\* A thread that moves out of a set of labels takes one off its count.
LEMMA AtLeave ==
    ASSUME NEW S, NEW t \in Threads, NEW lbl, pc \in [Threads -> Labels],
           pc' = [pc EXCEPT ![t] = lbl], pc[t] \in S, lbl \notin S
    PROVE  /\ Cardinality(At(S)') = Cardinality(At(S)) - 1
           /\ Cardinality(At(S)) > 0
<1>1. At(S)' = At(S) \ {t} /\ t \in At(S)
  BY DEF At
<1>2. IsFiniteSet(At(S)) /\ Cardinality(At(S)) \in Nat
  BY AtIsFinite
<1>3. Cardinality(At(S) \ {t}) = Cardinality(At(S)) - 1
  BY <1>1, <1>2, FS_RemoveElement
<1>4. Cardinality(At(S)) # 0
  BY <1>1, <1>2, FS_EmptySet
<1>. QED
  BY <1>1, <1>2, <1>3, <1>4

\* A thread that moves within a set of labels, or outside it, leaves it alone.
LEMMA AtStay ==
    ASSUME NEW S, NEW t \in Threads, NEW lbl, pc \in [Threads -> Labels],
           pc' = [pc EXCEPT ![t] = lbl], pc[t] \in S <=> lbl \in S
    PROVE  At(S)' = At(S)
BY DEF At

-----------------------------------------------------------------------------

\* The counters are 0 and nobody is announced at first.
LEMMA InitIInv == Init => IInv
<1> SUFFICES ASSUME Init PROVE IInv
  OBVIOUS
<1>1. TypeOK
  BY DEF Init, TypeOK, Labels
<1>2. CountsExact
  <2>1. AnnouncedReaders = {} /\ AnnouncedWriters = {}
    BY DEF Init, AnnouncedReaders, AnnouncedWriters, At
  <2>. QED
    BY <2>1, FS_EmptySet DEF Init, CountsExact
<1>3. CheckedWriterExcludes /\ MutexOwner
  BY ThreadsAssumption DEF Init, CheckedWriterExcludes, MutexOwner, At
<1>. QED
  BY <1>1, <1>2, <1>3 DEF IInv

\* A counter that reads 0 means that nobody is announced in it.
LEMMA ZeroMeansNobody ==
    ASSUME CountsExact
    PROVE  /\ r_threads = 0 => AnnouncedReaders = {}
           /\ w_threads = 0 => AnnouncedWriters = {}
BY AtIsFinite, FS_EmptySet DEF CountsExact, AnnouncedReaders, AnnouncedWriters

\* Every access to the lock keeps the invariant.
LEMMA StepIInv == IInv /\ [Next]_vars => IInv'
<1> SUFFICES ASSUME IInv, [Next]_vars PROVE IInv'
  OBVIOUS
<1> USE DEF Goto
<1>0. TypeOK /\ CountsExact /\ CheckedWriterExcludes /\ MutexOwner
  BY DEF IInv
<1>t. pc \in [Threads -> Labels] /\ r_threads \in Nat /\ w_threads \in Nat
  BY <1>0 DEF TypeOK
<1>c. /\ r_threads = Cardinality(AnnouncedReaders)
      /\ w_threads = Cardinality(AnnouncedWriters)
  BY <1>0 DEF CountsExact
<1>1. ASSUME NEW t \in Writers, WriteAnnounce(t) PROVE IInv'
  <2>0. t \in Threads BY DEF Threads
  <2>1. PICK from \in {"idle", "w_again"} :
            pc[t] = from /\ pc' = [pc EXCEPT ![t] = "w_check"]
    BY <1>1 DEF WriteAnnounce
  <2>2. AnnouncedReaders' = AnnouncedReaders
    BY <2>0, <2>1, <1>t, AtStay DEF AnnouncedReaders
  <2>3. Cardinality(AnnouncedWriters') = Cardinality(AnnouncedWriters) + 1
    <3> DEFINE S == {"w_check", "w_mutex", "w_retreat", "writing", "w_leave"}
    <3>1. pc[t] \notin S /\ "w_check" \in S
      BY <2>1
    <3>2. Cardinality(At(S)') = Cardinality(At(S)) + 1
      <4> HIDE DEF S
      <4>. QED  BY <3>1, <2>0, <2>1, <1>t, AtEnter
    <3>. QED  BY <3>2 DEF AnnouncedWriters
  <2>4. CountsExact'
    BY <1>1, <1>c, <2>2, <2>3 DEF WriteAnnounce, CountsExact
  <2>5. TypeOK'
    BY <1>0, <1>1, <2>0, <2>1 DEF TypeOK, WriteAnnounce, Labels
  <2>6. CheckedWriterExcludes' /\ MutexOwner'
    BY <1>0, <1>1, <1>t, <2>0, <2>1 DEF WriteAnnounce, CheckedWriterExcludes, MutexOwner, At
  <2>. QED  BY <2>4, <2>5, <2>6 DEF IInv
<1>2. ASSUME NEW t \in Writers, WriteCheck(t) PROVE IInv'
  <2>0. t \in Threads BY DEF Threads
  <2>1. PICK to \in {"w_mutex", "w_retreat"} :
            /\ pc[t] = "w_check" /\ pc' = [pc EXCEPT ![t] = to]
            /\ to = "w_mutex" => r_threads = 0
    BY <1>2 DEF WriteCheck
  <2>2. AnnouncedReaders' = AnnouncedReaders
    BY <2>0, <2>1, <1>t, AtStay DEF AnnouncedReaders
  <2>3. AnnouncedWriters' = AnnouncedWriters
    BY <2>0, <2>1, <1>t, AtStay DEF AnnouncedWriters
  <2>4. CountsExact'
    BY <1>2, <1>c, <2>2, <2>3 DEF WriteCheck, CountsExact
  <2>5. TypeOK'
    BY <1>0, <1>2, <2>0, <2>1 DEF TypeOK, WriteCheck, Labels
  <2>6. CheckedWriterExcludes'
    <3>1. CASE to = "w_mutex"
      \* The check read 0, so there is no reader to exclude.
      <4>1. At({"reading"}) = {}
        BY <3>1, <2>1, <1>0, ZeroMeansNobody DEF AnnouncedReaders, At
      <4>. QED  BY <4>1, <3>1, <2>0, <2>1, <1>t DEF CheckedWriterExcludes, At
    <3>2. CASE to = "w_retreat"
      BY <3>2, <1>0, <1>t, <2>0, <2>1 DEF CheckedWriterExcludes, At
    <3>. QED  BY <3>1, <3>2
  <2>7. MutexOwner'
    BY <1>0, <1>2, <1>t, <2>0, <2>1 DEF WriteCheck, MutexOwner
  <2>. QED  BY <2>4, <2>5, <2>6, <2>7 DEF IInv
<1>3. ASSUME NEW t \in Writers, WriteMutex(t) PROVE IInv'
  <2>0. t \in Threads BY DEF Threads
  <2>1. pc[t] = "w_mutex" /\ pc' = [pc EXCEPT ![t] = "writing"]
    BY <1>3 DEF WriteMutex
  <2>2. AnnouncedReaders' = AnnouncedReaders
    BY <2>0, <2>1, <1>t, AtStay DEF AnnouncedReaders
  <2>3. AnnouncedWriters' = AnnouncedWriters
    BY <2>0, <2>1, <1>t, AtStay DEF AnnouncedWriters
  <2>4. CountsExact'
    BY <1>3, <1>c, <2>2, <2>3 DEF WriteMutex, CountsExact
  <2>5. TypeOK'
    BY <1>0, <1>3, <2>0, <2>1 DEF TypeOK, WriteMutex, Labels
  <2>6. CheckedWriterExcludes'
    BY <1>0, <1>t, <2>0, <2>1 DEF CheckedWriterExcludes, At
  <2>7. MutexOwner'
    BY <1>0, <1>3, <1>t, <2>0, <2>1, ThreadsAssumption DEF WriteMutex, MutexOwner
  <2>. QED  BY <2>4, <2>5, <2>6, <2>7 DEF IInv
<1>4. ASSUME NEW t \in Writers, WriteRetreat(t) \/ WriteLeave(t) PROVE IInv'
  <2>0. t \in Threads BY DEF Threads
  <2>1. PICK from \in {"w_retreat", "w_leave"}, to \in {"w_again", "idle"} :
            pc[t] = from /\ pc' = [pc EXCEPT ![t] = to]
    BY <1>4 DEF WriteRetreat, WriteLeave
  <2>2. AnnouncedReaders' = AnnouncedReaders
    BY <2>0, <2>1, <1>t, AtStay DEF AnnouncedReaders
  <2>3. /\ Cardinality(AnnouncedWriters') = Cardinality(AnnouncedWriters) - 1
        /\ Cardinality(AnnouncedWriters) > 0
    <3> DEFINE S == {"w_check", "w_mutex", "w_retreat", "writing", "w_leave"}
    <3>1. pc[t] \in S /\ to \notin S
      BY <2>1
    <3>2. /\ Cardinality(At(S)') = Cardinality(At(S)) - 1
          /\ Cardinality(At(S)) > 0
      <4> HIDE DEF S
      <4>. QED  BY <3>1, <2>0, <2>1, <1>t, AtLeave
    <3>. QED  BY <3>2 DEF AnnouncedWriters
  <2>4. CountsExact'
    BY <1>4, <1>c, <2>2, <2>3 DEF WriteRetreat, WriteLeave, CountsExact
  <2>5. TypeOK'
    BY <1>0, <1>4, <1>c, <2>0, <2>1, <2>3 DEF TypeOK, WriteRetreat, WriteLeave, Labels
  <2>6. CheckedWriterExcludes'
    BY <1>0, <1>t, <2>0, <2>1 DEF CheckedWriterExcludes, At
  <2>7. MutexOwner'
    BY <1>0, <1>4, <1>t, <2>0, <2>1 DEF WriteRetreat, WriteLeave, MutexOwner
  <2>. QED  BY <2>4, <2>5, <2>6, <2>7 DEF IInv
<1>5. ASSUME NEW t \in Writers, WriteUnlock(t) PROVE IInv'
  <2>0. t \in Threads BY DEF Threads
  <2>1. pc[t] = "writing" /\ pc' = [pc EXCEPT ![t] = "w_leave"]
    BY <1>5 DEF WriteUnlock
  <2>2. AnnouncedReaders' = AnnouncedReaders
    BY <2>0, <2>1, <1>t, AtStay DEF AnnouncedReaders
  <2>3. AnnouncedWriters' = AnnouncedWriters
    BY <2>0, <2>1, <1>t, AtStay DEF AnnouncedWriters
  <2>4. CountsExact'
    BY <1>5, <1>c, <2>2, <2>3 DEF WriteUnlock, CountsExact
  <2>5. TypeOK'
    BY <1>0, <1>5, <2>0, <2>1 DEF TypeOK, WriteUnlock, Labels
  <2>6. CheckedWriterExcludes'
    BY <1>0, <1>t, <2>0, <2>1 DEF CheckedWriterExcludes, At
  <2>7. MutexOwner'
    BY <1>0, <1>5, <1>t, <2>0, <2>1, ThreadsAssumption DEF WriteUnlock, MutexOwner
  <2>. QED  BY <2>4, <2>5, <2>6, <2>7 DEF IInv
<1>6. ASSUME NEW t \in Readers, ReadAnnounce(t) PROVE IInv'
  <2>0. t \in Threads BY DEF Threads
  <2>1. pc[t] = "idle" /\ pc' = [pc EXCEPT ![t] = "r_spin"]
    BY <1>6 DEF ReadAnnounce
  <2>2. Cardinality(AnnouncedReaders') = Cardinality(AnnouncedReaders) + 1
    <3>1. pc[t] \notin {"r_spin", "reading"} /\ "r_spin" \in {"r_spin", "reading"}
      BY <2>1
    <3>. QED  BY <3>1, <2>0, <2>1, <1>t, AtEnter DEF AnnouncedReaders
  <2>3. AnnouncedWriters' = AnnouncedWriters
    BY <2>0, <2>1, <1>t, AtStay DEF AnnouncedWriters
  <2>4. CountsExact'
    BY <1>6, <1>c, <2>2, <2>3 DEF ReadAnnounce, CountsExact
  <2>5. TypeOK'
    BY <1>0, <1>6, <2>0, <2>1 DEF TypeOK, ReadAnnounce, Labels
  <2>6. CheckedWriterExcludes' /\ MutexOwner'
    BY <1>0, <1>6, <1>t, <2>0, <2>1 DEF ReadAnnounce, CheckedWriterExcludes, MutexOwner, At
  <2>. QED  BY <2>4, <2>5, <2>6 DEF IInv
<1>7. ASSUME NEW t \in Readers, ReadEnter(t) PROVE IInv'
  <2>0. t \in Threads BY DEF Threads
  <2>1. /\ pc[t] = "r_spin" /\ pc' = [pc EXCEPT ![t] = "reading"]
        /\ w_threads = 0
    BY <1>7, <1>t DEF ReadEnter
  <2>2. AnnouncedReaders' = AnnouncedReaders
    BY <2>0, <2>1, <1>t, AtStay DEF AnnouncedReaders
  <2>3. AnnouncedWriters' = AnnouncedWriters
    BY <2>0, <2>1, <1>t, AtStay DEF AnnouncedWriters
  <2>4. CountsExact'
    BY <1>7, <1>c, <2>2, <2>3 DEF ReadEnter, CountsExact
  <2>5. TypeOK'
    BY <1>0, <1>7, <2>0, <2>1 DEF TypeOK, ReadEnter, Labels
  <2>6. CheckedWriterExcludes'
    \* The poll read 0, so no writer is past its check.
    <3>1. At({"w_mutex", "writing", "w_leave"}) = {}
      BY <2>1, <1>0, ZeroMeansNobody DEF AnnouncedWriters, At
    <3>. QED  BY <3>1, <2>0, <2>1, <1>t DEF CheckedWriterExcludes, At
  <2>7. MutexOwner'
    BY <1>0, <1>7, <1>t, <2>0, <2>1 DEF ReadEnter, MutexOwner
  <2>. QED  BY <2>4, <2>5, <2>6, <2>7 DEF IInv
<1>8. ASSUME NEW t \in Readers, ReadUnlock(t) PROVE IInv'
  <2>0. t \in Threads BY DEF Threads
  <2>1. pc[t] = "reading" /\ pc' = [pc EXCEPT ![t] = "idle"]
    BY <1>8 DEF ReadUnlock
  <2>2. /\ Cardinality(AnnouncedReaders') = Cardinality(AnnouncedReaders) - 1
        /\ Cardinality(AnnouncedReaders) > 0
    <3>1. pc[t] \in {"r_spin", "reading"} /\ "idle" \notin {"r_spin", "reading"}
      BY <2>1
    <3>. QED  BY <3>1, <2>0, <2>1, <1>t, AtLeave DEF AnnouncedReaders
  <2>3. AnnouncedWriters' = AnnouncedWriters
    BY <2>0, <2>1, <1>t, AtStay DEF AnnouncedWriters
  <2>4. CountsExact'
    BY <1>8, <1>c, <2>2, <2>3 DEF ReadUnlock, CountsExact
  <2>5. TypeOK'
    BY <1>0, <1>8, <1>c, <2>0, <2>1, <2>2 DEF TypeOK, ReadUnlock, Labels
  <2>6. CheckedWriterExcludes' /\ MutexOwner'
    BY <1>0, <1>8, <1>t, <2>0, <2>1 DEF ReadUnlock, CheckedWriterExcludes, MutexOwner, At
  <2>. QED  BY <2>4, <2>5, <2>6 DEF IInv
<1>9. CASE UNCHANGED vars
  BY <1>0, <1>9 DEF IInv, vars, TypeOK, CountsExact, CheckedWriterExcludes, MutexOwner,
                    AnnouncedReaders, AnnouncedWriters, At
<1>. QED
  BY <1>1, <1>2, <1>3, <1>4, <1>5, <1>6, <1>7, <1>8, <1>9 DEF Next, WriterStep, ReaderStep

-----------------------------------------------------------------------------

\* IInv holds in every reachable state, for every finite set of threads.
THEOREM Invariance == Spec => []IInv
<1>1. Init => IInv  BY InitIInv
<1>2. IInv /\ [Next]_vars => IInv'  BY StepIInv
<1>. QED  BY <1>1, <1>2, PTL DEF Spec

\* The counters and the program counters keep their types: r_threads and
\* w_threads of jlock_rw never go below 0.
THEOREM TypeCorrect == Spec => []TypeOK
BY Invariance, PTL DEF IInv

\* A writer in its critical section is alone, whatever the threads do.
THEOREM Exclusion == Spec => []MutualExclusion
<1>1. IInv => MutualExclusion
  <2> SUFFICES ASSUME IInv, NEW t \in Threads, NEW u \in Threads,
                      t # u, pc[t] = "writing"
               PROVE  pc[u] # "reading" /\ pc[u] # "writing"
    BY DEF MutualExclusion
  <2>1. pc[u] # "writing"
    BY DEF IInv, MutexOwner
  <2>2. pc[u] # "reading"
    BY DEF IInv, CheckedWriterExcludes, At
  <2>. QED  BY <2>1, <2>2
<1>. QED  BY <1>1, Invariance, PTL

\* The counters are exact: no path through the lock loses or leaks a count.
THEOREM Counting == Spec => []CountsExact
BY Invariance, PTL DEF IInv

-----------------------------------------------------------------------------

\* Every step of jlock_rw is a step of RWLock or leaves its two sets alone.
LEMMA StepRefines == IInv /\ [Next]_vars => [RW!Next]_(RW!vars)
<1> DEFINE reading == At({"reading"})
           writing == At({"writing"})
<1> SUFFICES ASSUME IInv, [Next]_vars PROVE RW!Next \/ UNCHANGED <<reading, writing>>
  BY DEF RW!vars
<1> USE DEF Goto
<1>t. pc \in [Threads -> Labels]
  BY DEF IInv, TypeOK
<1>0. CountsExact /\ CheckedWriterExcludes /\ MutexOwner
  BY DEF IInv
<1>1. ASSUME NEW t \in Threads,
             NEW to \in Labels \ {"reading", "writing"},
             pc[t] \notin {"reading", "writing"},
             pc' = [pc EXCEPT ![t] = to]
      PROVE  UNCHANGED <<reading, writing>>
  BY <1>1, <1>t, AtStay
<1>2. ASSUME NEW t \in Readers, ReadEnter(t) PROVE RW!BeginRead(t)
  <2>0. t \in Threads BY DEF Threads
  <2>1. pc[t] = "r_spin" /\ pc' = [pc EXCEPT ![t] = "reading"] /\ w_threads = 0
    BY <1>2 DEF ReadEnter, IInv, TypeOK
  <2>2. writing = {}
    BY <2>1, <1>0, ZeroMeansNobody DEF AnnouncedWriters, At
  <2>3. t \notin reading /\ reading' = reading \cup {t} /\ writing' = writing
    BY <2>0, <2>1, <1>t DEF At
  <2>. QED  BY <2>2, <2>3 DEF RW!BeginRead
<1>3. ASSUME NEW t \in Readers, ReadUnlock(t) PROVE RW!EndRead(t)
  <2>0. t \in Threads BY DEF Threads
  <2>1. pc[t] = "reading" /\ pc' = [pc EXCEPT ![t] = "idle"]
    BY <1>3 DEF ReadUnlock
  <2>2. t \in reading /\ reading' = reading \ {t} /\ writing' = writing
    BY <2>0, <2>1, <1>t DEF At
  <2>. QED  BY <2>2 DEF RW!EndRead
<1>4. ASSUME NEW t \in Writers, WriteMutex(t) PROVE RW!BeginWrite(t)
  <2>0. t \in Threads BY DEF Threads
  <2>1. /\ pc[t] = "w_mutex" /\ pc' = [pc EXCEPT ![t] = "writing"]
        /\ mu = NoThread
    BY <1>4 DEF WriteMutex
  <2>2. reading = {}
    BY <2>0, <2>1, <1>0 DEF CheckedWriterExcludes, At
  <2>3. writing = {}
    BY <2>1, <1>0, ThreadsAssumption DEF MutexOwner, At
  <2>4. writing' = {t} /\ reading' = reading
    BY <2>0, <2>1, <2>3, <1>t DEF At
  <2>. QED  BY <2>2, <2>3, <2>4 DEF RW!BeginWrite
<1>5. ASSUME NEW t \in Writers, WriteUnlock(t) PROVE RW!EndWrite(t)
  <2>0. t \in Threads BY DEF Threads
  <2>1. pc[t] = "writing" /\ pc' = [pc EXCEPT ![t] = "w_leave"]
    BY <1>5 DEF WriteUnlock
  <2>2. t \in writing /\ writing' = writing \ {t} /\ reading' = reading
    BY <2>0, <2>1, <1>t DEF At
  <2>. QED  BY <2>2 DEF RW!EndWrite
<1>6. ASSUME NEW t \in Writers, WriteAnnounce(t) \/ WriteCheck(t)
                                \/ WriteRetreat(t) \/ WriteLeave(t)
      PROVE  UNCHANGED <<reading, writing>>
  <2>0. t \in Threads BY DEF Threads
  <2>1. PICK to \in Labels \ {"reading", "writing"} :
            pc[t] \notin {"reading", "writing"} /\ pc' = [pc EXCEPT ![t] = to]
    BY <1>6 DEF WriteAnnounce, WriteCheck, WriteRetreat, WriteLeave, Labels
  <2>. QED  BY <2>0, <2>1, <1>1
<1>7. ASSUME NEW t \in Readers, ReadAnnounce(t) PROVE UNCHANGED <<reading, writing>>
  <2>0. t \in Threads BY DEF Threads
  <2>. QED  BY <1>7, <1>1, <2>0 DEF ReadAnnounce, Labels
<1>8. CASE UNCHANGED vars
  BY <1>8 DEF vars, At
<1>. QED
  BY <1>2, <1>3, <1>4, <1>5, <1>6, <1>7, <1>8 DEF Next, WriterStep, ReaderStep, RW!Next

\* jlock_rw implements the read-write lock for every finite set of threads.
THEOREM Refinement == Spec => ImplementsRWLock
<1>1. Init => RW!Init
  BY DEF Init, RW!Init, At
<1>2. IInv /\ [Next]_vars => [RW!Next]_(RW!vars)
  BY StepRefines
<1>. QED
  BY <1>1, <1>2, Invariance, PTL DEF Spec, RW!Spec, ImplementsRWLock

=============================================================================
