----------------------------- MODULE CnctManager -----------------------------
(***************************************************************************)
(* cnct_manager of jsock.cpp: connections that are called back when they   *)
(* have been quiet for 2 * secs.  Users push a connection, adjust it when  *)
(* it speaks and invalidate it; a thread of its own calls tick() whenever  *)
(* the alarm goes off.  jq is a jque (module PermitDeque) and reg a        *)
(* jtree_avl, whose every call is atomic (module Dict).                    *)
(*                                                                         *)
(* A connection has one user at a time, and its number is not used again.  *)
(***************************************************************************)
EXTENDS Integers, Sequences, FiniteSets

CONSTANTS Users, Ticker, Conns, Nothing,
          Secs,
          LastCall,     \* bound: the moment after which no call is made
          Patience      \* the ticks a connection waits at most when it is out of date

ASSUME SecsAssumption == Secs \in Nat \ {0} /\ LastCall \in Nat /\ Ticker \notin Users

VARIABLES content, size, call,  \* jq
          reg,
          now,          \* time(0)
          alarm,        \* when it goes off, or Off
          pc,           \* where each thread is, besides its call of jq
          conn,         \* the connection a user's call is about
          expire,       \* the deadline that an adjust() has computed
          lp,           \* the entry in the hands of tick()
          cur,          \* its idea of the time
          due,          \* the last deadline that a push() or adjust() promised
          invalids,     \* the connections with an invalid() that returned
          fate,         \* what became of each connection
          waits,        \* the ticks that ended while it was out of date
          known         \* due of the connection in lp, and whether it was invalid,
                        \* when tick() had popped it

jq == <<content, size, call>>
ghosts == <<due, invalids, waits, known>>
vars == <<jq, reg, now, alarm, pc, conn, expire, lp, cur, fate, ghosts>>

Threads == Users \cup {Ticker}
Invalid == -1
Unknown == [due |-> 0, invalid |-> FALSE]
Off == -1
LastMoment == LastCall + 2 * Secs + 1
Times == 0 .. LastMoment
Entries == [cnct : Conns, expire : Times]

ASSUME NothingAssumption == Nothing \notin Conns /\ Nothing \notin Entries

Q == INSTANCE PermitDeque WITH Items <- Entries, NoItem <- Nothing

Init ==
    /\ Q!Init
    /\ reg = [c \in {} |-> 0]
    /\ now = 0 /\ alarm = 2 * Secs
    /\ pc = [t \in Threads |-> "idle"]
    /\ conn = [u \in Users |-> Nothing] /\ expire = [u \in Users |-> 0]
    /\ lp = Nothing /\ cur = 0
    /\ due = [c \in Conns |-> 0] /\ invalids = {}
    /\ fate = [c \in Conns |-> "new"] /\ waits = [c \in Conns |-> 0]
    /\ known = Unknown

Present(c) == c \in DOMAIN reg
Insert(c, e) == reg' = [k \in DOMAIN reg \cup {c} |-> IF Present(k) THEN reg[k] ELSE e]
Update(c, e) == reg' = IF Present(c) THEN [reg EXCEPT ![c] = e] ELSE reg
Del(c) == reg' = [k \in DOMAIN reg \ {c} |-> reg[k]]

Goto(t, from, to) == pc[t] = from /\ pc' = [pc EXCEPT ![t] = to]
Deadline == now + 2 * Secs

-----------------------------------------------------------------------------
(* The users *)

Begin(u, c, to) ==
    /\ now <= LastCall
    /\ \A v \in Users : conn[v] # c
    /\ conn' = [conn EXCEPT ![u] = c]
    /\ Goto(u, "idle", to)

End(u, from) ==
    /\ Goto(u, from, "idle")
    /\ conn' = [conn EXCEPT ![u] = Nothing] /\ expire' = [expire EXCEPT ![u] = 0]

\* push(): jq gets the entry, then counts it
PushStart(u, c) ==
    /\ Begin(u, c, "push")
    /\ fate[c] = "new"
    /\ fate' = [fate EXCEPT ![c] = "managed"]
    /\ due' = [due EXCEPT ![c] = Deadline]
    /\ Q!Push(u, "push_back", [cnct |-> c, expire |-> Deadline])
    /\ UNCHANGED <<reg, now, alarm, expire, lp, cur, invalids, waits, known>>

PushLink(u) ==
    /\ pc[u] = "push"
    /\ Q!LinkBack(u)
    /\ UNCHANGED <<reg, now, alarm, pc, conn, expire, lp, cur, fate, ghosts>>

PushEnd(u) ==
    /\ End(u, "push")
    /\ Q!Count(u)
    /\ UNCHANGED <<reg, now, alarm, lp, cur, fate, ghosts>>

\* invalid(): an entry that is there stays as it is
InvalidCall(u, c) ==
    /\ now <= LastCall
    /\ \A v \in Users : conn[v] # c
    /\ pc[u] = "idle" /\ fate[c] = "managed"
    /\ Insert(c, Invalid)
    /\ invalids' = invalids \cup {c}
    /\ UNCHANGED <<jq, now, alarm, pc, conn, expire, lp, cur, due, fate, waits, known>>

\* adjust(): tt = reg.find().  What it points to stays -1 or stays a time, and
\* stays readable when the entry goes.
AdjustFind(u, c) ==
    /\ fate[c] = "managed"
    /\ \/ ~Present(c) /\ Begin(u, c, "insert")
       \/ Present(c) /\ reg[c] = Invalid /\ Begin(u, c, "return")
       \/ Present(c) /\ reg[c] # Invalid /\ Begin(u, c, "update")
    /\ expire' = [expire EXCEPT ![u] = Deadline]
    /\ UNCHANGED <<jq, reg, now, alarm, lp, cur, fate, ghosts>>

AdjustEnd(u) ==
    /\ \/ End(u, "return") /\ UNCHANGED reg
       \/ End(u, "update") /\ Update(conn[u], expire[u])
       \/ End(u, "insert") /\ Insert(conn[u], expire[u])
    /\ due' = [due EXCEPT ![conn[u]] = expire[u]]
    /\ UNCHANGED <<jq, now, alarm, lp, cur, fate, invalids, waits, known>>

-----------------------------------------------------------------------------
(* tick() *)

\* the alarm goes off; the clock of the model stops at LastMoment, the ticks do not
Fire ==
    /\ alarm # Off /\ (now >= alarm \/ now = LastMoment)
    /\ alarm' = Off
    /\ Goto(Ticker, "idle", "pop")
    /\ Q!Pop(Ticker)
    /\ UNCHANGED <<reg, now, conn, expire, lp, cur, fate, ghosts>>

PopGoesOn ==
    /\ pc[Ticker] = "pop"
    /\ Q!Take(Ticker) \/ Q!Remove(Ticker)
    /\ UNCHANGED <<reg, now, alarm, pc, conn, expire, lp, cur, fate, ghosts>>

\* Mutant: the loop ends when there is an entry.
PoppedBreaks ==
    /\ Goto(Ticker, "pop", "alarm")
    /\ Q!Return(Ticker)
    /\ UNCHANGED <<reg, now, alarm, conn, expire, lp, cur, fate, ghosts>>

Popped ==
    /\ Goto(Ticker, "pop", "find")
    /\ Q!Return(Ticker)
    /\ lp' = call[Ticker].item
    /\ cur' = now
    /\ known' = [due |-> due[lp'.cnct], invalid |-> lp'.cnct \in invalids]
    /\ UNCHANGED <<reg, now, alarm, conn, expire, fate, due, invalids, waits>>

NothingLeft ==
    /\ Goto(Ticker, "pop", "alarm")
    /\ Q!Undo(Ticker)
    /\ UNCHANGED <<reg, now, alarm, conn, expire, lp, cur, fate, ghosts>>

Late == lp.expire < cur
Release == lp' = Nothing /\ cur' = 0 /\ known' = Unknown

\* if (!e): out of date, or not out of date
FindNone ==
    /\ pc[Ticker] = "find" /\ ~Present(lp.cnct)
    /\ Goto(Ticker, "find", IF Late THEN "call" ELSE "keep")
    /\ IF Late THEN UNCHANGED jq ELSE Q!Push(Ticker, "push_front", lp)
    /\ UNCHANGED <<reg, now, alarm, conn, expire, lp, cur, fate, ghosts>>

\* Mutant: the deadline in reg is not looked at.
FindsNoTime ==
    /\ pc[Ticker] = "find" /\ Present(lp.cnct)
    /\ Goto(Ticker, "find", IF reg[lp.cnct] = Invalid THEN "drop"
                            ELSE IF Late THEN "callDel" ELSE "read")
    /\ UNCHANGED <<jq, reg, now, alarm, conn, expire, lp, cur, fate, ghosts>>

\* if (*e == -1)
FindSome ==
    /\ pc[Ticker] = "find" /\ Present(lp.cnct)
    /\ Goto(Ticker, "find", IF reg[lp.cnct] = Invalid THEN "drop" ELSE "read")
    /\ UNCHANGED <<jq, reg, now, alarm, conn, expire, lp, cur, fate, ghosts>>

\* lp->expire = *e, read a second time
Read ==
    LET e == [lp EXCEPT !.expire = reg[lp.cnct]] IN
    /\ pc[Ticker] = "read"
    /\ Goto(Ticker, "read", IF e.expire < cur THEN "callDel" ELSE "keep")
    /\ lp' = e
    /\ IF e.expire < cur THEN UNCHANGED jq ELSE Q!Push(Ticker, "push_back", e)
    /\ UNCHANGED <<reg, now, alarm, conn, expire, cur, fate, ghosts>>

\* Mutant: there is no else before the entry is put back.
CallsAndKeeps ==
    /\ Goto(Ticker, "call", "keep")
    /\ fate' = [fate EXCEPT ![lp.cnct] = "called"]
    /\ Q!Push(Ticker, "push_front", lp)
    /\ UNCHANGED <<reg, now, alarm, conn, expire, lp, cur, ghosts>>

\* Mutant: a tick calls back one connection only.
CallsOne ==
    /\ Goto(Ticker, "call", "alarm")
    /\ fate' = [fate EXCEPT ![lp.cnct] = "called"]
    /\ Release
    /\ UNCHANGED <<jq, reg, now, alarm, conn, expire, due, invalids, waits>>

\* call_back(), and return_data(): the loop goes on
CallBack ==
    /\ Goto(Ticker, "call", "pop")
    /\ fate' = [fate EXCEPT ![lp.cnct] = "called"]
    /\ Release
    /\ Q!Pop(Ticker)
    /\ UNCHANGED <<reg, now, alarm, conn, expire, due, invalids, waits>>

CallBackReg ==
    /\ Goto(Ticker, "callDel", "drop")
    /\ fate' = [fate EXCEPT ![lp.cnct] = "called"]
    /\ UNCHANGED <<jq, reg, now, alarm, conn, expire, lp, cur, ghosts>>

\* reg.del(), and return_data(): the loop goes on
Drop ==
    /\ Goto(Ticker, "drop", "pop")
    /\ Del(lp.cnct)
    /\ fate' = [fate EXCEPT ![lp.cnct] = IF @ = "called" THEN @ ELSE "dropped"]
    /\ Release
    /\ Q!Pop(Ticker)
    /\ UNCHANGED <<now, alarm, conn, expire, due, invalids, waits>>

\* The push of an entry that is still live: jq gets it, then counts it
KeepLink ==
    /\ pc[Ticker] = "keep"
    /\ Q!LinkFront(Ticker) \/ Q!LinkBack(Ticker)
    /\ Release
    /\ UNCHANGED <<reg, now, alarm, pc, conn, expire, fate, due, invalids, waits>>

Keep ==
    /\ Goto(Ticker, "keep", "alarm")
    /\ Q!Count(Ticker)
    /\ UNCHANGED <<reg, now, alarm, conn, expire, lp, cur, fate, ghosts>>

Overdue(c) == fate[c] = "managed" /\ due[c] < now
Pushing == \E u \in Users : pc[u] = "push"

\* One tick more for a connection that is out of date; not while a push() of a user
\* is under way, and no further than Patience + 1.
Waited(c) ==
    CASE ~Overdue(c) -> 0
      [] Overdue(c) /\ (Pushing \/ waits[c] > Patience) -> waits[c]
      [] OTHER -> waits[c] + 1

\* alarm(secs)
Alarm ==
    /\ Goto(Ticker, "alarm", "idle")
    /\ alarm' = now + Secs
    /\ waits' = [c \in Conns |-> Waited(c)]
    /\ UNCHANGED <<jq, reg, now, conn, expire, lp, cur, fate, due, invalids, known>>

Clock ==
    /\ now < LastMoment
    /\ now' = now + 1
    /\ UNCHANGED <<jq, reg, alarm, pc, conn, expire, lp, cur, fate, ghosts>>

-----------------------------------------------------------------------------

UserGoesOn(u) == PushLink(u) \/ PushEnd(u) \/ AdjustEnd(u)

Tick == \/ Fire \/ PopGoesOn \/ Popped \/ NothingLeft \/ FindNone \/ FindSome \/ Read
        \/ CallBack \/ CallBackReg \/ Drop \/ KeepLink \/ Keep \/ Alarm

Next ==
    \/ Clock \/ Tick
    \/ \E u \in Users : \/ UserGoesOn(u)
                        \/ \E c \in Conns : \/ PushStart(u, c) \/ InvalidCall(u, c)
                                            \/ AdjustFind(u, c)

\* Time passes, an alarm leads to a tick(), and a call that has begun goes on.
Fairness == WF_vars(Clock) /\ WF_vars(Tick) /\ \A u \in Users : WF_vars(UserGoesOn(u))

Spec == Init /\ [][Next]_vars /\ Fairness

-----------------------------------------------------------------------------
(* Properties *)

\* A managed connection has one entry: in the queue, on its way in or out, or in
\* the hands of tick(); a connection that was called back or dropped has none.
Places(c) ==
      {<<"queue", i>> : i \in {j \in DOMAIN content : content[j].cnct = c}}
 \cup {<<"call", t>> : t \in {u \in Threads : call[u].item # Nothing /\ call[u].item.cnct = c}}
 \cup IF pc[Ticker] # "keep" /\ lp # Nothing /\ lp.cnct = c /\ fate[c] = "managed"
       THEN {<<"tick">>} ELSE {}

OneEntry == \A c \in Conns :
    Cardinality(Places(c)) = IF fate[c] = "managed" THEN 1 ELSE 0

CalledBack(c) == fate[c] # "called" /\ fate'[c] = "called"

\* No connection is called back before the deadline that its pushes and adjusts
\* had promised when tick() had popped it; an adjust() after that may be too late.
NeverEarly == [][\A c \in Conns : CalledBack(c) => known.due < cur]_vars

\* A connection that is out of date is called back within a few ticks, although
\* a tick() stops at the first one that is not.
NotLate == \A c \in Conns : waits[c] <= Patience

\* Every connection that is pushed is called back or dropped in the end.
ManagedEnds == \A c \in Conns : fate[c] = "managed" ~> fate[c] # "managed"

\* What the comments say of an invalid connection: once invalid() has returned it
\* is dropped, not called back.  It does not hold after an adjust().
InvalidIsDropped == [][\A c \in Conns : CalledBack(c) => ~known.invalid]_vars

=============================================================================
