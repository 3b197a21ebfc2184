------------------------------- MODULE JEpoll -------------------------------
(***************************************************************************)
(* jepoll of jsock.cpp: a listening descriptor and the connections that    *)
(* come from it, in one epoll set.  The thread that calls ep_wait() gets   *)
(* the events of all ready descriptors in one batch and works through      *)
(* them: it accepts, receives, tells the users by a message, and closes    *)
(* what the other end has closed.  The main thread adds the listener,      *)
(* while ep_wait() may be running already, and destroys the object when no *)
(* ep_wait() runs any more.  It also deletes connections, for their users: *)
(* between two calls of ep_wait(), or with DeletesAnyTime at any time.     *)
(*                                                                         *)
(* jtree_avl's and jque's calls are atomic here (modules Dict and          *)
(* PermitDeque); users get the messages in the order of log.  The kernel's *)
(* part is external: level triggered, and a new socket takes the lowest    *)
(* free number.  mdfg is LT always.                                        *)
(***************************************************************************)
EXTENDS Integers, FiniteSets, SequencesExt

CONSTANTS Peers,        \* bound: the connections
          MaxData,      \* bound: the chunks each of them sends
          Collector, Main, None,
          DeletesAnyTime

ASSUME FiniteAssumption == IsFiniteSet(Peers) /\ DeletesAnyTime \in BOOLEAN

VARIABLES socket,       \* kernel: what each descriptor is
          backlog,      \* kernel: the connections not accepted yet
          peer,         \* kernel: what each connection has to be received
          epset,        \* kernel: the descriptors in epfd
          sockfd_collector, clients,
          log,          \* msg_que: all messages pushed, and what the users delete
          place, arg,   \* where each thread is, and the descriptor it works on
          events,       \* the batch, from the event in hand
          ending        \* whether the destructor has begun

kernel == <<socket, backlog, peer>>
tables == <<epset, sockfd_collector, clients>>
epVars == <<kernel, tables, log, place, arg, events, ending>>

EpThreads == {Collector, Main}
Fds == 1 .. Cardinality(Peers) + 1
Listener == 1
SFD == "SFD"
LFD == "LFD"

ASSUME NamesAssumption ==
    /\ {None, SFD, LFD} \cap Peers = {}
    /\ None \notin {SFD, LFD} /\ Collector # Main

EpInit ==
    /\ socket = [f \in Fds |-> IF f = Listener THEN LFD ELSE None]
    /\ backlog = <<>>
    /\ peer = [p \in Peers |-> [phase |-> "out", inbox |-> 0, closed |-> FALSE]]
    /\ epset = {}
    /\ sockfd_collector = [f \in Fds |-> None] /\ clients = <<>>
    /\ log = <<>>
    /\ place = [t \in EpThreads |-> IF t = Collector THEN "wait" ELSE "insert"]
    /\ arg = [t \in EpThreads |-> IF t = Main THEN Listener ELSE 0]
    /\ events = <<>> /\ ending = FALSE

EpGoto(t, from, to) == place[t] = from /\ place' = [place EXCEPT ![t] = to]

-----------------------------------------------------------------------------
(* External: the connections *)

Connect(p) ==
    /\ peer[p].phase = "out" /\ socket[Listener] = LFD
    /\ peer' = [peer EXCEPT ![p].phase = "here"]
    /\ backlog' = Append(backlog, p)
    /\ UNCHANGED <<socket, tables, log, place, arg, events, ending>>

\* sent so far: what is in the inbox and what the log has
Sent(p) == peer[p].inbox + Len(SelectSeq(log, LAMBDA m : m.kind = "data" /\ m.who = p))

SendOrClose(p) ==
    /\ peer[p].phase = "here" /\ ~peer[p].closed
    /\ \/ Sent(p) < MaxData /\ peer' = [peer EXCEPT ![p].inbox = @ + 1]
       \/ peer' = [peer EXCEPT ![p].closed = TRUE]
    /\ UNCHANGED <<socket, backlog, tables, log, place, arg, events, ending>>

Readable(f) == CASE socket[f] = LFD -> backlog # <<>>
                 [] socket[f] = None -> FALSE
                 [] OTHER -> peer[socket[f]].inbox > 0 \/ peer[socket[f]].closed

-----------------------------------------------------------------------------
(* ep_wait() and collect() *)

Deleting == place[Main] \in {"delFind", "delCtl", "delClient", "delReg", "delClose"}

Wait ==
    LET ready == {f \in epset : Readable(f)} IN
    /\ DeletesAnyTime \/ ~Deleting
    /\ ready # {} /\ ~ending
    /\ EpGoto(Collector, "wait", "find")
    /\ events' \in SetToSeqs(ready)
    /\ UNCHANGED <<kernel, tables, log, arg, ending>>

\* What follows an event: the next one, or the return of ep_wait().
NextEvent ==
    /\ events' = Tail(events)
    /\ place' = [place EXCEPT ![Collector] = IF Len(events) = 1 THEN "wait" ELSE "find"]
    /\ arg' = [arg EXCEPT ![Collector] = 0]

\* p = find(sockfd); *p == LFD
Find ==
    /\ place[Collector] = "find"
    /\ arg' = [arg EXCEPT ![Collector] = Head(events)]
    /\ EpGoto(Collector, "find", CASE sockfd_collector[Head(events)] = None -> "crashed"
                                 [] sockfd_collector[Head(events)] = LFD -> "accept"
                                 [] OTHER -> "recv")
    /\ UNCHANGED <<kernel, tables, log, events, ending>>

LowestFree(f) == socket[f] = None /\ \A g \in Fds : g < f => socket[g] # None

\* Nothing to accept: the assertion fails.
Accept ==
    LET some == backlog # <<>> IN
    \E f \in Fds :
        /\ LowestFree(f)
        /\ EpGoto(Collector, "accept", IF some THEN "insert" ELSE "aborted")
        /\ socket' = [socket EXCEPT ![f] = IF some THEN Head(backlog) ELSE None]
        /\ backlog' = IF some THEN Tail(backlog) ELSE backlog
        /\ arg' = [arg EXCEPT ![Collector] = f]
        /\ UNCHANGED <<peer, tables, log, events, ending>>

Tell(kind, f) == log' = Append(log, [kind |-> kind, fd |-> f, who |-> socket[f]])

TellAccept ==
    /\ place[Collector] = "tell"
    /\ Tell("accept", arg[Collector])
    /\ NextEvent
    /\ UNCHANGED <<kernel, tables, ending>>

\* Mutant: the empty message is not pushed.
RecvSilently ==
    LET f == arg[Collector]  p == socket[f] IN
    place[Collector] = "recv" /\
    IF p \in Peers /\ peer[p].inbox > 0
    THEN /\ peer' = [peer EXCEPT ![p].inbox = @ - 1]
         /\ Tell("data", f)
         /\ NextEvent
         /\ UNCHANGED <<socket, backlog, tables, ending>>
    ELSE /\ EpGoto(Collector, "recv", "delFind")
         /\ UNCHANGED <<kernel, tables, log, arg, events, ending>>

\* Mutant: if (ret < 0).
RecvIgnoresEnd ==
    LET f == arg[Collector]  p == socket[f] IN
    place[Collector] = "recv" /\
    IF p \in Peers
    THEN /\ peer' = [peer EXCEPT ![p].inbox = IF @ > 0 THEN @ - 1 ELSE @]
         /\ IF peer[p].inbox > 0 THEN Tell("data", f) ELSE UNCHANGED log
         /\ NextEvent
         /\ UNCHANGED <<socket, backlog, tables, ending>>
    ELSE /\ EpGoto(Collector, "recv", "delFind")
         /\ UNCHANGED <<kernel, tables, log, arg, events, ending>>

\* Mutant: a message that leaves nothing behind is taken for the last.
RecvTakesLast ==
    LET f == arg[Collector]  p == socket[f]  some == p \in Peers /\ peer[p].inbox > 0 IN
    /\ place[Collector] = "recv"
    /\ peer' = IF some THEN [peer EXCEPT ![p].inbox = @ - 1] ELSE peer
    /\ Tell(IF some THEN "data" ELSE "end", f)
    /\ IF some /\ peer'[p].inbox > 0 THEN NextEvent
       ELSE EpGoto(Collector, "recv", "delFind") /\ UNCHANGED <<arg, events>>
    /\ UNCHANGED <<socket, backlog, tables, ending>>

\* recv(): what came, or the end, or nothing (-1); an end and nothing are both an
\* empty message, and the descriptor is deleted
Recv ==
    LET f == arg[Collector]  p == socket[f] IN
    place[Collector] = "recv" /\
    IF p \in Peers /\ peer[p].inbox > 0
    THEN /\ peer' = [peer EXCEPT ![p].inbox = @ - 1]
         /\ Tell("data", f)
         /\ NextEvent
         /\ UNCHANGED <<socket, backlog, tables, ending>>
    ELSE /\ EpGoto(Collector, "recv", "delFind")
         /\ Tell("end", f)
         /\ UNCHANGED <<kernel, tables, arg, events, ending>>

-----------------------------------------------------------------------------
(* ep_add(arg[t]), the listener from main and a connection from collect() *)

Kind(t) == IF t = Main THEN LFD ELSE SFD

\* Mutant: the descriptor is in the epoll set before it is in sockfd_collector.
AddToSetFirst(t) ==
    /\ EpGoto(t, "insert", IF t = Main THEN "add" ELSE "client")
    /\ epset' = epset \cup {arg[t]}
    /\ UNCHANGED <<kernel, sockfd_collector, clients, log, arg, events, ending>>

AddInsert(t) ==
    /\ EpGoto(t, "insert", IF Kind(t) = SFD THEN "client" ELSE "add")
    /\ sockfd_collector' = [sockfd_collector EXCEPT ![arg[t]] = IF @ = None THEN Kind(t) ELSE @]
    /\ UNCHANGED <<kernel, epset, clients, log, arg, events, ending>>

AddClient(t) ==
    /\ EpGoto(t, "client", "add")
    /\ clients' = Append(clients, arg[t])
    /\ UNCHANGED <<kernel, epset, sockfd_collector, log, arg, events, ending>>

\* EPOLL_CTL_ADD
AddToSet(t) ==
    /\ EpGoto(t, "add", IF t = Main THEN "idle" ELSE "tell")
    /\ epset' = IF socket[arg[t]] = None THEN epset ELSE epset \cup {arg[t]}
    /\ UNCHANGED <<kernel, sockfd_collector, clients, log, arg, events, ending>>

-----------------------------------------------------------------------------
(* ep_del(arg[t]), from collect(), from main, and from the destructor *)

\* What a number means to a reader of the first n messages: the connection of its
\* last accept, unless an end followed or a user deleted it.
Means(f, n) ==
    LET last == SelectLastInSubSeq(log, 1, n, LAMBDA m : m.fd = f) IN
    IF last = 0 \/ log[last].kind \in {"end", "del"} THEN None ELSE log[last].who

\* a user's call for a connection that has not ended, as far as the messages go
MainCallsDel(f) ==
    /\ DeletesAnyTime \/ place[Collector] = "wait"
    /\ Means(f, Len(log)) # None
    /\ EpGoto(Main, "idle", "delFind")
    /\ arg' = [arg EXCEPT ![Main] = f]
    /\ UNCHANGED <<kernel, tables, log, events, ending>>

\* The object's life ends when the other thread is not in ep_wait().  In the
\* destructor, while there is a top, it is deleted.
Destroy ==
    /\ ~ending /\ place[Collector] = "wait"
    /\ EpGoto(Main, "idle", "destroy")
    /\ ending' = TRUE
    /\ UNCHANGED <<kernel, tables, log, arg, events>>

DelTop(f) ==
    /\ sockfd_collector[f] # None
    /\ EpGoto(Main, "destroy", "delFind")
    /\ arg' = [arg EXCEPT ![Main] = f]
    /\ UNCHANGED <<kernel, tables, log, events, ending>>

Destroyed ==
    /\ \A f \in Fds : sockfd_collector[f] = None
    /\ EpGoto(Main, "destroy", "gone")
    /\ UNCHANGED <<kernel, tables, log, arg, events, ending>>

DelReturns(t) ==
    IF t = Collector THEN NextEvent
    ELSE /\ place' = [place EXCEPT ![t] = IF ending THEN "destroy" ELSE "idle"]
         /\ arg' = [arg EXCEPT ![t] = 0]
         /\ UNCHANGED events

DelFind(t) ==
    /\ place[t] = "delFind"
    /\ IF sockfd_collector[arg[t]] = None THEN DelReturns(t)
       ELSE EpGoto(t, "delFind", "delCtl") /\ UNCHANGED <<arg, events>>
    /\ UNCHANGED <<kernel, tables, log, ending>>

\* EPOLL_CTL_DEL
DelCtl(t) ==
    /\ EpGoto(t, "delCtl", "delClient")
    /\ epset' = epset \ {arg[t]}
    /\ UNCHANGED <<kernel, sockfd_collector, clients, log, arg, events, ending>>

DelClient(t) ==
    LET at == SelectInSeq(clients, LAMBDA f : f = arg[t]) IN
    /\ EpGoto(t, "delClient", "delReg")
    /\ clients' = IF at = 0 THEN clients ELSE RemoveAt(clients, at)
    /\ UNCHANGED <<kernel, epset, sockfd_collector, log, arg, events, ending>>

DelReg(t) ==
    /\ EpGoto(t, "delReg", "delClose")
    /\ sockfd_collector' = [sockfd_collector EXCEPT ![arg[t]] = None]
    /\ UNCHANGED <<kernel, epset, clients, log, arg, events, ending>>

\* shutdown() and close(), which also takes it out of the epoll set
DelClose(t) ==
    LET f == arg[t]  p == socket[f] IN
    /\ place[t] = "delClose"
    /\ DelReturns(t)
    /\ socket' = [socket EXCEPT ![f] = None]
    /\ peer' = IF p \in Peers THEN [peer EXCEPT ![p].phase = "gone"] ELSE peer
    /\ epset' = epset \ {f}
    /\ IF t = Main /\ ~ending THEN Tell("del", f) ELSE UNCHANGED log
    /\ UNCHANGED <<backlog, sockfd_collector, clients, ending>>

-----------------------------------------------------------------------------

EpAdd(t) == AddInsert(t) \/ AddClient(t) \/ AddToSet(t)
EpDel(t) == DelFind(t) \/ DelCtl(t) \/ DelClient(t) \/ DelReg(t) \/ DelClose(t)

Collect == Find \/ Accept \/ TellAccept \/ Recv \/ EpAdd(Collector) \/ EpDel(Collector)
MainGoesOn == EpAdd(Main) \/ EpDel(Main) \/ Destroyed \/ \E f \in Fds : DelTop(f)

EpNext ==
    \/ Wait \/ Collect \/ MainGoesOn \/ Destroy
    \/ \E f \in Fds : MainCallsDel(f)
    \/ \E p \in Peers : Connect(p) \/ SendOrClose(p)

\* Both threads go on, and ep_wait() is called again and again.
EpFairness == WF_epVars(Wait \/ Collect) /\ WF_epVars(MainGoesOn)

EpSpec == EpInit /\ [][EpNext]_epVars /\ EpFairness

-----------------------------------------------------------------------------
(* Properties *)

\* The messages with one number tell one connection after the other, each from its
\* accept to its end or its deletion: although numbers are used again, a reader who
\* sees only the number knows which connection a message comes from.
EachStoryWhole == \A i \in DOMAIN log :
    Means(log[i].fd, i - 1) = IF log[i].kind = "accept" THEN None ELSE log[i].who

\* Between two calls of ep_wait() the epoll set, the tables and the kernel agree
\* about which descriptors are in use, and so they do when the object is gone.
\* No event of a batch finds its descriptor missing, and no accept() fails.
TablesAgree ==
    /\ place[Collector] \notin {"crashed", "aborted"}
    /\ place[Collector] = "wait" /\ place[Main] \in {"idle", "gone"} =>
          LET open == {f \in Fds : socket[f] # None} IN
          /\ open = epset
          /\ open = {f \in Fds : sockfd_collector[f] # None}
          /\ Len(clients) = Cardinality(open \ {Listener})
          /\ ToSet(clients) = open \ {Listener}
    /\ place[Main] = "gone" => epset = {}

\* collect() closes only what the other end has closed, after all that it had sent
\* has been received.  The comment on the class says so; it is not so when another
\* thread calls ep_del().
ClosesOnlyClosed ==
    [][\A p \in Peers :
          /\ place[Collector] = "delClose" /\ place'[Collector] # "delClose"
          /\ peer[p].phase = "here" /\ peer'[p].phase = "gone"
          => peer[p].closed /\ peer[p].inbox = 0]_epVars

\* A connection that the other end has closed is closed here too, automatically;
\* and the destructor comes to an end.
ClosedGetClosed ==
    /\ \A p \in Peers : peer[p].closed ~> peer[p].phase = "gone" \/ ending
    /\ ending ~> place[Main] = "gone"

=============================================================================
