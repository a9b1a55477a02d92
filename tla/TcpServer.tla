---------------------------- MODULE TcpServer ----------------------------
(***************************************************************************)
(* The life of connections in reactor/tcpserver.cpp, Connection.cpp,       *)
(* Channel.cpp and Epoll.cpp: the main thread accepts and registers them,  *)
(* the IO threads serve and close them, the tick thread of the TimeWheel   *)
(* closes the idle ones.  Three registries must agree about a connection:  *)
(* the epoll tree of its loop, the time wheel and conns_.                  *)
(*                                                                         *)
(* A step ends where another thread may see or change what the next        *)
(* statement uses: at each mutex, at each epoll_ctl, at each callback set. *)
(* shared_ptr ownership is explicit: a Connection is destroyed, and its    *)
(* descriptor closed, when conns_ and every thread have dropped it.        *)
(***************************************************************************)
EXTENDS Integers, FiniteSets

CONSTANTS
    Conns, Fds, FdOf, Nodes, None, SlotInterval, Slots, Timeout, RenewTimeout,
    Loops,          \* sub event loops, one IO thread each
    LoopOf,         \* LoopOf[f]: subloops_[fd % threadnum_]
    TickThread,     \* the thread of the time wheel
    MaxRequests,    \* bound: MaxRequests[c], the segments that c's client sends
    Hasty           \* clients that may act before newconnection() is done with them

VARIABLES
    \* the time wheel, see TimeWheel
    wheel_, node, timer_map_, current_slot_, weak_conns, running_, thread_, alive,
    conns_,         \* conns_[f]: the connection stored under f, or None
    main,           \* main thread: [pc, conn]
    thr,            \* thr[t]: [pc, conn] of an IO thread or of the tick thread
    batch,          \* batch[l]: events returned by epoll_wait, not handled yet
    setup,          \* setup[c]: steps of newconnection() done for c
    tree,           \* connections registered with their loop's epoll
    writing,        \* channels with EPOLLOUT enabled
    pending,        \* connections whose outputbuffer_ is not empty
    keep,           \* connections whose request_ asks for keep-alive
    partial,        \* connections whose inputbuffer_ has been left with a part of a request
    peer,           \* peer[c]: what the client did, [sent, unread, fin, early], and
                    \* history: whether the tick collected c [expired]
    status          \* "running", or how the process ended

wheelVars == <<wheel_, node, timer_map_, current_slot_, weak_conns, running_,
               thread_, alive>>
connVars == <<setup, tree, writing, pending, keep, partial>>
vars == <<wheelVars, conns_, main, thr, batch, connVars, peer, status>>

Wheel == INSTANCE TimeWheel

ASSUME FdOfAssumption == FdOf \in [Conns -> Fds]
ASSUME IntervalAssumption == SlotInterval \in Nat \ {0}
ASSUME SlotsAssumption == Slots \in Nat \ {0}
ASSUME TimeoutAssumption == Timeout \in Nat /\ RenewTimeout \in Nat
ASSUME NoneAssumption ==
    /\ None \notin Nodes \union Conns
    /\ None \notin Wheel!TimerNode
    /\ None \notin [conn : Conns, left : Nat]
ASSUME LoopsAssumption == LoopOf \in [Fds -> Loops] /\ TickThread \notin Loops
ASSUME MaxRequestsAssumption == MaxRequests \in [Conns -> Nat]

Threads == Loops \union {TickThread}
Events == {"in", "out"}

\* newconnection() sets, in this order: the owner of the object, then the
\* close, error, message, send-complete and timer callbacks.
CloseCallback == 2
AllCallbacks == 6

Born(c) == setup[c] >= 0

----------------------------------------------------------------------------
(* Ownership.                                                              *)

\* A thread owns a shared_ptr while it calls TcpServer::closeconnection; the
\* tick thread from the moment it has locked the weak_ptr.
HoldingSteps(t) ==
    IF t = TickThread THEN {"close", "unhook", "erase"} ELSE {"erase"}

\* Who owns c after the step.
OwnedAfter(c) ==
    \/ main'.conn = c
    \/ conns_'[FdOf[c]] = c
    \/ \E t \in Threads : thr'[t].conn = c /\ thr'[t].pc \in HoldingSteps(t)

\* c is destroyed with its buffers if its last owner is gone; closing the socket
\* takes the descriptor out of every epoll tree.
ReleaseIfUnowned(c) ==
    /\ alive' = IF OwnedAfter(c) THEN alive ELSE alive \ {c}
    /\ tree' = IF OwnedAfter(c) THEN tree ELSE tree \ {c}
    /\ pending' = IF OwnedAfter(c) THEN pending ELSE pending \ {c}
    /\ keep' = IF OwnedAfter(c) THEN keep ELSE keep \ {c}
    /\ partial' = IF OwnedAfter(c) THEN partial ELSE partial \ {c}

----------------------------------------------------------------------------
(* The process ends: exit(-1) in Epoll.cpp, an uncaught exception, or the  *)
(* undefined behaviour of using a destroyed Connection ("uaf") or of       *)
(* reading beyond a block of its buffer ("overrun").                       *)

Ends(how) ==
    /\ status' = how
    /\ UNCHANGED <<wheelVars, conns_, main, thr, batch, connVars, peer>>

----------------------------------------------------------------------------
(* The main thread.                                                        *)

Init ==
    /\ Wheel!Init
    /\ conns_ = [f \in Fds |-> None]
    /\ main = [pc |-> "start", conn |-> None]
    /\ thr = [t \in Threads |->
                 [pc |-> IF t = TickThread THEN "tick" ELSE "wait", conn |-> None]]
    /\ batch = [l \in Loops |-> {}]
    /\ setup = [c \in Conns |-> -1]
    /\ tree = {}
    /\ writing = {}
    /\ pending = {}
    /\ keep = {}
    /\ partial = {}
    /\ peer = [c \in Conns |-> [sent |-> 0, unread |-> 0, fin |-> FALSE, early |-> FALSE,
                              expired |-> FALSE]]
    /\ status = "running"

\* TcpServer::start: the time wheel's thread, then the main loop.
start ==
    /\ main.pc = "start"
    /\ Wheel!start
    /\ main' = [main EXCEPT !.pc = "accept"]
    /\ UNCHANGED <<conns_, thr, batch, connVars, peer, status>>

\* accept4 and the constructor of Connection, which enables reading: from here
\* the IO thread of the descriptor may be handed the channel.
accept(c) ==
    /\ main.pc = "accept"
    /\ ~Born(c)
    /\ Wheel!Connect(c)
    /\ main' = [pc |-> "set", conn |-> c]
    /\ setup' = [setup EXCEPT ![c] = 0]
    /\ tree' = tree \union {c}
    /\ UNCHANGED <<conns_, thr, batch, writing, pending, keep, partial, peer, status>>

\* A bug for comparison: one callback too many.
StageAfterLate(n) == IF n > AllCallbacks THEN "add" ELSE "set"

StageAfter(n) == IF n = AllCallbacks THEN "add" ELSE "set"

\* The next of: spConnection conn(...), setclosecallback, seterrorcallback,
\* setonmessagecallback, setsendcompletecallback, setupdatetimercallback.
set_callback ==
    /\ main.pc = "set"
    /\ setup' = [setup EXCEPT ![main.conn] = @ + 1]
    /\ main' = [main EXCEPT !.pc = StageAfter(setup'[main.conn])]
    /\ UNCHANGED <<wheelVars, conns_, thr, batch, tree, writing, pending, keep, partial, peer, status>>

\* Bugs for comparison: the node gets the renewal's timeout; there is none.
add_with_renew_timeout ==
    /\ main.pc = "add"
    /\ Wheel!add_connection_unsafe(main.conn, RenewTimeout)
    /\ main' = [main EXCEPT !.pc = "store"]
    /\ UNCHANGED <<weak_conns, running_, thread_, alive>>
    /\ UNCHANGED <<conns_, thr, batch, connVars, peer, status>>

add_forgotten ==
    /\ main.pc = "add"
    /\ main' = [main EXCEPT !.pc = "store"]
    /\ UNCHANGED <<wheelVars, conns_, thr, batch, connVars, peer, status>>

add_new_conn_timernode ==
    /\ main.pc = "add"
    /\ Wheel!add_connection(main.conn)
    /\ main' = [main EXCEPT !.pc = "store"]
    /\ UNCHANGED <<conns_, thr, batch, connVars, peer, status>>

store_conn ==
    /\ main.pc = "store"
    /\ conns_' = [conns_ EXCEPT ![FdOf[main.conn]] = main.conn]
    /\ main' = [main EXCEPT !.pc = "return"]
    /\ UNCHANGED <<wheelVars, thr, batch, connVars, peer, status>>

\* newconnection() returns and drops its local spConnection.
newconnection_return ==
    /\ main.pc = "return"
    /\ main' = [pc |-> "accept", conn |-> None]
    /\ UNCHANGED <<conns_, thr>>
    /\ ReleaseIfUnowned(main.conn)
    /\ UNCHANGED <<wheel_, node, timer_map_, current_slot_, weak_conns, running_, thread_>>
    /\ UNCHANGED <<batch, setup, writing, peer, status>>

----------------------------------------------------------------------------
(* Closing, on whichever thread: Connection::closecallback and             *)
(* errorcallback, then TcpServer::closeconnection and errorconnection,     *)
(* which do the same.                                                      *)

Goes(t, step) == thr' = [thr EXCEPT ![t].pc = step]
At(t, step) == thr[t].pc = step /\ thr[t].conn \in alive

\* A thread is back in its loop when it has no connection in hand.
Idles(t) ==
    thr' = [thr EXCEPT ![t] =
               [pc |-> IF t = TickThread THEN "lock" ELSE "dispatch", conn |-> None]]

\* Channel::remove: EPOLL_CTL_MOD, then EPOLL_CTL_DEL.
remove_channel(t) ==
    /\ At(t, "close")
    /\ thr[t].conn \in tree
    /\ tree' = tree \ {thr[t].conn}
    /\ writing' = writing \ {thr[t].conn}
    /\ Goes(t, "unhook")
    /\ UNCHANGED <<wheelVars, conns_, main, batch, setup, pending, keep, partial, peer, status>>

\* inepoll_ is never reset, so updatechannel modifies a descriptor that is not
\* in the tree any more; epoll_ctl fails and the process exits.
remove_channel_fails(t) ==
    /\ At(t, "close")
    /\ thr[t].conn \notin tree
    /\ Ends("exit")

\* A bug for comparison: closeconnection forgets the time wheel.
unhook_keeps_timer(t) ==
    /\ At(t, "unhook")
    /\ setup[thr[t].conn] >= CloseCallback
    /\ Goes(t, "erase")
    /\ UNCHANGED <<wheelVars, conns_, main, batch, connVars, peer, status>>

\* closecallback_(shared_from_this()) and time_wheel_.remove_connection.
unhook_timer(t) ==
    /\ At(t, "unhook")
    /\ setup[thr[t].conn] >= CloseCallback
    /\ Wheel!remove_connection(thr[t].conn)
    /\ Goes(t, "erase")
    /\ UNCHANGED <<conns_, main, batch, connVars, peer, status>>

\* The callback is empty, or no shared_ptr owns the object yet: the exception
\* leaves the IO thread's function.
unhook_throws(t) ==
    /\ At(t, "unhook")
    /\ setup[thr[t].conn] < CloseCallback
    /\ Ends("terminate")

\* conns_.erase(fd) and the end of the call: whatever is stored under the
\* descriptor goes.
erase_conn(t) ==
    /\ At(t, "erase")
    /\ conns_' = [conns_ EXCEPT ![FdOf[thr[t].conn]] = None]
    /\ Idles(t)
    /\ UNCHANGED main
    /\ ReleaseIfUnowned(thr[t].conn)
    /\ UNCHANGED <<wheel_, node, timer_map_, current_slot_, weak_conns, running_, thread_>>
    /\ UNCHANGED <<batch, setup, writing, peer, status>>

Closing(t) ==
    \/ remove_channel(t)
    \/ remove_channel_fails(t)
    \/ unhook_timer(t)
    \/ unhook_throws(t)
    \/ erase_conn(t)

----------------------------------------------------------------------------
(* The IO threads: EventLoop::run, Channel::handleevent, Connection.       *)

Readable(c) == peer[c].unread > 0 \/ peer[c].fin

\* A bug for comparison: a channel is handled once for each event.
Ready_both(l) ==
    {e \in tree \X Events :
        /\ LoopOf[FdOf[e[1]]] = l
        /\ IF e[2] = "in" THEN Readable(e[1]) ELSE e[1] \in writing}

\* handleevent prefers reading when both events are there.
Ready(l) ==
    {e \in tree \X Events :
        /\ LoopOf[FdOf[e[1]]] = l
        /\ IF e[2] = "in" THEN Readable(e[1])
           ELSE e[1] \in writing /\ ~Readable(e[1])}

epoll_wait(l) ==
    /\ thr[l].pc = "wait"
    /\ Ready(l) # {}
    /\ batch' = [batch EXCEPT ![l] = Ready(l)]
    /\ Goes(l, "dispatch")
    /\ UNCHANGED <<wheelVars, conns_, main, connVars, peer, status>>

loop_again(l) ==
    /\ thr[l].pc = "dispatch"
    /\ batch[l] = {}
    /\ Goes(l, "wait")
    /\ UNCHANGED <<wheelVars, conns_, main, batch, connVars, peer, status>>

\* Channel::handleevent on the next channel of the vector.
handleevent(l) ==
    /\ thr[l].pc = "dispatch"
    /\ \E e \in batch[l] :
        /\ e[1] \in alive
        /\ batch' = [batch EXCEPT ![l] = @ \ {e}]
        /\ thr' = [thr EXCEPT ![l] =
                      [pc |-> IF e[2] = "in" THEN "read" ELSE "write", conn |-> e[1]]]
    /\ UNCHANGED <<wheelVars, conns_, main, connVars, peer, status>>

\* onmessage: read until the socket is drained; end of file closes, and what
\* was read before it is never parsed.
read_socket(l) ==
    LET c == thr[l].conn IN
    /\ At(l, "read")
    /\ peer' = [peer EXCEPT ![c].unread = 0]
    /\ Goes(l, IF peer[c].fin THEN "close" ELSE "renew")
    /\ UNCHANGED <<wheelVars, conns_, main, batch, connVars, status>>

\* updatetimercallback_(shared_from_this())
renew_timer(l) ==
    /\ At(l, "renew")
    /\ setup[thr[l].conn] = AllCallbacks
    /\ Wheel!update_connection(thr[l].conn)
    /\ Goes(l, "respond")
    /\ UNCHANGED <<conns_, main, batch, connVars, peer, status>>

renew_throws(l) ==
    /\ At(l, "renew")
    /\ setup[thr[l].conn] < AllCallbacks
    /\ Ends("terminate")

\* A request has come in part, and more of it now: parse() had put read_pos_ back
\* to where it started, but not the number of bytes.  The number wraps when the
\* lines are consumed again, and a body of that length is more than a std::string
\* holds; or a position behind its block is read.
parse_breaks(l) ==
    /\ At(l, "respond")
    /\ thr[l].conn \in partial
    /\ Ends("terminate") \/ Ends("overrun")

\* request_.Init() and parse(): no complete request yet, or a response is put
\* in outputbuffer_ and EPOLLOUT enabled.
parse_request(l) ==
    LET c == thr[l].conn IN
    /\ At(l, "respond")
    /\ \E k \in BOOLEAN : keep' = IF k THEN keep \union {c} ELSE keep \ {c}
    /\ \/ /\ partial' = partial \union {c}
          /\ UNCHANGED <<writing, pending>>
       \/ /\ c \in tree
          /\ pending' = pending \union {c}
          /\ writing' = writing \union {c}
          /\ UNCHANGED partial
    /\ Idles(l)
    /\ UNCHANGED <<wheelVars, conns_, main, batch, setup, tree, peer, status>>

\* enablewriting() or disablewriting() on a channel another thread removed.
modify_fails(l) ==
    /\ At(l, "respond") \/ At(l, "write")
    /\ thr[l].conn \notin tree
    /\ Ends("exit")

\* A bug for comparison: EPOLLOUT stays enabled when everything is written.
write_stays_enabled(l) ==
    LET c == thr[l].conn IN
    /\ At(l, "write")
    /\ c \in tree
    /\ pending' = pending \ {c}
    /\ UNCHANGED writing
    /\ IF c \in pending /\ c \notin keep THEN Goes(l, "close") ELSE Idles(l)
    /\ UNCHANGED <<wheelVars, conns_, main, batch, setup, tree, keep, partial, peer, status>>

\* writecallback: everything is written (or there was nothing to write);
\* disable EPOLLOUT and close unless the request asked for keep-alive.
write_all(l) ==
    LET c == thr[l].conn IN
    /\ At(l, "write")
    /\ c \in tree
    /\ pending' = pending \ {c}
    /\ writing' = writing \ {c}
    /\ IF c \in pending /\ c \notin keep THEN Goes(l, "close") ELSE Idles(l)
    /\ UNCHANGED <<wheelVars, conns_, main, batch, setup, tree, keep, partial, peer, status>>

\* writecallback: the kernel takes a part of the data.
write_some(l) ==
    /\ At(l, "write")
    /\ thr[l].conn \in pending
    /\ Idles(l)
    /\ UNCHANGED <<wheelVars, conns_, main, batch, connVars, peer, status>>

\* writecallback: writev fails because the client is gone.
write_error(l) ==
    /\ At(l, "write")
    /\ thr[l].conn \in pending
    /\ peer[thr[l].conn].fin
    /\ Goes(l, "close")
    /\ UNCHANGED <<wheelVars, conns_, main, batch, connVars, peer, status>>

\* The raw Channel* or this of a Connection that another thread destroyed.
use_after_free(l) ==
    /\ \/ /\ thr[l].pc = "dispatch"
          /\ \E e \in batch[l] : e[1] \notin alive
       \/ /\ thr[l].pc \in {"read", "renew", "respond", "write", "close", "unhook"}
          /\ thr[l].conn \notin alive
    /\ Ends("uaf")

LoopStep(l) ==
    \/ epoll_wait(l)
    \/ loop_again(l)
    \/ handleevent(l)
    \/ read_socket(l)
    \/ renew_timer(l)
    \/ renew_throws(l)
    \/ parse_request(l)
    \/ parse_breaks(l)
    \/ modify_fails(l)
    \/ write_all(l)
    \/ write_some(l)
    \/ write_error(l)
    \/ use_after_free(l)
    \/ Closing(l)

----------------------------------------------------------------------------
(* The tick thread.                                                        *)

\* A real-time assumption: newconnection() does not last a whole timeout
\* (360 s), so no connection expires while the main thread registers it.
RegisteredInTime ==
    \A n \in Nodes : Wheel!Expires(n) => node[n].conn # main.conn

tick ==
    /\ thr[TickThread].pc = "tick"
    /\ RegisteredInTime
    /\ Wheel!tick
    /\ Goes(TickThread, "lock")
    /\ peer' = [c \in Conns |-> [peer[c] EXCEPT !.expired = @ \/ c \in weak_conns']]
    /\ UNCHANGED <<conns_, main, batch, connVars, status>>

\* weak_conn.lock(): the connection is held while it is closed, or is gone.
lock_weak(c) ==
    /\ thr[TickThread].pc = "lock"
    /\ Wheel!close_expired(c)
    /\ IF c \in alive
       THEN thr' = [thr EXCEPT ![TickThread] = [pc |-> "close", conn |-> c]]
       ELSE UNCHANGED thr
    /\ UNCHANGED <<conns_, main, batch, connVars, peer, status>>

tick_return ==
    /\ thr[TickThread].pc = "lock"
    /\ weak_conns = {}
    /\ Goes(TickThread, "tick")
    /\ UNCHANGED <<wheelVars, conns_, main, batch, connVars, peer, status>>

TickStep ==
    \/ tick
    \/ \E c \in Conns : lock_weak(c)
    \/ tick_return
    \/ Closing(TickThread)

----------------------------------------------------------------------------
(* The clients.                                                            *)

MayAct(c) ==
    /\ Born(c)
    /\ ~peer[c].fin
    /\ c \in Hasty \/ main.conn # c

\* Does c act before newconnection() is done with it?
Early(c) == peer[c].early \/ main.conn = c

client_send(c) ==
    /\ MayAct(c)
    /\ peer[c].sent < MaxRequests[c]
    /\ peer' = [peer EXCEPT ![c].sent = @ + 1, ![c].unread = @ + 1, ![c].early = Early(c)]
    /\ UNCHANGED <<wheelVars, conns_, main, thr, batch, connVars, status>>

client_close(c) ==
    /\ MayAct(c)
    /\ peer' = [peer EXCEPT ![c].fin = TRUE, ![c].early = Early(c)]
    /\ UNCHANGED <<wheelVars, conns_, main, thr, batch, connVars, status>>

----------------------------------------------------------------------------

MainStep ==
    \/ start
    \/ \E c \in Conns : accept(c)
    \/ set_callback
    \/ add_new_conn_timernode
    \/ store_conn
    \/ newconnection_return

Next ==
    /\ status = "running"
    /\ \/ MainStep
       \/ \E l \in Loops : LoopStep(l)
       \/ TickStep
       \/ \E c \in Conns : client_send(c) \/ client_close(c)

Spec == Init /\ [][Next]_vars

\* No thread of the server is starved: run() and newconnection() go on, and
\* the timed wait of the tick thread always ends.
FairSpec ==
    /\ Spec
    /\ WF_vars(status = "running" /\ MainStep)
    /\ \A l \in Loops : WF_vars(status = "running" /\ LoopStep(l))
    /\ WF_vars(status = "running" /\ TickStep)

----------------------------------------------------------------------------
(* Properties.                                                             *)

Steps == {"wait", "dispatch", "read", "renew", "respond", "write", "tick",
          "lock", "close", "unhook", "erase"}

\* Every variable holds a value of its type.
TypeOK ==
    /\ Wheel!TypeOK
    /\ conns_ \in [Fds -> Conns \union {None}]
    /\ main \in [pc : {"start", "accept", "set", "add", "store", "return"},
                 conn : Conns \union {None}]
    /\ thr \in [Threads -> [pc : Steps, conn : Conns \union {None}]]
    /\ batch \in [Loops -> SUBSET (Conns \X Events)]
    /\ setup \in [Conns -> -1 .. AllCallbacks]
    /\ tree \subseteq alive
    /\ writing \union pending \union keep \union partial \subseteq Conns
    /\ peer \in [Conns -> [sent : Nat, unread : Nat, fin : BOOLEAN, early : BOOLEAN,
                           expired : BOOLEAN]]
    /\ status \in {"running", "exit", "terminate", "uaf", "overrun"}

\* No thread is registering or closing c; the tick thread takes a connection
\* only to close it.
Settled(c) ==
    /\ main.conn # c
    /\ thr[TickThread].conn # c
    /\ \A l \in Loops : thr[l].conn = c => thr[l].pc \notin {"unhook", "erase"}

\* A timer will close c, or the tick under way does.
Timed(c) ==
    \/ /\ timer_map_[FdOf[c]] # None
       /\ node[timer_map_[FdOf[c]]].conn = c
    \/ c \in weak_conns

\* No client of this descriptor acted while newconnection() was at work on it.
Patient(f) == \A c \in Conns : FdOf[c] = f => ~peer[c].early

\* Between registration and closing, conns_, the epoll tree and the time wheel
\* agree about a connection: it is in all three and will time out, or it is in
\* none, its object is destroyed and its descriptor free.  It holds although
\* the tick thread and the IO thread close, renew and erase without a common
\* lock, as long as clients stay silent until newconnection() is done.
RegistriesAgree ==
    status = "running" =>
        \A c \in Conns : Born(c) /\ Settled(c) /\ Patient(FdOf[c]) =>
            IF c \in alive
            THEN conns_[FdOf[c]] = c /\ c \in tree /\ Timed(c)
            ELSE /\ conns_[FdOf[c]] # c
                 /\ \A n \in Nodes : node[n] # None => node[n].conn # c

\* An expired connection is closed like any other: neither epoll_ctl fails nor
\* is the connection destroyed under the thread that serves it
\* (TimeWheel.cpp:82, "a timeout calls the normal close").
TimeoutClosesNormally ==
    (\A c \in Conns : ~peer[c].early) => status \notin {"exit", "uaf"}

\* The process ends only as it is known to: a callback is missing or has no owner
\* because the client acted before newconnection() was done with it; two threads
\* met in a connection that its timer had collected; or a request arrived in parts,
\* which parse() does not survive.  Clients that do none of these never end it,
\* however they are served, closed and replaced.
EndsAreKnown ==
    status # "running" =>
        \E c \in Conns :
            \/ peer[c].early
            \/ status \in {"exit", "uaf"} /\ peer[c].expired
            \/ status \in {"terminate", "overrun"} /\ c \in partial

\* Whatever the threads interleave, they use the time wheel as TimeWheel
\* allows: existing connections only, one tick at a time.
WheelSpec == Wheel!Spec

\* Every connection is closed in the end, at the latest by the time wheel,
\* unless the process has ended or the client acted too early.
ConnectionsEnd ==
    \A c \in Conns :
        c \in alive ~> (c \notin alive \/ status # "running" \/ ~Patient(FdOf[c]))

\* Data in outputbuffer_ of a registered connection is waiting for EPOLLOUT or
\* about to be closed: a response is never left behind, and a connection with
\* nothing to write does not keep its loop awake.
OutputIsWatched ==
    status = "running" =>
        \A c \in tree : c \in pending <=> c \in writing
=============================================================================
