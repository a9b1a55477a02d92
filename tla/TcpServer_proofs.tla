-------------------------- MODULE TcpServer_proofs --------------------------
(***************************************************************************)
(* Proofs about the life of connections, for every set of connections,     *)
(* descriptors and loops, every client behaviour and every time wheel, and *)
(* about the loops their handlers run on, for every set of tasks and       *)
(* stoppers: no wakeup is lost, and tasks run once each in order.          *)
(***************************************************************************)
EXTENDS TcpServer, EventLoop, SequenceTheorems, TLAPS

\* What is proved of the operations of the wheel.
WheelFacts == INSTANCE TimeWheel_proofs

----------------------------------------------------------------------------
(* The inductive invariant, in groups.                                     *)

\* The lists and the map of the wheel are consistent.
ListsInv == WheelFacts!ListsInv

\* Two existing connections have different descriptors, and exist because
\* newconnection() began with them; conns_ owns what it stores.
Sockets ==
    /\ \A c \in alive : Born(c)
    /\ \A c, d \in alive : FdOf[c] = FdOf[d] => c = d
    /\ \A f \in Fds : conns_[f] # None => conns_[f] \in alive /\ FdOf[conns_[f]] = f

\* newconnection() owns the connection it works on, and only that one lacks
\* callbacks.
Registration ==
    /\ main.pc \in {"start", "accept"} => main.conn = None
    /\ main.pc \notin {"start", "accept"} => main.conn \in alive
    /\ main.pc = "set" => setup[main.conn] < AllCallbacks
    /\ \A c \in Conns :
          Born(c) /\ setup[c] < AllCallbacks => main.pc = "set" /\ main.conn = c

\* An IO thread has in hand, or in its batch, connections of its own loop, each
\* of them once.
LoopHand(l) ==
    /\ thr[l].pc \in {"wait", "dispatch"} => thr[l].conn = None
    /\ thr[l].pc \notin {"wait", "dispatch"} =>
          /\ thr[l].pc \in {"read", "renew", "respond", "write", "close", "unhook", "erase"}
          /\ thr[l].conn \in Conns
          /\ Born(thr[l].conn)
          /\ LoopOf[FdOf[thr[l].conn]] = l
    /\ thr[l].pc = "erase" => thr[l].conn \in alive
    /\ thr[l].pc = "wait" => batch[l] = {}
    /\ \A e \in batch[l] :
          /\ Born(e[1])
          /\ LoopOf[FdOf[e[1]]] = l
          /\ e[1] # thr[l].conn
    /\ \A e, f \in batch[l] : e[1] = f[1] => e = f

LoopHands == \A l \in Loops : LoopHand(l)

\* The tick thread owns what it has in hand, and has collected it after
\* newconnection() was done with it.
TickHands ==
    /\ \/ thr[TickThread].pc \in {"tick", "lock"} /\ thr[TickThread].conn = None
       \/ /\ thr[TickThread].pc \in {"close", "unhook", "erase"}
          /\ thr[TickThread].conn \in alive
          /\ thr[TickThread].conn # main.conn
          /\ peer[thr[TickThread].conn].expired
    /\ \A c \in weak_conns : Born(c) /\ c # main.conn /\ peer[c].expired

\* Nothing has happened to c that a loop would see.
Quiet(c) ==
    /\ peer[c].unread = 0 /\ ~peer[c].fin
    /\ c \notin writing /\ c \notin pending
    /\ \A l \in Loops : thr[l].conn # c /\ \A e \in batch[l] : e[1] # c

QuietUntilDone ==
    /\ \A c \in Conns : ~Born(c) \/ (main.conn = c /\ ~peer[c].early) => Quiet(c)
    /\ \A c \in Conns : peer[c].unread <= peer[c].sent

\* A connection that came to its loop in the proper way stays registered while
\* the loop has it in hand or in its batch.
Served ==
    \A l \in Loops, c \in Conns : ~peer[c].early /\ ~peer[c].expired =>
        /\ thr[l].conn = c =>
              /\ c \in alive
              /\ thr[l].pc \notin {"unhook", "erase"} => c \in tree
        /\ \A e \in batch[l] : e[1] = c => c \in tree

LifeInv ==
    /\ TypeOK
    /\ ListsInv
    /\ Sockets
    /\ Registration
    /\ LoopHands
    /\ TickHands
    /\ QuietUntilDone
    /\ Served

----------------------------------------------------------------------------
(* The registries.                                                         *)

\* The descriptors whose clients were patient, the connections without a node,
\* and those that a thread is closing.
PatientFds == {f \in Fds : Patient(f)}

Untimed == {c \in Conns : \A n \in Nodes : node[n] # None => node[n].conn # c}

BeingClosed ==
    {c \in Conns :
        \/ thr[TickThread].conn = c
        \/ \E l \in Loops : thr[l].conn = c /\ thr[l].pc \in {"unhook", "erase"}}

\* Every node of a descriptor with patient clients belongs to an existing
\* connection and is the one its entry names.
NodesKept ==
    \A n \in Nodes :
        node[n] # None /\ node[n].fd \in PatientFds =>
            node[n].conn \in alive /\ timer_map_[node[n].fd] = n

\* There is no node before add_new_conn_timernode and none after the timer is
\* unhooked.
NodeLifetime ==
    /\ main.pc \in {"set", "add"} /\ FdOf[main.conn] \in PatientFds => main.conn \in Untimed
    /\ \A t \in Threads :
          thr[t].pc = "erase" /\ FdOf[thr[t].conn] \in PatientFds => thr[t].conn \in Untimed

\* A connection is registered by newconnection() step by step, and completely
\* from then until one of the threads closes it.
Registers ==
    \A c \in alive : FdOf[c] \in PatientFds =>
        /\ c \notin BeingClosed => c \in tree
        /\ c \notin BeingClosed /\ (main.conn = c => main.pc \in {"store", "return"}) => Timed(c)
        /\ c \notin BeingClosed /\ (main.conn = c => main.pc = "return") => conns_[FdOf[c]] = c

RegInv == NodesKept /\ NodeLifetime /\ Registers

----------------------------------------------------------------------------
(* The operations of the wheel, as the facts about it name them.           *)

LEMMA WheelAssumptions ==
    /\ None \notin Nodes
    /\ None \notin WheelFacts!TimerNode
    /\ None \notin [conn : Conns, left : Nat]
<1>1. WheelFacts!TimerNode = Wheel!TimerNode
  BY DEF WheelFacts!TimerNode, Wheel!TimerNode, WheelFacts!SlotNumbers, Wheel!SlotNumbers
<1> QED
  BY <1>1, NoneAssumption

LEMMA WheelType ==
    ASSUME ListsInv, weak_conns \in SUBSET Conns, running_ \in BOOLEAN,
           thread_ \in {"none", "running", "finished"}, alive \in SUBSET Conns
    PROVE  Wheel!TypeOK
BY DEF ListsInv, WheelFacts!ListsInv, Wheel!TypeOK, WheelFacts!TimerNode, Wheel!TimerNode,
       WheelFacts!SlotNumbers, Wheel!SlotNumbers

LEMMA ListsUnchanged ==
    ASSUME ListsInv, UNCHANGED <<wheel_, node, timer_map_, current_slot_>>
    PROVE  ListsInv'
BY DEF ListsInv, WheelFacts!ListsInv, WheelFacts!SlotFieldAgrees,
       WheelFacts!NoDanglingIterator, WheelFacts!FdFieldAgrees

\* What the lists say of a node and of an entry.
LEMMA ListsFacts ==
    ASSUME ListsInv
    PROVE  /\ node \in [Nodes -> WheelFacts!TimerNode \union {None}]
           /\ timer_map_ \in [Fds -> Nodes \union {None}]
           /\ \A n \in Nodes : node[n] # None =>
                 /\ node[n].conn \in Conns
                 /\ node[n].fd \in Fds
                 /\ node[n].fd = FdOf[node[n].conn]
           /\ \A f \in Fds : timer_map_[f] # None =>
                 /\ timer_map_[f] \in Nodes
                 /\ node[timer_map_[f]] # None
                 /\ node[timer_map_[f]].fd = f
           /\ None \notin Nodes
BY WheelAssumptions
   DEF ListsInv, WheelFacts!ListsInv, WheelFacts!NoDanglingIterator,
       WheelFacts!FdFieldAgrees, WheelFacts!TimerNode

LEMMA ListsFactsNext ==
    ASSUME ListsInv'
    PROVE  /\ node' \in [Nodes -> WheelFacts!TimerNode \union {None}]
           /\ timer_map_' \in [Fds -> Nodes \union {None}]
           /\ \A n \in Nodes : node'[n] # None =>
                 /\ node'[n].conn \in Conns
                 /\ node'[n].fd \in Fds
                 /\ node'[n].fd = FdOf[node'[n].conn]
           /\ \A f \in Fds : timer_map_'[f] # None =>
                 /\ timer_map_'[f] \in Nodes
                 /\ node'[timer_map_'[f]] # None
                 /\ node'[timer_map_'[f]].fd = f
BY WheelAssumptions
   DEF ListsInv, WheelFacts!ListsInv, WheelFacts!NoDanglingIterator,
       WheelFacts!FdFieldAgrees, WheelFacts!TimerNode

\* The nodes and the map after remove_connection.
LEMMA Removes ==
    ASSUME ListsInv, NEW c \in Conns, Wheel!remove_connection(c)
    PROVE  /\ ListsInv'
           /\ UNCHANGED <<weak_conns, running_, thread_, alive>>
           /\ timer_map_' = [timer_map_ EXCEPT ![FdOf[c]] = None]
           /\ \A n \in Nodes :
                 node'[n] = IF n = timer_map_[FdOf[c]] THEN None ELSE node[n]
<1>1. WheelFacts!remove_connection_unsafe(c)
  BY DEF Wheel!remove_connection, Wheel!remove_connection_unsafe, Wheel!Erased, Wheel!Freed,
         WheelFacts!remove_connection_unsafe, WheelFacts!Erased, WheelFacts!Freed
<1>2. ListsInv'
  BY <1>1, WheelFacts!RemoveKeepsLists, WheelAssumptions, FdOfAssumption, IntervalAssumption,
     SlotsAssumption, TimeoutAssumption DEF ListsInv
<1>3. FdOf[c] \in Fds
  BY FdOfAssumption
<1> QED
  BY <1>2, <1>3, ListsFacts
     DEF Wheel!remove_connection, Wheel!remove_connection_unsafe, Wheel!Freed

LEMMA NewNodeFields ==
    ASSUME NEW c, NEW t
    PROVE  /\ Wheel!NewNode(c, t).conn = c
           /\ Wheel!NewNode(c, t).fd = FdOf[c]
BY DEF Wheel!NewNode

\* After add_connection: a free address holds the node of c.
LEMMA Adds ==
    ASSUME ListsInv, NEW c \in Conns, Wheel!add_connection(c)
    PROVE  /\ ListsInv'
           /\ UNCHANGED <<weak_conns, running_, thread_, alive>>
           /\ \E n \in Nodes :
                 /\ node[n] = None
                 /\ timer_map_' = [timer_map_ EXCEPT ![FdOf[c]] = n]
                 /\ node'[n] # None /\ node'[n].conn = c /\ node'[n].fd = FdOf[c]
                 /\ \A m \in Nodes \ {n} : node'[m] = node[m]
<1>1. WheelFacts!add_connection_unsafe(c, Timeout)
  BY DEF Wheel!add_connection, Wheel!add_connection_unsafe, Wheel!Allocated, Wheel!Pushed,
         Wheel!NewNode, Wheel!Ticks, WheelFacts!add_connection_unsafe, WheelFacts!Allocated,
         WheelFacts!Pushed, WheelFacts!NewNode, WheelFacts!Ticks
<1>2. ListsInv'
  BY <1>1, WheelFacts!AddKeepsLists, WheelAssumptions, FdOfAssumption, IntervalAssumption,
     SlotsAssumption, TimeoutAssumption DEF ListsInv
<1>3. FdOf[c] \in Fds
  BY FdOfAssumption
<1>4. UNCHANGED <<weak_conns, running_, thread_, alive>>
  BY DEF Wheel!add_connection
<1>5. PICK n \in Nodes :
        /\ node[n] = None
        /\ node' = [node EXCEPT ![n] = Wheel!NewNode(c, Timeout)]
        /\ timer_map_' = [timer_map_ EXCEPT ![FdOf[c]] = n]
  BY DEF Wheel!add_connection, Wheel!add_connection_unsafe, Wheel!Allocated
<1>6. timer_map_'[FdOf[c]] = n /\ n # None
  BY <1>3, <1>5, ListsFacts
<1>7. node'[n] # None
  BY <1>2, <1>3, <1>6, ListsFactsNext
<1>8. node'[n] = Wheel!NewNode(c, Timeout)
  BY <1>5, ListsFacts
<1>9. \A m \in Nodes \ {n} : node'[m] = node[m]
  BY <1>5, ListsFacts
<1>10. node'[n].conn = c /\ node'[n].fd = FdOf[c]
  BY <1>8, NewNodeFields
<1>11. \E m \in Nodes :
         /\ node[m] = None
         /\ timer_map_' = [timer_map_ EXCEPT ![FdOf[c]] = m]
         /\ node'[m] # None /\ node'[m].conn = c /\ node'[m].fd = FdOf[c]
         /\ \A k \in Nodes \ {m} : node'[k] = node[k]
  BY <1>5, <1>7, <1>9, <1>10
<1> QED
  BY <1>2, <1>4, <1>11

\* After update_connection: nothing has changed if there is no entry, else the
\* node of the entry has been replaced by one of c.
LEMMA Renews ==
    ASSUME ListsInv, NEW c \in Conns, Wheel!update_connection(c)
    PROVE  /\ ListsInv'
           /\ UNCHANGED <<weak_conns, running_, thread_, alive>>
           /\ \/ timer_map_[FdOf[c]] = None /\ UNCHANGED <<node, timer_map_>>
              \/ /\ timer_map_[FdOf[c]] # None
                 /\ \E n \in Nodes :
                    /\ node[n] = None \/ n = timer_map_[FdOf[c]]
                    /\ timer_map_' = [timer_map_ EXCEPT ![FdOf[c]] = n]
                    /\ node'[n] # None /\ node'[n].conn = c /\ node'[n].fd = FdOf[c]
                    /\ \A m \in Nodes \ {n} :
                          node'[m] = IF m = timer_map_[FdOf[c]] THEN None ELSE node[m]
<1>1. WheelFacts!renew_unsafe(c)
  BY DEF Wheel!update_connection, Wheel!renew_unsafe, Wheel!Allocated, Wheel!Pushed, Wheel!Erased,
         Wheel!Freed, Wheel!wheelVars, Wheel!NewNode, Wheel!Ticks, WheelFacts!renew_unsafe,
         WheelFacts!Allocated, WheelFacts!Pushed, WheelFacts!Erased, WheelFacts!Freed,
         WheelFacts!wheelVars, WheelFacts!NewNode, WheelFacts!Ticks
<1>2. ListsInv'
  BY <1>1, WheelFacts!RenewKeepsLists, WheelAssumptions, FdOfAssumption, IntervalAssumption,
     SlotsAssumption, TimeoutAssumption DEF ListsInv
<1>3. FdOf[c] \in Fds
  BY FdOfAssumption
<1>4. UNCHANGED <<weak_conns, running_, thread_, alive>>
  BY DEF Wheel!update_connection
<1>5. CASE timer_map_[FdOf[c]] = None
  BY <1>2, <1>4, <1>5 DEF Wheel!update_connection, Wheel!renew_unsafe, Wheel!wheelVars
<1>6. CASE timer_map_[FdOf[c]] # None
  <2> DEFINE it == timer_map_[FdOf[c]]
  <2>1. PICK n \in Nodes :
          /\ node[n] = None \/ n = it
          /\ node' = [[node EXCEPT ![it] = None] EXCEPT ![n] = Wheel!NewNode(c, RenewTimeout)]
          /\ timer_map_' = [timer_map_ EXCEPT ![FdOf[c]] = n]
    BY <1>6 DEF Wheel!update_connection, Wheel!renew_unsafe, Wheel!Allocated, Wheel!Freed
  <2>2. timer_map_'[FdOf[c]] = n /\ n # None
    BY <1>3, <2>1, ListsFacts
  <2>3. node'[n] # None
    BY <1>2, <1>3, <2>2, ListsFactsNext
  <2>4. node'[n] = Wheel!NewNode(c, RenewTimeout)
    BY <2>1, ListsFacts
  <2>5. \A m \in Nodes \ {n} : node'[m] = IF m = it THEN None ELSE node[m]
    BY <2>1, ListsFacts
  <2>6. node'[n].conn = c /\ node'[n].fd = FdOf[c]
    BY <2>4, NewNodeFields
  <2>7. \E m \in Nodes :
           /\ node[m] = None \/ m = it
           /\ timer_map_' = [timer_map_ EXCEPT ![FdOf[c]] = m]
           /\ node'[m] # None /\ node'[m].conn = c /\ node'[m].fd = FdOf[c]
           /\ \A k \in Nodes \ {m} : node'[k] = IF k = it THEN None ELSE node[k]
    BY <2>1, <2>3, <2>5, <2>6
  <2> QED
    BY <1>2, <1>4, <1>6, <2>7
<1> QED
  BY <1>5, <1>6

\* After the first half of tick(): the expired nodes and the entries of their
\* descriptors are gone, and their connections collected.
LEMMA Collects ==
    ASSUME ListsInv, Wheel!tick
    PROVE  /\ ListsInv'
           /\ UNCHANGED <<running_, thread_, alive>>
           /\ weak_conns = {}
           /\ weak_conns' =
                 {c \in alive : \E n \in Nodes : Wheel!Expires(n) /\ node[n].conn = c}
           /\ \A n \in Nodes :
                 IF Wheel!Expires(n) THEN node[n] # None /\ node'[n] = None
                 ELSE /\ node'[n] # None <=> node[n] # None
                      /\ node[n] # None =>
                            node'[n].conn = node[n].conn /\ node'[n].fd = node[n].fd
           /\ \A f \in Fds :
                 timer_map_'[f] =
                    IF \E n \in Nodes : Wheel!Expires(n) /\ node[n].fd = f
                    THEN None ELSE timer_map_[f]
<1>1. WheelFacts!collect
  BY DEF Wheel!tick, Wheel!collect, Wheel!Expires, Wheel!InCurrentList, Wheel!EntryErased,
         Wheel!NextSlot, WheelFacts!collect, WheelFacts!Expires, WheelFacts!InCurrentList,
         WheelFacts!EntryErased, WheelFacts!NextSlot
<1>2. ListsInv'
  BY <1>1, WheelFacts!CollectKeepsLists, WheelAssumptions, FdOfAssumption, IntervalAssumption,
     SlotsAssumption, TimeoutAssumption DEF ListsInv
<1>3. ASSUME NEW n \in Nodes, Wheel!InCurrentList(n)
      PROVE  node[n] # None /\ node[n] \in WheelFacts!TimerNode
  BY <1>3 DEF Wheel!InCurrentList, ListsInv, WheelFacts!ListsInv, WheelFacts!SlotFieldAgrees
<1>4. ASSUME NEW n \in Nodes
      PROVE  IF Wheel!Expires(n) THEN node[n] # None /\ node'[n] = None
             ELSE /\ node'[n] # None <=> node[n] # None
                  /\ node[n] # None =>
                        node'[n].conn = node[n].conn /\ node'[n].fd = node[n].fd
  <2>0. node'[n] = IF Wheel!Expires(n) THEN None
                   ELSE IF Wheel!InCurrentList(n) THEN [node[n] EXCEPT !.rotation = @ - 1]
                   ELSE node[n]
    BY DEF Wheel!tick, Wheel!collect
  <2>1. CASE Wheel!Expires(n)
    BY <1>3, <2>0, <2>1 DEF Wheel!Expires
  <2>2. CASE ~Wheel!Expires(n) /\ ~Wheel!InCurrentList(n)
    BY <2>0, <2>2
  <2>3. CASE ~Wheel!Expires(n) /\ Wheel!InCurrentList(n)
    <3>1. node[n] # None /\ node[n] \in WheelFacts!TimerNode
      BY <1>3, <2>3
    <3>2. node'[n] = [node[n] EXCEPT !.rotation = @ - 1]
      BY <2>0, <2>3
    <3>3. node[n].rotation \in Nat /\ node[n].rotation # 0
      BY <2>3, <3>1 DEF Wheel!Expires, WheelFacts!TimerNode
    <3>4. node'[n].conn = node[n].conn /\ node'[n].fd = node[n].fd
      BY <3>1, <3>2 DEF WheelFacts!TimerNode
    <3>5. node'[n] \in WheelFacts!TimerNode
      BY <3>1, <3>2, <3>3 DEF WheelFacts!TimerNode
    <3> QED
      BY <2>3, <3>1, <3>4, <3>5, WheelAssumptions
  <2> QED
    BY <2>1, <2>2, <2>3
<1> QED
  BY <1>2, <1>4 DEF Wheel!tick, Wheel!collect, Wheel!EntryErased

----------------------------------------------------------------------------
(* Threads, ownership and types.                                           *)

LEMMA ThreadFacts ==
    /\ TickThread \in Threads /\ TickThread \notin Loops
    /\ \A l \in Loops : l \in Threads /\ l # TickThread
    /\ \A t \in Threads : t \in Loops \/ t = TickThread
BY LoopsAssumption DEF Threads

LEMMA Types ==
    ASSUME TypeOK
    PROVE  /\ weak_conns \in SUBSET Conns /\ running_ \in BOOLEAN
           /\ thread_ \in {"none", "running", "finished"}
           /\ alive \in SUBSET Conns /\ tree \in SUBSET Conns /\ tree \in SUBSET alive
           /\ conns_ \in [Fds -> Conns \union {None}]
           /\ main.conn \in Conns \union {None}
           /\ main.pc \in {"start", "accept", "set", "add", "store", "return"}
           /\ main = [pc |-> main.pc, conn |-> main.conn]
           /\ \A t \in Threads : thr[t].pc \in Steps /\ thr[t].conn \in Conns \union {None}
           /\ batch \in [Loops -> SUBSET (Conns \X Events)]
           /\ setup \in [Conns -> -1 .. AllCallbacks]
           /\ writing \in SUBSET Conns /\ pending \in SUBSET Conns /\ keep \in SUBSET Conns
           /\ partial \in SUBSET Conns
           /\ \A c \in Conns :
                 /\ peer[c].sent \in Nat /\ peer[c].unread \in Nat
                 /\ peer[c].fin \in BOOLEAN /\ peer[c].early \in BOOLEAN
                 /\ peer[c].expired \in BOOLEAN
BY DEF TypeOK, Wheel!TypeOK

LEMMA WheelTypeNext ==
    ASSUME ListsInv', weak_conns' \in SUBSET Conns, running_' \in BOOLEAN,
           thread_' \in {"none", "running", "finished"}, alive' \in SUBSET Conns
    PROVE  Wheel!TypeOK'
BY DEF ListsInv, WheelFacts!ListsInv, Wheel!TypeOK, WheelFacts!TimerNode, Wheel!TimerNode,
       WheelFacts!SlotNumbers, Wheel!SlotNumbers

\* One thread moves; it keeps, or takes or drops, the connection in its hand.
LEMMA Moves ==
    ASSUME TypeOK, NEW t \in Threads, NEW s \in Steps, NEW c \in Conns \union {None},
           thr' = [thr EXCEPT ![t] = [pc |-> s, conn |-> c]]
    PROVE  /\ thr' \in [Threads -> [pc : Steps, conn : Conns \union {None}]]
           /\ thr'[t].pc = s /\ thr'[t].conn = c
           /\ \A u \in Threads : u # t => thr'[u] = thr[u]
BY DEF TypeOK

LEMMA GoesOn ==
    ASSUME TypeOK, NEW t \in Threads, NEW s \in Steps, Goes(t, s)
    PROVE  /\ thr' \in [Threads -> [pc : Steps, conn : Conns \union {None}]]
           /\ thr'[t].pc = s /\ thr'[t].conn = thr[t].conn
           /\ \A u \in Threads : u # t => thr'[u] = thr[u]
BY DEF TypeOK, Goes

LEMMA IdlesThen ==
    ASSUME TypeOK, NEW t \in Threads, Idles(t)
    PROVE  /\ thr' \in [Threads -> [pc : Steps, conn : Conns \union {None}]]
           /\ thr'[t].pc = IF t = TickThread THEN "lock" ELSE "dispatch"
           /\ thr'[t].conn = None
           /\ \A u \in Threads : u # t => thr'[u] = thr[u]
<1> DEFINE s == IF t = TickThread THEN "lock" ELSE "dispatch"
<1>1. s \in Steps /\ None \in Conns \union {None}
  BY DEF Steps
<1>2. thr' = [thr EXCEPT ![t] = [pc |-> s, conn |-> None]]
  BY DEF Idles
<1> QED
  BY <1>1, <1>2, Moves

LEMMA Releases ==
    ASSUME NEW c, ReleaseIfUnowned(c)
    PROVE  \/ OwnedAfter(c) /\ alive' = alive /\ tree' = tree
           \/ ~OwnedAfter(c) /\ alive' = alive \ {c} /\ tree' = tree \ {c}
BY DEF ReleaseIfUnowned

\* What the members of a connection take with them.
LEMMA ReleasesMembers ==
    ASSUME NEW c, ReleaseIfUnowned(c)
    PROVE  /\ pending' \subseteq pending /\ keep' \subseteq keep /\ partial' \subseteq partial
           /\ \A d \in tree' : d \in tree /\ (d \in pending' <=> d \in pending)
BY DEF ReleaseIfUnowned

\* A node's fields, the peers and the sets: a step that changes none of them.
LEMMA MainMoves ==
    ASSUME TypeOK, NEW s \in {"start", "accept", "set", "add", "store", "return"},
           main' = [main EXCEPT !.pc = s]
    PROVE  /\ main'.pc = s /\ main'.conn = main.conn
           /\ main' \in [pc : {"start", "accept", "set", "add", "store", "return"},
                         conn : Conns \union {None}]
BY DEF TypeOK

----------------------------------------------------------------------------
(* The main thread.                                                        *)

LEMMA InitLife == Init => LifeInv
<1> SUFFICES ASSUME Init PROVE LifeInv
  OBVIOUS
<1> USE DEF Init
<1>1. ListsInv
  BY FdOfAssumption, SlotsAssumption
     DEF ListsInv, WheelFacts!ListsInv, WheelFacts!SlotFieldAgrees, WheelFacts!NoDanglingIterator,
         WheelFacts!FdFieldAgrees, WheelFacts!SlotNumbers, Wheel!Init, Wheel!SlotNumbers
<1>2. Wheel!TypeOK
  BY <1>1, WheelType DEF Wheel!Init
<1>3. TypeOK
  BY <1>2, ThreadFacts DEF TypeOK, AllCallbacks, Steps, Wheel!Init
<1>4. Sockets /\ Registration
  BY NoneAssumption DEF Sockets, Registration, Wheel!Init, Born, AllCallbacks
<1>5. LoopHands /\ TickHands /\ Served
  BY NoneAssumption, ThreadFacts DEF LoopHand, LoopHands, TickHands, Served, Wheel!Init
<1>6. QuietUntilDone
  BY NoneAssumption, ThreadFacts DEF QuietUntilDone, Quiet, Born
<1> QED
  BY <1>1, <1>3, <1>4, <1>5, <1>6 DEF LifeInv

LEMMA StartKeeps ==
    ASSUME LifeInv, start
    PROVE  LifeInv'
<1> USE DEF LifeInv
<1>1. /\ main.pc = "start" /\ main'.pc = "accept" /\ main'.conn = main.conn
      /\ main' \in [pc : {"start", "accept", "set", "add", "store", "return"},
                    conn : Conns \union {None}]
  BY MainMoves DEF start
<1>2. /\ UNCHANGED <<wheel_, node, timer_map_, current_slot_, weak_conns, alive>>
      /\ UNCHANGED <<conns_, thr, batch, setup, tree, writing, pending, keep, partial, peer, status>>
      /\ running_' = TRUE /\ thread_' = "running"
  BY DEF start, Wheel!start, Wheel!wheelVars, connVars
<1>3. ListsInv'
  BY <1>2, ListsUnchanged
<1>4. TypeOK'
  BY <1>1, <1>2, <1>3, Types, WheelTypeNext DEF TypeOK
<1>5. Sockets'
  BY <1>2 DEF Sockets, Born
<1>6. Registration'
  BY <1>1, <1>2 DEF Registration, Born
<1>7. LoopHands'
  BY <1>2 DEF LoopHand, LoopHands, Born
<1>8. TickHands'
  BY <1>1, <1>2 DEF TickHands, Born
<1>9. QuietUntilDone'
  BY <1>1, <1>2 DEF QuietUntilDone, Quiet, Born
<1>10. Served'
  BY <1>2 DEF Served
<1> QED
  BY <1>3, <1>4, <1>5, <1>6, <1>7, <1>8, <1>9, <1>10

LEMMA AcceptKeeps ==
    ASSUME LifeInv, NEW c \in Conns, accept(c)
    PROVE  LifeInv'
<1> USE DEF LifeInv
<1>1. /\ main.pc = "accept" /\ main.conn = None /\ ~Born(c)
      /\ main' = [pc |-> "set", conn |-> c]
      /\ setup' = [setup EXCEPT ![c] = 0]
      /\ tree' = tree \union {c} /\ alive' = alive \union {c}
      /\ \A d \in alive : FdOf[d] # FdOf[c]
  BY DEF accept, Wheel!Connect, Registration
<1>2. /\ UNCHANGED <<wheel_, node, timer_map_, current_slot_, weak_conns, running_, thread_>>
      /\ UNCHANGED <<conns_, thr, batch, writing, pending, keep, partial, peer, status>>
  BY DEF accept, Wheel!Connect, Wheel!wheelVars
<1>3. ListsInv'
  BY <1>2, ListsUnchanged
<1>4. TypeOK'
  BY <1>1, <1>2, <1>3, Types, WheelTypeNext DEF TypeOK, AllCallbacks
<1>5. \A d \in Conns : Born(d)' <=> Born(d) \/ d = c
  BY <1>1, Types DEF Born
<1>6. Sockets'
  BY <1>1, <1>2, <1>5, Types DEF Sockets
<1>7. Registration'
  BY <1>1, <1>5, Types DEF Registration, AllCallbacks
<1>8. LoopHands'
  BY <1>1, <1>2, <1>5, Types, ThreadFacts DEF LoopHand, LoopHands
<1>9. TickHands'
  BY <1>1, <1>2, <1>5, Types, ThreadFacts DEF TickHands, Sockets
<1>10. QuietUntilDone'
  <2>1. \A d \in Conns : Quiet(d)' <=> Quiet(d)
    BY <1>2 DEF Quiet
  <2> QED
    BY <1>1, <1>2, <1>5, <2>1 DEF QuietUntilDone
<1>11. Served'
  BY <1>1, <1>2 DEF Served
<1> QED
  BY <1>3, <1>4, <1>6, <1>7, <1>8, <1>9, <1>10, <1>11

LEMMA SetCallbackKeeps ==
    ASSUME LifeInv, set_callback
    PROVE  LifeInv'
<1> USE DEF LifeInv
<1> DEFINE c == main.conn
<1>1. /\ main.pc = "set" /\ c \in alive /\ c \in Conns
      /\ setup[c] \in 0 .. AllCallbacks - 1
      /\ setup' = [setup EXCEPT ![c] = @ + 1]
  BY Types DEF set_callback, Registration, Sockets, Born, AllCallbacks
<1>2. /\ main'.pc = StageAfter(setup[c] + 1) /\ main'.conn = c
      /\ main' \in [pc : {"start", "accept", "set", "add", "store", "return"},
                    conn : Conns \union {None}]
  <2>1. setup'[c] = setup[c] + 1
    BY <1>1, Types
  <2>2. StageAfter(setup[c] + 1) \in {"start", "accept", "set", "add", "store", "return"}
    BY DEF StageAfter
  <2> QED
    BY <2>1, <2>2, MainMoves DEF set_callback
<1>3. /\ UNCHANGED <<wheel_, node, timer_map_, current_slot_, weak_conns, running_, thread_, alive>>
      /\ UNCHANGED <<conns_, thr, batch, tree, writing, pending, keep, partial, peer, status>>
  BY DEF set_callback, wheelVars
<1>4. \A d \in Conns : (Born(d)' <=> Born(d)) /\ (d # c => setup'[d] = setup[d])
  BY <1>1, Types DEF Born, AllCallbacks
<1>5. ListsInv'
  BY <1>3, ListsUnchanged
<1>6. TypeOK'
  BY <1>1, <1>2, <1>3, <1>5, Types, WheelTypeNext DEF TypeOK, AllCallbacks
<1>7. Sockets'
  BY <1>3, <1>4, Types DEF Sockets
<1>8. Registration'
  <2>1. setup'[c] = setup[c] + 1
    BY <1>1, Types
  <2>2. \A d \in Conns :
           Born(d)' /\ setup'[d] < AllCallbacks => main'.pc = "set" /\ main'.conn = d
    BY <1>1, <1>2, <1>4, <2>1, Types DEF Registration, StageAfter, AllCallbacks
  <2>3. main'.pc = "set" => setup'[main'.conn] < AllCallbacks
    BY <1>1, <1>2, <2>1 DEF StageAfter, AllCallbacks
  <2> QED
    BY <1>1, <1>2, <1>3, <2>2, <2>3 DEF Registration, StageAfter
<1>9. LoopHands'
  BY <1>3, <1>4, Types, ThreadFacts DEF LoopHand, LoopHands
<1>10. TickHands'
  BY <1>2, <1>3, <1>4, Types, ThreadFacts DEF TickHands
<1>11. QuietUntilDone'
  BY <1>2, <1>3, <1>4 DEF QuietUntilDone, Quiet
<1>12. Served'
  BY <1>3 DEF Served
<1> QED
  BY <1>5, <1>6, <1>7, <1>8, <1>9, <1>10, <1>11, <1>12

\* add_new_conn_timernode and store_conn: the connection keeps its callbacks.
LEMMA AddStoreKeeps ==
    ASSUME LifeInv, add_new_conn_timernode \/ store_conn
    PROVE  LifeInv'
<1> USE DEF LifeInv
<1> DEFINE c == main.conn
<1>1. /\ main.pc \in {"add", "store"} /\ c \in alive /\ c \in Conns
      /\ main'.pc \in {"store", "return"} /\ main'.conn = c
      /\ main' \in [pc : {"start", "accept", "set", "add", "store", "return"},
                    conn : Conns \union {None}]
  BY MainMoves, Types DEF add_new_conn_timernode, store_conn, Registration
<1>2. /\ UNCHANGED <<weak_conns, running_, thread_, alive>>
      /\ UNCHANGED <<thr, batch, setup, tree, writing, pending, keep, partial, peer, status>>
      /\ ListsInv'
  <2>1. CASE add_new_conn_timernode
    BY <1>1, <2>1, Adds DEF add_new_conn_timernode, connVars
  <2>2. CASE store_conn
    BY <2>2, ListsUnchanged DEF store_conn, connVars, wheelVars
  <2> QED
    BY <2>1, <2>2
<1>3. conns_' = conns_ \/ conns_' = [conns_ EXCEPT ![FdOf[c]] = c]
  BY DEF add_new_conn_timernode, store_conn
<1>4. FdOf[c] \in Fds
  BY <1>1, FdOfAssumption
<1>5. TypeOK'
  BY <1>1, <1>2, <1>3, <1>4, Types, WheelTypeNext DEF TypeOK
<1>6. Sockets'
  BY <1>1, <1>2, <1>3, <1>4, Types DEF Sockets, Born
<1>7. Registration'
  BY <1>1, <1>2 DEF Registration, Born
<1>8. LoopHands'
  BY <1>2 DEF LoopHand, LoopHands, Born
<1>9. TickHands'
  BY <1>1, <1>2 DEF TickHands, Born
<1>10. QuietUntilDone'
  BY <1>1, <1>2 DEF QuietUntilDone, Quiet, Born
<1>11. Served'
  BY <1>2 DEF Served
<1> QED
  BY <1>2, <1>5, <1>6, <1>7, <1>8, <1>9, <1>10, <1>11

LEMMA ReturnKeeps ==
    ASSUME LifeInv, newconnection_return
    PROVE  LifeInv'
<1> USE DEF LifeInv
<1> DEFINE c == main.conn
<1>1. /\ main.pc = "return" /\ c \in alive /\ c \in Conns
      /\ main' = [pc |-> "accept", conn |-> None]
      /\ UNCHANGED <<wheel_, node, timer_map_, current_slot_, weak_conns, running_, thread_>>
      /\ UNCHANGED <<conns_, thr, batch, setup, writing, peer, status>>
      /\ pending' \subseteq pending /\ keep' \subseteq keep /\ partial' \subseteq partial
  BY Types, ReleasesMembers DEF newconnection_return, Registration
<1>2. \/ alive' = alive /\ tree' = tree
      \/ ~OwnedAfter(c) /\ alive' = alive \ {c} /\ tree' = tree \ {c}
  BY Releases DEF newconnection_return
<1>3. ListsInv'
  BY <1>1, ListsUnchanged
<1>4. TypeOK'
  BY <1>1, <1>2, <1>3, Types, WheelTypeNext DEF TypeOK
<1>5. ASSUME c \notin alive'
      PROVE  /\ \A f \in Fds : conns_[f] # c
             /\ \A t \in Threads : thr[t].conn = c => thr[t].pc \notin HoldingSteps(t)
  BY <1>1, <1>2, <1>5 DEF OwnedAfter, Sockets
<1>6. Sockets'
  BY <1>1, <1>2, <1>5, Types DEF Sockets, Born
<1>7. Registration'
  BY <1>1 DEF Registration, Born
<1>8. LoopHands'
  BY <1>1, <1>2, <1>5, Types, ThreadFacts DEF LoopHand, LoopHands, Born, HoldingSteps
<1>9. TickHands'
  BY <1>1, <1>2, <1>5, Types, ThreadFacts, NoneAssumption DEF TickHands, Born, HoldingSteps
<1>10. QuietUntilDone'
  BY <1>1, NoneAssumption DEF QuietUntilDone, Quiet, Born
<1>11. Served'
  BY <1>1, <1>2, Types, ThreadFacts DEF Served, QuietUntilDone, Quiet
<1> QED
  BY <1>3, <1>4, <1>6, <1>7, <1>8, <1>9, <1>10, <1>11

----------------------------------------------------------------------------
(* Closing, on an IO thread or on the tick thread.                         *)

\* A connection that the tick thread has not collected is in the hands of its
\* own loop only.
LEMMA OneHandles ==
    ASSUME LifeInv, NEW t \in Threads, NEW l \in Loops, t # l,
           thr[t].pc \in {"close", "unhook", "erase"},
           NEW d \in Conns, ~peer[d].expired
    PROVE  d # thr[t].conn \/ (thr[l].conn # d /\ \A e \in batch[l] : e[1] # d)
<1>1. CASE t = TickThread
  BY <1>1 DEF LifeInv, TickHands
<1>2. CASE t \in Loops
  <2>1. LoopHand(t) /\ LoopHand(l)
    BY <1>2 DEF LifeInv, LoopHands
  <2>2. LoopOf[FdOf[thr[t].conn]] = t
    BY <2>1 DEF LoopHand
  <2>3. \A e \in batch[l] : LoopOf[FdOf[e[1]]] = l
    BY <2>1 DEF LoopHand
  <2>4. thr[l].conn = d => LoopOf[FdOf[d]] = l
    BY <2>1, NoneAssumption DEF LoopHand
  <2> QED
    BY <2>2, <2>3, <2>4
<1> QED
  BY <1>1, <1>2, ThreadFacts

LEMMA RemoveChannelKeeps ==
    ASSUME LifeInv, NEW t \in Threads, remove_channel(t)
    PROVE  LifeInv'
<1> USE DEF LifeInv
<1> DEFINE c == thr[t].conn
<1>1. /\ thr[t].pc = "close" /\ c \in alive /\ c \in Conns
      /\ tree' = tree \ {c} /\ writing' = writing \ {c}
      /\ UNCHANGED <<wheel_, node, timer_map_, current_slot_, weak_conns, running_, thread_, alive>>
      /\ UNCHANGED <<conns_, main, batch, setup, pending, keep, partial, peer, status>>
  BY Types DEF remove_channel, At, wheelVars
<1>2. /\ thr' \in [Threads -> [pc : Steps, conn : Conns \union {None}]]
      /\ thr'[t].pc = "unhook" /\ thr'[t].conn = c
      /\ \A u \in Threads : u # t => thr'[u] = thr[u]
  BY GoesOn DEF remove_channel, Steps
<1>3. ListsInv'
  BY <1>1, ListsUnchanged
<1>4. TypeOK'
  BY <1>1, <1>2, <1>3, Types, WheelTypeNext DEF TypeOK
<1>5. Sockets' /\ Registration'
  BY <1>1 DEF Sockets, Registration, Born
<1>6. LoopHands'
  BY <1>1, <1>2, ThreadFacts DEF LoopHand, LoopHands, Born
<1>7. TickHands'
  BY <1>1, <1>2, ThreadFacts DEF TickHands, Born
<1>8. QuietUntilDone'
  BY <1>1, <1>2, ThreadFacts DEF QuietUntilDone, Quiet, Born
<1>9. Served'
  <2> SUFFICES ASSUME NEW l \in Loops, NEW d \in Conns, ~peer[d].early, ~peer[d].expired
               PROVE  /\ thr'[l].conn = d =>
                            /\ d \in alive
                            /\ thr'[l].pc \notin {"unhook", "erase"} => d \in tree'
                      /\ \A e \in batch[l] : e[1] = d => d \in tree'
    BY <1>1 DEF Served
  <2>1. CASE t = l
    BY <1>1, <1>2, <2>1, ThreadFacts DEF Served, LoopHand, LoopHands
  <2>2. CASE t # l
    <3>1. d # c \/ (thr[l].conn # d /\ \A e \in batch[l] : e[1] # d)
      BY <1>1, <2>2, OneHandles
    <3>2. thr'[l] = thr[l]
      BY <1>2, <2>2, ThreadFacts
    <3> QED
      BY <1>1, <3>1, <3>2 DEF Served
  <2> QED
    BY <2>1, <2>2
<1> QED
  BY <1>3, <1>4, <1>5, <1>6, <1>7, <1>8, <1>9

LEMMA UnhookKeeps ==
    ASSUME LifeInv, NEW t \in Threads, unhook_timer(t)
    PROVE  LifeInv'
<1> USE DEF LifeInv
<1> DEFINE c == thr[t].conn
<1>1. /\ thr[t].pc = "unhook" /\ c \in alive /\ c \in Conns
      /\ UNCHANGED <<weak_conns, running_, thread_, alive>>
      /\ UNCHANGED <<conns_, main, batch, setup, tree, writing, pending, keep, partial, peer, status>>
      /\ ListsInv'
  BY Types, Removes DEF unhook_timer, At, connVars
<1>2. /\ thr' \in [Threads -> [pc : Steps, conn : Conns \union {None}]]
      /\ thr'[t].pc = "erase" /\ thr'[t].conn = c
      /\ \A u \in Threads : u # t => thr'[u] = thr[u]
  BY GoesOn DEF unhook_timer, Steps
<1>3. TypeOK'
  BY <1>1, <1>2, Types, WheelTypeNext DEF TypeOK
<1>4. Sockets' /\ Registration'
  BY <1>1 DEF Sockets, Registration, Born
<1>5. LoopHands'
  BY <1>1, <1>2, ThreadFacts DEF LoopHand, LoopHands, Born
<1>6. TickHands'
  BY <1>1, <1>2, ThreadFacts DEF TickHands, Born
<1>7. QuietUntilDone'
  BY <1>1, <1>2, ThreadFacts DEF QuietUntilDone, Quiet, Born
<1>8. Served'
  BY <1>1, <1>2, ThreadFacts DEF Served
<1> QED
  BY <1>1, <1>3, <1>4, <1>5, <1>6, <1>7, <1>8

LEMMA EraseKeeps ==
    ASSUME LifeInv, NEW t \in Threads, erase_conn(t)
    PROVE  LifeInv'
<1> USE DEF LifeInv
<1> DEFINE c == thr[t].conn
<1>1. /\ thr[t].pc = "erase" /\ c \in alive /\ c \in Conns
      /\ conns_' = [conns_ EXCEPT ![FdOf[c]] = None]
      /\ UNCHANGED <<wheel_, node, timer_map_, current_slot_, weak_conns, running_, thread_>>
      /\ UNCHANGED <<main, batch, setup, writing, peer, status>>
      /\ pending' \subseteq pending /\ keep' \subseteq keep /\ partial' \subseteq partial
  BY Types, ReleasesMembers DEF erase_conn, At
<1>2. /\ thr' \in [Threads -> [pc : Steps, conn : Conns \union {None}]]
      /\ thr'[t].pc = IF t = TickThread THEN "lock" ELSE "dispatch"
      /\ thr'[t].conn = None
      /\ \A u \in Threads : u # t => thr'[u] = thr[u]
  BY IdlesThen DEF erase_conn
<1>3. \/ alive' = alive /\ tree' = tree
      \/ ~OwnedAfter(c) /\ alive' = alive \ {c} /\ tree' = tree \ {c}
  BY Releases DEF erase_conn
<1>4. FdOf[c] \in Fds
  BY <1>1, FdOfAssumption
<1>5. ASSUME c \notin alive'
      PROVE  /\ main.conn # c
             /\ \A u \in Threads : thr'[u].conn = c => thr'[u].pc \notin HoldingSteps(u)
  BY <1>1, <1>3, <1>5 DEF OwnedAfter
<1>6. ListsInv'
  BY <1>1, ListsUnchanged
<1>7. TypeOK'
  BY <1>1, <1>2, <1>3, <1>4, <1>6, Types, WheelTypeNext DEF TypeOK
<1>8. Sockets'
  <2>1. \A f \in Fds : conns_'[f] # None => conns_[f] = conns_'[f] /\ f # FdOf[c]
    BY <1>1, <1>4, Types
  <2> QED
    BY <1>1, <1>3, <2>1 DEF Sockets, Born
<1>9. Registration'
  BY <1>1, <1>3, <1>5 DEF Registration, Born
<1>10. LoopHands'
  <2> SUFFICES ASSUME NEW l \in Loops PROVE LoopHand(l)'
    BY DEF LoopHands
  <2>1. CASE l = t
    BY <1>1, <1>2, <2>1, Types, ThreadFacts, NoneAssumption DEF LoopHand, LoopHands, Born
  <2>2. CASE l # t
    <3>1. thr'[l] = thr[l]
      BY <1>2, <2>2, ThreadFacts
    <3>2. thr'[l].pc = "erase" => thr'[l].conn \in alive'
      BY <1>3, <1>5, <3>1, ThreadFacts DEF LoopHand, LoopHands, HoldingSteps
    <3> QED
      BY <1>1, <3>1, <3>2 DEF LoopHand, LoopHands, Born
  <2> QED
    BY <2>1, <2>2
<1>11. TickHands'
  BY <1>1, <1>2, <1>3, <1>5, ThreadFacts DEF TickHands, HoldingSteps, Born
<1>12. QuietUntilDone'
  BY <1>1, <1>2, ThreadFacts, NoneAssumption DEF QuietUntilDone, Quiet, Born
<1>13. Served'
  <2> SUFFICES ASSUME NEW l \in Loops, NEW d \in Conns, ~peer[d].early, ~peer[d].expired
               PROVE  /\ thr'[l].conn = d =>
                            /\ d \in alive'
                            /\ thr'[l].pc \notin {"unhook", "erase"} => d \in tree'
                      /\ \A e \in batch[l] : e[1] = d => d \in tree'
    BY <1>1 DEF Served
  <2>1. CASE t = l
    BY <1>1, <1>2, <1>3, <2>1, ThreadFacts, NoneAssumption DEF Served, LoopHand, LoopHands
  <2>2. CASE t # l
    <3>1. d # c \/ (thr[l].conn # d /\ \A e \in batch[l] : e[1] # d)
      BY <1>1, <2>2, OneHandles
    <3>2. thr'[l] = thr[l]
      BY <1>2, <2>2, ThreadFacts
    <3> QED
      BY <1>3, <3>1, <3>2 DEF Served
  <2> QED
    BY <2>1, <2>2
<1> QED
  BY <1>6, <1>7, <1>8, <1>9, <1>10, <1>11, <1>12, <1>13

----------------------------------------------------------------------------
(* The IO threads.                                                         *)

LEMMA EpollWaitKeeps ==
    ASSUME LifeInv, NEW l \in Loops, epoll_wait(l)
    PROVE  LifeInv'
<1> USE DEF LifeInv
<1>1. /\ thr[l].pc = "wait" /\ l \in Threads
      /\ batch' = [batch EXCEPT ![l] = Ready(l)]
      /\ UNCHANGED <<wheel_, node, timer_map_, current_slot_, weak_conns, running_, thread_, alive>>
      /\ UNCHANGED <<conns_, main, setup, tree, writing, pending, keep, partial, peer, status>>
  BY ThreadFacts DEF epoll_wait, wheelVars, connVars
<1>2. /\ thr' \in [Threads -> [pc : Steps, conn : Conns \union {None}]]
      /\ thr'[l].pc = "dispatch" /\ thr'[l].conn = thr[l].conn
      /\ \A u \in Threads : u # l => thr'[u] = thr[u]
  BY <1>1, GoesOn DEF epoll_wait, Steps
<1>3. \A e \in Ready(l) :
        /\ e \in Conns \X Events /\ e[1] \in tree /\ LoopOf[FdOf[e[1]]] = l
        /\ e = <<e[1], e[2]>>
        /\ IF e[2] = "in" THEN Readable(e[1])
           ELSE e[2] = "out" /\ e[1] \in writing /\ ~Readable(e[1])
  BY Types DEF Ready, Events
<1>4. \A m \in Loops : batch'[m] = IF m = l THEN Ready(l) ELSE batch[m]
  BY <1>1, Types
<1>5. ListsInv'
  BY <1>1, ListsUnchanged
<1>6. TypeOK'
  BY <1>1, <1>2, <1>3, <1>5, Types, WheelTypeNext DEF TypeOK
<1>7. Sockets' /\ Registration'
  BY <1>1 DEF Sockets, Registration, Born
<1>8. LoopHands'
  <2>1. \A e, f \in Ready(l) : e[1] = f[1] => e = f
    BY <1>3
  <2>2. \A e \in Ready(l) : Born(e[1]) /\ e[1] # thr[l].conn
    BY <1>1, <1>3, Types, NoneAssumption DEF LoopHand, LoopHands, Sockets
  <2> QED
    BY <1>1, <1>2, <1>3, <1>4, <2>1, <2>2, ThreadFacts DEF LoopHand, LoopHands, Born
<1>9. TickHands'
  BY <1>1, <1>2, ThreadFacts DEF TickHands, Born
<1>10. QuietUntilDone'
  <2>1. \A d \in Conns : Quiet(d) => \A e \in Ready(l) : e[1] # d
    BY <1>3 DEF Quiet, Readable
  <2>2. \A d \in Conns : Quiet(d) => Quiet(d)'
    BY <1>1, <1>2, <1>4, <2>1, ThreadFacts DEF Quiet
  <2> QED
    BY <1>1, <2>2 DEF QuietUntilDone, Born
<1>11. Served'
  BY <1>1, <1>2, <1>3, <1>4, ThreadFacts DEF Served
<1> QED
  BY <1>5, <1>6, <1>7, <1>8, <1>9, <1>10, <1>11

\* The steps of a loop that change only its own position, what the peer's data
\* became, and the sets of its own connection.
LEMMA LoopMoves ==
    ASSUME LifeInv, NEW l \in Loops,
           UNCHANGED <<wheel_, node, timer_map_, current_slot_, weak_conns, running_, thread_, alive>>,
           UNCHANGED <<conns_, main, batch, setup, tree>>,
           \A u \in Threads : u # l => thr'[u] = thr[u],
           thr' \in [Threads -> [pc : Steps, conn : Conns \union {None}]],
           \/ thr'[l].pc = "dispatch" /\ thr'[l].conn = None
           \/ thr'[l].pc = "wait" /\ thr'[l].conn = None /\ batch[l] = {}
           \/ /\ thr'[l].pc \in {"renew", "respond", "close"}
              /\ thr[l].pc \in {"read", "renew", "write"}
              /\ thr'[l].conn = thr[l].conn,
           \A c \in Conns :
              /\ c \in writing' => c \in writing \/ thr[l].conn = c
              /\ c \in pending' => c \in pending \/ thr[l].conn = c,
           writing' \union pending' \union keep' \union partial' \subseteq Conns,
           \/ peer' = peer
           \/ peer' = [peer EXCEPT ![thr[l].conn].unread = 0],
           UNCHANGED status
    PROVE  LifeInv'
<1> USE DEF LifeInv
<1>1. ListsInv'
  BY ListsUnchanged
<1>2. /\ peer' \in [Conns -> [sent : Nat, unread : Nat,
                              fin : BOOLEAN, early : BOOLEAN, expired : BOOLEAN]]
      /\ \A c \in Conns :
            /\ peer'[c].fin = peer[c].fin /\ peer'[c].early = peer[c].early
            /\ peer'[c].expired = peer[c].expired
            /\ peer'[c].sent = peer[c].sent
            /\ peer'[c].unread \in {peer[c].unread, 0}
  <2>1. CASE peer' = peer
    BY <2>1 DEF TypeOK
  <2>2. CASE peer' = [peer EXCEPT ![thr[l].conn].unread = 0]
    <3>1. /\ peer \in [Conns -> [sent : Nat, unread : Nat,
                                 fin : BOOLEAN, early : BOOLEAN, expired : BOOLEAN]]
          /\ 0 \in Nat
      BY DEF TypeOK
    <3>2. \A c \in Conns : peer'[c] = IF c = thr[l].conn THEN [peer[c] EXCEPT !.unread = 0]
                                      ELSE peer[c]
      BY <2>2, <3>1
    <3>3. DOMAIN peer' = Conns /\ peer' = [c \in Conns |-> peer'[c]]
      BY <2>2, <3>1
    <3>4. \A c \in Conns :
             /\ peer'[c] \in [sent : Nat, unread : Nat,
                              fin : BOOLEAN, early : BOOLEAN, expired : BOOLEAN]
             /\ peer'[c].fin = peer[c].fin /\ peer'[c].early = peer[c].early
             /\ peer'[c].expired = peer[c].expired
             /\ peer'[c].sent = peer[c].sent
             /\ peer'[c].unread \in {peer[c].unread, 0}
      BY <3>1, <3>2
    <3> QED
      BY <3>3, <3>4
  <2> QED
    BY <2>1, <2>2
<1>3. TypeOK'
  BY <1>1, <1>2, Types, WheelTypeNext DEF TypeOK
<1>4. Sockets' /\ Registration'
  BY DEF Sockets, Registration, Born
<1>5. \A m \in Loops : m # l => thr'[m] = thr[m]
  BY ThreadFacts
<1>6. LoopHands'
  <2>1. \A m \in Loops : m # l =>
          /\ thr'[m] = thr[m] /\ batch'[m] = batch[m]
    BY <1>5
  <2>2. \A e \in batch[l] : e[1] # None
    BY Types, NoneAssumption
  <2> QED
    BY <2>1, <2>2 DEF LoopHand, LoopHands, Born
<1>7. thr'[TickThread] = thr[TickThread]
  BY ThreadFacts
<1>8. TickHands'
  BY <1>2, <1>7, Types DEF TickHands, Born
<1>9. QuietUntilDone'
  <2>1. \A c \in Conns : Quiet(c) => Quiet(c)'
    BY <1>2, <1>5, NoneAssumption DEF Quiet
  <2> QED
    BY <1>2, <2>1, Types DEF QuietUntilDone, Born
<1>10. Served'
  BY <1>2, <1>5, NoneAssumption DEF Served
<1> QED
  BY <1>1, <1>3, <1>4, <1>6, <1>8, <1>9, <1>10

LEMMA LoopAgainKeeps ==
    ASSUME LifeInv, NEW l \in Loops, loop_again(l)
    PROVE  LifeInv'
<1>1. /\ thr' \in [Threads -> [pc : Steps, conn : Conns \union {None}]]
      /\ thr'[l].pc = "wait" /\ thr'[l].conn = thr[l].conn
      /\ \A u \in Threads : u # l => thr'[u] = thr[u]
  BY GoesOn, ThreadFacts DEF loop_again, Steps, LifeInv
<1>2. thr[l].conn = None
  BY DEF loop_again, LifeInv, LoopHands, LoopHand
<1> QED
  BY <1>1, <1>2, LoopMoves, Types DEF loop_again, wheelVars, connVars, LifeInv

LEMMA HandleeventKeeps ==
    ASSUME LifeInv, NEW l \in Loops, handleevent(l)
    PROVE  LifeInv'
<1> USE DEF LifeInv
<1>1. PICK e \in batch[l] :
        /\ e[1] \in alive
        /\ batch' = [batch EXCEPT ![l] = @ \ {e}]
        /\ thr' = [thr EXCEPT ![l] =
                      [pc |-> IF e[2] = "in" THEN "read" ELSE "write", conn |-> e[1]]]
  BY DEF handleevent
<1>2. /\ thr[l].pc = "dispatch" /\ l \in Threads /\ thr[l].conn = None
      /\ UNCHANGED <<wheel_, node, timer_map_, current_slot_, weak_conns, running_, thread_, alive>>
      /\ UNCHANGED <<conns_, main, setup, tree, writing, pending, keep, partial, peer, status>>
  BY ThreadFacts DEF handleevent, wheelVars, connVars, LoopHands, LoopHand
<1>3. /\ thr' \in [Threads -> [pc : Steps, conn : Conns \union {None}]]
      /\ thr'[l].pc \in {"read", "write"} /\ thr'[l].conn = e[1]
      /\ \A u \in Threads : u # l => thr'[u] = thr[u]
  <2>1. e[1] \in Conns \union {None}
    BY <1>1, Types
  <2>2. CASE e[2] = "in"
    <3>1. "read" \in Steps
      BY DEF Steps
    <3>2. thr' = [thr EXCEPT ![l] = [pc |-> "read", conn |-> e[1]]]
      BY <1>1, <2>2
    <3> QED
      BY <1>2, <2>1, <3>1, <3>2, Moves
  <2>3. CASE e[2] # "in"
    <3>1. "write" \in Steps
      BY DEF Steps
    <3>2. thr' = [thr EXCEPT ![l] = [pc |-> "write", conn |-> e[1]]]
      BY <1>1, <2>3
    <3> QED
      BY <1>2, <2>1, <3>1, <3>2, Moves
  <2> QED
    BY <2>2, <2>3
<1>4. /\ batch' \in [Loops -> SUBSET (Conns \X Events)]
      /\ batch'[l] = batch[l] \ {e}
      /\ \A m \in Loops : m # l => batch'[m] = batch[m]
  BY <1>1, Types
<1>5. ListsInv'
  BY <1>2, ListsUnchanged
<1>6. TypeOK'
  BY <1>2, <1>3, <1>4, <1>5, Types, WheelTypeNext DEF TypeOK
<1>7. Sockets' /\ Registration'
  BY <1>2 DEF Sockets, Registration, Born
<1>8. LoopHands'
  <2> SUFFICES ASSUME NEW m \in Loops PROVE LoopHand(m)'
    BY DEF LoopHands
  <2>1. LoopHand(m)
    BY DEF LoopHands
  <2>2. CASE m # l
    BY <1>2, <1>3, <1>4, <2>1, <2>2, ThreadFacts DEF LoopHand, Born
  <2>3. CASE m = l
    BY <1>1, <1>2, <1>3, <1>4, <2>1, <2>3, Types DEF LoopHand, Born
  <2> QED
    BY <2>2, <2>3
<1>9. TickHands'
  BY <1>2, <1>3, ThreadFacts DEF TickHands, Born
<1>10. QuietUntilDone'
  <2>1. \A d \in Conns : Quiet(d) => Quiet(d)'
    BY <1>1, <1>2, <1>3, <1>4, ThreadFacts DEF Quiet
  <2> QED
    BY <1>2, <2>1 DEF QuietUntilDone, Born
<1>11. Served'
  <2> SUFFICES ASSUME NEW m \in Loops, NEW d \in Conns, ~peer[d].early, ~peer[d].expired
               PROVE  /\ thr'[m].conn = d =>
                            /\ d \in alive
                            /\ thr'[m].pc \notin {"unhook", "erase"} => d \in tree
                      /\ \A i \in batch'[m] : i[1] = d => d \in tree
    BY <1>2 DEF Served
  <2>1. CASE m # l
    BY <1>3, <1>4, <2>1, ThreadFacts DEF Served
  <2>2. CASE m = l
    BY <1>1, <1>3, <1>4, <2>2 DEF Served
  <2> QED
    BY <2>1, <2>2
<1> QED
  BY <1>5, <1>6, <1>7, <1>8, <1>9, <1>10, <1>11

LEMMA ReadSocketKeeps ==
    ASSUME LifeInv, NEW l \in Loops, read_socket(l)
    PROVE  LifeInv'
<1> DEFINE s == IF peer[thr[l].conn].fin THEN "close" ELSE "renew"
<1>1. s \in {"close", "renew"} /\ s \in Steps /\ Goes(l, s)
  BY DEF read_socket, Steps
<1>2. /\ thr' \in [Threads -> [pc : Steps, conn : Conns \union {None}]]
      /\ thr'[l].pc = s /\ thr'[l].conn = thr[l].conn
      /\ \A u \in Threads : u # l => thr'[u] = thr[u]
  BY <1>1, GoesOn, ThreadFacts DEF LifeInv
<1> HIDE DEF s
<1> QED
  BY <1>1, <1>2, LoopMoves, Types DEF read_socket, At, wheelVars, connVars, LifeInv

LEMMA ParseRequestKeeps ==
    ASSUME LifeInv, NEW l \in Loops, parse_request(l)
    PROVE  LifeInv'
<1>1. /\ thr' \in [Threads -> [pc : Steps, conn : Conns \union {None}]]
      /\ thr'[l].pc = "dispatch" /\ thr'[l].conn = None
      /\ \A u \in Threads : u # l => thr'[u] = thr[u]
  BY IdlesThen, ThreadFacts DEF parse_request, LifeInv
<1>2. /\ thr[l].conn \in Conns
      /\ writing' = writing \/ writing' = writing \union {thr[l].conn}
      /\ pending' = pending \/ pending' = pending \union {thr[l].conn}
      /\ keep' \subseteq keep \union {thr[l].conn}
      /\ partial' \subseteq partial \union {thr[l].conn}
  BY Types DEF parse_request, At, LifeInv
<1> QED
  BY <1>1, <1>2, LoopMoves, Types DEF parse_request, wheelVars, LifeInv

LEMMA WriteKeeps ==
    ASSUME LifeInv, NEW l \in Loops, write_all(l) \/ write_some(l) \/ write_error(l)
    PROVE  LifeInv'
<1>1. Goes(l, "close") \/ Idles(l)
  BY DEF write_all, write_some, write_error
<1>2. /\ thr' \in [Threads -> [pc : Steps, conn : Conns \union {None}]]
      /\ \/ thr'[l].pc = "dispatch" /\ thr'[l].conn = None
         \/ thr'[l].pc = "close" /\ thr'[l].conn = thr[l].conn
      /\ \A u \in Threads : u # l => thr'[u] = thr[u]
  <2>1. "close" \in Steps /\ l \in Threads /\ l # TickThread
    BY ThreadFacts DEF Steps
  <2> QED
    BY <1>1, <2>1, IdlesThen, GoesOn DEF LifeInv
<1>3. /\ thr[l].pc = "write"
      /\ UNCHANGED <<wheel_, node, timer_map_, current_slot_, weak_conns, running_, thread_, alive>>
      /\ UNCHANGED <<conns_, main, batch, setup, tree, keep, partial, peer, status>>
      /\ writing' \subseteq writing /\ pending' \subseteq pending
  BY DEF write_all, write_some, write_error, At, wheelVars, connVars
<1> QED
  BY <1>2, <1>3, LoopMoves, Types DEF LifeInv

LEMMA RenewKeeps ==
    ASSUME LifeInv, NEW l \in Loops, renew_timer(l)
    PROVE  LifeInv'
<1> USE DEF LifeInv
<1> DEFINE c == thr[l].conn
<1>1. /\ thr[l].pc = "renew" /\ c \in alive /\ c \in Conns
      /\ UNCHANGED <<weak_conns, running_, thread_, alive>>
      /\ UNCHANGED <<conns_, main, batch, setup, tree, writing, pending, keep, partial, peer, status>>
      /\ ListsInv'
  BY Types, Renews DEF renew_timer, At, connVars
<1>2. /\ thr' \in [Threads -> [pc : Steps, conn : Conns \union {None}]]
      /\ thr'[l].pc = "respond" /\ thr'[l].conn = c
      /\ \A u \in Threads : u # l => thr'[u] = thr[u]
  BY GoesOn, ThreadFacts DEF renew_timer, Steps
<1>3. TypeOK'
  BY <1>1, <1>2, Types, WheelTypeNext DEF TypeOK
<1>4. Sockets' /\ Registration'
  BY <1>1 DEF Sockets, Registration, Born
<1>5. LoopHands'
  BY <1>1, <1>2, ThreadFacts DEF LoopHands, LoopHand, Born
<1>6. TickHands'
  BY <1>1, <1>2, ThreadFacts DEF TickHands, Born
<1>7. QuietUntilDone'
  BY <1>1, <1>2, ThreadFacts DEF QuietUntilDone, Quiet, Born
<1>8. Served'
  BY <1>1, <1>2, ThreadFacts DEF Served
<1> QED
  BY <1>1, <1>3, <1>4, <1>5, <1>6, <1>7, <1>8

----------------------------------------------------------------------------
(* The tick thread, the clients and the end of the process.                *)

LEMMA TickKeeps ==
    ASSUME LifeInv, tick
    PROVE  LifeInv'
<1> USE DEF LifeInv
<1>1. /\ thr[TickThread].pc = "tick"
      /\ UNCHANGED <<running_, thread_, alive>>
      /\ UNCHANGED <<conns_, main, batch, setup, tree, writing, pending, keep, partial, status>>
      /\ ListsInv'
      /\ weak_conns' =
            {c \in alive : \E n \in Nodes : Wheel!Expires(n) /\ node[n].conn = c}
  BY Collects DEF tick, connVars
<1>2. /\ thr' \in [Threads -> [pc : Steps, conn : Conns \union {None}]]
      /\ thr'[TickThread].pc = "lock" /\ thr'[TickThread].conn = thr[TickThread].conn
      /\ \A u \in Threads : u # TickThread => thr'[u] = thr[u]
  BY GoesOn, ThreadFacts DEF tick, Steps
<1>3. /\ peer' \in [Conns -> [sent : Nat, unread : Nat,
                              fin : BOOLEAN, early : BOOLEAN, expired : BOOLEAN]]
      /\ \A c \in Conns :
            /\ peer'[c].fin = peer[c].fin /\ peer'[c].early = peer[c].early
            /\ peer'[c].expired = (peer[c].expired \/ c \in weak_conns')
            /\ peer'[c].sent = peer[c].sent
            /\ peer'[c].unread = peer[c].unread
  <2>1. \A c \in Conns :
          /\ peer[c] \in [sent : Nat, unread : Nat,
                          fin : BOOLEAN, early : BOOLEAN, expired : BOOLEAN]
          /\ peer'[c] = [peer[c] EXCEPT !.expired = @ \/ c \in weak_conns']
    BY DEF tick, TypeOK
  <2>2. \A c \in Conns :
          /\ peer'[c] \in [sent : Nat, unread : Nat,
                           fin : BOOLEAN, early : BOOLEAN, expired : BOOLEAN]
          /\ peer'[c].fin = peer[c].fin /\ peer'[c].early = peer[c].early
          /\ peer'[c].expired = (peer[c].expired \/ c \in weak_conns')
          /\ peer'[c].sent = peer[c].sent
          /\ peer'[c].unread = peer[c].unread
    BY <2>1
  <2>3. peer' = [c \in Conns |-> peer'[c]]
    BY DEF tick
  <2> QED
    BY <2>2, <2>3
<1>4. TypeOK'
  BY <1>1, <1>2, <1>3, Types, WheelTypeNext DEF TypeOK
<1>5. Sockets' /\ Registration'
  BY <1>1 DEF Sockets, Registration, Born
<1>6. LoopHands'
  BY <1>1, <1>2, ThreadFacts DEF LoopHands, LoopHand, Born
<1>7. TickHands'
  <2>1. thr[TickThread].conn = None
    BY <1>1 DEF TickHands
  <2>2. \A c \in weak_conns' : c \in alive /\ c # main.conn
    BY <1>1 DEF tick, RegisteredInTime
  <2> QED
    BY <1>1, <1>2, <1>3, <2>1, <2>2, Types DEF TickHands, Sockets, Born
<1>8. QuietUntilDone'
  <2>1. \A c \in Conns : Quiet(c) => Quiet(c)'
    BY <1>1, <1>2, <1>3, ThreadFacts DEF Quiet
  <2>2. \A c \in Conns : Born(c)' = Born(c)
    BY <1>1 DEF Born
  <2>3. \A c \in Conns : peer[c].unread <= peer[c].sent
    BY DEF QuietUntilDone
  <2>4. \A c \in Conns : peer'[c].unread <= peer'[c].sent
    BY <1>3, <2>3
  <2> QED
    BY <1>1, <1>3, <2>1, <2>2, <2>4 DEF QuietUntilDone
<1>9. Served'
  BY <1>1, <1>2, <1>3, ThreadFacts DEF Served
<1> QED
  BY <1>1, <1>4, <1>5, <1>6, <1>7, <1>8, <1>9

LEMMA LockWeakKeeps ==
    ASSUME LifeInv, NEW c \in Conns, lock_weak(c)
    PROVE  LifeInv'
<1> USE DEF LifeInv
<1>1. /\ thr[TickThread].pc = "lock" /\ c \in weak_conns /\ weak_conns' = weak_conns \ {c}
      /\ UNCHANGED <<wheel_, node, timer_map_, current_slot_, running_, thread_, alive>>
      /\ UNCHANGED <<conns_, main, batch, setup, tree, writing, pending, keep, partial, peer, status>>
  BY DEF lock_weak, Wheel!close_expired, Wheel!wheelVars, connVars
<1>2. /\ thr' \in [Threads -> [pc : Steps, conn : Conns \union {None}]]
      /\ \/ c \notin alive /\ thr' = thr
         \/ c \in alive /\ thr'[TickThread].pc = "close" /\ thr'[TickThread].conn = c
      /\ \A u \in Threads : u # TickThread => thr'[u] = thr[u]
  <2>1. CASE c \in alive
    <3>1. thr' = [thr EXCEPT ![TickThread] = [pc |-> "close", conn |-> c]]
      BY <2>1 DEF lock_weak
    <3>2. "close" \in Steps /\ c \in Conns \union {None}
      BY DEF Steps
    <3> QED
      BY <2>1, <3>1, <3>2, Moves, ThreadFacts
  <2>2. CASE c \notin alive
    BY <2>2 DEF lock_weak, TypeOK
  <2> QED
    BY <2>1, <2>2
<1>3. ListsInv'
  BY <1>1, ListsUnchanged
<1>4. TypeOK'
  BY <1>1, <1>2, <1>3, Types, WheelTypeNext DEF TypeOK
<1>5. Sockets' /\ Registration'
  BY <1>1 DEF Sockets, Registration, Born
<1>6. LoopHands'
  BY <1>1, <1>2, ThreadFacts DEF LoopHands, LoopHand, Born
<1>7. TickHands'
  BY <1>1, <1>2 DEF TickHands, Born
<1>8. QuietUntilDone'
  BY <1>1, <1>2, ThreadFacts DEF QuietUntilDone, Quiet, Born
<1>9. Served'
  BY <1>1, <1>2, ThreadFacts DEF Served
<1> QED
  BY <1>3, <1>4, <1>5, <1>6, <1>7, <1>8, <1>9

LEMMA TickReturnKeeps ==
    ASSUME LifeInv, tick_return
    PROVE  LifeInv'
<1> USE DEF LifeInv
<1>1. /\ thr[TickThread].pc = "lock"
      /\ UNCHANGED <<wheel_, node, timer_map_, current_slot_, weak_conns, running_, thread_, alive>>
      /\ UNCHANGED <<conns_, main, batch, setup, tree, writing, pending, keep, partial, peer, status>>
  BY DEF tick_return, wheelVars, connVars
<1>2. /\ thr' \in [Threads -> [pc : Steps, conn : Conns \union {None}]]
      /\ thr'[TickThread].pc = "tick" /\ thr'[TickThread].conn = thr[TickThread].conn
      /\ \A u \in Threads : u # TickThread => thr'[u] = thr[u]
  BY GoesOn, ThreadFacts DEF tick_return, Steps
<1>3. ListsInv'
  BY <1>1, ListsUnchanged
<1>4. TypeOK'
  BY <1>1, <1>2, <1>3, Types, WheelTypeNext DEF TypeOK
<1>5. Sockets' /\ Registration'
  BY <1>1 DEF Sockets, Registration, Born
<1>6. LoopHands'
  BY <1>1, <1>2, ThreadFacts DEF LoopHands, LoopHand, Born
<1>7. TickHands'
  BY <1>1, <1>2 DEF TickHands, Born
<1>8. QuietUntilDone'
  BY <1>1, <1>2, ThreadFacts DEF QuietUntilDone, Quiet, Born
<1>9. Served'
  BY <1>1, <1>2, ThreadFacts DEF Served
<1> QED
  BY <1>3, <1>4, <1>5, <1>6, <1>7, <1>8, <1>9

LEMMA SendFields ==
    ASSUME NEW p \in [sent : Nat, unread : Nat,
                      fin : BOOLEAN, early : BOOLEAN, expired : BOOLEAN],
           NEW s \in Nat, NEW u \in Nat, NEW b \in BOOLEAN,
           NEW q, q = [p EXCEPT !.sent = s, !.unread = u, !.early = b]
    PROVE  /\ q \in [sent : Nat, unread : Nat,
                     fin : BOOLEAN, early : BOOLEAN, expired : BOOLEAN]
           /\ q.sent = s /\ q.unread = u /\ q.early = b /\ q.expired = p.expired
OBVIOUS

LEMMA FinFields ==
    ASSUME NEW p \in [sent : Nat, unread : Nat,
                      fin : BOOLEAN, early : BOOLEAN, expired : BOOLEAN],
           NEW b \in BOOLEAN, NEW q, q = [p EXCEPT !.fin = TRUE, !.early = b]
    PROVE  /\ q \in [sent : Nat, unread : Nat,
                     fin : BOOLEAN, early : BOOLEAN, expired : BOOLEAN]
           /\ q.sent = p.sent /\ q.unread = p.unread /\ q.early = b /\ q.expired = p.expired
OBVIOUS

\* A client acts on a connection that exists for it, before newconnection() is
\* done with it or after.
LEMMA ClientKeeps ==
    ASSUME LifeInv, NEW c \in Conns, client_send(c) \/ client_close(c)
    PROVE  LifeInv'
<1> USE DEF LifeInv
<1>1. /\ Born(c)
      /\ UNCHANGED <<wheel_, node, timer_map_, current_slot_, weak_conns, running_, thread_, alive>>
      /\ UNCHANGED <<conns_, main, thr, batch, setup, tree, writing, pending, keep, partial, status>>
  BY DEF client_send, client_close, MayAct, wheelVars, connVars
<1>2. /\ peer' \in [Conns -> [sent : Nat, unread : Nat,
                              fin : BOOLEAN, early : BOOLEAN, expired : BOOLEAN]]
      /\ \A d \in Conns : d # c => peer'[d] = peer[d]
      /\ peer'[c].early = (peer[c].early \/ main.conn = c)
      /\ peer'[c].expired = peer[c].expired
      /\ peer'[c].unread <= peer'[c].sent
  <2>1. /\ peer \in [Conns -> [sent : Nat, unread : Nat,
                               fin : BOOLEAN, early : BOOLEAN, expired : BOOLEAN]]
        /\ peer[c] \in [sent : Nat, unread : Nat,
                        fin : BOOLEAN, early : BOOLEAN, expired : BOOLEAN]
        /\ peer[c].unread <= peer[c].sent
        /\ Early(c) \in BOOLEAN
    BY DEF TypeOK, QuietUntilDone, Early
  <2>2. CASE client_send(c)
    <3>1. /\ peer' = [peer EXCEPT ![c].sent = @ + 1, ![c].unread = @ + 1, ![c].early = Early(c)]
          /\ peer[c].sent < MaxRequests[c]
      BY <2>2 DEF client_send
    <3>2. /\ peer[c].sent + 1 \in Nat
          /\ peer[c].unread + 1 \in Nat
          /\ peer[c].unread + 1 <= peer[c].sent + 1
      BY <2>1, <3>1, MaxRequestsAssumption
    <3>3. /\ peer'[c] = [peer[c] EXCEPT !.sent = peer[c].sent + 1, !.unread = peer[c].unread + 1,
                                        !.early = Early(c)]
          /\ \A d \in Conns : d # c => peer'[d] = peer[d]
          /\ peer' = [d \in Conns |-> peer'[d]]
      BY <2>1, <3>1
    <3> DEFINE s == peer[c].sent + 1
               u == peer[c].unread + 1
               b == Early(c)
               q == peer'[c]
    <3>4. /\ q \in [sent : Nat, unread : Nat,
                    fin : BOOLEAN, early : BOOLEAN, expired : BOOLEAN]
          /\ q.sent = s /\ q.unread = u /\ q.early = b /\ q.expired = peer[c].expired
      <4>1. s \in Nat /\ u \in Nat /\ b \in BOOLEAN
        BY <2>1, <3>2
      <4>2. q = [peer[c] EXCEPT !.sent = s, !.unread = u, !.early = b]
        BY <3>3
      <4> HIDE DEF s, u, b, q
      <4> QED
        BY <2>1, <4>1, <4>2, SendFields
    <3>5. \A d \in Conns : peer'[d] \in [sent : Nat, unread : Nat,
                                        fin : BOOLEAN, early : BOOLEAN, expired : BOOLEAN]
      BY <2>1, <3>3, <3>4
    <3> QED
      BY <3>2, <3>3, <3>4, <3>5 DEF Early
  <2>3. CASE client_close(c)
    <3>1. /\ peer'[c] = [peer[c] EXCEPT !.fin = TRUE, !.early = Early(c)]
          /\ \A d \in Conns : d # c => peer'[d] = peer[d]
          /\ peer' = [d \in Conns |-> peer'[d]]
      BY <2>1, <2>3 DEF client_close
    <3>2. /\ peer'[c] \in [sent : Nat, unread : Nat,
                           fin : BOOLEAN, early : BOOLEAN, expired : BOOLEAN]
          /\ peer'[c].sent = peer[c].sent /\ peer'[c].unread = peer[c].unread
          /\ peer'[c].early = Early(c) /\ peer'[c].expired = peer[c].expired
      BY <2>1, <3>1, FinFields
    <3>3. \A d \in Conns : peer'[d] \in [sent : Nat, unread : Nat,
                                        fin : BOOLEAN, early : BOOLEAN, expired : BOOLEAN]
      <4>1. \A d \in Conns : peer'[d] = peer[d] \/ d = c
        BY <3>1
      <4>2. \A d \in Conns : peer[d] \in [sent : Nat, unread : Nat,
                                          fin : BOOLEAN, early : BOOLEAN, expired : BOOLEAN]
        BY <2>1
      <4> QED
        BY <3>2, <4>1, <4>2
    <3> QED
      BY <2>1, <3>1, <3>2, <3>3 DEF Early
  <2> QED
    BY <2>2, <2>3
<1>3. ListsInv'
  BY <1>1, ListsUnchanged
<1>4. TypeOK'
  BY <1>1, <1>2, <1>3, Types, WheelTypeNext DEF TypeOK
<1>5. Sockets' /\ Registration'
  BY <1>1 DEF Sockets, Registration, Born
<1>6. LoopHands'
  BY <1>1 DEF LoopHands, LoopHand, Born
<1>7. TickHands'
  BY <1>1, <1>2, Types DEF TickHands, Born
<1>8. QuietUntilDone'
  <2>1. \A d \in Conns : d # c => (Quiet(d)' <=> Quiet(d))
    BY <1>1, <1>2 DEF Quiet
  <2> QED
    BY <1>1, <1>2, <2>1 DEF QuietUntilDone, Born
<1>9. Served'
  BY <1>1, <1>2 DEF Served
<1> QED
  BY <1>3, <1>4, <1>5, <1>6, <1>7, <1>8, <1>9

\* The process ends in the state it is in.
LEMMA EndKeeps ==
    ASSUME LifeInv, NEW how \in {"exit", "terminate", "uaf", "overrun"}, Ends(how)
    PROVE  LifeInv'
<1> USE DEF LifeInv
<1>1. /\ UNCHANGED <<wheel_, node, timer_map_, current_slot_, weak_conns, running_, thread_, alive>>
      /\ UNCHANGED <<conns_, main, thr, batch, setup, tree, writing, pending, keep, partial, peer>>
      /\ status' = how
  BY DEF Ends, wheelVars, connVars
<1>2. ListsInv'
  BY <1>1, ListsUnchanged
<1>3. TypeOK'
  BY <1>1, <1>2, Types, WheelTypeNext DEF TypeOK
<1>4. Sockets' /\ Registration' /\ LoopHands' /\ TickHands' /\ QuietUntilDone' /\ Served'
  BY <1>1 DEF Sockets, Registration, LoopHands, LoopHand, TickHands, QuietUntilDone, Quiet, Served, Born
<1> QED
  BY <1>2, <1>3, <1>4

LEMMA IdleKeeps ==
    ASSUME LifeInv, UNCHANGED vars
    PROVE  LifeInv'
<1> USE DEF LifeInv
<1>1. /\ UNCHANGED <<wheel_, node, timer_map_, current_slot_, weak_conns, running_, thread_, alive>>
      /\ UNCHANGED <<conns_, main, thr, batch, setup, tree, writing, pending, keep, partial, peer, status>>
  BY DEF vars, wheelVars, connVars
<1>2. ListsInv'
  BY <1>1, ListsUnchanged
<1>3. TypeOK'
  BY <1>1, <1>2, Types, WheelTypeNext DEF TypeOK
<1>4. Sockets' /\ Registration' /\ LoopHands' /\ TickHands' /\ QuietUntilDone' /\ Served'
  BY <1>1 DEF Sockets, Registration, LoopHands, LoopHand, TickHands, QuietUntilDone, Quiet, Served, Born
<1> QED
  BY <1>2, <1>3, <1>4

LEMMA ClosingKeeps ==
    ASSUME LifeInv, NEW t \in Threads, Closing(t)
    PROVE  LifeInv'
BY RemoveChannelKeeps, UnhookKeeps, EraseKeeps, EndKeeps
   DEF Closing, remove_channel_fails, unhook_throws

LEMMA LoopStepKeeps ==
    ASSUME LifeInv, NEW l \in Loops, LoopStep(l)
    PROVE  LifeInv'
<1>1. CASE Closing(l)
  BY <1>1, ClosingKeeps, ThreadFacts
<1>2. CASE epoll_wait(l) \/ loop_again(l) \/ handleevent(l) \/ read_socket(l)
  BY <1>2, EpollWaitKeeps, LoopAgainKeeps, HandleeventKeeps, ReadSocketKeeps
<1>3. CASE renew_timer(l) \/ parse_request(l) \/ write_all(l) \/ write_some(l) \/ write_error(l)
  BY <1>3, RenewKeeps, ParseRequestKeeps, WriteKeeps
<1>4. CASE renew_throws(l) \/ parse_breaks(l) \/ modify_fails(l) \/ use_after_free(l)
  BY <1>4, EndKeeps DEF renew_throws, parse_breaks, modify_fails, use_after_free
<1> QED
  BY <1>1, <1>2, <1>3, <1>4 DEF LoopStep

LEMMA NextLife == LifeInv /\ [Next]_vars => LifeInv'
<1> SUFFICES ASSUME LifeInv, [Next]_vars PROVE LifeInv'
  OBVIOUS
<1>1. CASE MainStep
  BY <1>1, StartKeeps, AcceptKeeps, SetCallbackKeeps, AddStoreKeeps, ReturnKeeps DEF MainStep
<1>2. ASSUME NEW l \in Loops, LoopStep(l) PROVE LifeInv'
  BY <1>2, LoopStepKeeps
<1>3. CASE TickStep
  BY <1>3, TickKeeps, LockWeakKeeps, TickReturnKeeps, ClosingKeeps, ThreadFacts DEF TickStep
<1>4. ASSUME NEW c \in Conns, client_send(c) \/ client_close(c) PROVE LifeInv'
  BY <1>4, ClientKeeps
<1>5. CASE UNCHANGED vars
  BY <1>5, IdleKeeps
<1> QED
  BY <1>1, <1>2, <1>3, <1>4, <1>5 DEF Next

\* The inductive invariant of the life of connections.
THEOREM LifeInvariance == Spec => []LifeInv
BY InitLife, NextLife, PTL DEF Spec

\* Type correctness, with the time wheel's: no thread breaks the wheel, however
\* the three kinds of threads interleave in it.
THEOREM TypeCorrect == Spec => []TypeOK
<1>1. LifeInv => TypeOK
  BY DEF LifeInv
<1> QED
  BY <1>1, LifeInvariance, PTL

----------------------------------------------------------------------------
(* Output, the end of the process, and the use of the wheel.               *)

\* Data to write and EPOLLOUT go together, on a registered channel.
Watched == \A c \in tree : c \in pending <=> c \in writing

\* The steps that change the epoll tree, EPOLLOUT or outputbuffer_.
OutputSteps ==
    \/ \E c \in Conns : accept(c)
    \/ newconnection_return
    \/ \E t \in Threads : remove_channel(t) \/ erase_conn(t)
    \/ \E l \in Loops : parse_request(l) \/ write_all(l)

LEMMA OthersKeepOutput ==
    ASSUME [Next]_vars, ~OutputSteps
    PROVE  UNCHANGED <<tree, writing, pending>>
<1>1. CASE MainStep
  BY <1>1 DEF MainStep, OutputSteps, start, set_callback, add_new_conn_timernode, store_conn,
              connVars
<1>2. ASSUME NEW t \in Threads, Closing(t) PROVE UNCHANGED <<tree, writing, pending>>
  BY <1>2 DEF Closing, OutputSteps, remove_channel_fails, unhook_timer, unhook_throws, Ends,
              connVars
<1>3. ASSUME NEW l \in Loops, LoopStep(l) PROVE UNCHANGED <<tree, writing, pending>>
  BY <1>2, <1>3, ThreadFacts
     DEF LoopStep, OutputSteps, epoll_wait, loop_again, handleevent, read_socket, renew_timer,
         renew_throws, parse_breaks, modify_fails, write_some, write_error, use_after_free, Ends, connVars
<1>4. CASE TickStep
  BY <1>2, <1>4, ThreadFacts DEF TickStep, tick, lock_weak, tick_return, connVars
<1>5. ASSUME NEW c \in Conns, client_send(c) \/ client_close(c)
      PROVE  UNCHANGED <<tree, writing, pending>>
  BY <1>5 DEF client_send, client_close, connVars
<1>6. CASE UNCHANGED vars
  BY <1>6 DEF vars, connVars
<1> QED
  BY <1>1, <1>3, <1>4, <1>5, <1>6 DEF Next

LEMMA WatchedNext == LifeInv /\ Watched /\ [Next]_vars => Watched'
<1> SUFFICES ASSUME LifeInv, Watched, [Next]_vars PROVE Watched'
  OBVIOUS
<1>1. ASSUME NEW c \in Conns, accept(c) PROVE Watched'
  <2>1. c \notin pending /\ c \notin writing
    BY <1>1 DEF accept, LifeInv, QuietUntilDone, Quiet
  <2> QED
    BY <1>1, <2>1 DEF Watched, accept
<1>2. CASE newconnection_return
  BY <1>2, ReleasesMembers DEF Watched, newconnection_return
<1>3. ASSUME NEW t \in Threads, remove_channel(t) \/ erase_conn(t) PROVE Watched'
  BY <1>3, ReleasesMembers DEF Watched, remove_channel, erase_conn
<1>4. ASSUME NEW l \in Loops, parse_request(l) \/ write_all(l) PROVE Watched'
  BY <1>4 DEF Watched, parse_request, write_all
<1>5. CASE ~OutputSteps
  BY <1>5, OthersKeepOutput DEF Watched
<1> QED
  BY <1>1, <1>2, <1>3, <1>4, <1>5 DEF OutputSteps

\* A registered connection has data in outputbuffer_ exactly when its loop
\* watches for EPOLLOUT: no response is left behind and no loop spins.
THEOREM OutputAlwaysWatched == Spec => []OutputIsWatched
<1>1. Init => Watched
  BY DEF Init, Watched
<1>2. Watched => OutputIsWatched
  BY DEF Watched, OutputIsWatched
<1> QED
  BY <1>1, <1>2, WatchedNext, LifeInvariance, PTL DEF Spec

\* A connection that an IO thread uses although it is not registered any more
\* was used too early, or the tick thread collected it.
LEMMA UsedWrongly ==
    ASSUME LifeInv, NEW l \in Loops, NEW c \in Conns,
           \/ thr[l].conn = c /\ c \notin alive
           \/ thr[l].conn = c /\ thr[l].pc \notin {"unhook", "erase"} /\ c \notin tree
           \/ \E e \in batch[l] : e[1] = c /\ c \notin tree
    PROVE  peer[c].early \/ peer[c].expired
BY DEF LifeInv, Served

\* A thread that meets a missing callback is an IO thread whose client acted
\* before newconnection() was done.
LEMMA CallbackMissing ==
    ASSUME LifeInv, NEW t \in Threads, thr[t].conn \in Conns,
           Born(thr[t].conn), setup[thr[t].conn] < AllCallbacks
    PROVE  peer[thr[t].conn].early
<1>1. main.conn = thr[t].conn
  BY DEF LifeInv, Registration
<1>2. t # TickThread
  BY <1>1, NoneAssumption DEF LifeInv, TickHands
<1> QED
  BY <1>1, <1>2, ThreadFacts DEF LifeInv, QuietUntilDone, Quiet

LEMMA ClosingEnds ==
    ASSUME LifeInv, NEW t \in Threads, remove_channel_fails(t) \/ unhook_throws(t)
    PROVE  EndsAreKnown'
<1> DEFINE c == thr[t].conn
<1>0. /\ c \in alive /\ c \in Conns /\ Born(c) /\ peer' = peer
  BY Types DEF remove_channel_fails, unhook_throws, At, Ends, LifeInv, Sockets
<1>1. CASE remove_channel_fails(t)
  <2>1. /\ thr[t].pc = "close" /\ c \notin tree /\ status' = "exit"
    BY <1>1 DEF remove_channel_fails, At, Ends
  <2>2. peer[c].early \/ peer[c].expired
    <3>1. CASE t = TickThread
      BY <2>1, <3>1 DEF LifeInv, TickHands
    <3>2. CASE t \in Loops
      BY <1>0, <2>1, <3>2, UsedWrongly
    <3> QED
      BY <3>1, <3>2, ThreadFacts
  <2> QED
    BY <1>0, <2>1, <2>2 DEF EndsAreKnown
<1>2. CASE unhook_throws(t)
  <2>1. setup[c] \in Int /\ setup[c] < AllCallbacks
    BY <1>0, <1>2, Types DEF unhook_throws, CloseCallback, AllCallbacks, LifeInv
  <2>2. peer[c].early
    BY <1>0, <2>1, CallbackMissing
  <2> QED
    BY <1>0, <2>2 DEF EndsAreKnown
<1> QED
  BY <1>1, <1>2

LEMMA LoopEnds ==
    ASSUME LifeInv, NEW l \in Loops,
           renew_throws(l) \/ parse_breaks(l) \/ modify_fails(l) \/ use_after_free(l)
    PROVE  EndsAreKnown'
<1>0. peer' = peer /\ partial' = partial /\ l \in Threads
  BY ThreadFacts DEF renew_throws, parse_breaks, modify_fails, use_after_free, Ends, connVars
<1>1. CASE renew_throws(l)
  <2>1. thr[l].conn \in Conns /\ Born(thr[l].conn) /\ setup[thr[l].conn] < AllCallbacks
    BY <1>1, Types DEF renew_throws, At, LifeInv, Sockets
  <2>2. peer[thr[l].conn].early
    BY <1>0, <2>1, CallbackMissing
  <2> QED
    BY <1>0, <2>1, <2>2 DEF EndsAreKnown
<1>2. CASE parse_breaks(l)
  <2>1. /\ thr[l].conn \in partial /\ thr[l].conn \in Conns
        /\ status' \in {"terminate", "overrun"}
    BY <1>2, Types DEF parse_breaks, Ends, LifeInv
  <2> QED
    BY <1>0, <2>1 DEF EndsAreKnown
<1>3. CASE modify_fails(l)
  <2>1. /\ thr[l].conn \in Conns /\ thr[l].pc \in {"respond", "write"}
        /\ thr[l].conn \notin tree /\ status' = "exit"
    BY <1>3, Types DEF modify_fails, At, Ends, LifeInv
  <2> QED
    BY <1>0, <2>1, UsedWrongly DEF EndsAreKnown
<1>4. CASE use_after_free(l)
  <2>1. status' = "uaf"
    BY <1>4 DEF use_after_free, Ends
  <2>2. PICK c \in Conns : peer[c].early \/ peer[c].expired
    <3>1. ASSUME NEW e \in batch[l], e[1] \notin alive
          PROVE  \E c \in Conns : peer[c].early \/ peer[c].expired
      <4>1. e[1] \in Conns /\ e[1] \notin tree
        BY <3>1, Types DEF LifeInv
      <4> QED
        BY <4>1, UsedWrongly
    <3>2. ASSUME thr[l].pc \in {"read", "renew", "respond", "write", "close", "unhook"},
                 thr[l].conn \notin alive
          PROVE  \E c \in Conns : peer[c].early \/ peer[c].expired
      <4>1. thr[l].conn \in Conns
        BY <3>2 DEF LifeInv, LoopHands, LoopHand
      <4> QED
        BY <3>2, <4>1, UsedWrongly
    <3> QED
      BY <1>4, <3>1, <3>2 DEF use_after_free
  <2> QED
    BY <1>0, <2>1, <2>2 DEF EndsAreKnown
<1> QED
  BY <1>1, <1>2, <1>3, <1>4

\* Every other step leaves the process running.
EndSteps ==
    \/ \E t \in Threads : remove_channel_fails(t) \/ unhook_throws(t)
    \/ \E l \in Loops :
          renew_throws(l) \/ parse_breaks(l) \/ modify_fails(l) \/ use_after_free(l)

LEMMA OthersKeepRunning ==
    ASSUME Next, ~EndSteps
    PROVE  status' = status
<1>1. CASE MainStep
  BY <1>1 DEF MainStep, start, accept, set_callback, add_new_conn_timernode, store_conn,
              newconnection_return
<1>2. ASSUME NEW t \in Threads, Closing(t) PROVE status' = status
  BY <1>2 DEF Closing, EndSteps, remove_channel, unhook_timer, erase_conn
<1>3. ASSUME NEW l \in Loops, LoopStep(l) PROVE status' = status
  BY <1>2, <1>3, ThreadFacts
     DEF LoopStep, EndSteps, epoll_wait, loop_again, handleevent, read_socket, renew_timer,
         parse_request, write_all, write_some, write_error
<1>4. CASE TickStep
  BY <1>2, <1>4, ThreadFacts DEF TickStep, tick, lock_weak, tick_return
<1>5. ASSUME NEW c \in Conns, client_send(c) \/ client_close(c) PROVE status' = status
  BY <1>5 DEF client_send, client_close
<1> QED
  BY <1>1, <1>3, <1>4, <1>5 DEF Next

\* The process ends only by a client that acts before newconnection() is done, by a
\* connection that the tick thread collected while its loop used it, or by a request
\* that arrives in parts.
THEOREM AlwaysEndsKnown == Spec => []EndsAreKnown
<1>1. Init => EndsAreKnown
  BY DEF Init, EndsAreKnown
<1>2. LifeInv /\ EndsAreKnown /\ [Next]_vars => EndsAreKnown'
  <2> SUFFICES ASSUME LifeInv, EndsAreKnown, [Next]_vars PROVE EndsAreKnown'
    OBVIOUS
  <2>1. CASE UNCHANGED vars
    BY <2>1 DEF vars, connVars, EndsAreKnown
  <2>2. CASE Next /\ EndSteps
    BY <2>2, ClosingEnds, LoopEnds DEF EndSteps
  <2>3. CASE Next /\ ~EndSteps
    <3>1. status' = "running"
      BY <2>3, OthersKeepRunning DEF Next
    <3> QED
      BY <3>1 DEF EndsAreKnown
  <2> QED
    BY <2>1, <2>2, <2>3
<1> QED
  BY <1>1, <1>2, LifeInvariance, PTL DEF Spec

\* The steps that call the wheel, or change which connections exist.
LEMMA WheelStep ==
    ASSUME LifeInv, Next
    PROVE  [Wheel!Next]_(Wheel!vars)
<1> USE DEF LifeInv
<1>0. ASSUME UNCHANGED wheelVars PROVE UNCHANGED Wheel!vars
  BY <1>0 DEF wheelVars, Wheel!vars, Wheel!wheelVars
<1>1. ASSUME NEW c \in Conns, c \in alive, ReleaseIfUnowned(c),
             UNCHANGED <<wheel_, node, timer_map_, current_slot_, weak_conns, running_, thread_>>
      PROVE  [Wheel!Next]_(Wheel!vars)
  <2>1. CASE alive' = alive
    BY <1>1, <2>1 DEF Wheel!vars, Wheel!wheelVars
  <2>2. CASE alive' = alive \ {c}
    BY <1>1, <2>2 DEF Wheel!Next, Wheel!Destroy, Wheel!wheelVars
  <2> QED
    BY <1>1, <2>1, <2>2, Releases
<1>2. CASE MainStep
  <2>1. CASE start
    BY <2>1 DEF start, Wheel!Next
  <2>2. ASSUME NEW c \in Conns, accept(c) PROVE Wheel!Next
    BY <2>2 DEF accept, Wheel!Next
  <2>3. CASE set_callback \/ store_conn
    BY <1>0, <2>3 DEF set_callback, store_conn
  <2>4. CASE add_new_conn_timernode
    BY <2>4 DEF add_new_conn_timernode, Registration, Wheel!Next
  <2>5. CASE newconnection_return
    <3>1. main.conn \in alive /\ main.conn \in Conns
      BY <2>5, Types DEF newconnection_return, Registration
    <3> QED
      BY <1>1, <2>5, <3>1 DEF newconnection_return
  <2> QED
    BY <1>2, <2>1, <2>2, <2>3, <2>4, <2>5 DEF MainStep
<1>3. ASSUME NEW t \in Threads, Closing(t) PROVE [Wheel!Next]_(Wheel!vars)
  <2>1. CASE remove_channel(t) \/ remove_channel_fails(t) \/ unhook_throws(t)
    BY <1>0, <2>1 DEF remove_channel, remove_channel_fails, unhook_throws, Ends
  <2>2. CASE unhook_timer(t)
    BY <2>2 DEF unhook_timer, At, Wheel!Next
  <2>3. CASE erase_conn(t)
    <3>1. thr[t].conn \in alive /\ thr[t].conn \in Conns
      BY <2>3, Types DEF erase_conn, At
    <3> QED
      BY <1>1, <2>3, <3>1 DEF erase_conn
  <2> QED
    BY <1>3, <2>1, <2>2, <2>3 DEF Closing
<1>4. ASSUME NEW l \in Loops, LoopStep(l) PROVE [Wheel!Next]_(Wheel!vars)
  <2>1. CASE renew_timer(l)
    BY <2>1 DEF renew_timer, At, Wheel!Next
  <2>2. CASE Closing(l)
    BY <1>3, <2>2, ThreadFacts
  <2>3. CASE ~renew_timer(l) /\ ~Closing(l)
    BY <1>0, <1>4, <2>3
       DEF LoopStep, epoll_wait, loop_again, handleevent, read_socket, renew_throws,
           parse_request, parse_breaks, modify_fails, write_all, write_some, write_error, use_after_free, Ends
  <2> QED
    BY <2>1, <2>2, <2>3
<1>5. CASE TickStep
  <2>1. CASE tick
    BY <2>1 DEF tick, Wheel!Next
  <2>2. ASSUME NEW c \in Conns, lock_weak(c) PROVE Wheel!Next
    BY <2>2 DEF lock_weak, Wheel!Next
  <2>3. CASE tick_return
    BY <1>0, <2>3 DEF tick_return
  <2> QED
    BY <1>3, <1>5, <2>1, <2>2, <2>3, ThreadFacts DEF TickStep
<1>6. ASSUME NEW c \in Conns, client_send(c) \/ client_close(c) PROVE [Wheel!Next]_(Wheel!vars)
  BY <1>0, <1>6 DEF client_send, client_close
<1> QED
  BY <1>2, <1>4, <1>5, <1>6 DEF Next

\* Refinement: the three kinds of threads use the time wheel as TimeWheel
\* specifies it, so what is proved of the wheel holds inside the server.
THEOREM ImplementsWheelSpec == Spec => WheelSpec
<1>1. Init => Wheel!Init
  BY DEF Init
<1>2. LifeInv /\ [Next]_vars => [Wheel!Next]_(Wheel!vars)
  <2>1. UNCHANGED vars => UNCHANGED Wheel!vars
    BY DEF vars, wheelVars, Wheel!vars, Wheel!wheelVars
  <2> QED
    BY <2>1, WheelStep
<1> QED
  BY <1>1, <1>2, LifeInvariance, PTL DEF Spec, WheelSpec, Wheel!Spec

----------------------------------------------------------------------------
(* The three registries.                                                   *)

\* Clients only become impatient.
LEMMA PatientBefore ==
    ASSUME [Next]_vars, LifeInv
    PROVE  PatientFds' \subseteq PatientFds
<1>1. \A c \in Conns : peer[c].early => peer'[c].early
  <2>1. ASSUME NEW c \in Conns, client_send(c) \/ client_close(c)
        PROVE  \A d \in Conns : peer[d].early => peer'[d].early
    <3>1. /\ \A d \in Conns : d # c => peer'[d] = peer[d]
          /\ peer'[c].early = Early(c)
      BY <2>1 DEF client_send, client_close, LifeInv, TypeOK
    <3> QED
      BY <3>1 DEF Early
  <2>2. CASE tick
    <3>1. \A d \in Conns : peer'[d].early = peer[d].early
      BY <2>2 DEF tick, LifeInv, TypeOK
    <3> QED
      BY <3>1
  <2>3. ASSUME NEW l \in Loops, read_socket(l)
        PROVE  \A d \in Conns : peer[d].early => peer'[d].early
    BY <2>3 DEF read_socket, LifeInv, TypeOK
  <2>4. ASSUME NEW t \in Threads, Closing(t) PROVE peer' = peer
    BY <2>4 DEF Closing, remove_channel, remove_channel_fails, unhook_timer, unhook_throws,
                erase_conn, Ends
  <2>5. CASE MainStep
    BY <2>5 DEF MainStep, start, accept, set_callback, add_new_conn_timernode, store_conn,
                newconnection_return
  <2>6. ASSUME NEW l \in Loops, LoopStep(l), ~read_socket(l) PROVE peer' = peer
    BY <2>4, <2>6, ThreadFacts
       DEF LoopStep, epoll_wait, loop_again, handleevent, renew_timer, renew_throws,
           parse_request, parse_breaks, modify_fails, write_all, write_some, write_error, use_after_free, Ends
  <2>7. CASE TickStep /\ ~tick
    BY <2>4, <2>7, ThreadFacts DEF TickStep, lock_weak, tick_return
  <2>8. CASE UNCHANGED vars
    BY <2>8 DEF vars
  <2> QED
    BY <2>1, <2>2, <2>3, <2>5, <2>6, <2>7, <2>8 DEF Next
<1> QED
  BY <1>1 DEF Patient, PatientFds

\* With patient clients no thread has in hand what newconnection() works on.
LEMMA MainAlone ==
    ASSUME LifeInv, NEW c \in Conns, main.conn = c, FdOf[c] \in PatientFds
    PROVE  \A t \in Threads : thr[t].conn # c
<1>1. ~peer[c].early
  BY DEF Patient, PatientFds
<1>2. \A l \in Loops : thr[l].conn # c
  BY <1>1 DEF LifeInv, QuietUntilDone, Quiet
<1>3. thr[TickThread].conn # c
  BY NoneAssumption DEF LifeInv, TickHands
<1> QED
  BY <1>2, <1>3, ThreadFacts

\* Two existing connections are the same when a node or an entry relates them
\* to one descriptor.
LEMMA SameSocket ==
    ASSUME LifeInv, NEW c \in alive, NEW d \in alive, FdOf[c] = FdOf[d]
    PROVE  c = d
BY DEF LifeInv, Sockets

LEMMA InitReg == Init => RegInv
BY NoneAssumption, ThreadFacts
   DEF Init, RegInv, NodesKept, NodeLifetime, Registers, Wheel!Init

\* The steps that touch no registry and begin or end no closing.
LEMMA OtherKeepsReg ==
    ASSUME LifeInv, RegInv, PatientFds' \subseteq PatientFds,
           UNCHANGED <<node, timer_map_, weak_conns, alive, conns_, tree>>,
           main' = main \/ (main.conn = None /\ main'.conn = None /\ main'.pc = "accept"),
           \A t \in Threads :
              \/ thr'[t] = thr[t]
              \/ /\ thr[t].pc \notin {"unhook", "erase"} /\ thr'[t].pc \notin {"unhook", "erase"}
                 /\ t = TickThread => thr'[t].conn = thr[t].conn
    PROVE  RegInv'
<1>1. NodesKept'
  BY DEF RegInv, NodesKept
<1>2. NodeLifetime'
  BY DEF RegInv, NodeLifetime, Untimed
<1>3. BeingClosed' = BeingClosed
  BY ThreadFacts DEF BeingClosed
<1>4. \A c \in alive : c # None
  BY NoneAssumption, Types DEF LifeInv
<1>5. Registers'
  BY <1>3, <1>4 DEF RegInv, Registers, Timed
<1> QED
  BY <1>1, <1>2, <1>5 DEF RegInv

LEMMA AcceptKeepsReg ==
    ASSUME LifeInv, RegInv, PatientFds' \subseteq PatientFds, NEW c \in Conns, accept(c)
    PROVE  RegInv'
<1>1. /\ main.pc = "accept" /\ main.conn = None /\ ~Born(c)
      /\ main' = [pc |-> "set", conn |-> c]
      /\ tree' = tree \union {c} /\ alive' = alive \union {c}
      /\ UNCHANGED <<node, timer_map_, weak_conns, conns_, thr>>
  BY DEF accept, Wheel!Connect, Wheel!wheelVars, LifeInv, Registration
<1>2. NodesKept'
  BY <1>1 DEF RegInv, NodesKept
<1>3. FdOf[c] \in PatientFds => c \in Untimed
  BY <1>1, ListsFacts DEF RegInv, NodesKept, Untimed, LifeInv, Sockets
<1>4. NodeLifetime'
  BY <1>1, <1>3 DEF RegInv, NodeLifetime, Untimed
<1>5. BeingClosed' = BeingClosed
  BY <1>1 DEF BeingClosed
<1>6. \A d \in alive : d # None
  BY NoneAssumption, Types DEF LifeInv
<1>7. Registers'
  BY <1>1, <1>5, <1>6 DEF RegInv, Registers, Timed
<1> QED
  BY <1>2, <1>4, <1>7 DEF RegInv

LEMMA SetCallbackKeepsReg ==
    ASSUME LifeInv, RegInv, PatientFds' \subseteq PatientFds, set_callback
    PROVE  RegInv'
<1>1. /\ main.pc = "set" /\ main'.conn = main.conn /\ main'.pc \in {"set", "add"}
      /\ UNCHANGED <<node, timer_map_, weak_conns, alive, conns_, tree, thr>>
  BY DEF set_callback, wheelVars, StageAfter, LifeInv, TypeOK
<1>2. NodesKept'
  BY <1>1 DEF RegInv, NodesKept
<1>3. NodeLifetime'
  BY <1>1 DEF RegInv, NodeLifetime, Untimed
<1>4. BeingClosed' = BeingClosed
  BY <1>1 DEF BeingClosed
<1>5. Registers'
  BY <1>1, <1>4 DEF RegInv, Registers, Timed
<1> QED
  BY <1>2, <1>3, <1>5 DEF RegInv

LEMMA AddKeepsReg ==
    ASSUME LifeInv, RegInv, PatientFds' \subseteq PatientFds, add_new_conn_timernode
    PROVE  RegInv'
<1>0. PICK c \in Conns : main.conn = c /\ c \in alive
  BY Types DEF add_new_conn_timernode, LifeInv, Registration
<1>1. /\ main.pc = "add" /\ main.conn = c /\ c \in alive /\ FdOf[c] \in Fds
      /\ main'.pc = "store" /\ main'.conn = c
      /\ UNCHANGED <<weak_conns, alive, conns_, tree, thr>>
  BY <1>0, Types, FdOfAssumption
     DEF add_new_conn_timernode, Wheel!add_connection, connVars, LifeInv, Registration, TypeOK
<1>2. PICK n \in Nodes :
        /\ node[n] = None
        /\ timer_map_' = [timer_map_ EXCEPT ![FdOf[c]] = n]
        /\ node'[n] # None /\ node'[n].conn = c /\ node'[n].fd = FdOf[c]
        /\ \A m \in Nodes \ {n} : node'[m] = node[m]
  BY <1>0, <1>1, Adds DEF add_new_conn_timernode, LifeInv
<1>3. \A f \in Fds : timer_map_'[f] = IF f = FdOf[c] THEN n ELSE timer_map_[f]
  BY <1>1, <1>2, ListsFacts DEF LifeInv
<1>4. \A m \in Nodes : node[m] # None /\ node[m].fd \in PatientFds => node[m].fd # FdOf[c]
  <2> SUFFICES ASSUME NEW m \in Nodes, node[m] # None, node[m].fd \in PatientFds,
                      node[m].fd = FdOf[c]
               PROVE  FALSE
    OBVIOUS
  <2>1. node[m].conn \in alive /\ FdOf[node[m].conn] = FdOf[c]
    BY ListsFacts DEF RegInv, NodesKept, LifeInv
  <2>2. node[m].conn = c
    BY <1>1, <2>1, SameSocket
  <2> QED
    BY <1>1, <2>2 DEF RegInv, NodeLifetime, Untimed
<1>5. NodesKept'
  <2> SUFFICES ASSUME NEW m \in Nodes, node'[m] # None, node'[m].fd \in PatientFds'
               PROVE  node'[m].conn \in alive /\ timer_map_'[node'[m].fd] = m
    BY <1>1 DEF NodesKept
  <2>1. CASE m = n
    BY <1>1, <1>2, <1>3, <2>1
  <2>2. CASE m # n
    <3>1. node'[m] = node[m] /\ node[m].fd \in PatientFds
      BY <1>2, <2>2
    <3> QED
      BY <1>3, <1>4, <3>1, ListsFacts DEF RegInv, NodesKept, LifeInv
  <2> QED
    BY <2>1, <2>2
<1>6. ASSUME NEW d, d # c, d \in Untimed PROVE d \in Untimed'
  BY <1>2, <1>6 DEF Untimed
<1>7. NodeLifetime'
  <2>1. \A t \in Threads : FdOf[c] \in PatientFds => thr[t].conn # c
    BY <1>1, MainAlone
  <2> QED
    BY <1>1, <1>6, <2>1 DEF RegInv, NodeLifetime
<1>8. BeingClosed' = BeingClosed
  BY <1>1 DEF BeingClosed
<1>9. \A d \in alive : d # c /\ Timed(d) => Timed(d)'
  <2> SUFFICES ASSUME NEW d \in alive, d # c, Timed(d) PROVE Timed(d)'
    OBVIOUS
  <2>1. FdOf[d] \in Fds /\ FdOf[d] # FdOf[c]
    BY <1>1, SameSocket, Types, FdOfAssumption DEF LifeInv
  <2>2. CASE d \in weak_conns
    BY <1>1, <2>2 DEF Timed
  <2>3. CASE timer_map_[FdOf[d]] # None /\ node[timer_map_[FdOf[d]]].conn = d
    BY <1>2, <1>3, <2>1, <2>3, ListsFacts DEF Timed, LifeInv
  <2> QED
    BY <2>2, <2>3 DEF Timed
<1>10. Timed(c)'
  BY <1>1, <1>2, <1>3, WheelAssumptions DEF Timed
<1>11. Registers'
  BY <1>1, <1>8, <1>9, <1>10 DEF RegInv, Registers
<1> QED
  BY <1>5, <1>7, <1>11 DEF RegInv

LEMMA StoreKeepsReg ==
    ASSUME LifeInv, RegInv, PatientFds' \subseteq PatientFds, store_conn
    PROVE  RegInv'
<1>0. PICK c \in Conns : main.conn = c /\ c \in alive
  BY Types DEF store_conn, LifeInv, Registration
<1>1. /\ main.pc = "store" /\ main.conn = c /\ c \in alive /\ FdOf[c] \in Fds
      /\ main'.pc = "return" /\ main'.conn = c
      /\ conns_' = [conns_ EXCEPT ![FdOf[c]] = c]
      /\ UNCHANGED <<node, timer_map_, weak_conns, alive, tree, thr>>
  BY <1>0, Types, FdOfAssumption DEF store_conn, wheelVars, connVars, LifeInv, Registration, TypeOK
<1>2. NodesKept'
  BY <1>0, <1>1 DEF RegInv, NodesKept
<1>3. NodeLifetime'
  BY <1>1 DEF RegInv, NodeLifetime, Untimed
<1>4. BeingClosed' = BeingClosed
  BY <1>1 DEF BeingClosed
<1>5. conns_'[FdOf[c]] = c /\ \A d \in alive : d # c => conns_'[FdOf[d]] = conns_[FdOf[d]]
  BY <1>1, Types, SameSocket, FdOfAssumption DEF LifeInv
<1>6. Registers'
  BY <1>1, <1>4, <1>5 DEF RegInv, Registers, Timed
<1> QED
  BY <1>2, <1>3, <1>6 DEF RegInv

LEMMA ReturnKeepsReg ==
    ASSUME LifeInv, RegInv, PatientFds' \subseteq PatientFds, newconnection_return
    PROVE  RegInv'
<1>0. PICK c \in Conns : main.conn = c /\ c \in alive
  BY Types DEF newconnection_return, LifeInv, Registration
<1>1. /\ main.pc = "return" /\ main.conn = c /\ c \in alive
      /\ main' = [pc |-> "accept", conn |-> None]
      /\ UNCHANGED <<node, timer_map_, weak_conns, conns_, thr>>
  BY <1>0, Types DEF newconnection_return, LifeInv, Registration
<1>2. \/ alive' = alive /\ tree' = tree
      \/ ~OwnedAfter(c) /\ alive' = alive \ {c} /\ tree' = tree \ {c}
  BY <1>0, Releases DEF newconnection_return
<1>3. ASSUME FdOf[c] \in PatientFds PROVE alive' = alive
  <2>1. c \notin BeingClosed
    BY <1>1, <1>3, MainAlone, ThreadFacts DEF BeingClosed
  <2>2. conns_[FdOf[c]] = c
    BY <1>1, <1>3, <2>1 DEF RegInv, Registers
  <2> QED
    BY <1>1, <1>2, <2>2 DEF OwnedAfter
<1>4. NodesKept'
  <2> SUFFICES ASSUME NEW n \in Nodes, node[n] # None, node[n].fd \in PatientFds'
               PROVE  node[n].conn \in alive' /\ timer_map_[node[n].fd] = n
    BY <1>1 DEF NodesKept
  <2>1. node[n].fd \in PatientFds /\ node[n].fd = FdOf[node[n].conn]
    BY ListsFacts DEF LifeInv
  <2>2. node[n].conn \in alive /\ timer_map_[node[n].fd] = n
    BY <2>1 DEF RegInv, NodesKept
  <2> QED
    BY <1>2, <1>3, <2>1, <2>2
<1>5. NodeLifetime'
  BY <1>1 DEF RegInv, NodeLifetime, Untimed
<1>6. BeingClosed' = BeingClosed
  BY <1>1 DEF BeingClosed
<1>7. Registers'
  <2>1. \A d \in alive' : d \in alive /\ (d \in tree => d \in tree')
    BY <1>2
  <2> QED
    BY <1>1, <1>6, <2>1 DEF RegInv, Registers, Timed
<1> QED
  BY <1>4, <1>5, <1>7 DEF RegInv

LEMMA RemoveChannelKeepsReg ==
    ASSUME LifeInv, RegInv, PatientFds' \subseteq PatientFds, NEW t \in Threads,
           remove_channel(t)
    PROVE  RegInv'
<1>0. PICK c \in Conns : thr[t].conn = c /\ c \in alive
  BY Types DEF remove_channel, At, LifeInv
<1>1. /\ thr[t].pc = "close" /\ thr[t].conn = c /\ c \in alive /\ tree' = tree \ {c}
      /\ UNCHANGED <<node, timer_map_, weak_conns, alive, conns_, main>>
  BY <1>0 DEF remove_channel, At, wheelVars
<1>2. /\ thr'[t].pc = "unhook" /\ thr'[t].conn = c
      /\ \A u \in Threads : u # t => thr'[u] = thr[u]
  BY <1>0, GoesOn DEF remove_channel, Steps, LifeInv
<1>3. NodesKept'
  BY <1>1 DEF RegInv, NodesKept
<1>4. NodeLifetime'
  BY <1>1, <1>2 DEF RegInv, NodeLifetime, Untimed
<1>5. c \in BeingClosed' /\ BeingClosed \subseteq BeingClosed'
  BY <1>1, <1>2, ThreadFacts DEF BeingClosed
<1>6. Registers'
  BY <1>1, <1>5 DEF RegInv, Registers, Timed
<1> QED
  BY <1>3, <1>4, <1>6 DEF RegInv

LEMMA UnhookKeepsReg ==
    ASSUME LifeInv, RegInv, PatientFds' \subseteq PatientFds, NEW t \in Threads,
           unhook_timer(t)
    PROVE  RegInv'
<1>0. PICK c \in Conns : thr[t].conn = c /\ c \in alive
  BY Types DEF unhook_timer, At, LifeInv
<1> DEFINE it == timer_map_[FdOf[c]]
<1>1. /\ thr[t].pc = "unhook" /\ thr[t].conn = c /\ c \in alive /\ c \in Conns /\ FdOf[c] \in Fds
      /\ UNCHANGED <<weak_conns, alive, conns_, tree, main>>
  BY <1>0, Types, FdOfAssumption DEF unhook_timer, At, Wheel!remove_connection, connVars, LifeInv
<1>2. /\ thr'[t].pc = "erase" /\ thr'[t].conn = c
      /\ \A u \in Threads : u # t => thr'[u] = thr[u]
  BY <1>0, GoesOn DEF unhook_timer, Steps, LifeInv
<1>3. /\ timer_map_' = [timer_map_ EXCEPT ![FdOf[c]] = None]
      /\ \A n \in Nodes : node'[n] = IF n = it THEN None ELSE node[n]
  BY <1>1, Removes DEF unhook_timer, LifeInv
<1>4. \A f \in Fds : timer_map_'[f] = IF f = FdOf[c] THEN None ELSE timer_map_[f]
  BY <1>1, <1>3, ListsFacts DEF LifeInv
<1>5. \A n \in Nodes : node'[n] # None => n # it /\ node'[n] = node[n]
  BY <1>3
<1>6. NodesKept'
  <2> SUFFICES ASSUME NEW n \in Nodes, node'[n] # None, node'[n].fd \in PatientFds'
               PROVE  node'[n].conn \in alive /\ timer_map_'[node'[n].fd] = n
    BY <1>1 DEF NodesKept
  <2>1. n # it /\ node'[n] = node[n] /\ node[n].fd \in PatientFds
    BY <1>5
  <2>2. node[n].conn \in alive /\ timer_map_[node[n].fd] = n /\ node[n].fd \in Fds
    BY <2>1, ListsFacts DEF RegInv, NodesKept, LifeInv
  <2> QED
    BY <1>4, <2>1, <2>2
<1>7. Untimed \subseteq Untimed'
  BY <1>5 DEF Untimed
<1>8. FdOf[c] \in PatientFds => c \in Untimed'
  <2> SUFFICES ASSUME FdOf[c] \in PatientFds, NEW n \in Nodes, node'[n] # None PROVE node'[n].conn # c
    BY DEF Untimed
  <2>1. n # it /\ node'[n] = node[n] /\ node[n].fd = FdOf[node[n].conn]
    BY <1>5, ListsFacts DEF LifeInv
  <2> QED
    BY <2>1 DEF RegInv, NodesKept
<1>9. NodeLifetime'
  BY <1>1, <1>2, <1>7, <1>8 DEF RegInv, NodeLifetime
<1>10. c \in BeingClosed' /\ BeingClosed \subseteq BeingClosed'
  BY <1>1, <1>2, ThreadFacts DEF BeingClosed
<1>11. \A d \in alive : d # c /\ Timed(d) => Timed(d)'
  <2> SUFFICES ASSUME NEW d \in alive, d # c, Timed(d) PROVE Timed(d)'
    OBVIOUS
  <2>1. FdOf[d] \in Fds /\ FdOf[d] # FdOf[c]
    BY <1>1, SameSocket, Types, FdOfAssumption DEF LifeInv
  <2>2. CASE d \in weak_conns
    BY <1>1, <2>2 DEF Timed
  <2>3. CASE timer_map_[FdOf[d]] # None /\ node[timer_map_[FdOf[d]]].conn = d
    <3>1. timer_map_[FdOf[d]] # it
      BY <1>1, <2>1, <2>3, ListsFacts DEF LifeInv
    <3> QED
      BY <1>3, <1>4, <2>1, <2>3, <3>1, ListsFacts DEF Timed, LifeInv
  <2> QED
    BY <2>2, <2>3 DEF Timed
<1>12. Registers'
  BY <1>1, <1>10, <1>11 DEF RegInv, Registers
<1> QED
  BY <1>6, <1>9, <1>12 DEF RegInv

\* What erase takes away belongs to the connection it closes: with patient
\* clients the descriptor has had no other owner yet.
LEMMA EraseKeepsReg ==
    ASSUME LifeInv, RegInv, PatientFds' \subseteq PatientFds, NEW t \in Threads,
           erase_conn(t)
    PROVE  RegInv'
<1>0. PICK c \in Conns : thr[t].conn = c /\ c \in alive
  BY Types DEF erase_conn, At, LifeInv
<1>1. /\ thr[t].pc = "erase" /\ thr[t].conn = c /\ c \in alive /\ c \in Conns /\ c # None /\ FdOf[c] \in Fds
      /\ conns_' = [conns_ EXCEPT ![FdOf[c]] = None]
      /\ UNCHANGED <<node, timer_map_, weak_conns, main>>
  BY <1>0, Types, FdOfAssumption, NoneAssumption DEF erase_conn, At, LifeInv
<1>2. /\ thr'[t].pc = (IF t = TickThread THEN "lock" ELSE "dispatch")
      /\ thr'[t].conn = None
      /\ \A u \in Threads : u # t => thr'[u] = thr[u]
  BY <1>0, IdlesThen DEF erase_conn, LifeInv
<1>3. \/ OwnedAfter(c) /\ alive' = alive /\ tree' = tree
      \/ alive' = alive \ {c} /\ tree' = tree \ {c}
  BY <1>0, Releases DEF erase_conn
<1>4. NodesKept'
  <2> SUFFICES ASSUME NEW n \in Nodes, node[n] # None, node[n].fd \in PatientFds'
               PROVE  node[n].conn \in alive' /\ timer_map_[node[n].fd] = n
    BY <1>1 DEF NodesKept
  <2>1. node[n].fd \in PatientFds /\ node[n].fd = FdOf[node[n].conn]
    BY ListsFacts DEF LifeInv
  <2>2. node[n].conn \in alive /\ timer_map_[node[n].fd] = n
    BY <2>1 DEF RegInv, NodesKept
  <2>3. node[n].conn # c
    BY <1>1, <2>1 DEF RegInv, NodeLifetime, Untimed
  <2> QED
    BY <1>3, <2>2, <2>3
<1>5. NodeLifetime'
  BY <1>1, <1>2 DEF RegInv, NodeLifetime, Untimed
<1>6. \A d : d # c /\ d # None => (d \in BeingClosed' <=> d \in BeingClosed)
  BY <1>1, <1>2, ThreadFacts DEF BeingClosed
<1>7. ASSUME c \in alive', FdOf[c] \in PatientFds PROVE c \in BeingClosed'
  <2>1. main'.conn # c
    BY <1>1, <1>7, MainAlone
  <2>2. conns_'[FdOf[c]] # c
    BY <1>1, Types DEF LifeInv
  <2>3. PICK u \in Threads : thr'[u].conn = c /\ thr'[u].pc \in HoldingSteps(u)
    BY <1>3, <1>7, <2>1, <2>2 DEF OwnedAfter
  <2> QED
    BY <2>3, ThreadFacts DEF BeingClosed, HoldingSteps
<1>8. Registers'
  <2> SUFFICES ASSUME NEW d \in alive', FdOf[d] \in PatientFds', d \notin BeingClosed'
               PROVE  /\ d \in tree'
                      /\ (main'.conn = d => main'.pc \in {"store", "return"}) => Timed(d)'
                      /\ (main'.conn = d => main'.pc = "return") => conns_'[FdOf[d]] = d
    BY DEF Registers
  <2>1. d # c /\ d \in alive /\ d # None
    BY <1>3, <1>7, Types, NoneAssumption DEF LifeInv
  <2>2. conns_'[FdOf[d]] = conns_[FdOf[d]]
    BY <1>1, <2>1, SameSocket, Types, FdOfAssumption DEF LifeInv
  <2> QED
    BY <1>1, <1>3, <1>6, <2>1, <2>2 DEF RegInv, Registers, Timed
<1> QED
  BY <1>4, <1>5, <1>8 DEF RegInv

LEMMA RenewKeepsReg ==
    ASSUME LifeInv, RegInv, PatientFds' \subseteq PatientFds, NEW l \in Loops,
           renew_timer(l)
    PROVE  RegInv'
<1>0. PICK c \in Conns : thr[l].conn = c /\ c \in alive
  BY Types DEF renew_timer, At, LifeInv
<1> DEFINE it == timer_map_[FdOf[c]]
<1>1. /\ thr[l].pc = "renew" /\ thr[l].conn = c /\ c \in alive /\ c \in Conns /\ FdOf[c] \in Fds /\ l \in Threads
      /\ UNCHANGED <<weak_conns, alive, conns_, tree, main>>
  BY <1>0, Types, FdOfAssumption, ThreadFacts
     DEF renew_timer, At, Wheel!update_connection, connVars, LifeInv
<1>2. /\ thr'[l].pc = "respond" /\ thr'[l].conn = c
      /\ \A u \in Threads : u # l => thr'[u] = thr[u]
  BY <1>0, <1>1, GoesOn DEF renew_timer, Steps, LifeInv
<1>3. CASE it = None
  <2>1. UNCHANGED <<node, timer_map_>>
    BY <1>1, <1>3, Renews DEF renew_timer, LifeInv
  <2> QED
    BY <1>1, <1>2, <2>1, OtherKeepsReg, ThreadFacts
<1>4. CASE it # None
  <2>1. PICK n \in Nodes :
          /\ node[n] = None \/ n = it
          /\ timer_map_' = [timer_map_ EXCEPT ![FdOf[c]] = n]
          /\ node'[n] # None /\ node'[n].conn = c /\ node'[n].fd = FdOf[c]
          /\ \A m \in Nodes \ {n} : node'[m] = IF m = it THEN None ELSE node[m]
    BY <1>1, <1>4, Renews DEF renew_timer, LifeInv
  <2>2. \A f \in Fds : timer_map_'[f] = IF f = FdOf[c] THEN n ELSE timer_map_[f]
    BY <1>1, <2>1, ListsFacts DEF LifeInv
  <2>3. it \in Nodes /\ node[it] # None /\ node[it].fd = FdOf[c] /\ n # None
    BY <1>1, <1>4, ListsFacts DEF LifeInv
  <2>4. FdOf[c] \in PatientFds => node[it].conn = c
    <3>1. node[it].fd = FdOf[node[it].conn]
      BY <2>3, ListsFacts DEF LifeInv
    <3>2. FdOf[c] \in PatientFds => node[it].conn \in alive
      BY <2>3 DEF RegInv, NodesKept
    <3> QED
      BY <1>1, <2>3, <3>1, <3>2, SameSocket
  <2>5. NodesKept'
    <3> SUFFICES ASSUME NEW m \in Nodes, node'[m] # None, node'[m].fd \in PatientFds'
                 PROVE  node'[m].conn \in alive /\ timer_map_'[node'[m].fd] = m
      BY <1>1 DEF NodesKept
    <3>1. CASE m = n
      BY <1>1, <2>1, <2>2, <3>1
    <3>2. CASE m # n
      <4>1. m # it /\ node'[m] = node[m] /\ node[m].fd \in PatientFds
        BY <2>1, <3>2
      <4>2. node[m].conn \in alive /\ timer_map_[node[m].fd] = m /\ node[m].fd \in Fds
        BY <4>1, ListsFacts DEF RegInv, NodesKept, LifeInv
      <4> QED
        BY <2>2, <4>1, <4>2
    <3> QED
      BY <3>1, <3>2
  <2>6. ASSUME NEW d, d # c, d \in Untimed PROVE d \in Untimed'
    BY <2>1, <2>6 DEF Untimed
  <2>7. NodeLifetime'
    <3>1. FdOf[c] \in PatientFds => c \notin Untimed
      BY <2>3, <2>4 DEF Untimed
    <3> QED
      BY <1>1, <1>2, <2>6, <3>1 DEF RegInv, NodeLifetime
  <2>8. BeingClosed' = BeingClosed
    BY <1>1, <1>2, ThreadFacts DEF BeingClosed
  <2>9. \A d \in alive : d # c /\ Timed(d) => Timed(d)'
    <3> SUFFICES ASSUME NEW d \in alive, d # c, Timed(d) PROVE Timed(d)'
      OBVIOUS
    <3>1. FdOf[d] \in Fds /\ FdOf[d] # FdOf[c]
      BY <1>1, SameSocket, Types, FdOfAssumption DEF LifeInv
    <3>2. CASE d \in weak_conns
      BY <1>1, <3>2 DEF Timed
    <3>3. CASE timer_map_[FdOf[d]] # None /\ node[timer_map_[FdOf[d]]].conn = d
      <4>1. /\ timer_map_[FdOf[d]] \in Nodes /\ node[timer_map_[FdOf[d]]] # None
            /\ timer_map_[FdOf[d]] # it
        BY <2>3, <3>1, <3>3, ListsFacts DEF LifeInv
      <4> QED
        BY <2>1, <2>2, <3>1, <3>3, <4>1 DEF Timed
    <3> QED
      BY <3>2, <3>3 DEF Timed
  <2>10. Timed(c)'
    BY <1>1, <2>1, <2>2, <2>3 DEF Timed
  <2>11. Registers'
    BY <1>1, <2>8, <2>9, <2>10 DEF RegInv, Registers
  <2> QED
    BY <2>5, <2>7, <2>11 DEF RegInv
<1> QED
  BY <1>3, <1>4

\* A tick removes an entry only with the node it names, and collects its
\* connection.
LEMMA TickKeepsReg ==
    ASSUME LifeInv, RegInv, PatientFds' \subseteq PatientFds, tick
    PROVE  RegInv'
<1>1. /\ UNCHANGED <<alive, conns_, tree, main>>
      /\ weak_conns = {}
      /\ weak_conns' = {c \in alive : \E n \in Nodes : Wheel!Expires(n) /\ node[n].conn = c}
      /\ \A n \in Nodes :
            IF Wheel!Expires(n) THEN node[n] # None /\ node'[n] = None
            ELSE /\ node'[n] # None <=> node[n] # None
                 /\ node[n] # None =>
                       node'[n].conn = node[n].conn /\ node'[n].fd = node[n].fd
      /\ \A f \in Fds :
            timer_map_'[f] = IF \E n \in Nodes : Wheel!Expires(n) /\ node[n].fd = f
                             THEN None ELSE timer_map_[f]
  BY Collects DEF tick, connVars, LifeInv
<1>2. /\ thr[TickThread].pc = "tick"
      /\ thr'[TickThread].pc = "lock" /\ thr'[TickThread].conn = thr[TickThread].conn
      /\ \A u \in Threads : u # TickThread => thr'[u] = thr[u]
  BY GoesOn, ThreadFacts DEF tick, Steps, LifeInv
<1>3. \A n \in Nodes : node'[n] # None =>
         ~Wheel!Expires(n) /\ node[n] # None /\ node'[n].conn = node[n].conn
         /\ node'[n].fd = node[n].fd
  BY <1>1
<1>4. ASSUME NEW n \in Nodes, NEW f \in Fds, f \in PatientFds, ~Wheel!Expires(n), timer_map_[f] = n
      PROVE  timer_map_'[f] = n
  <2>1. \A m \in Nodes : Wheel!Expires(m) /\ node[m].fd = f => timer_map_[f] = m
    BY <1>1, <1>4 DEF RegInv, NodesKept
  <2> QED
    BY <1>1, <1>4, <2>1
<1>5. NodesKept'
  <2> SUFFICES ASSUME NEW n \in Nodes, node'[n] # None, node'[n].fd \in PatientFds'
               PROVE  node'[n].conn \in alive /\ timer_map_'[node'[n].fd] = n
    BY <1>1 DEF NodesKept
  <2>1. /\ ~Wheel!Expires(n) /\ node[n] # None /\ node'[n].conn = node[n].conn
        /\ node'[n].fd = node[n].fd /\ node[n].fd \in PatientFds
    BY <1>3
  <2>2. node[n].conn \in alive /\ timer_map_[node[n].fd] = n /\ node[n].fd \in Fds
    BY <2>1, ListsFacts DEF RegInv, NodesKept, LifeInv
  <2> QED
    BY <1>4, <2>1, <2>2
<1>6. Untimed \subseteq Untimed'
  BY <1>3 DEF Untimed
<1>7. NodeLifetime'
  BY <1>1, <1>2, <1>6 DEF RegInv, NodeLifetime
<1>8. BeingClosed' = BeingClosed
  BY <1>2, ThreadFacts DEF BeingClosed
<1>9. ASSUME NEW d \in alive, FdOf[d] \in PatientFds, Timed(d) PROVE Timed(d)'
  <2> DEFINE m == timer_map_[FdOf[d]]
  <2>1. FdOf[d] \in Fds
    BY Types, FdOfAssumption DEF LifeInv
  <2>2. m \in Nodes /\ m # None /\ node[m] # None /\ node[m].conn = d
    BY <1>1, <1>9, <2>1, ListsFacts DEF Timed, LifeInv
  <2>3. CASE Wheel!Expires(m)
    <3>1. d \in weak_conns'
      BY <1>1, <2>2, <2>3
    <3> QED
      BY <3>1 DEF Timed
  <2>4. CASE ~Wheel!Expires(m)
    <3>1. timer_map_'[FdOf[d]] = m
      BY <1>4, <1>9, <2>1, <2>2, <2>4
    <3>2. node'[m].conn = d
      BY <1>1, <2>2, <2>4
    <3> QED
      BY <2>2, <3>1, <3>2 DEF Timed
  <2> QED
    BY <2>3, <2>4
<1>10. Registers'
  BY <1>1, <1>8, <1>9 DEF RegInv, Registers
<1> QED
  BY <1>5, <1>7, <1>10 DEF RegInv

LEMMA LockWeakKeepsReg ==
    ASSUME LifeInv, RegInv, PatientFds' \subseteq PatientFds, NEW c \in Conns, lock_weak(c)
    PROVE  RegInv'
<1>1. /\ thr[TickThread].pc = "lock" /\ thr[TickThread].conn = None
      /\ weak_conns' = weak_conns \ {c}
      /\ UNCHANGED <<node, timer_map_, alive, conns_, tree, main>>
  BY DEF lock_weak, Wheel!close_expired, Wheel!wheelVars, connVars, LifeInv, TickHands
<1>2. /\ \/ c \notin alive /\ thr' = thr
         \/ c \in alive /\ thr'[TickThread].pc = "close" /\ thr'[TickThread].conn = c
      /\ \A u \in Threads : u # TickThread => thr'[u] = thr[u]
  <2>1. CASE c \in alive
    <3>1. thr' = [thr EXCEPT ![TickThread] = [pc |-> "close", conn |-> c]]
      BY <2>1 DEF lock_weak
    <3>2. "close" \in Steps /\ c \in Conns \union {None}
      BY DEF Steps
    <3> QED
      BY <2>1, <3>1, <3>2, Moves, ThreadFacts DEF LifeInv
  <2>2. CASE c \notin alive
    BY <2>2 DEF lock_weak
  <2> QED
    BY <2>1, <2>2
<1>3. NodesKept'
  BY <1>1 DEF RegInv, NodesKept
<1>4. NodeLifetime'
  BY <1>1, <1>2, ThreadFacts DEF RegInv, NodeLifetime, Untimed
<1>5. c \in alive => c \in BeingClosed'
  BY <1>2 DEF BeingClosed
<1>6. \A d \in alive : d \in BeingClosed => d \in BeingClosed'
  <2>1. \A d \in alive : d # None
    BY NoneAssumption, Types DEF LifeInv
  <2> QED
    BY <1>1, <1>2, <2>1, ThreadFacts DEF BeingClosed
<1>7. Registers'
  BY <1>1, <1>5, <1>6 DEF RegInv, Registers, Timed
<1> QED
  BY <1>3, <1>4, <1>7 DEF RegInv

\* The steps of the other kinds.
LEMMA LoopOtherKeepsReg ==
    ASSUME LifeInv, RegInv, PatientFds' \subseteq PatientFds, NEW l \in Loops,
           LoopStep(l), ~renew_timer(l), ~Closing(l)
    PROVE  RegInv'
<1>1. /\ UNCHANGED <<node, timer_map_, weak_conns, alive, conns_, tree, main>>
  BY DEF LoopStep, epoll_wait, loop_again, handleevent, read_socket, renew_throws,
         parse_request, parse_breaks, modify_fails, write_all, write_some, write_error, use_after_free, Ends,
         wheelVars, connVars
<1>2. \/ thr' = thr
      \/ /\ thr[l].pc \notin {"unhook", "erase"} /\ thr'[l].pc \notin {"unhook", "erase"}
         /\ \A u \in Threads : u # l => thr'[u] = thr[u]
  <2> USE ThreadFacts DEF LifeInv
  <2>1. CASE epoll_wait(l) \/ loop_again(l)
    BY <2>1 DEF epoll_wait, loop_again, Goes, TypeOK
  <2>2. CASE handleevent(l)
    BY <2>2 DEF handleevent, TypeOK
  <2>3. CASE read_socket(l)
    BY <2>3 DEF read_socket, Goes, At, TypeOK
  <2>4. CASE parse_request(l) \/ write_all(l) \/ write_some(l) \/ write_error(l)
    BY <2>4 DEF parse_request, write_all, write_some, write_error, Goes, Idles, At, TypeOK
  <2>5. CASE renew_throws(l) \/ parse_breaks(l) \/ modify_fails(l) \/ use_after_free(l)
    BY <2>5 DEF renew_throws, parse_breaks, modify_fails, use_after_free, Ends
  <2> QED
    BY <2>1, <2>2, <2>3, <2>4, <2>5 DEF LoopStep
<1> QED
  BY <1>1, <1>2, OtherKeepsReg, ThreadFacts

LEMMA ClosingKeepsReg ==
    ASSUME LifeInv, RegInv, PatientFds' \subseteq PatientFds, NEW t \in Threads, Closing(t)
    PROVE  RegInv'
<1>1. CASE remove_channel(t) \/ unhook_timer(t) \/ erase_conn(t)
  BY <1>1, RemoveChannelKeepsReg, UnhookKeepsReg, EraseKeepsReg
<1>2. CASE remove_channel_fails(t) \/ unhook_throws(t)
  <2>1. UNCHANGED <<node, timer_map_, weak_conns, alive, conns_, tree, main, thr>>
    BY <1>2 DEF remove_channel_fails, unhook_throws, Ends, wheelVars, connVars
  <2> QED
    BY <2>1, OtherKeepsReg
<1> QED
  BY <1>1, <1>2 DEF Closing

LEMMA NextReg == LifeInv /\ RegInv /\ [Next]_vars => RegInv'
<1> SUFFICES ASSUME LifeInv, RegInv, [Next]_vars PROVE RegInv'
  OBVIOUS
<1>0. PatientFds' \subseteq PatientFds
  BY PatientBefore
<1>1. CASE MainStep
  <2>1. CASE start
    <3>1. /\ main.conn = None /\ main'.conn = None /\ main'.pc = "accept"
          /\ UNCHANGED <<node, timer_map_, weak_conns, alive, conns_, tree, thr>>
      BY <2>1 DEF start, Wheel!start, Wheel!wheelVars, connVars, LifeInv, Registration, TypeOK
    <3> QED
      BY <1>0, <3>1, OtherKeepsReg
  <2> QED
    BY <1>0, <1>1, <2>1, AcceptKeepsReg, SetCallbackKeepsReg, AddKeepsReg, StoreKeepsReg,
       ReturnKeepsReg DEF MainStep
<1>2. ASSUME NEW l \in Loops, LoopStep(l) PROVE RegInv'
  BY <1>0, <1>2, RenewKeepsReg, ClosingKeepsReg, LoopOtherKeepsReg, ThreadFacts
<1>3. CASE TickStep
  <2>1. CASE tick_return
    <3>1. /\ UNCHANGED <<node, timer_map_, weak_conns, alive, conns_, tree, main>>
          /\ thr[TickThread].pc = "lock" /\ thr'[TickThread].pc = "tick"
          /\ thr'[TickThread].conn = thr[TickThread].conn
          /\ \A u \in Threads : u # TickThread => thr'[u] = thr[u]
      BY <2>1, GoesOn, ThreadFacts DEF tick_return, Steps, wheelVars, connVars, LifeInv
    <3> QED
      BY <1>0, <3>1, OtherKeepsReg
  <2> QED
    BY <1>0, <1>3, <2>1, TickKeepsReg, LockWeakKeepsReg, ClosingKeepsReg, ThreadFacts DEF TickStep
<1>4. ASSUME NEW c \in Conns, client_send(c) \/ client_close(c) PROVE RegInv'
  <2>1. UNCHANGED <<node, timer_map_, weak_conns, alive, conns_, tree, main, thr>>
    BY <1>4 DEF client_send, client_close, wheelVars, connVars
  <2> QED
    BY <1>0, <2>1, OtherKeepsReg
<1>5. CASE UNCHANGED vars
  <2>1. UNCHANGED <<node, timer_map_, weak_conns, alive, conns_, tree, main, thr>>
    BY <1>5 DEF vars, wheelVars, connVars
  <2> QED
    BY <1>0, <2>1, OtherKeepsReg
<1> QED
  BY <1>1, <1>2, <1>3, <1>4, <1>5 DEF Next

LEMMA RegistriesFollow == LifeInv /\ RegInv => RegistriesAgree
<1> SUFFICES ASSUME LifeInv, RegInv PROVE RegistriesAgree
  OBVIOUS
<1> SUFFICES ASSUME NEW c \in Conns, Born(c), Settled(c), Patient(FdOf[c])
             PROVE  IF c \in alive
                    THEN conns_[FdOf[c]] = c /\ c \in tree /\ Timed(c)
                    ELSE /\ conns_[FdOf[c]] # c
                         /\ \A n \in Nodes : node[n] # None => node[n].conn # c
  BY DEF RegistriesAgree
<1>0. FdOf[c] \in PatientFds
  BY FdOfAssumption DEF PatientFds
<1>1. main.conn # c /\ c \notin BeingClosed
  BY DEF Settled, BeingClosed
<1>2. CASE c \in alive
  BY <1>0, <1>1, <1>2 DEF RegInv, Registers
<1>3. CASE c \notin alive
  <2>1. conns_[FdOf[c]] # c
    BY <1>3, FdOfAssumption, NoneAssumption DEF LifeInv, Sockets
  <2>2. \A n \in Nodes : node[n] # None => node[n].conn # c
    BY <1>0, <1>3, ListsFacts DEF RegInv, NodesKept, LifeInv
  <2> QED
    BY <1>3, <2>1, <2>2
<1> QED
  BY <1>2, <1>3

\* conns_, the epoll tree and the time wheel agree about every connection
\* between its registration and its closing, although the threads share no
\* lock, as long as its clients stay silent until newconnection() is done.
THEOREM RegistriesAlwaysAgree == Spec => []RegistriesAgree
BY InitReg, NextReg, RegistriesFollow, LifeInvariance, PTL DEF Spec

----------------------------------------------------------------------------
(* The event loop and the tasks other threads hand to it.                  *)

\* Moving the head of a queue to the end of a history keeps their
\* concatenation; appending to the queue appends to it.
LEMMA RunKeepsOrder ==
    ASSUME NEW S, NEW s \in Seq(S), NEW q \in Seq(S), q # <<>>
    PROVE  Append(s, Head(q)) \o Tail(q) = s \o q
  BY SMTT(30)

LEMMA PushExtendsOrder ==
    ASSUME NEW S, NEW s \in Seq(S), NEW q \in Seq(S), NEW x \in S
    PROVE  s \o Append(q, x) = Append(s \o q, x)
  BY SMTT(30)

----------------------------------------------------------------------------

LEMMA LoopInitTypeOK == LoopInit => LoopTypeOK
<1> SUFFICES ASSUME LoopInit PROVE LoopTypeOK
  OBVIOUS
<1>1. taskqueue_ \in Seq(Tasks) /\ queued \in Seq(Tasks) /\ ran \in Seq(Tasks)
  BY DEF LoopInit
<1>2. /\ caller \in [Tasks -> {"new", "pushed", "done"}]
      /\ stopper \in [Stoppers -> {"new", "set", "done"}]
  BY DEF LoopInit
<1> QED
  BY <1>1, <1>2 DEF LoopInit, LoopTypeOK

\* Every step keeps the types, and handlewakeup() reads a readable eventfd: the
\* counter is reset by the loop only.
LEMMA LoopNextTypeOK == LoopTypeOK /\ [LoopNext]_loop_vars => LoopTypeOK'
<1> SUFFICES ASSUME LoopTypeOK, [LoopNext]_loop_vars PROVE LoopTypeOK'
  OBVIOUS
<1> USE DEF LoopTypeOK
<1>1. CASE run_next_task
  <2>1. Head(taskqueue_) \in Tasks /\ Tail(taskqueue_) \in Seq(Tasks)
    BY <1>1 DEF run_next_task
  <2> QED
    BY <1>1, <2>1 DEF run_next_task
<1>2. CASE run \/ check_stop \/ epoll_wakeup \/ epoll_other \/ read_wakeupfd
           \/ lock \/ unlock
  BY <1>2 DEF run, check_stop, epoll_wakeup, epoll_other, read_wakeupfd, lock, unlock
<1>3. ASSUME NEW t \in Tasks, push(t) PROVE LoopTypeOK'
  <2>1. Append(taskqueue_, t) \in Seq(Tasks) /\ Append(queued, t) \in Seq(Tasks)
    OBVIOUS
  <2>2. caller' \in [Tasks -> {"new", "pushed", "done"}]
    BY <1>3 DEF push
  <2> QED
    BY <1>3, <2>1, <2>2 DEF push
<1>4. ASSUME NEW t \in Tasks, wakeup(t) PROVE LoopTypeOK'
  BY <1>4 DEF wakeup
<1>5. ASSUME NEW s \in Stoppers, stop(s) PROVE LoopTypeOK'
  <2>1. CASE stop_set(s)
    BY <2>1 DEF stop_set
  <2>2. CASE stop_wakeup(s)
    BY <2>2 DEF stop_wakeup
  <2> QED
    BY <1>5, <2>1, <2>2 DEF stop
<1>6. CASE UNCHANGED loop_vars
  BY <1>6 DEF loop_vars
<1> QED
  BY <1>1, <1>2, <1>3, <1>4, <1>5, <1>6 DEF LoopNext, RunStep, queueinloop

LEMMA LoopNextRunInOrder == LoopTypeOK /\ RunInOrder /\ [LoopNext]_loop_vars => RunInOrder'
<1> SUFFICES ASSUME LoopTypeOK, RunInOrder, [LoopNext]_loop_vars PROVE RunInOrder'
  OBVIOUS
<1> USE DEF LoopTypeOK, RunInOrder
<1>1. CASE run_next_task
  BY <1>1, RunKeepsOrder DEF run_next_task
<1>2. ASSUME NEW t \in Tasks, push(t) PROVE RunInOrder'
  <2>1. ran \o Append(taskqueue_, t) = Append(ran \o taskqueue_, t)
    BY PushExtendsOrder
  <2> QED
    BY <1>2, <2>1 DEF push
<1>3. CASE UNCHANGED <<taskqueue_, queued, ran>>
  BY <1>3
<1> QED
  BY <1>1, <1>2, <1>3
     DEF LoopNext, RunStep, queueinloop, run, check_stop, epoll_wakeup, epoll_other,
         read_wakeupfd, lock, unlock, wakeup, stop, stop_set, stop_wakeup, loop_vars

\* A push is followed by its caller's wakeup, the loop resets the eventfd on
\* its way to the queue, and leaves the queue only when it is empty.
LEMMA LoopNextNoLostWakeup == LoopTypeOK /\ NoLostWakeup /\ [LoopNext]_loop_vars => NoLostWakeup'
<1> SUFFICES ASSUME LoopTypeOK, NoLostWakeup, [LoopNext]_loop_vars PROVE NoLostWakeup'
  OBVIOUS
<1> USE DEF LoopTypeOK, NoLostWakeup
<1>1. ASSUME NEW t \in Tasks, push(t) PROVE NoLostWakeup'
  BY <1>1 DEF push
<1>2. ASSUME NEW t \in Tasks, wakeup(t) PROVE NoLostWakeup'
  BY <1>2 DEF wakeup
<1>3. ASSUME NEW s \in Stoppers, stop(s) PROVE NoLostWakeup'
  BY <1>3 DEF stop, stop_set, stop_wakeup
<1>4. CASE run \/ check_stop \/ epoll_wakeup \/ epoll_other
  BY <1>4 DEF run, check_stop, epoll_wakeup, epoll_other
<1>5. CASE read_wakeupfd \/ lock \/ unlock \/ run_next_task
  BY <1>5 DEF read_wakeupfd, lock, unlock, run_next_task
<1>6. CASE UNCHANGED loop_vars
  BY <1>6 DEF loop_vars
<1> QED
  BY <1>1, <1>2, <1>3, <1>4, <1>5, <1>6 DEF LoopNext, RunStep, queueinloop

----------------------------------------------------------------------------
(* The theorems.                                                           *)

\* The types hold, and no read of the eventfd is unset.
THEOREM LoopTypeCorrect == LoopSpec => []LoopTypeOK
  BY LoopInitTypeOK, LoopNextTypeOK, PTL DEF LoopSpec

\* Tasks run once each, in the order queueinloop() pushed them.
THEOREM TasksAlwaysInOrder == LoopSpec => []RunInOrder
<1>1. LoopInit => RunInOrder
  BY DEF LoopInit, RunInOrder
<1> QED
  BY <1>1, LoopNextRunInOrder, LoopTypeCorrect, PTL DEF LoopSpec

\* queueinloop() loses no wakeup, however many threads call it.
THEOREM WakeupNeverLost == LoopSpec => []NoLostWakeup
<1>1. LoopInit => NoLostWakeup
  BY DEF LoopInit, NoLostWakeup
<1> QED
  BY <1>1, LoopNextNoLostWakeup, LoopTypeCorrect, PTL DEF LoopSpec
=============================================================================
