------------------------- MODULE TimeWheel_proofs -------------------------
(* Proofs about TimeWheel for every number of slots, every interval, every *)
(* timeout and every set of connections, descriptors and list nodes.       *)
EXTENDS TimeWheel, TLAPS

\* A timeout is a natural number of ticks.
LEMMA TicksType ==
    ASSUME NEW t \in Nat
    PROVE  Ticks(t) \in Nat
BY IntervalAssumption DEF Ticks

\* Moving to the next slot wraps around at the last one.
LEMMA NextSlotValue ==
    ASSUME current_slot_ \in SlotNumbers
    PROVE  /\ NextSlot = IF current_slot_ = Slots - 1 THEN 0
                         ELSE current_slot_ + 1
           /\ NextSlot \in SlotNumbers
BY SlotsAssumption DEF NextSlot, SlotNumbers

\* Dividing by the number of slots: quotient and remainder.
LEMMA Division ==
    ASSUME NEW k \in Nat
    PROVE  /\ k \div Slots \in Nat
           /\ k % Slots \in SlotNumbers
           /\ k = (k \div Slots) * Slots + (k % Slots)
BY SlotsAssumption, Z3 DEF SlotNumbers

\* The slot of a new node lies k slots ahead of current_slot_, around the wheel.
LEMMA SlotAhead ==
    ASSUME current_slot_ \in SlotNumbers, NEW k \in SlotNumbers
    PROVE  /\ (current_slot_ + k) % Slots \in SlotNumbers
           /\ (current_slot_ + k) % Slots =
                 IF current_slot_ + k < Slots THEN current_slot_ + k
                 ELSE current_slot_ + k - Slots
BY SlotsAssumption, Z3 DEF SlotNumbers

\* add_connection_unsafe pushes a well-formed node.
LEMMA NewNodeType ==
    ASSUME current_slot_ \in SlotNumbers, NEW c \in Conns, NEW t \in Nat
    PROVE  NewNode(c, t) \in TimerNode
<1>1. Ticks(t) \in Nat
  BY TicksType
<1>2. /\ Ticks(t) \div Slots \in Nat
      /\ Ticks(t) % Slots \in SlotNumbers
  BY <1>1, Division
<1>3. (current_slot_ + (Ticks(t) % Slots)) % Slots \in SlotNumbers
  BY <1>2, SlotAhead
<1> QED
  BY <1>2, <1>3, FdOfAssumption DEF NewNode, TimerNode

----------------------------------------------------------------------------
(* The invariant.  Each lemma is one helper of the wheel, so that modules  *)
(* that call the helpers from other actions can use them too.              *)

\* The part of WheelInv that concerns the lists and the map.
ListsInv ==
    /\ wheel_ \in [SlotNumbers -> SUBSET Nodes]
    /\ node \in [Nodes -> TimerNode \union {None}]
    /\ timer_map_ \in [Fds -> Nodes \union {None}]
    /\ current_slot_ \in SlotNumbers
    /\ SlotFieldAgrees
    /\ NoDanglingIterator
    /\ FdFieldAgrees

\* remove_connection_unsafe erases through a valid iterator or does nothing.
LEMMA RemoveKeepsLists ==
    ASSUME ListsInv, NEW c \in Conns, remove_connection_unsafe(c)
    PROVE  ListsInv'
<1> DEFINE it == timer_map_[FdOf[c]]
<1>0. FdOf[c] \in Fds
  BY FdOfAssumption
<1>1. CASE it = None
  BY <1>0, <1>1 DEF ListsInv, remove_connection_unsafe, SlotFieldAgrees, NoDanglingIterator, FdFieldAgrees
<1>2. CASE it # None
  <2>1. /\ it \in Nodes
        /\ node[it] \in TimerNode
        /\ node[it].fd = FdOf[c]
    BY <1>0, <1>2 DEF ListsInv, NoDanglingIterator
  <2>2. /\ wheel_' = Erased(it)
        /\ node' = Freed(it)
        /\ timer_map_' = [timer_map_ EXCEPT ![FdOf[c]] = None]
        /\ current_slot_' = current_slot_
    BY <1>2 DEF remove_connection_unsafe
  <2>3. node[it].slot \in SlotNumbers
    BY <2>1 DEF TimerNode
  <2>4. /\ wheel_' \in [SlotNumbers -> SUBSET Nodes]
        /\ node' \in [Nodes -> TimerNode \union {None}]
        /\ timer_map_' \in [Fds -> Nodes \union {None}]
        /\ current_slot_' \in SlotNumbers
    BY <2>1, <2>2, <2>3 DEF ListsInv, Erased, Freed
  <2>5. SlotFieldAgrees'
    BY <2>1, <2>2, <2>3, NoneAssumption DEF ListsInv, SlotFieldAgrees, Erased, Freed
  <2>6. NoDanglingIterator'
    <3> SUFFICES ASSUME NEW f \in Fds, timer_map_'[f] # None
                 PROVE  node'[timer_map_'[f]] # None /\ node'[timer_map_'[f]].fd = f
      BY DEF NoDanglingIterator
    <3>1. f # FdOf[c] /\ timer_map_'[f] = timer_map_[f]
      BY <1>0, <2>2 DEF ListsInv
    <3>2. timer_map_[f] \in Nodes /\ node[timer_map_[f]].fd = f /\ node[timer_map_[f]] # None
      BY <3>1 DEF ListsInv, NoDanglingIterator
    <3>3. timer_map_[f] # it
      BY <2>1, <3>1, <3>2
    <3> QED
      BY <2>2, <3>1, <3>2, <3>3 DEF Freed, ListsInv
  <2>7. FdFieldAgrees'
    BY <2>1, <2>2 DEF ListsInv, FdFieldAgrees, Freed
  <2> QED
    BY <2>4, <2>5, <2>6, <2>7 DEF ListsInv
<1> QED
  BY <1>1, <1>2

\* add_connection_unsafe pushes on the list its node names; the entry it
\* overwrites may leave an older node of the descriptor without one.
LEMMA AddKeepsLists ==
    ASSUME ListsInv, NEW c \in Conns, NEW t \in Nat, add_connection_unsafe(c, t)
    PROVE  ListsInv'
<1>0. FdOf[c] \in Fds
  BY FdOfAssumption
<1>1. PICK n \in Nodes :
        /\ node[n] = None
        /\ node' = Allocated(node, n, c, t)
        /\ wheel_' = Pushed(wheel_, n, c, t)
        /\ timer_map_' = [timer_map_ EXCEPT ![FdOf[c]] = n]
        /\ current_slot_' = current_slot_
  BY DEF add_connection_unsafe
<1>2. /\ NewNode(c, t) \in TimerNode
      /\ NewNode(c, t).slot \in SlotNumbers
      /\ NewNode(c, t).fd = FdOf[c]
  <2>1. NewNode(c, t) \in TimerNode
    BY NewNodeType DEF ListsInv
  <2>2. NewNode(c, t).fd = FdOf[c]
    BY DEF NewNode
  <2> QED
    BY <2>1, <2>2 DEF TimerNode
<1>3. /\ wheel_' \in [SlotNumbers -> SUBSET Nodes]
      /\ node' \in [Nodes -> TimerNode \union {None}]
      /\ timer_map_' \in [Fds -> Nodes \union {None}]
      /\ current_slot_' \in SlotNumbers
  BY <1>1, <1>2 DEF ListsInv, Allocated, Pushed
<1>4. SlotFieldAgrees'
  BY <1>1, <1>2, NoneAssumption DEF ListsInv, SlotFieldAgrees, Allocated, Pushed
<1>5. NoDanglingIterator'
  <2> SUFFICES ASSUME NEW f \in Fds, timer_map_'[f] # None
               PROVE  node'[timer_map_'[f]] # None /\ node'[timer_map_'[f]].fd = f
    BY DEF NoDanglingIterator
  <2>1. CASE f = FdOf[c]
    BY <1>0, <1>1, <1>2, <2>1, NoneAssumption DEF ListsInv, Allocated
  <2>2. CASE f # FdOf[c]
    <3>1. /\ timer_map_'[f] = timer_map_[f]
          /\ timer_map_[f] \in Nodes
          /\ node[timer_map_[f]] # None
          /\ node[timer_map_[f]].fd = f
      BY <1>1, <2>2 DEF ListsInv, NoDanglingIterator
    <3>2. timer_map_[f] # n
      BY <1>1, <3>1
    <3> QED
      BY <1>1, <3>1, <3>2 DEF Allocated, ListsInv
  <2> QED
    BY <2>1, <2>2
<1>6. FdFieldAgrees'
  BY <1>1, NoneAssumption DEF ListsInv, FdFieldAgrees, Allocated, NewNode
<1> QED
  BY <1>3, <1>4, <1>5, <1>6 DEF ListsInv

\* renew_unsafe erases the node of the entry before it pushes the new one,
\* which may get the same address.
LEMMA RenewKeepsLists ==
    ASSUME ListsInv, NEW c \in Conns, renew_unsafe(c)
    PROVE  ListsInv'
<1> DEFINE it == timer_map_[FdOf[c]]
           new == NewNode(c, RenewTimeout)
<1>0. FdOf[c] \in Fds
  BY FdOfAssumption
<1>1. CASE it = None
  <2>1. UNCHANGED wheelVars
    BY <1>1 DEF renew_unsafe
  <2> QED
    BY <2>1 DEF wheelVars, ListsInv, SlotFieldAgrees, NoDanglingIterator, FdFieldAgrees
<1>2. CASE it # None
  <2>1. /\ it \in Nodes
        /\ node[it] \in TimerNode
        /\ node[it].fd = FdOf[c]
        /\ node[it].slot \in SlotNumbers
    BY <1>0, <1>2 DEF ListsInv, NoDanglingIterator, TimerNode
  <2>2. PICK n \in Nodes :
          /\ node[n] = None \/ n = it
          /\ node' = Allocated(Freed(it), n, c, RenewTimeout)
          /\ wheel_' = Pushed(Erased(it), n, c, RenewTimeout)
          /\ timer_map_' = [timer_map_ EXCEPT ![FdOf[c]] = n]
          /\ current_slot_' = current_slot_
    BY <1>2 DEF renew_unsafe
  <2>3. /\ new \in TimerNode
        /\ new.slot \in SlotNumbers
        /\ new.fd = FdOf[c]
    <3>1. new \in TimerNode
      BY NewNodeType, TimeoutAssumption DEF ListsInv
    <3>2. new.fd = FdOf[c]
      BY DEF NewNode
    <3> QED
      BY <3>1, <3>2 DEF TimerNode
  <2> HIDE DEF it, new
  <2>4. node' = [m \in Nodes |-> IF m = n THEN new ELSE IF m = it THEN None ELSE node[m]]
    BY <2>1, <2>2 DEF ListsInv, Allocated, Freed, new
  <2>5. wheel_' = [s \in SlotNumbers |->
                     (IF s = node[it].slot THEN wheel_[s] \ {it} ELSE wheel_[s])
                       \union (IF s = new.slot THEN {n} ELSE {})]
    BY <2>1, <2>2, <2>3 DEF ListsInv, Pushed, Erased, new
  <2>6. /\ wheel_' \in [SlotNumbers -> SUBSET Nodes]
        /\ node' \in [Nodes -> TimerNode \union {None}]
        /\ timer_map_' \in [Fds -> Nodes \union {None}]
        /\ current_slot_' \in SlotNumbers
    <3>1. wheel_' \in [SlotNumbers -> SUBSET Nodes]
      BY <2>5 DEF ListsInv
    <3>2. node' \in [Nodes -> TimerNode \union {None}]
      BY <2>3, <2>4 DEF ListsInv
    <3>3. timer_map_' \in [Fds -> Nodes \union {None}]
      BY <2>2 DEF ListsInv
    <3>4. current_slot_' \in SlotNumbers
      BY <2>2 DEF ListsInv
    <3> QED
      BY <3>1, <3>2, <3>3, <3>4
  <2>7. SlotFieldAgrees'
    <3> SUFFICES ASSUME NEW s \in SlotNumbers, NEW m \in Nodes
                 PROVE  m \in wheel_'[s] <=> node'[m] # None /\ node'[m].slot = s
      BY DEF SlotFieldAgrees
    <3>1. m \in wheel_[s] <=> node[m] # None /\ node[m].slot = s
      BY DEF ListsInv, SlotFieldAgrees
    <3>2. node[n] = None \/ n = it
      BY <2>2
    <3> QED
      BY <2>1, <2>3, <2>4, <2>5, <3>1, <3>2, NoneAssumption
  <2>8. NoDanglingIterator'
    <3> SUFFICES ASSUME NEW f \in Fds, timer_map_'[f] # None
                 PROVE  node'[timer_map_'[f]] # None /\ node'[timer_map_'[f]].fd = f
      BY DEF NoDanglingIterator
    <3>1. CASE f = FdOf[c]
      BY <1>0, <2>2, <2>3, <2>4, <3>1, NoneAssumption DEF ListsInv
    <3>2. CASE f # FdOf[c]
      <4>1. /\ timer_map_'[f] = timer_map_[f]
            /\ timer_map_[f] \in Nodes
            /\ node[timer_map_[f]] # None
            /\ node[timer_map_[f]].fd = f
        BY <2>2, <3>2 DEF ListsInv, NoDanglingIterator
      <4>2. timer_map_[f] # n /\ timer_map_[f] # it
        BY <2>1, <2>2, <3>2, <4>1
      <4> QED
        BY <2>4, <4>1, <4>2
    <3> QED
      BY <3>1, <3>2
  <2>9. FdFieldAgrees'
    <3>1. new.fd = FdOf[new.conn]
      BY DEF new, NewNode
    <3> QED
      BY <2>4, <3>1 DEF ListsInv, FdFieldAgrees
  <2> QED
    BY <2>6, <2>7, <2>8, <2>9 DEF ListsInv
<1> QED
  BY <1>1, <1>2

\* collect erases exactly the nodes it frees, and every entry of their
\* descriptors, so no entry is left that names a freed node.
LEMMA CollectKeepsLists ==
    ASSUME ListsInv, collect
    PROVE  ListsInv'
<1>1. \A n \in Nodes : InCurrentList(n) <=> node[n] # None /\ node[n].slot = current_slot_
  BY DEF ListsInv, SlotFieldAgrees, InCurrentList
<1>2. /\ wheel_' = [wheel_ EXCEPT ![current_slot_] = {n \in @ : ~Expires(n)}]
      /\ node' = [n \in Nodes |->
                     IF Expires(n) THEN None
                     ELSE IF InCurrentList(n) THEN [node[n] EXCEPT !.rotation = @ - 1]
                     ELSE node[n]]
      /\ timer_map_' = [f \in Fds |-> IF EntryErased(f) THEN None ELSE timer_map_[f]]
      /\ current_slot_' = NextSlot
  BY DEF collect
<1>3. /\ current_slot_ \in SlotNumbers
      /\ current_slot_' \in SlotNumbers
  BY <1>2, NextSlotValue DEF ListsInv
<1>4. \A n \in Nodes :
         IF Expires(n) THEN node'[n] = None
         ELSE IF node[n] = None THEN node'[n] = None
         ELSE /\ node'[n] \in TimerNode
              /\ node'[n].slot = node[n].slot
              /\ node'[n].fd = node[n].fd
              /\ node'[n].conn = node[n].conn
  <2> SUFFICES ASSUME NEW n \in Nodes, ~Expires(n), node[n] # None
               PROVE  /\ node'[n] \in TimerNode
                      /\ node'[n].slot = node[n].slot
                      /\ node'[n].fd = node[n].fd
                      /\ node'[n].conn = node[n].conn
    BY <1>1, <1>2
  <2>1. node[n] \in TimerNode
    BY DEF ListsInv
  <2>2. CASE InCurrentList(n)
    <3>1. node'[n] = [node[n] EXCEPT !.rotation = @ - 1]
      BY <1>2, <2>2
    <3>2. node[n].rotation - 1 \in Nat
      BY <2>1, <2>2 DEF Expires, TimerNode
    <3> QED
      BY <2>1, <3>1, <3>2 DEF TimerNode
  <2>3. CASE ~InCurrentList(n)
    BY <1>2, <2>1, <2>3
  <2> QED
    BY <2>2, <2>3
<1>5. /\ wheel_' \in [SlotNumbers -> SUBSET Nodes]
      /\ node' \in [Nodes -> TimerNode \union {None}]
      /\ timer_map_' \in [Fds -> Nodes \union {None}]
  <2>1. wheel_' \in [SlotNumbers -> SUBSET Nodes]
    BY <1>2, <1>3 DEF ListsInv
  <2>2. \A n \in Nodes : node'[n] \in TimerNode \union {None}
    BY <1>4
  <2>3. node' \in [Nodes -> TimerNode \union {None}]
    BY <1>2, <2>2
  <2>4. timer_map_' \in [Fds -> Nodes \union {None}]
    BY <1>2 DEF ListsInv
  <2> QED
    BY <2>1, <2>3, <2>4
<1>6. SlotFieldAgrees'
  <2> SUFFICES ASSUME NEW s \in SlotNumbers, NEW n \in Nodes
               PROVE  n \in wheel_'[s] <=> node'[n] # None /\ node'[n].slot = s
    BY DEF SlotFieldAgrees
  <2>1. n \in wheel_[s] <=> node[n] # None /\ node[n].slot = s
    BY DEF ListsInv, SlotFieldAgrees
  <2>2. n \in wheel_'[s] <=> n \in wheel_[s] /\ (s = current_slot_ => ~Expires(n))
    BY <1>2, <1>3 DEF ListsInv
  <2>3. CASE Expires(n)
    BY <1>1, <1>4, <2>1, <2>2, <2>3 DEF Expires
  <2>4. CASE ~Expires(n)
    BY <1>4, <2>1, <2>2, <2>4, NoneAssumption
  <2> QED
    BY <2>3, <2>4
<1>7. NoDanglingIterator'
  <2> SUFFICES ASSUME NEW f \in Fds, timer_map_'[f] # None
               PROVE  node'[timer_map_'[f]] # None /\ node'[timer_map_'[f]].fd = f
    BY DEF NoDanglingIterator
  <2>1. ~EntryErased(f) /\ timer_map_'[f] = timer_map_[f]
    BY <1>2
  <2>2. /\ timer_map_[f] \in Nodes
        /\ node[timer_map_[f]] # None
        /\ node[timer_map_[f]].fd = f
    BY <2>1 DEF ListsInv, NoDanglingIterator
  <2>3. ~Expires(timer_map_[f])
    BY <2>1, <2>2 DEF EntryErased
  <2> QED
    BY <1>4, <2>1, <2>2, <2>3, NoneAssumption
<1>8. FdFieldAgrees'
  BY <1>4 DEF ListsInv, FdFieldAgrees
<1> QED
  BY <1>3, <1>5, <1>6, <1>7, <1>8 DEF ListsInv

----------------------------------------------------------------------------
(* The steps of the specification.                                         *)

LEMMA InitWheelInv == Init => WheelInv
<1> SUFFICES ASSUME Init PROVE WheelInv
  OBVIOUS
<1>1. 0 \in SlotNumbers
  BY SlotsAssumption DEF SlotNumbers
<1> QED
  BY <1>1 DEF Init, WheelInv, TypeOK, SlotFieldAgrees, NoDanglingIterator,
              FdFieldAgrees, CollectedByThread

LEMMA NextWheelInv == WheelInv /\ [Next]_vars => WheelInv'
<1> SUFFICES ASSUME WheelInv, [Next]_vars
             PROVE  WheelInv'
  OBVIOUS
<1> USE DEF WheelInv
<1>0. ListsInv
  BY DEF ListsInv, TypeOK
\* The variables that are not the wheel's.
<1> DEFINE Rest == /\ weak_conns' \in SUBSET Conns
                   /\ running_' \in BOOLEAN
                   /\ thread_' \in {"none", "running", "finished"}
                   /\ alive' \in SUBSET Conns
                   /\ CollectedByThread'
<1>1. ASSUME ListsInv', Rest
      PROVE  WheelInv'
  BY <1>1 DEF ListsInv, TypeOK
<1>2. ASSUME UNCHANGED wheelVars
      PROVE  ListsInv'
  BY <1>0, <1>2 DEF wheelVars, ListsInv, SlotFieldAgrees, NoDanglingIterator, FdFieldAgrees
<1>3. CASE start
  <2>1. Rest
    BY <1>3 DEF start, TypeOK, CollectedByThread
  <2> QED
    BY <1>1, <1>2, <1>3, <2>1 DEF start
<1>4. CASE tick
  <2>1. Rest
    BY <1>4 DEF tick, collect, TypeOK, CollectedByThread
  <2>2. ListsInv'
    BY <1>0, <1>4, CollectKeepsLists DEF tick
  <2> QED
    BY <1>1, <2>1, <2>2
<1>5. CASE run_exit
  <2>1. Rest
    BY <1>5 DEF run_exit, TypeOK, CollectedByThread
  <2> QED
    BY <1>1, <1>2, <1>5, <2>1 DEF run_exit
<1>6. CASE stop_request
  <2>1. Rest
    BY <1>6 DEF stop_request, TypeOK, CollectedByThread
  <2> QED
    BY <1>1, <1>2, <1>6, <2>1 DEF stop_request
<1>7. CASE stop_clear
  <2>1. Rest
    BY <1>7 DEF stop_clear, TypeOK, CollectedByThread
  <2>2. ListsInv'
    BY <1>0, <1>7 DEF stop_clear, ListsInv, SlotFieldAgrees, NoDanglingIterator, FdFieldAgrees
  <2> QED
    BY <1>1, <2>1, <2>2
<1>8. ASSUME NEW c \in Conns, Connect(c)
      PROVE  WheelInv'
  <2>1. Rest
    BY <1>8 DEF Connect, TypeOK, CollectedByThread
  <2> QED
    BY <1>1, <1>2, <1>8, <2>1 DEF Connect
<1>9. ASSUME NEW c \in Conns, close_expired(c)
      PROVE  WheelInv'
  <2>1. Rest
    BY <1>9 DEF close_expired, TypeOK, CollectedByThread
  <2> QED
    BY <1>1, <1>2, <1>9, <2>1 DEF close_expired
<1>10. ASSUME NEW c \in alive, Destroy(c)
       PROVE  WheelInv'
  <2>1. Rest
    BY <1>10 DEF Destroy, TypeOK, CollectedByThread
  <2> QED
    BY <1>1, <1>2, <1>10, <2>1 DEF Destroy
<1>11. ASSUME NEW c \in alive, add_connection(c)
       PROVE  WheelInv'
  <2>1. Rest
    BY <1>11 DEF add_connection, TypeOK, CollectedByThread
  <2>2. c \in Conns
    BY DEF TypeOK
  <2>3. ListsInv'
    BY <1>0, <1>11, <2>2, AddKeepsLists, TimeoutAssumption DEF add_connection
  <2> QED
    BY <1>1, <2>1, <2>3
<1>12. ASSUME NEW c \in alive, update_connection(c)
       PROVE  WheelInv'
  <2>1. Rest
    BY <1>12 DEF update_connection, TypeOK, CollectedByThread
  <2>2. c \in Conns
    BY DEF TypeOK
  <2>3. ListsInv'
    BY <1>0, <1>12, <2>2, RenewKeepsLists DEF update_connection
  <2> QED
    BY <1>1, <2>1, <2>3
<1>13. ASSUME NEW c \in alive, remove_connection(c)
       PROVE  WheelInv'
  <2>1. Rest
    BY <1>13 DEF remove_connection, TypeOK, CollectedByThread
  <2>2. c \in Conns
    BY DEF TypeOK
  <2>3. ListsInv'
    BY <1>0, <1>13, <2>2, RemoveKeepsLists DEF remove_connection
  <2> QED
    BY <1>1, <2>1, <2>3
<1>14. CASE UNCHANGED vars
  <2>1. Rest
    BY <1>14 DEF vars, TypeOK, CollectedByThread
  <2> QED
    BY <1>1, <1>2, <1>14, <2>1 DEF vars, wheelVars
<1> QED
  BY <1>3, <1>4, <1>5, <1>6, <1>7, <1>8, <1>9, <1>10, <1>11, <1>12, <1>13, <1>14
     DEF Next

\* The lists and the map of the wheel agree in every state, for every
\* interleaving of the callers with the tick thread.
THEOREM Invariance == Spec => []WheelInv
<1> QED
  BY InitWheelInv, NextWheelInv, PTL DEF Spec

\* Every value stays in its type (TimeWheel.h:38-51).
THEOREM TypeCorrect == Spec => []TypeOK
<1>1. WheelInv => TypeOK
  BY DEF WheelInv
<1> QED
  BY <1>1, Invariance, PTL

\* erase() is always called on the list that holds the node
\* (TimeWheel.cpp:97, 131).
THEOREM SlotFieldAlwaysAgrees == Spec => []SlotFieldAgrees
<1>1. WheelInv => SlotFieldAgrees
  BY DEF WheelInv
<1> QED
  BY <1>1, Invariance, PTL

\* No iterator kept in timer_map_ dangles, even when a tick erases the entry
\* of a descriptor that has been reused (TimeWheel.cpp:74).
THEOREM NeverDangling == Spec => []NoDanglingIterator
<1>1. WheelInv => NoDanglingIterator
  BY DEF WheelInv
<1> QED
  BY <1>1, Invariance, PTL

----------------------------------------------------------------------------
(* The refinement: slots and rotations implement the countdown.            *)

\* A node is due exactly when it is in the list of the current slot with no
\* rotation left; its countdown is a natural number.
LEMMA LeftAtZero ==
    ASSUME NEW nd \in TimerNode, NEW cur \in SlotNumbers
    PROVE  /\ LeftAt(nd, cur) \in Nat
           /\ LeftAt(nd, cur) = 0 <=> nd.rotation = 0 /\ nd.slot = cur
<1> DEFINE dist == IF nd.slot >= cur THEN nd.slot - cur ELSE nd.slot + Slots - cur
<1>1. /\ nd.rotation \in Nat
      /\ nd.slot \in SlotNumbers
      /\ Slots \in Nat \ {0}
  BY SlotsAssumption DEF TimerNode
<1>2. dist \in Nat /\ (dist = 0 <=> nd.slot = cur)
  BY <1>1 DEF SlotNumbers
<1>3. nd.rotation * Slots \in Nat /\ (nd.rotation * Slots = 0 <=> nd.rotation = 0)
  BY <1>1
<1>4. LeftAt(nd, cur) = nd.rotation * Slots + dist
  BY DEF LeftAt
<1> HIDE DEF dist
<1> QED
  BY <1>2, <1>3, <1>4

\* A node pushed with t ticks has t ticks left.
LEMMA LeftAtNew ==
    ASSUME current_slot_ \in SlotNumbers, NEW c \in Conns, NEW t \in Nat
    PROVE  LeftAt(NewNode(c, t), current_slot_) = Ticks(t)
<1> DEFINE k == Ticks(t)
           q == k \div Slots
           r == k % Slots
           s == (current_slot_ + r) % Slots
<1>1. /\ q \in Nat
      /\ r \in SlotNumbers
      /\ k = q * Slots + r
  BY TicksType, Division
<1>2. s = IF current_slot_ + r < Slots THEN current_slot_ + r
          ELSE current_slot_ + r - Slots
  BY <1>1, SlotAhead
<1>3. LeftAt(NewNode(c, t), current_slot_) =
        q * Slots + (IF s >= current_slot_ THEN s - current_slot_
                     ELSE s + Slots - current_slot_)
  BY DEF LeftAt, NewNode
<1> HIDE DEF k, q, r, s
<1>4. (IF s >= current_slot_ THEN s - current_slot_ ELSE s + Slots - current_slot_) = r
  BY <1>1, <1>2, SlotsAssumption DEF SlotNumbers
<1> QED
  BY <1>1, <1>3, <1>4 DEF k

\* When the wheel advances, a node that is not taken has one tick less.
LEMMA LeftAtTick ==
    ASSUME NEW nd \in TimerNode, NEW cur \in SlotNumbers,
           NEW nxt, nxt = IF cur = Slots - 1 THEN 0 ELSE cur + 1
    PROVE  /\ nd.slot # cur => LeftAt(nd, nxt) = LeftAt(nd, cur) - 1
           /\ nd.slot = cur /\ nd.rotation > 0 =>
                LeftAt([nd EXCEPT !.rotation = @ - 1], nxt) = LeftAt(nd, cur) - 1
<1>1. /\ nd.rotation \in Nat
      /\ nd.slot \in SlotNumbers
      /\ Slots \in Nat \ {0}
  BY SlotsAssumption DEF TimerNode
<1>2. nd.rotation * Slots \in Nat
  BY <1>1
<1>3. ASSUME nd.slot # cur
      PROVE  LeftAt(nd, nxt) = LeftAt(nd, cur) - 1
  <2> DEFINE m == nd.rotation * Slots
  <2>1. m \in Nat
    BY <1>2
  <2>2. \A x : LeftAt(nd, x) = m + (IF nd.slot >= x THEN nd.slot - x
                                     ELSE nd.slot + Slots - x)
    BY DEF LeftAt
  <2> HIDE DEF m
  <2> QED
    BY <1>1, <1>3, <2>1, <2>2 DEF SlotNumbers
<1>4. ASSUME nd.slot = cur, nd.rotation > 0
      PROVE  LeftAt([nd EXCEPT !.rotation = @ - 1], nxt) = LeftAt(nd, cur) - 1
  <2> DEFINE dec == [nd EXCEPT !.rotation = @ - 1]
             m == nd.rotation * Slots
  <2>1. dec.rotation = nd.rotation - 1 /\ dec.slot = cur
    BY <1>4 DEF TimerNode
  <2>2. dec.rotation * Slots = m - Slots /\ m \in Nat
    BY <1>1, <1>2, <2>1
  <2>3. LeftAt(dec, nxt) = m - Slots + (IF cur >= nxt THEN cur - nxt
                                        ELSE cur + Slots - nxt)
    BY <2>1, <2>2 DEF LeftAt
  <2>4. LeftAt(nd, cur) = m + (IF cur >= cur THEN cur - cur ELSE cur + Slots - cur)
    BY <1>4 DEF LeftAt
  <2> HIDE DEF m, dec
  <2> QED
    BY <1>1, <2>2, <2>3, <2>4 DEF SlotNumbers, dec
<1> QED
  BY <1>3, <1>4

\* What the abstract timer sees of a node.
View(nd, cur) ==
    IF nd = None THEN None ELSE [conn |-> nd.conn, left |-> LeftAt(nd, cur)]

LEMMA ViewIsTimer ==
    /\ timerView = [n \in Nodes |-> View(node[n], current_slot_)]
    /\ timerView' = [n \in Nodes |-> View(node'[n], current_slot_')]
BY DEF timerView, View, Left

\* The view shows a timer exactly for an allocated node.
LEMMA ViewArmed ==
    ASSUME NEW nd \in TimerNode \union {None}, NEW cur \in SlotNumbers
    PROVE  /\ View(nd, cur) = None <=> nd = None
           /\ nd # None => /\ View(nd, cur).conn = nd.conn
                           /\ View(nd, cur).left = LeftAt(nd, cur)
<1>1. ASSUME nd # None
      PROVE  View(nd, cur) \in [conn : Conns, left : Nat]
  <2>1. nd \in TimerNode /\ nd.conn \in Conns
    BY <1>1 DEF TimerNode
  <2>2. LeftAt(nd, cur) \in Nat
    BY <2>1, LeftAtZero
  <2> QED
    BY <1>1, <2>1, <2>2 DEF View
<1> QED
  BY <1>1, NoneAssumption DEF View

LEMMA AddRefines ==
    ASSUME ListsInv, NEW c \in Conns, add_connection(c)
    PROVE  Idle!Add(c)
<1>1. PICK n \in Nodes :
        /\ node[n] = None
        /\ node' = Allocated(node, n, c, Timeout)
        /\ timer_map_' = [timer_map_ EXCEPT ![FdOf[c]] = n]
        /\ current_slot_' = current_slot_
        /\ weak_conns' = weak_conns
        /\ alive' = alive
  BY DEF add_connection, add_connection_unsafe
<1>2. View(NewNode(c, Timeout), current_slot_) = [conn |-> c, left |-> Ticks(Timeout)]
  <2>1. NewNode(c, Timeout) \in TimerNode
    BY NewNodeType, TimeoutAssumption DEF ListsInv
  <2>2. LeftAt(NewNode(c, Timeout), current_slot_) = Ticks(Timeout)
    BY LeftAtNew, TimeoutAssumption DEF ListsInv
  <2> QED
    BY <2>1, <2>2, NoneAssumption DEF View, NewNode
<1>3. timerView' = [timerView EXCEPT ![n] = [conn |-> c, left |-> Ticks(Timeout)]]
  <2>1. node' = [m \in Nodes |-> IF m = n THEN NewNode(c, Timeout) ELSE node[m]]
    BY <1>1 DEF Allocated, ListsInv
  <2> QED
    BY <1>1, <1>2, <2>1, ViewIsTimer
<1>4. timerView[n] = None
  BY <1>1, ViewIsTimer DEF View
<1> QED
  BY <1>1, <1>3, <1>4 DEF Idle!Add, Idle!Armed

LEMMA RemoveRefines ==
    ASSUME ListsInv, NEW c \in Conns, remove_connection(c)
    PROVE  Idle!Remove(c)
<1> DEFINE it == timer_map_[FdOf[c]]
<1>1. /\ timer_map_' = [timer_map_ EXCEPT ![FdOf[c]] = None]
      /\ current_slot_' = current_slot_
      /\ weak_conns' = weak_conns
      /\ alive' = alive
  BY DEF remove_connection, remove_connection_unsafe
<1>2. timerView' = Idle!Gone(it)
  <2>1. CASE it = None
    <3>1. node' = node
      BY <2>1 DEF remove_connection, remove_connection_unsafe
    <3> QED
      BY <1>1, <2>1, <3>1, ViewIsTimer DEF Idle!Gone
  <2>2. CASE it # None
    <3>1. node' = Freed(it)
      BY <2>2 DEF remove_connection, remove_connection_unsafe
    <3>2. node' = [m \in Nodes |-> IF m = it THEN None ELSE node[m]]
      BY <3>1 DEF Freed, ListsInv
    <3> QED
      BY <1>1, <2>2, <3>2, ViewIsTimer DEF Idle!Gone, View
  <2> QED
    BY <2>1, <2>2
<1> QED
  BY <1>1, <1>2 DEF Idle!Remove

LEMMA UpdateRefines ==
    ASSUME ListsInv, NEW c \in Conns, update_connection(c)
    PROVE  Idle!Update(c) \/ UNCHANGED Idle!vars
<1> DEFINE it == timer_map_[FdOf[c]]
<1>1. CASE it = None
  BY <1>1, ViewIsTimer DEF update_connection, renew_unsafe, wheelVars, Idle!vars
<1>2. CASE it # None
  <2>1. PICK n \in Nodes :
          /\ node[n] = None \/ n = it
          /\ node' = Allocated(Freed(it), n, c, RenewTimeout)
          /\ timer_map_' = [timer_map_ EXCEPT ![FdOf[c]] = n]
          /\ current_slot_' = current_slot_
          /\ weak_conns' = weak_conns
          /\ alive' = alive
    BY <1>2 DEF update_connection, renew_unsafe
  <2>2. View(NewNode(c, RenewTimeout), current_slot_)
          = [conn |-> c, left |-> Ticks(RenewTimeout)]
    <3>1. NewNode(c, RenewTimeout) \in TimerNode
      BY NewNodeType, TimeoutAssumption DEF ListsInv
    <3>2. LeftAt(NewNode(c, RenewTimeout), current_slot_) = Ticks(RenewTimeout)
      BY LeftAtNew, TimeoutAssumption DEF ListsInv
    <3> QED
      BY <3>1, <3>2, NoneAssumption DEF View, NewNode
  <2>3. node' = [m \in Nodes |-> IF m = n THEN NewNode(c, RenewTimeout)
                                 ELSE IF m = it THEN None ELSE node[m]]
    BY <2>1 DEF Allocated, Freed, ListsInv
  <2>4. timerView' = [Idle!Gone(it) EXCEPT ![n] = [conn |-> c, left |-> Ticks(RenewTimeout)]]
    BY <1>2, <2>1, <2>2, <2>3, ViewIsTimer DEF Idle!Gone, View
  <2>5. timerView[n] = None \/ n = it
    BY <2>1, ViewIsTimer DEF View
  <2> QED
    BY <1>2, <2>1, <2>4, <2>5 DEF Idle!Update, Idle!Armed
<1> QED
  BY <1>1, <1>2

LEMMA TickRefines ==
    ASSUME ListsInv, tick
    PROVE  Idle!Tick
<1>1. /\ weak_conns = {}
      /\ alive' = alive
      /\ collect
  BY DEF tick
<1>2. /\ current_slot_ \in SlotNumbers
      /\ current_slot_' = IF current_slot_ = Slots - 1 THEN 0 ELSE current_slot_ + 1
      /\ current_slot_' \in SlotNumbers
  BY <1>1, NextSlotValue DEF ListsInv, collect
<1>3. \A n \in Nodes : InCurrentList(n) <=> node[n] # None /\ node[n].slot = current_slot_
  BY DEF ListsInv, SlotFieldAgrees, InCurrentList
<1>4. \A n \in Nodes : node[n] \in TimerNode \union {None}
  BY DEF ListsInv
<1>5. \A n \in Nodes : Idle!Armed(n) <=> node[n] # None
  BY <1>2, <1>4, ViewIsTimer, ViewArmed DEF Idle!Armed
<1>6. \A n \in Nodes : Idle!Due(n) <=> Expires(n)
  <2> SUFFICES ASSUME NEW n \in Nodes
               PROVE  Idle!Due(n) <=> Expires(n)
    OBVIOUS
  <2>1. CASE node[n] = None
    BY <1>3, <1>5, <2>1 DEF Idle!Due, Expires
  <2>2. CASE node[n] # None
    <3>1. node[n] \in TimerNode
      BY <1>4, <2>2
    <3>2. timerView[n].left = LeftAt(node[n], current_slot_)
      BY <1>2, <1>4, <2>2, ViewIsTimer, ViewArmed
    <3> QED
      BY <1>2, <1>3, <1>5, <2>2, <3>1, <3>2, LeftAtZero DEF Idle!Due, Expires
  <2> QED
    BY <2>1, <2>2
<1>7. \A n \in Nodes : node[n] # None => /\ timerView[n].conn = node[n].conn
                                        /\ node[n].fd = FdOf[node[n].conn]
  BY <1>2, <1>4, ViewIsTimer, ViewArmed DEF ListsInv, FdFieldAgrees
<1>8. timerView' = [n \in Nodes |->
                      IF ~Idle!Armed(n) \/ Idle!Due(n) THEN None
                      ELSE [timerView[n] EXCEPT !.left = @ - 1]]
  <2> SUFFICES ASSUME NEW n \in Nodes
               PROVE  View(node'[n], current_slot_') =
                        IF ~Idle!Armed(n) \/ Idle!Due(n) THEN None
                        ELSE [timerView[n] EXCEPT !.left = @ - 1]
    BY ViewIsTimer
  <2>1. node'[n] = IF Expires(n) THEN None
                   ELSE IF InCurrentList(n) THEN [node[n] EXCEPT !.rotation = @ - 1]
                   ELSE node[n]
    BY <1>1 DEF collect
  <2>2. CASE Expires(n)
    BY <1>6, <2>1, <2>2 DEF View
  <2>3. CASE node[n] = None
    BY <1>3, <1>5, <2>1, <2>3 DEF View, Expires
  <2>4. CASE node[n] # None /\ ~Expires(n)
    <3> DEFINE nd == node[n]
               L == LeftAt(nd, current_slot_)
    <3>1. nd \in TimerNode /\ nd.rotation \in Nat
      BY <1>4, <2>4 DEF TimerNode
    <3>2. timerView[n] = [conn |-> nd.conn, left |-> L]
      BY <2>4, ViewIsTimer DEF View
    <3>3. [timerView[n] EXCEPT !.left = @ - 1] = [conn |-> nd.conn, left |-> L - 1]
      BY <3>2
    <3>4. /\ node'[n] # None
          /\ node'[n].conn = nd.conn
          /\ LeftAt(node'[n], current_slot_') = L - 1
      <4>1. CASE InCurrentList(n)
        <5>1. nd.rotation > 0 /\ nd.slot = current_slot_
          BY <1>3, <2>4, <3>1, <4>1 DEF Expires
        <5>2. node'[n] = [nd EXCEPT !.rotation = @ - 1]
          BY <2>1, <2>4, <4>1
        <5>3. [nd EXCEPT !.rotation = @ - 1] \in TimerNode
          BY <3>1, <5>1 DEF TimerNode
        <5>4. LeftAt([nd EXCEPT !.rotation = @ - 1], current_slot_') = L - 1
          BY <1>2, <3>1, <5>1, LeftAtTick
        <5> QED
          BY <3>1, <5>2, <5>3, <5>4, NoneAssumption DEF TimerNode
      <4>2. CASE ~InCurrentList(n)
        <5>1. nd.slot # current_slot_
          BY <1>3, <2>4, <4>2
        <5>2. node'[n] = nd
          BY <2>1, <2>4, <4>2
        <5>3. LeftAt(nd, current_slot_') = L - 1
          BY <1>2, <3>1, <5>1, LeftAtTick
        <5> QED
          BY <2>4, <5>2, <5>3
      <4> QED
        BY <4>1, <4>2
    <3>5. View(node'[n], current_slot_') = [conn |-> nd.conn, left |-> L - 1]
      BY <3>4 DEF View
    <3> QED
      BY <1>5, <1>6, <2>4, <3>3, <3>5
  <2> QED
    BY <2>2, <2>3, <2>4
<1>9. \A n \in Nodes : Expires(n) => node[n] # None
  BY <1>3 DEF Expires
<1>10. timer_map_' = [f \in Fds |->
                        IF \E n \in Nodes : Idle!Due(n) /\ FdOf[timerView[n].conn] = f
                        THEN None ELSE timer_map_[f]]
  <2>1. \A f \in Fds : EntryErased(f) <=>
                         \E n \in Nodes : Idle!Due(n) /\ FdOf[timerView[n].conn] = f
    BY <1>6, <1>7, <1>9 DEF EntryErased
  <2> QED
    BY <1>1, <2>1 DEF collect
<1>11. weak_conns' = {c \in alive : \E n \in Nodes : Idle!Due(n) /\ timerView[n].conn = c}
  <2>1. weak_conns' = {c \in alive : \E n \in Nodes : Expires(n) /\ node[n].conn = c}
    BY <1>1 DEF collect
  <2>2. \A c \in alive : (\E n \in Nodes : Expires(n) /\ node[n].conn = c) <=>
                         (\E n \in Nodes : Idle!Due(n) /\ timerView[n].conn = c)
    BY <1>6, <1>7, <1>9
  <2> QED
    BY <2>1, <2>2
<1> QED
  BY <1>1, <1>8, <1>10, <1>11 DEF Idle!Tick

LEMMA InitRefines == Init => Idle!Init
BY DEF Init, Idle!Init, timerView

LEMMA NextRefines == WheelInv /\ [Next]_vars => [Idle!Next]_(Idle!vars)
<1> SUFFICES ASSUME WheelInv, [Next]_vars
             PROVE  Idle!Next \/ UNCHANGED Idle!vars
  OBVIOUS
<1>0. ListsInv /\ alive \subseteq Conns
  BY DEF WheelInv, ListsInv, TypeOK
<1>1. ASSUME UNCHANGED wheelVars
      PROVE  timerView' = timerView /\ timer_map_' = timer_map_
  BY <1>1, ViewIsTimer DEF wheelVars
<1>2. CASE start \/ run_exit \/ stop_request \/ UNCHANGED vars
  <2>1. UNCHANGED wheelVars /\ UNCHANGED <<weak_conns, alive>>
    BY <1>2 DEF start, run_exit, stop_request, vars, wheelVars
  <2> QED
    BY <1>1, <2>1 DEF Idle!vars
<1>3. CASE tick
  BY <1>0, <1>3, TickRefines DEF Idle!Next
<1>4. CASE stop_clear
  <2>1. weak_conns = {}
    BY <1>4 DEF stop_clear, WheelInv, CollectedByThread
  <2>2. timerView' = [n \in Nodes |-> None]
    BY <1>4, ViewIsTimer DEF stop_clear, View
  <2>3. Idle!Clear
    BY <1>4, <2>1, <2>2 DEF stop_clear, Idle!Clear
  <2> QED
    BY <2>3 DEF Idle!Next
<1>5. ASSUME NEW c \in Conns, Connect(c) \/ close_expired(c)
      PROVE  Idle!Next
  <2>1. UNCHANGED wheelVars
    BY <1>5 DEF Connect, close_expired
  <2>2. Idle!Connect(c) \/ Idle!Close(c)
    BY <1>1, <1>5, <2>1 DEF Connect, close_expired, Idle!Connect, Idle!Close
  <2> QED
    BY <2>2 DEF Idle!Next
<1>6. ASSUME NEW c \in alive, Destroy(c)
      PROVE  Idle!Next
  <2>1. UNCHANGED wheelVars
    BY <1>6 DEF Destroy
  <2>2. Idle!Destroy(c)
    BY <1>1, <1>6, <2>1 DEF Destroy, Idle!Destroy
  <2> QED
    BY <2>2 DEF Idle!Next
<1>7. ASSUME NEW c \in alive, add_connection(c)
      PROVE  Idle!Next
  BY <1>0, <1>7, AddRefines DEF Idle!Next
<1>8. ASSUME NEW c \in alive, update_connection(c)
      PROVE  Idle!Next \/ UNCHANGED Idle!vars
  BY <1>0, <1>8, UpdateRefines DEF Idle!Next
<1>9. ASSUME NEW c \in alive, remove_connection(c)
      PROVE  Idle!Next
  BY <1>0, <1>9, RemoveRefines DEF Idle!Next
<1> QED
  BY <1>2, <1>3, <1>4, <1>5, <1>6, <1>7, <1>8, <1>9 DEF Next

\* The wheel implements the countdown: for every number of slots, interval and
\* timeout a timer is taken exactly when its ticks are used up, never earlier
\* and never a turn later.
THEOREM Refinement == Spec => ImplementsIdleTimer
<1>1. Spec => Idle!Init /\ [][Idle!Next]_(Idle!vars)
  BY InitRefines, NextRefines, Invariance, PTL DEF Spec
<1> QED
  BY <1>1 DEF ImplementsIdleTimer, Idle!Spec
=============================================================================
