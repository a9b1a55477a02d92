---------------------------- MODULE TimeWheel ----------------------------
(***************************************************************************)
(* timer/TimeWheel: a wheel of slots_ lists of TimerNodes, a map from      *)
(* descriptor to list iterator, and the thread that ticks.  Every member   *)
(* function holds mutex_ for its whole body, so each is one action, except *)
(* tick(), which collects under the mutex and closes after releasing it,   *)
(* and stop(), which joins the thread before it clears.                    *)
(*                                                                         *)
(* A TimerNode is an address of Nodes; an iterator kept in timer_map_ is   *)
(* that address.  node[n] is what the address holds, None when the list    *)
(* node is not allocated.  A weak_ptr is the connection it was made from:  *)
(* it is expired when the connection is not in alive.                      *)
(***************************************************************************)
EXTENDS Integers

CONSTANTS
    Conns,          \* Connection objects, each one incarnation of a descriptor
    Fds,            \* descriptors
    FdOf,           \* FdOf[c]: fd() of connection c
    Nodes,          \* addresses of list nodes
    None,           \* an unallocated node, an absent map entry
    SlotInterval,   \* slot_interval_, in seconds
    Slots,          \* slots_
    Timeout,        \* the timeout TcpServer passes to add_connection
    RenewTimeout    \* the timeout written into update_connection (360)

ASSUME FdOfAssumption == FdOf \in [Conns -> Fds]
ASSUME IntervalAssumption == SlotInterval \in Nat \ {0}
ASSUME SlotsAssumption == Slots \in Nat \ {0}
ASSUME TimeoutAssumption == Timeout \in Nat /\ RenewTimeout \in Nat

VARIABLES
    wheel_,         \* wheel_[s]: the nodes in the list of slot s
    node,           \* node[n]: the TimerNode at address n
    timer_map_,     \* timer_map_[f]: the node registered for f, or None
    current_slot_,
    weak_conns,     \* local of tick(): collected, not yet closed
    running_,
    thread_,        \* "none", "running" or "finished" (not yet joined)
    alive           \* Connection objects some shared_ptr still owns

wheelVars == <<wheel_, node, timer_map_, current_slot_>>
vars == <<wheel_, node, timer_map_, current_slot_, weak_conns, running_,
          thread_, alive>>

SlotNumbers == 0 .. Slots - 1

TimerNode == [fd : Fds, rotation : Nat, slot : SlotNumbers, conn : Conns]

ASSUME NoneAssumption ==
    /\ None \notin Nodes
    /\ None \notin TimerNode
    /\ None \notin [conn : Conns, left : Nat]

----------------------------------------------------------------------------
(* The private helpers, on explicit states of the lists.                   *)

Ticks(timeout) == timeout \div SlotInterval

\* add_connection_unsafe: the fields of the node it pushes.
NewNode(c, timeout) ==
    [fd |-> FdOf[c],
     rotation |-> Ticks(timeout) \div Slots,
     slot |-> (current_slot_ + (Ticks(timeout) % Slots)) % Slots,
     conn |-> c]

\* n is the free address the list allocates for the pushed node.
Allocated(nodes, n, c, timeout) == [nodes EXCEPT ![n] = NewNode(c, timeout)]
Pushed(wheel, n, c, timeout) ==
    [wheel EXCEPT ![NewNode(c, timeout).slot] = @ \union {n}]

\* A bug for comparison: the node is freed and stays linked in its list.
NotErased(n) == wheel_

\* wheel_[it->second->slot].erase(it->second): n leaves its list ...
Erased(n) == [wheel_ EXCEPT ![node[n].slot] = @ \ {n}]

\* ... and its address is free again.
Freed(n) == [node EXCEPT ![n] = None]

\* remove_connection_unsafe: nothing happens when the fd has no entry.
remove_connection_unsafe(c) ==
    LET it == timer_map_[FdOf[c]] IN
    /\ IF it # None THEN /\ wheel_' = Erased(it)
                         /\ node' = Freed(it)
                    ELSE UNCHANGED <<wheel_, node>>
    /\ timer_map_' = [timer_map_ EXCEPT ![FdOf[c]] = None]
    /\ UNCHANGED current_slot_

\* add_connection_unsafe
add_connection_unsafe(c, timeout) ==
    \E n \in Nodes :
        /\ node[n] = None
        /\ node' = Allocated(node, n, c, timeout)
        /\ wheel_' = Pushed(wheel_, n, c, timeout)
        /\ timer_map_' = [timer_map_ EXCEPT ![FdOf[c]] = n]
        /\ UNCHANGED current_slot_

\* The body of update_connection: with no entry for the fd nothing happens,
\* else erase the node of the entry and push a new one.  The freed address may
\* be the one allocated.
renew_unsafe(c) ==
    LET it == timer_map_[FdOf[c]] IN
    IF it = None THEN UNCHANGED wheelVars
    ELSE /\ \E n \in Nodes :
             /\ node[n] = None \/ n = it
             /\ node' = Allocated(Freed(it), n, c, RenewTimeout)
             /\ wheel_' = Pushed(Erased(it), n, c, RenewTimeout)
             /\ timer_map_' = [timer_map_ EXCEPT ![FdOf[c]] = n]
         /\ UNCHANGED current_slot_

----------------------------------------------------------------------------
(* The first half of tick(), under mutex_.                                 *)

InCurrentList(n) == n \in wheel_[current_slot_]

\* A bug for comparison: one rotation too early.
ExpiresEarly(n) == InCurrentList(n) /\ node[n].rotation <= 1

Expires(n) == InCurrentList(n) /\ node[n].rotation = 0

\* A bug for comparison: the map keeps the iterator of the erased node.
EntryKept(f) == FALSE

\* timer_map_.erase(it->fd): the entry goes whichever node it names.
EntryErased(f) == \E n \in Nodes : Expires(n) /\ node[n].fd = f

\* A bug for comparison: the slot number runs past the last slot.
NextSlotUnwrapped == current_slot_ + 1

NextSlot == (current_slot_ + 1) % Slots

\* Walk the list of the current slot: a node with rotations left loses one, a
\* node without is taken (its connection if the weak_ptr is not expired), its
\* fd's map entry erased and the node freed.  Then advance current_slot_.
collect ==
    /\ weak_conns' = {c \in alive : \E n \in Nodes : Expires(n) /\ node[n].conn = c}
    /\ wheel_' = [wheel_ EXCEPT ![current_slot_] = {n \in @ : ~Expires(n)}]
    /\ node' = [n \in Nodes |->
                   IF Expires(n) THEN None
                   ELSE IF InCurrentList(n) THEN [node[n] EXCEPT !.rotation = @ - 1]
                   ELSE node[n]]
    /\ timer_map_' = [f \in Fds |-> IF EntryErased(f) THEN None ELSE timer_map_[f]]
    /\ current_slot_' = NextSlot

----------------------------------------------------------------------------
(* The member functions, called by the threads of TcpServer.               *)

Init ==
    /\ wheel_ = [s \in SlotNumbers |-> {}]
    /\ node = [n \in Nodes |-> None]
    /\ timer_map_ = [f \in Fds |-> None]
    /\ current_slot_ = 0
    /\ weak_conns = {}
    /\ running_ = FALSE
    /\ thread_ = "none"
    /\ alive = {}

add_connection(c) ==
    /\ add_connection_unsafe(c, Timeout)
    /\ UNCHANGED <<weak_conns, running_, thread_, alive>>

update_connection(c) ==
    /\ renew_unsafe(c)
    /\ UNCHANGED <<weak_conns, running_, thread_, alive>>

remove_connection(c) ==
    /\ remove_connection_unsafe(c)
    /\ UNCHANGED <<weak_conns, running_, thread_, alive>>

start ==
    /\ ~running_
    /\ thread_ = "none"
    /\ running_' = TRUE
    /\ thread_' = "running"
    /\ UNCHANGED <<wheelVars, weak_conns, alive>>

\* run(): the timed wait ended and running_ is still set.
tick ==
    /\ thread_ = "running"
    /\ running_
    /\ weak_conns = {}
    /\ collect
    /\ UNCHANGED <<running_, thread_, alive>>

\* The second half of tick(): lock one weak_ptr and, if its connection still
\* exists, call closecallback(), whose effects are the client's own actions.
close_expired(c) ==
    /\ c \in weak_conns
    /\ weak_conns' = weak_conns \ {c}
    /\ UNCHANGED <<wheelVars, running_, thread_, alive>>

\* run(): the wait ended because running_ was reset.
run_exit ==
    /\ thread_ = "running"
    /\ ~running_
    /\ weak_conns = {}
    /\ thread_' = "finished"
    /\ UNCHANGED <<wheelVars, weak_conns, running_, alive>>

stop_request ==
    /\ running_
    /\ running_' = FALSE
    /\ UNCHANGED <<wheelVars, weak_conns, thread_, alive>>

\* stop() after join(): clear the lists and the map.
stop_clear ==
    /\ ~running_
    /\ thread_ = "finished"
    /\ thread_' = "none"
    /\ wheel_' = [s \in SlotNumbers |-> {}]
    /\ node' = [n \in Nodes |-> None]
    /\ timer_map_' = [f \in Fds |-> None]
    /\ UNCHANGED <<current_slot_, weak_conns, running_, alive>>

(* Connections come and go: the kernel hands out a descriptor only when no  *)
(* Connection object still holds its socket.                               *)
Connect(c) ==
    /\ \A d \in alive : FdOf[d] # FdOf[c]
    /\ alive' = alive \union {c}
    /\ UNCHANGED <<wheelVars, weak_conns, running_, thread_>>

Destroy(c) ==
    /\ alive' = alive \ {c}
    /\ UNCHANGED <<wheelVars, weak_conns, running_, thread_>>

Next ==
    \/ start
    \/ tick
    \/ run_exit
    \/ stop_request
    \/ stop_clear
    \/ \E c \in Conns : Connect(c) \/ close_expired(c)
    \/ \E c \in alive : \/ Destroy(c)
                        \/ add_connection(c)
                        \/ update_connection(c)
                        \/ remove_connection(c)

Spec == Init /\ [][Next]_vars

----------------------------------------------------------------------------
(* Properties.                                                             *)

\* Every variable holds a value of its type; the wheel has one list per slot.
TypeOK ==
    /\ wheel_ \in [SlotNumbers -> SUBSET Nodes]
    /\ node \in [Nodes -> TimerNode \union {None}]
    /\ timer_map_ \in [Fds -> Nodes \union {None}]
    /\ current_slot_ \in SlotNumbers
    /\ weak_conns \in SUBSET Conns
    /\ running_ \in BOOLEAN
    /\ thread_ \in {"none", "running", "finished"}
    /\ alive \in SUBSET Conns

\* A node is in the list of exactly the slot its field names: erase() is
\* always given an iterator of the list it is called on (TimeWheel.cpp:97,
\* 131), even when a node outlives its connection.
SlotFieldAgrees ==
    \A s \in SlotNumbers, n \in Nodes :
        n \in wheel_[s] <=> node[n] # None /\ node[n].slot = s

\* No iterator in timer_map_ dangles: it names an allocated node of the same
\* descriptor, whatever stale nodes of an earlier owner of the descriptor are
\* still in the wheel when tick() erases by fd.
NoDanglingIterator ==
    \A f \in Fds :
        timer_map_[f] # None => /\ node[timer_map_[f]] # None
                                /\ node[timer_map_[f]].fd = f

\* What tick() collects is closed before the next tick and only while the
\* thread is not joined.
CollectedByThread == weak_conns # {} => thread_ = "running"

\* The fd a node records is the one of the connection it points to.
FdFieldAgrees ==
    \A n \in Nodes : node[n] # None => node[n].fd = FdOf[node[n].conn]

\* Ticks a node has left: full turns and the distance from the current slot.
LeftAt(nd, cur) ==
    nd.rotation * Slots
      + (IF nd.slot >= cur THEN nd.slot - cur ELSE nd.slot + Slots - cur)

Left(n) == LeftAt(node[n], current_slot_)

\* The refinement: slot and rotation stand for the ticks left.
timerView ==
    [n \in Nodes |->
        IF node[n] = None THEN None
        ELSE [conn |-> node[n].conn, left |-> Left(n)]]

Idle == INSTANCE IdleTimer WITH
            Timers <- Nodes,
            timer <- timerView,
            index <- timer_map_,
            expired <- weak_conns,
            AddTicks <- Ticks(Timeout),
            RenewTicks <- Ticks(RenewTimeout)

WheelInv ==
    /\ TypeOK
    /\ SlotFieldAgrees
    /\ NoDanglingIterator
    /\ FdFieldAgrees
    /\ CollectedByThread

\* Slots and rotations implement a countdown: no timer fires before or after
\* the tick at which its countdown reaches zero, for every interleaving of
\* additions, renewals, removals, destructions and ticks.
ImplementsIdleTimer == Idle!Spec
=============================================================================
