---------------------------- MODULE IdleTimer ----------------------------
(***************************************************************************)
(* What the idle-connection timer promises, without a wheel: every timer   *)
(* counts the ticks it has left, a tick expires exactly the timers that    *)
(* have none left, and the index of a descriptor names the timer that an   *)
(* update or a removal acts on.  TimeWheel implements it (INSTANCE there). *)
(*                                                                         *)
(* The clients are arbitrary: any existing connection may be added,        *)
(* updated, removed or destroyed at any moment, as the threads of          *)
(* TcpServer may do.                                                       *)
(***************************************************************************)
EXTENDS Naturals

CONSTANTS
    Conns,       \* Connection objects, each one incarnation of a descriptor
    Fds,         \* descriptors
    FdOf,        \* FdOf[c]: the descriptor of connection c
    Timers,      \* identities of timers
    None,        \* no timer
    AddTicks,    \* ticks a timer gets when it is added
    RenewTicks   \* ticks a timer gets when it is updated

VARIABLES
    timer,       \* timer[t]: None, or whose timer t is and the ticks it has left
    index,       \* index[f]: the timer found under descriptor f, or None
    expired,     \* connections taken by the last tick and not closed yet
    alive        \* Connection objects that exist

vars == <<timer, index, expired, alive>>

Armed(t) == timer[t] # None
Due(t) == Armed(t) /\ timer[t].left = 0
Gone(t) == IF t = None THEN timer ELSE [timer EXCEPT ![t] = None]

Init ==
    /\ timer = [t \in Timers |-> None]
    /\ index = [f \in Fds |-> None]
    /\ expired = {}
    /\ alive = {}

\* A connection appears only when no other one owns its descriptor.
Connect(c) ==
    /\ \A d \in alive : FdOf[d] # FdOf[c]
    /\ alive' = alive \union {c}
    /\ UNCHANGED <<timer, index, expired>>

Destroy(c) ==
    /\ alive' = alive \ {c}
    /\ UNCHANGED <<timer, index, expired>>

Add(c) ==
    \E t \in Timers :
        /\ ~Armed(t)
        /\ timer' = [timer EXCEPT ![t] = [conn |-> c, left |-> AddTicks]]
        /\ index' = [index EXCEPT ![FdOf[c]] = t]
        /\ UNCHANGED <<expired, alive>>

\* Only an indexed timer is renewed; the renewed one may reuse its identity.
Update(c) ==
    LET old == index[FdOf[c]] IN
    /\ old # None
    /\ \E t \in Timers :
        /\ ~Armed(t) \/ t = old
        /\ timer' = [Gone(old) EXCEPT ![t] = [conn |-> c, left |-> RenewTicks]]
        /\ index' = [index EXCEPT ![FdOf[c]] = t]
    /\ UNCHANGED <<expired, alive>>

Remove(c) ==
    /\ timer' = Gone(index[FdOf[c]])
    /\ index' = [index EXCEPT ![FdOf[c]] = None]
    /\ UNCHANGED <<expired, alive>>

\* The timers with no tick left go, every other one has one tick less.
Tick ==
    /\ expired = {}
    /\ timer' = [t \in Timers |->
                    IF ~Armed(t) \/ Due(t) THEN None
                    ELSE [timer[t] EXCEPT !.left = @ - 1]]
    /\ index' = [f \in Fds |->
                    IF \E t \in Timers : Due(t) /\ FdOf[timer[t].conn] = f
                    THEN None ELSE index[f]]
    /\ expired' = {c \in alive : \E t \in Timers : Due(t) /\ timer[t].conn = c}
    /\ UNCHANGED alive

\* The tick thread closes one of the connections it took.
Close(c) ==
    /\ c \in expired
    /\ expired' = expired \ {c}
    /\ UNCHANGED <<timer, index, alive>>

Clear ==
    /\ expired = {}
    /\ timer' = [t \in Timers |-> None]
    /\ index' = [f \in Fds |-> None]
    /\ UNCHANGED <<expired, alive>>

Next ==
    \/ \E c \in Conns : \/ Connect(c)
                        \/ Close(c)
    \/ \E c \in alive : \/ Destroy(c)
                        \/ Add(c)
                        \/ Update(c)
                        \/ Remove(c)
    \/ Tick
    \/ Clear

Spec == Init /\ [][Next]_vars
=============================================================================
