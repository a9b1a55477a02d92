---------------------------- MODULE SqlConnPool ----------------------------
(***************************************************************************)
(* mysql/sqlconnpool.cpp and sqlConnRAII.h: a queue of connections under a *)
(* mutex, a semaphore that counts them, and a check for an empty queue     *)
(* that takes neither.                                                     *)
(*                                                                         *)
(* The check is a data race on the two ends of a std::queue: they are read *)
(* one after the other, in either order, while other threads move them.    *)
(* front and back count the pops and pushes, so that the queue is empty    *)
(* when they are equal.                                                    *)
(*                                                                         *)
(* The module gives the steps of the pool; UserDao, its only user, puts    *)
(* them together.                                                          *)
(***************************************************************************)
EXTENDS Integers, Sequences, FiniteSets

CONSTANTS
    Threads,    \* the IO threads that use the pool
    MaxConn,    \* connSize
    MayFail,    \* may mysql_real_connect fail in Init?
    MaxCalls    \* bound: calls of GetConn by one thread

ASSUME MaxConnAssumption == MaxConn \in Nat \ {0}
ASSUME ThreadsAssumption == IsFiniteSet(Threads)
ASSUME MaxCallsAssumption == MaxCalls \in Nat

VARIABLES
    connque_,
    opened,         \* how many connections Init could open
    front, back,    \* the ends of connque_, as counts of pops and pushes
    semId_,
    step,           \* step[t]: where thread t is in SqlConnRAII's lifetime
    seen,           \* seen[t]: the end of the queue t has read in the check
    sql,            \* sql[t]: what GetConn returned to t
    calls,          \* calls[t]: calls of GetConn, for the bound
    pool            \* "open", "closed", or "broken" by front() of an empty queue

vars == <<connque_, opened, front, back, semId_, step, seen, sql, calls, pool>>
queueVars == <<connque_, opened, front, back>>

----------------------------------------------------------------------------

\* Connection i is the one Init opens in turn i; a failed one is pushed as well.
nullptr == 0
Conns == 1 .. MaxConn

Init ==
    /\ \E ok \in SUBSET Conns :
          connque_ = [i \in Conns |-> IF i \in ok THEN i ELSE nullptr]
    /\ opened = Cardinality({i \in Conns : connque_[i] # nullptr})
    /\ MayFail \/ opened = MaxConn
    /\ front = 0
    /\ back = MaxConn
    /\ semId_ = MaxConn
    /\ step = [t \in Threads |-> "idle"]
    /\ seen = [t \in Threads |-> [end |-> "none", at |-> 0]]
    /\ sql = [t \in Threads |-> nullptr]
    /\ calls = [t \in Threads |-> 0]
    /\ pool = "open"

Goes(t, s) == step' = [step EXCEPT ![t] = s]

----------------------------------------------------------------------------
(* GetConn.                                                                *)

GetConn(t) ==
    /\ step[t] = "idle"
    /\ calls[t] < MaxCalls
    /\ calls' = [calls EXCEPT ![t] = @ + 1]
    /\ Goes(t, "check")
    /\ UNCHANGED <<queueVars, semId_, seen, sql, pool>>

\* connque_.empty(), first read.
check_one_end(t) ==
    /\ step[t] = "check"
    /\ \/ seen' = [seen EXCEPT ![t] = [end |-> "front", at |-> front]]
       \/ seen' = [seen EXCEPT ![t] = [end |-> "back", at |-> back]]
    /\ Goes(t, "compare")
    /\ UNCHANGED <<queueVars, semId_, sql, calls, pool>>

\* connque_.empty(), second read: the pool is busy, or the thread waits.
check_other_end(t) ==
    LET other == IF seen[t].end = "front" THEN back ELSE front IN
    /\ step[t] = "compare"
    /\ seen' = [seen EXCEPT ![t] = [end |-> "none", at |-> 0]]
    /\ Goes(t, IF other = seen[t].at THEN "have" ELSE "wait")
    /\ UNCHANGED <<queueVars, semId_, sql, calls, pool>>

sem_wait(t) ==
    /\ step[t] = "wait"
    /\ semId_ > 0
    /\ semId_' = semId_ - 1
    /\ Goes(t, "pop")
    /\ UNCHANGED <<queueVars, seen, sql, calls, pool>>

\* A bug for comparison: the connection stays in the queue.
pop_front_only(t) ==
    /\ step[t] = "pop"
    /\ connque_ # <<>>
    /\ sql' = [sql EXCEPT ![t] = Head(connque_)]
    /\ Goes(t, "have")
    /\ UNCHANGED <<queueVars, semId_, seen, calls, pool>>

pop(t) ==
    /\ step[t] = "pop"
    /\ connque_ # <<>>
    /\ sql' = [sql EXCEPT ![t] = Head(connque_)]
    /\ connque_' = Tail(connque_)
    /\ front' = front + 1
    /\ Goes(t, "have")
    /\ UNCHANGED <<opened, back, semId_, seen, calls, pool>>

\* front() of an empty queue is undefined.
pop_empty(t) ==
    /\ step[t] = "pop"
    /\ connque_ = <<>>
    /\ pool' = "broken"
    /\ UNCHANGED <<queueVars, semId_, step, seen, sql, calls>>

----------------------------------------------------------------------------
(* ~SqlConnRAII: FreeConn, unless there is no connection.                  *)

\* Bugs for comparison: sem_post is forgotten; the connection is not given back.
FreeConn_silently(t) ==
    /\ step[t] = "have"
    /\ sql[t] # nullptr
    /\ connque_' = Append(connque_, sql[t])
    /\ back' = back + 1
    /\ sql' = [sql EXCEPT ![t] = nullptr]
    /\ Goes(t, "idle")
    /\ UNCHANGED <<opened, front, semId_, seen, calls, pool>>

FreeConn_dropped(t) ==
    /\ step[t] = "have"
    /\ sql[t] # nullptr
    /\ sql' = [sql EXCEPT ![t] = nullptr]
    /\ Goes(t, "idle")
    /\ UNCHANGED <<queueVars, semId_, seen, calls, pool>>

FreeConn(t) ==
    /\ step[t] = "have"
    /\ sql[t] # nullptr
    /\ connque_' = Append(connque_, sql[t])
    /\ back' = back + 1
    /\ semId_' = semId_ + 1
    /\ sql' = [sql EXCEPT ![t] = nullptr]
    /\ Goes(t, "idle")
    /\ UNCHANGED <<opened, front, seen, calls, pool>>

release_nothing(t) ==
    /\ step[t] = "have"
    /\ sql[t] = nullptr
    /\ Goes(t, "idle")
    /\ UNCHANGED <<queueVars, semId_, seen, sql, calls, pool>>

Release(t) == FreeConn(t) \/ release_nothing(t)

----------------------------------------------------------------------------
(* ClosePool, from HttpServer::Stop on the main thread: the IO threads run *)
(* on, and the semaphore keeps the permits of the connections it closes.   *)

ClosePool ==
    /\ pool = "open"
    /\ connque_' = <<>>
    /\ front' = back
    /\ pool' = "closed"
    /\ UNCHANGED <<opened, back, semId_, step, seen, sql, calls>>

----------------------------------------------------------------------------
(* Properties.                                                             *)

\* Every variable holds a value of its type; the semaphore never has more
\* permits than the pool has connections.
TypeOK ==
    /\ connque_ \in Seq(Conns \union {nullptr})
    /\ opened \in 0 .. MaxConn
    /\ front \in Nat /\ back \in Nat
    /\ semId_ \in 0 .. MaxConn
    /\ step \in [Threads -> {"idle", "check", "compare", "wait", "pop", "have"}]
    /\ seen \in [Threads -> [end : {"none", "front", "back"}, at : Nat]]
    /\ sql \in [Threads -> Conns \union {nullptr}]
    /\ calls \in [Threads -> 0 .. MaxCalls]
    /\ pool \in {"open", "closed", "broken"}

\* A connection is in one place: one entry of the queue or one thread.  Two
\* threads never talk to MySQL over the same connection.
Exclusive ==
    /\ \A t, u \in Threads : t # u /\ sql[t] # nullptr => sql[t] # sql[u]
    /\ \A i, j \in DOMAIN connque_ :
          i # j /\ connque_[i] # nullptr => connque_[i] # connque_[j]
    /\ \A t \in Threads, i \in DOMAIN connque_ :
          sql[t] # nullptr => sql[t] # connque_[i]

\* Every permit stands for an entry of the queue, so front() is never called on
\* an empty one, until ClosePool empties the queue behind the semaphore.
Popping == {t \in Threads : step[t] = "pop"}

PermitsCover ==
    pool = "open" => Len(connque_) = semId_ + Cardinality(Popping)

\* Every GetConn returns, with a connection or without, if Init opened every
\* connection: a thread that has seen the last entry of the queue and loses it
\* to another one is woken when a connection is given back.
GetConnReturns ==
    \A t \in Threads :
        step[t] = "check" ~> \/ step[t] = "have"
                             \/ pool # "open"
                             \/ opened < MaxConn
=============================================================================
