------------------------------ MODULE UserDao ------------------------------
(***************************************************************************)
(* mysql/User.cpp on top of SqlConnPool: Register looks the name up and    *)
(* then inserts it, in two statements and no transaction; Login counts the *)
(* rows with the name.  The main thread closes the pool when the server    *)
(* stops, while the IO threads run on.                                     *)
(*                                                                         *)
(* The table is external: the repository has no schema, so the column      *)
(* username may have a unique key or not.                                  *)
(***************************************************************************)
EXTENDS SqlConnPool

CONSTANTS
    Users, Passwords    \* non-empty, as both operations require

ASSUME RowsAssumption == Users # {} /\ Passwords # {}

VARIABLES
    unique_key, \* does MySQL refuse a second row with the same username?
    stage,      \* stage[t]: "query", "insert" or "done" within t's operation
    row,        \* row[t]: [user, password] that t is about to insert
    success,    \* success[t]: what t's operation is going to return
    user,       \* user[u]: the passwords of the rows with username u
    registered, \* history: registered[u], the passwords Register succeeded with
    contested   \* history: names that two threads were about to insert at a time, or
                \* one without knowing whether they exist

daoVars == <<unique_key, stage, row, success, user, registered, contested>>
tableVars == <<unique_key, user, registered>>
allVars == <<vars, daoVars>>

Rows == [user : Users, password : Passwords]
NoRow == CHOOSE r \in Rows : TRUE    \* nothing reads it

----------------------------------------------------------------------------

DaoInit ==
    /\ Init
    /\ unique_key \in BOOLEAN
    /\ stage = [t \in Threads |-> "done"]
    /\ row = [t \in Threads |-> NoRow]
    /\ success = [t \in Threads |-> FALSE]
    /\ user = [u \in Users |-> <<>>]
    /\ registered = [u \in Users |-> <<>>]
    /\ contested = {}

\* SqlConnRAII raii(&sql, SqlConnPool::Instance()), in Register and in Login.
\* Which of them it is and its arguments are chosen where they first matter.
Call(t) ==
    /\ GetConn(t)
    /\ stage' = [stage EXCEPT ![t] = "query"]
    /\ UNCHANGED <<tableVars, row, success, contested>>

Acquire(t) ==
    /\ \/ check_one_end(t)
       \/ check_other_end(t)
       \/ sem_wait(t)
       \/ pop(t)
       \/ pop_empty(t)
    /\ UNCHANGED daoVars

\* The operation is decided: it returns b once the connection is given back.
Decides(t, b) ==
    /\ stage' = [stage EXCEPT ![t] = "done"]
    /\ success' = [success EXCEPT ![t] = b]
    /\ row' = [row EXCEPT ![t] = NoRow]
    /\ UNCHANGED <<vars, unique_key, contested>>

InQuery(t) == step[t] = "have" /\ stage[t] = "query"

no_connection(t) ==
    /\ InQuery(t)
    /\ sql[t] = nullptr
    /\ Decides(t, FALSE)
    /\ UNCHANGED tableVars

\* mysql_query fails in the first statement of either operation, or
\* mysql_store_result does in Login.
query_fails(t) ==
    /\ InQuery(t)
    /\ sql[t] # nullptr
    /\ Decides(t, FALSE)
    /\ UNCHANGED tableVars

----------------------------------------------------------------------------
(* Register.                                                               *)

Inserts(t, r) ==
    /\ stage' = [stage EXCEPT ![t] = "insert"]
    /\ row' = [row EXCEPT ![t] = r]
    /\ UNCHANGED <<vars, success>>

\* Is another thread about to insert the name u?
Rivalled(t, u) == \E s \in Threads \ {t} : stage[s] = "insert" /\ row[s].user = u

\* No row with this name was found.
InsertsNew(t, r) ==
    /\ Inserts(t, r)
    /\ contested' = IF Rivalled(t, r.user) THEN contested \union {r.user} ELSE contested

\* Bugs for comparison: no test for a missing connection; the result of the check
\* is not looked at.
check_exists_unguarded(t, r) ==
    /\ InQuery(t)
    /\ IF user[r.user] # <<>> THEN Decides(t, FALSE) ELSE InsertsNew(t, r)
    /\ UNCHANGED tableVars

check_exists_ignored(t, r) ==
    /\ InQuery(t)
    /\ sql[t] # nullptr
    /\ InsertsNew(t, r)
    /\ UNCHANGED tableVars

check_exists(t, r) ==
    /\ InQuery(t)
    /\ sql[t] # nullptr
    /\ IF user[r.user] # <<>> THEN Decides(t, FALSE) ELSE InsertsNew(t, r)
    /\ UNCHANGED tableVars

\* mysql_store_result fails: no result counts as no such name.
check_unread(t, r) ==
    /\ InQuery(t)
    /\ sql[t] # nullptr
    /\ Inserts(t, r)
    /\ contested' = contested \union {r.user}
    /\ UNCHANGED tableVars

InInsert(t) == step[t] = "have" /\ stage[t] = "insert"

Refused(t) == unique_key /\ user[row[t].user] # <<>>

Stored(t) == user' = [user EXCEPT ![row[t].user] = Append(@, row[t].password)]

Registered(t) ==
    registered' = [registered EXCEPT ![row[t].user] = Append(@, row[t].password)]

\* A bug for comparison: the result of the INSERT is not looked at.
insert_unchecked(t) ==
    /\ InInsert(t)
    /\ IF Refused(t) THEN UNCHANGED user ELSE Stored(t)
    /\ Registered(t)
    /\ Decides(t, TRUE)

insert(t) ==
    /\ InInsert(t)
    /\ ~Refused(t)
    /\ Stored(t)
    /\ Registered(t)
    /\ Decides(t, TRUE)

\* The INSERT is refused or fails; a lost reply leaves the row in the table.
insert_fails(t) ==
    /\ InInsert(t)
    /\ UNCHANGED user \/ (~Refused(t) /\ Stored(t))
    /\ Decides(t, FALSE)
    /\ UNCHANGED registered

----------------------------------------------------------------------------
(* Login: exactly one row, with this password.                             *)

query_password(t, r) ==
    /\ InQuery(t)
    /\ sql[t] # nullptr
    /\ Decides(t, user[r.user] = <<r.password>>)
    /\ UNCHANGED tableVars

\* The destructor of SqlConnRAII, and the return.
Return(t) ==
    /\ stage[t] = "done"
    /\ Release(t)
    /\ success' = [success EXCEPT ![t] = FALSE]
    /\ UNCHANGED <<tableVars, stage, row, contested>>

----------------------------------------------------------------------------

Work(t) ==
    \/ no_connection(t)
    \/ query_fails(t)
    \/ \E r \in Rows :
          check_exists(t, r) \/ check_unread(t, r) \/ query_password(t, r)
    \/ insert(t)
    \/ insert_fails(t)
    \/ Return(t)

\* A pool that front() has broken is past describing.
ThreadStep(t) == pool # "broken" /\ (Acquire(t) \/ Work(t))

DaoNext ==
    \/ \E t \in Threads : (pool # "broken" /\ Call(t)) \/ ThreadStep(t)
    \/ ClosePool /\ UNCHANGED daoVars

DaoSpec == DaoInit /\ [][DaoNext]_allVars

\* Every thread runs, and MySQL answers it; sem_post gives the permit to one of
\* the waiting threads, and none of them is passed over for ever.  Nobody has
\* to call an operation or ClosePool.
FairSpec ==
    /\ DaoSpec
    /\ \A t \in Threads : WF_allVars(ThreadStep(t))
    /\ \A t \in Threads :
          SF_allVars(pool # "broken" /\ sem_wait(t) /\ UNCHANGED daoVars)

----------------------------------------------------------------------------
(* Properties.                                                             *)

\* Register fails for a name that exists (User.h:8), and a name has one row: both
\* hold whatever calls run at the same time, whichever replies are lost and with
\* or without a unique key, unless there is no key and two threads had both found
\* no row of the name when neither had inserted it yet (or one could not read
\* whether there is a row).
RegistersOnce ==
    \A u \in Users :
        Len(user[u]) > 1 \/ Len(registered[u]) > 1 => ~unique_key /\ u \in contested

\* Login fails only for an unknown name or a wrong password (User.h:11): once
\* Register has succeeded, the name and this password log in for ever, unless the
\* query fails or the name was contested when nothing refused its second row.
RegisteredCanLogin ==
    [][\A t \in Threads, r \in Rows :
          /\ query_password(t, r)
          /\ \E i \in DOMAIN registered[r.user] : registered[r.user][i] = r.password
          /\ unique_key \/ r.user \notin contested
          => success'[t]]_allVars

\* Every variable holds a value of its type, and the second statement of
\* Register is sent over a connection.
DaoTypeOK ==
    /\ TypeOK
    /\ unique_key \in BOOLEAN
    /\ stage \in [Threads -> {"query", "insert", "done"}]
    /\ row \in [Threads -> Rows]
    /\ success \in [Threads -> BOOLEAN]
    /\ user \in [Users -> Seq(Passwords)]
    /\ registered \in [Users -> Seq(Passwords)]
    /\ contested \subseteq Users
    /\ \A t \in Threads :
          stage[t] = "insert" => step[t] = "have" /\ sql[t] # nullptr
=============================================================================
