------------------------------ MODULE SqlConn ------------------------------
(***************************************************************************)
(* Alias::MySqlConn (src/sqlutils/sql_conn.cpp).  Every thread owns one    *)
(* connection object: it constructs it, makes calls on it and destroys    *)
(* it.  A connection is its MYSQL handle and mSqlInit.  SelectSql,         *)
(* InsertSql, UpdateSql and DeleteSql each format the statement into a     *)
(* function-static buffer, one per function and so shared by every         *)
(* connection of the process, and then pass that buffer to mysql_query:   *)
(* the two are separate steps.  A statement is abstracted to the thread   *)
(* that formatted it, its arguments to their total length.  The server is *)
(* the environment: a connect or a query may fail.  libmysqlclient        *)
(* dereferences the handle in mysql_query, mysql_field_count and           *)
(* mysql_store_result, so a call of them on a null handle ends the process.*)
(* getSqlRes wraps mysql_store_result's result in a MySqlRes, whose next() *)
(* moves mRow to the next row, or to NULL past the last, and whose getters *)
(* index mRow; a result set is abstracted to the rows it has left.          *)
(***************************************************************************)
EXTENDS Integers

CONSTANTS Threads,   \* one connection each
          ArgLens,   \* total strlen of the arguments of a statement
          MaxCalls,  \* calls each thread makes on its connection
          MaxRows    \* rows a SELECT returns

ASSUME ArgLens \subseteq Nat /\ MaxCalls \in Nat /\ MaxRows \in Nat

SQL_BUF_LEN == 1024

\* strlen of SELECT_SQL_FMT, INSERT_SQL_FMT, UPDATE_SQL_FMT, DELETE_SQL_FMT.
FmtLen == [select |-> 28, insert |-> 25, update |-> 27, delete |-> 24]

Kinds == DOMAIN FmtLen

None == "none"

VARIABLES handle,   \* mSqlHandle: "null", "init" (mysql_init done) or "conn"
          sqlInit,  \* mSqlInit
          bufs,     \* the static buf of each function: whose statement it holds
          pc,       \* "new", "idle", "query" (formatted, mysql_query next), "destroyed"
          kind,     \* the function a thread is in
          sent,     \* whose statement the thread's last mysql_query sent
          ret,      \* the last return code
          calls,    \* calls made so far
          crashed,  \* the process died on a null pointer
          pending,  \* a SELECT's rows wait on the handle for mysql_store_result
          res,      \* the thread's MySqlRes: None, Invalid (NULL MYSQL_RES) or rows left
          row       \* its mRow is not NULL

resVars == <<pending, res, row>>
vars == <<handle, sqlInit, bufs, pc, kind, sent, ret, calls, crashed, resVars>>

NoRes == -2
Invalid == -1

Init ==
    /\ handle = [t \in Threads |-> "null"]
    /\ sqlInit = [t \in Threads |-> FALSE]
    /\ bufs = [k \in Kinds |-> None]
    /\ pc = [t \in Threads |-> "new"]
    /\ kind = [t \in Threads |-> "select"]
    /\ sent = [t \in Threads |-> None]
    /\ ret = [t \in Threads |-> "OK"]
    /\ calls = [t \in Threads |-> 0]
    /\ crashed = FALSE
    /\ pending = [t \in Threads |-> FALSE]
    /\ res = [t \in Threads |-> NoRes]
    /\ row = [t \in Threads |-> FALSE]

SetHandle(t, h) == handle' = [handle EXCEPT ![t] = h]
SetInit(t, b)   == sqlInit' = [sqlInit EXCEPT ![t] = b]
Goto(t, l)      == pc' = [pc EXCEPT ![t] = l]
Idle(t)         == ~crashed /\ pc[t] = "idle" /\ calls[t] < MaxCalls

(* The two constructors: mysql_init, which may fail for memory; the one    *)
(* with credentials then calls mysql_real_connect and sets mSqlInit when  *)
(* it succeeds.  Without credentials, or when the connect fails, the      *)
(* handle is allocated and unconnected.                                    *)
Construct(t) ==
    /\ ~crashed /\ pc[t] = "new"
    /\ \/ UNCHANGED <<handle, sqlInit>>
       \/ SetHandle(t, "init") /\ UNCHANGED sqlInit
       \/ SetHandle(t, "conn") /\ SetInit(t, TRUE)
    /\ Goto(t, "idle")
    /\ UNCHANGED <<bufs, kind, sent, ret, calls, crashed, resVars>>

\* A call that returns at once with code c (a refused argument or state).
Return(t, c) ==
    /\ ret' = [ret EXCEPT ![t] = c]
    /\ calls' = [calls EXCEPT ![t] = @ + 1]
    /\ UNCHANGED <<handle, sqlInit, bufs, pc, kind, sent, crashed, resVars>>

(* MySqlConn::ConnectSql: null credentials, then mSqlInit, then a second   *)
(* mysql_init if the constructor's failed, then mysql_real_connect.       *)
ConnectSql(t) ==
    /\ Idle(t)
    /\ \/ Return(t, "INVALID_PARAM")
       \/ sqlInit[t] /\ Return(t, "INVALID_OPERATION")
       \/ ~sqlInit[t] /\ handle[t] = "null" /\ Return(t, "NO_MEMORY")
       \/ /\ ~sqlInit[t]
          /\ \/ SetHandle(t, "init") /\ UNCHANGED sqlInit
                /\ ret' = [ret EXCEPT ![t] = "UNKNOWN_ERROR"]
             \/ SetHandle(t, "conn") /\ SetInit(t, TRUE)
                /\ ret' = [ret EXCEPT ![t] = "OK"]
          /\ calls' = [calls EXCEPT ![t] = @ + 1]
          /\ UNCHANGED <<bufs, pc, kind, sent, crashed, resVars>>

(* memset and snprintf of the statement into the function's static buf;   *)
(* mysql_query of that buf is the thread's next step.                      *)
Format(t, k) ==
    /\ bufs' = [bufs EXCEPT ![k] = t]
    /\ kind' = [kind EXCEPT ![t] = k]
    /\ sent' = [sent EXCEPT ![t] = None]
    /\ calls' = [calls EXCEPT ![t] = @ + 1]
    /\ Goto(t, "query")
    /\ UNCHANGED <<handle, sqlInit, ret, crashed, resVars>>

(* MySqlConn::SelectSql up to mysql_query: table == nullptr, then          *)
(* mSqlInit == false, then `len > SQL_BUF_LEN`.                             *)
SelectSql(t) ==
    /\ Idle(t)
    /\ \/ Return(t, "INVALID_PARAM")
       \/ ~sqlInit[t] /\ Return(t, "NO_INIT")
       \/ sqlInit[t] /\ \E n \in ArgLens :
             IF FmtLen.select + n > SQL_BUF_LEN THEN Return(t, "NO_MEMORY")
                                                ELSE Format(t, "select")

(* MySqlConn::InsertSql up to mysql_query: a null argument, then           *)
(* `len >= SQL_BUF_LEN`; mSqlInit is not looked at.  UpdateSql and         *)
(* DeleteSql are the same with their own format and buf.                   *)
UncheckedSql(t, k) ==
    /\ Idle(t)
    /\ \/ Return(t, "INVALID_PARAM")
       \/ \E n \in ArgLens :
             IF FmtLen[k] + n >= SQL_BUF_LEN THEN Return(t, "NO_MEMORY")
                                             ELSE Format(t, k)

InsertSql(t) == UncheckedSql(t, "insert")
UpdateSql(t) == UncheckedSql(t, "update")
DeleteSql(t) == UncheckedSql(t, "delete")

(* mysql_query(mSqlHandle, buf) and its error check, as in all four: it    *)
(* sends what buf holds now over a connected handle.  An unconnected      *)
(* handle fails before sending; a null one ends the process.  A SELECT    *)
(* that succeeds leaves its rows on the handle.                            *)
MysqlQuery(t) ==
    /\ ~crashed /\ pc[t] = "query"
    /\ \/ handle[t] = "null" /\ crashed' = TRUE /\ UNCHANGED <<pc, ret, sent, pending>>
       \/ handle[t] = "init" /\ ret' = [ret EXCEPT ![t] = "UNKNOWN_ERROR"]
          /\ pending' = [pending EXCEPT ![t] = FALSE]
          /\ Goto(t, "idle") /\ UNCHANGED <<crashed, sent>>
       \/ handle[t] = "conn" /\ \E c \in {"OK", "UNKNOWN_ERROR"} :
             /\ ret' = [ret EXCEPT ![t] = c]
             /\ pending' = [pending EXCEPT ![t] = (kind[t] = "select" /\ c = "OK")]
          /\ sent' = [sent EXCEPT ![t] = bufs[kind[t]]]
          /\ Goto(t, "idle") /\ UNCHANGED crashed
    /\ UNCHANGED <<handle, sqlInit, bufs, kind, calls, res, row>>

\* A call that changes nothing but the calls made, and one that ends the process.
Called(t) ==
    /\ calls' = [calls EXCEPT ![t] = @ + 1]
    /\ UNCHANGED <<handle, sqlInit, bufs, pc, kind, sent, ret, crashed>>

Crash ==
    /\ crashed' = TRUE
    /\ UNCHANGED <<handle, sqlInit, bufs, pc, kind, sent, ret, calls, resVars>>

\* getAffectedRows: mysql_field_count and mysql_affected_rows on the handle.
GetAffectedRows(t) ==
    /\ Idle(t)
    /\ \/ handle[t] = "null" /\ Crash
       \/ handle[t] # "null" /\ Called(t) /\ UNCHANGED resVars

(* getSqlRes: mysql_store_result takes the pending rows, or returns NULL   *)
(* (no rows pending, or out of memory); MySqlRes(res, ...) is valid when   *)
(* res is not NULL, and its mRow starts NULL.                              *)
GetSqlRes(t) ==
    /\ Idle(t)
    /\ \/ handle[t] = "null" /\ Crash
       \/ /\ handle[t] # "null" /\ Called(t)
          /\ res' \in {[res EXCEPT ![t] = n] :
                          n \in IF pending[t] THEN 0..MaxRows \cup {Invalid} ELSE {Invalid}}
          /\ pending' = [pending EXCEPT ![t] = FALSE]
          /\ row' = [row EXCEPT ![t] = FALSE]

\* The result of getSqlRes is held and used between calls on the connection.
HasRes(t) == Idle(t) /\ res[t] # NoRes

(* MySqlRes::next: mysql_fetch_row and mysql_fetch_lengths, which both     *)
(* dereference the MYSQL_RES, NULL for an invalid result.                  *)
ResNext(t) ==
    /\ HasRes(t)
    /\ \/ res[t] = Invalid /\ Crash
       \/ /\ res[t] # Invalid /\ Called(t)
          /\ row' = [row EXCEPT ![t] = res[t] > 0]
          /\ res' = [res EXCEPT ![t] = IF res[t] > 0 THEN @ - 1 ELSE 0]
          /\ UNCHANGED pending

(* getDataCount and getColumnCount pass the MYSQL_RES to mysql_num_rows /  *)
(* mysql_num_fields; getColumnBytes, isValid and the getInt8..getTime      *)
(* getters index mRowLength or mRow, NULL before the first next() and      *)
(* after the last.                                                          *)
ResGet(t) ==
    /\ HasRes(t)
    /\ \E g \in {"count", "column"} :
          IF res[t] = Invalid \/ (g = "column" /\ ~row[t])
          THEN Crash
          ELSE Called(t) /\ UNCHANGED resVars

\* MySqlConn::CloseConn: mysql_close, then the handle and mSqlInit are reset.
CloseConn(t) ==
    /\ Idle(t)
    /\ SetHandle(t, "null")
    /\ SetInit(t, FALSE)
    /\ calls' = [calls EXCEPT ![t] = @ + 1]
    /\ pending' = [pending EXCEPT ![t] = FALSE]
    /\ UNCHANGED <<bufs, pc, kind, sent, ret, crashed, res, row>>

(* ~MySqlConn: mysql_close(mSqlHandle), which accepts a null handle.  A    *)
(* stored result is a copy and outlives the connection.                    *)
Destroy(t) ==
    /\ ~crashed /\ pc[t] = "idle"
    /\ SetHandle(t, "null")
    /\ SetInit(t, FALSE)
    /\ Goto(t, "destroyed")
    /\ pending' = [pending EXCEPT ![t] = FALSE]
    /\ UNCHANGED <<bufs, kind, sent, ret, calls, crashed, res, row>>

Finished == crashed \/ \A t \in Threads : pc[t] = "destroyed"

Terminated == Finished /\ UNCHANGED vars

Run(t) ==
    \/ Construct(t) \/ ConnectSql(t) \/ SelectSql(t) \/ InsertSql(t)
    \/ UpdateSql(t) \/ DeleteSql(t) \/ MysqlQuery(t) \/ GetAffectedRows(t)
    \/ GetSqlRes(t) \/ ResNext(t) \/ ResGet(t) \/ CloseConn(t) \/ Destroy(t)

Next == (\E t \in Threads : Run(t)) \/ Terminated

Spec == Init /\ [][Next]_vars /\ \A t \in Threads : WF_vars(Run(t))

-----------------------------------------------------------------------------

TypeOK ==
    /\ handle \in [Threads -> {"null", "init", "conn"}]
    /\ sqlInit \in [Threads -> BOOLEAN]
    /\ bufs \in [Kinds -> Threads \cup {None}]
    /\ pc \in [Threads -> {"new", "idle", "query", "destroyed"}]
    /\ kind \in [Threads -> Kinds]
    /\ sent \in [Threads -> Threads \cup {None}]
    /\ calls \in [Threads -> 0..MaxCalls]
    /\ crashed \in BOOLEAN
    /\ pending \in [Threads -> BOOLEAN] /\ row \in [Threads -> BOOLEAN]
    /\ res \in [Threads -> {NoRes, Invalid} \cup 0..MaxRows]

(* Each connection sends the statement its own call formatted.  The four  *)
(* buffers are function-static, so two threads in the same function on    *)
(* their own connections share one buffer: a thread that formats between  *)
(* another's snprintf and its mysql_query makes that query send its text. *)
QuerySentIsFormatted ==
    \A t \in Threads : sent[t] # None => sent[t] = t
====
