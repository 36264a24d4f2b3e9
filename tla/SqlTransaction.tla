--------------------------- MODULE SqlTransaction ---------------------------
(***************************************************************************)
(* Jobs that run a persistence::SqlTransaction on the session their worker *)
(* keeps for the jobs after them: the calls begin, execute, commit and     *)
(* rollback of MySqlConnection and the destructor, on a server that may    *)
(* refuse a statement or a commit and go away between any two calls.       *)
(*                                                                         *)
(* A job stops at the first call that fails, as a caller of the interface  *)
(* can, and ends the scope of its SqlTransaction, by return or exception.  *)
(* A job without one is a query and writes nothing.                        *)
(***************************************************************************)
EXTENDS SqlExecutor

CONSTANT MaxWrites  \* bound: writes of one transaction

ASSUME SqlTransactionAssumption == MaxWrites \in Nat

VARIABLES
    autocommit,  \* the session of the server is in autocommit mode
    pending,     \* writes it would undo at a rollback
    tx,          \* where the job is with its transaction
    finished,    \* finished_
    told,        \* what commit() returned
    written,     \* history: writes that execute() reported
    durable,     \* history: those the server keeps
    lost         \* history: the session begin() was called on went away

session == <<autocommit, pending>>
ledger == <<written, durable, lost>>
txVars == <<autocommit, pending, tx, finished, told, written, durable, lost>>
allVars == <<vars, txVars>>

TxInit ==
    /\ Init
    /\ autocommit = TRUE /\ pending = 0
    /\ tx = "none" /\ finished = FALSE /\ told = "nothing"
    /\ written = 0 /\ durable = 0 /\ lost = FALSE

-----------------------------------------------------------------------------
(* The server                                                              *)

Live == conn = "open"

\* What the server does with the writes of a session that ended, and what a new
\* one starts with (setAutoCommit(true) of connect(), or the driver's own
\* reconnect).
Forgotten == pending' = 0
NewSession ==
    /\ conn' = "open"
    /\ \/ conn # "open"
       \/ worker = "ensure" /\ worker' = "ping" /\ MustConnect

\* Every step of the executor, its clients, the database and the clock.  The job
\* in the worker ends only when its transaction is over.
ExecutorStep ==
    /\ Next
    /\ worker = "query" /\ worker' # "query" => tx \in {"none", "over"}
    /\ IF NewSession THEN autocommit' = TRUE /\ Forgotten
       ELSE IF conn' # "open" THEN autocommit' = autocommit /\ Forgotten
       ELSE UNCHANGED session
    /\ IF worker = "query" /\ worker' # "query"
       THEN /\ tx' = "none" /\ finished' = FALSE /\ told' = "nothing"
            /\ written' = 0 /\ durable' = 0 /\ lost' = FALSE
       ELSE /\ UNCHANGED <<tx, finished, told, written, durable>>
            /\ lost' = (lost \/ (tx # "none" /\ Live /\ conn' # "open"))

-----------------------------------------------------------------------------
(* The calls of the job                                                    *)

\* The constructor; a job whose transaction is not valid() gives up.
Begin ==
    /\ worker = "query" /\ tx = "none"
    /\ IF Live THEN tx' = "body" /\ autocommit' = FALSE
       ELSE tx' = "over" /\ autocommit' = autocommit
    /\ UNCHANGED <<vars, pending, finished, told, ledger>>

Execute ==
    /\ tx = "body" /\ told = "nothing" /\ Live
    /\ written < MaxWrites
    /\ written' = written + 1
    /\ IF autocommit THEN durable' = durable + 1 /\ pending' = pending
       ELSE pending' = pending + 1 /\ durable' = durable
    /\ UNCHANGED <<vars, autocommit, tx, finished, told, lost>>

\* An error of the statement, with or without the rollback of the whole
\* transaction (a deadlock), or of the connection.
ExecuteFails ==
    /\ tx = "body" /\ told = "nothing"
    /\ tx' = "leave"
    /\ pending' \in {pending, 0}
    /\ UNCHANGED <<vars, autocommit, finished, told, ledger>>

\* commit(): first the server's COMMIT ...
Commit ==
    /\ tx = "body" /\ told = "nothing" /\ Live
    /\ durable' = durable + pending /\ pending' = 0
    /\ tx' = "commitAuto"
    /\ UNCHANGED <<vars, autocommit, finished, told, written, lost>>

\* Mutant: a commit that failed counts as the end of the transaction.
CommitFailsFinishes ==
    /\ tx = "body" /\ told = "nothing"
    /\ Forgotten
    /\ told' = "failed" /\ tx' = "leave" /\ finished' = TRUE
    /\ UNCHANGED <<vars, autocommit, ledger>>

\* ... which the server may also refuse, the transaction rolled back ...
CommitFails ==
    /\ tx = "body" /\ told = "nothing"
    /\ Forgotten
    /\ told' = "failed" /\ tx' = "leave"
    /\ UNCHANGED <<vars, autocommit, finished, ledger>>

\* ... then setAutoCommit(true): if it throws, commit() failed although the
\* server has committed.
CommitAuto ==
    /\ tx = "commitAuto"
    /\ tx' = "leave"
    /\ IF Live THEN told' = "ok" /\ finished' = TRUE /\ autocommit' = TRUE
       ELSE told' = "failed" /\ UNCHANGED <<finished, autocommit>>
    /\ UNCHANGED <<vars, pending, ledger>>

\* Mutant: rollback() turns autocommit on first, which commits.
RollbackBackwards ==
    IF Live THEN /\ durable' = durable + pending /\ pending' = 0
                 /\ tx' = "rollbackAuto"
    ELSE tx' = "over" /\ UNCHANGED <<pending, durable>>

\* MySqlConnection::rollback, which fails only without a session.
RollbackCall ==
    IF Live THEN Forgotten /\ tx' = "rollbackAuto" /\ durable' = durable
    ELSE tx' = "over" /\ UNCHANGED <<pending, durable>>

\* SqlTransaction::rollback; the destructor has nothing left to do.
Rollback ==
    /\ tx \in {"body", "leave"} /\ ~finished
    /\ finished' = TRUE
    /\ RollbackCall
    /\ UNCHANGED <<vars, autocommit, told, written, lost>>

Destructor ==
    /\ tx \in {"body", "leave"}
    /\ IF finished THEN tx' = "over" /\ UNCHANGED <<pending, durable>> ELSE RollbackCall
    /\ UNCHANGED <<vars, autocommit, finished, told, written, lost>>

RollbackAuto ==
    /\ tx = "rollbackAuto"
    /\ tx' = "over"
    /\ autocommit' = (Live \/ autocommit)
    /\ UNCHANGED <<vars, pending, finished, told, ledger>>

TxStep ==
    \/ Begin \/ Execute \/ ExecuteFails \/ Commit \/ CommitFails \/ CommitAuto
    \/ Rollback \/ Destructor \/ RollbackAuto

TxNext == ExecutorStep \/ TxStep

TxSpec == TxInit /\ [][TxNext]_allVars

\* Threads are scheduled and a job ends; nobody has to call start, stop or
\* submit, and the database may stay down for ever.
FairSpec ==
    /\ TxSpec
    /\ WF_allVars((ExecutorStep /\ Work) \/ TxStep)
    /\ WF_allVars(ExecutorStep
                  /\ (StartReset \/ StartThread \/ StopSet \/ StopNotify \/ StopJoin))

-----------------------------------------------------------------------------
(* Properties                                                              *)

\* No job works inside the transaction of a job before it: the next one finds
\* the session in autocommit mode with nothing pending, whatever failed in
\* between (SqlTransaction.cpp:32-55, MySqlConnection.cpp:408-458).
SessionClean ==
    worker \in {"ping", "query"} /\ tx \in {"none", "over"} /\ Live
        => autocommit /\ pending = 0

\* While the session lives, a transaction is kept as a whole if commit() said
\* so, and leaves nothing otherwise (SqlTransaction.hpp:12-13, 40-45).
AllOrNothing ==
    tx \notin {"none", "commitAuto"} /\ ~lost
        => durable = IF told = "ok" THEN written ELSE 0
=============================================================================
