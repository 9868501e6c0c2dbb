------------------------ MODULE TypeormTransactions ------------------------
(***************************************************************************)
(* TypeormTransactionService.execute: concurrent transactions over a pool  *)
(* of connections.  A task changes rows through the TypeormTransaction it  *)
(* is given, may ask for a rollback, returns or throws; any await may      *)
(* reject, and what was asked for may have been done all the same.         *)
(*                                                                         *)
(* Of the rows, only whose changes are committed is kept.  The query       *)
(* runner is TypeORM's, over the pool of PostgreSQL's driver, which        *)
(* package.json names: isTransactionActive is set before BEGIN is sent and *)
(* cleared by a COMMIT or ROLLBACK that succeeds; release() gives the      *)
(* connection back to the pool as it is; BEGIN inside of an open           *)
(* transaction only warns, and goes on with it; and a connection that      *)
(* breaks is released, and its transaction rolled back by the server.  A   *)
(* task does not go on after one of its own changes has failed.            *)
(***************************************************************************)
EXTENDS Integers, FiniteSets

CONSTANTS
    Execution,          \* the calls of execute
    Connection,         \* of the pool of the data source
    NoConnection,
    MaxChanges          \* bound on the changes of a task

ASSUME PoolAssumption == NoConnection \notin Connection /\ MaxChanges \in Nat

VARIABLES
    txStep,             \* the await each execution is at, or how it ended
    outcome,            \* what it is going to end with: result or error
    connection,         \* of the query runner of each execution
    active,             \* queryRunner.isTransactionActive
    rollbackRequested,
    changes,            \* how many changes each has made in its transaction
    holds,              \* whose changes the transaction open on each connection holds
    committed,          \* the changes in the database
    rollbackRejected,   \* history: whose ROLLBACK in the catch block rejected
    releaseRejected     \* history: whose release rejected

poolVars == <<connection, active, holds>>
historyVars == <<rollbackRejected, releaseRejected>>
txVars == <<txStep, outcome, poolVars, rollbackRequested, changes, committed, historyVars>>

InTry == {"connect", "start", "task", "change", "commit", "rollback"}
TxRunning == InTry \cup {"recover", "release"}

TxTypeOK ==
    /\ txStep \in [Execution -> TxRunning \cup {"none", "done", "failed"}]
    /\ outcome \in [Execution -> {"result", "error"}]
    /\ connection \in [Execution -> Connection \cup {NoConnection}]
    /\ active \subseteq Execution
    /\ rollbackRequested \subseteq Execution
    /\ changes \in [Execution -> Nat]
    /\ holds \in [Connection -> SUBSET Execution]
    /\ committed \in [Execution -> Nat]
    /\ rollbackRejected \subseteq Execution
    /\ releaseRejected \subseteq Execution

TxInit ==
    /\ txStep = [x \in Execution |-> "none"]
    /\ outcome = [x \in Execution |-> "result"]
    /\ connection = [x \in Execution |-> NoConnection]
    /\ active = {}
    /\ rollbackRequested = {}
    /\ changes = [x \in Execution |-> 0]
    /\ holds = [k \in Connection |-> {}]
    /\ committed = [x \in Execution |-> 0]
    /\ rollbackRejected = {}
    /\ releaseRejected = {}

TxGoes(x, from, to) ==
    /\ txStep[x] = from
    /\ txStep' = [txStep EXCEPT ![x] = to]

\* Mutant: the catch block leaves the transaction to release().
CatchWithoutRollback(x, from) ==
    /\ TxGoes(x, from, "release")
    /\ outcome' = [outcome EXCEPT ![x] = "error"]

\* The catch block: rolls back if the transaction is active, then to the finally block.
Catch(x, from) ==
    /\ TxGoes(x, from, IF x \in active' THEN "recover" ELSE "release")
    /\ outcome' = [outcome EXCEPT ![x] = "error"]

----------------------------------------------------------------------------
(* What the database does, on a connection that is not broken               *)

Connected(x) == connection[x] # NoConnection

\* BEGIN: the changes of x are added to what the connection holds.
Begins(x) ==
    /\ Connected(x)
    /\ holds' = [holds EXCEPT ![connection[x]] = @ \cup {x}]

\* ROLLBACK, and a COMMIT that is refused
RollsBack(x) ==
    /\ Connected(x)
    /\ holds' = [holds EXCEPT ![connection[x]] = {}]
    /\ UNCHANGED committed

\* COMMIT
CommitsWork(x) ==
    /\ Connected(x)
    /\ holds' = [holds EXCEPT ![connection[x]] = {}]
    /\ committed' = [y \in Execution |->
          IF y \in holds[connection[x]] THEN changes[y] ELSE committed[y]]

----------------------------------------------------------------------------

Execute(x) ==
    /\ TxGoes(x, "none", "connect")
    /\ UNCHANGED <<outcome, poolVars, rollbackRequested, changes, committed, historyVars>>

\* connect() waits for a connection of the pool.
Connect(x) ==
    /\ TxGoes(x, "connect", "start")
    /\ \E k \in Connection :
          /\ \A y \in Execution : connection[y] # k
          /\ connection' = [connection EXCEPT ![x] = k]
    /\ UNCHANGED <<outcome, active, rollbackRequested, changes, holds, committed, historyVars>>

StartTransaction(x) ==
    /\ TxGoes(x, "start", "task")
    /\ Begins(x)
    /\ active' = active \cup {x}
    /\ UNCHANGED <<outcome, connection, rollbackRequested, changes, committed, historyVars>>

RequestRollback(x) ==
    /\ txStep[x] = "task"
    /\ x \notin rollbackRequested
    /\ rollbackRequested' = rollbackRequested \cup {x}
    /\ UNCHANGED <<txStep, outcome, poolVars, changes, committed, historyVars>>

\* create, update and delete refuse to go on after rollback().
Modify(x) ==
    /\ changes[x] < MaxChanges
    /\ UNCHANGED <<poolVars, rollbackRequested, changes, committed, historyVars>>
    /\ IF x \in rollbackRequested
       THEN Catch(x, "task")
       ELSE TxGoes(x, "task", "change") /\ UNCHANGED outcome

RowChanged(x) ==
    /\ TxGoes(x, "change", "task")
    /\ Connected(x)
    /\ changes' = [changes EXCEPT ![x] = @ + 1]
    /\ UNCHANGED <<outcome, poolVars, rollbackRequested, committed, historyVars>>

TaskReturns(x) ==
    /\ TxGoes(x, "task", IF x \in rollbackRequested THEN "rollback" ELSE "commit")
    /\ UNCHANGED <<outcome, poolVars, rollbackRequested, changes, committed, historyVars>>

Commit(x) ==
    /\ TxGoes(x, "commit", "release")
    /\ CommitsWork(x)
    /\ active' = active \ {x}
    /\ UNCHANGED <<outcome, connection, rollbackRequested, changes, historyVars>>

Rollback(x) ==
    /\ txStep[x] \in {"rollback", "recover"}
    /\ TxGoes(x, txStep[x], "release")
    /\ RollsBack(x)
    /\ active' = active \ {x}
    /\ UNCHANGED <<outcome, connection, rollbackRequested, changes, historyVars>>

\* An await of the try block rejects, or the task throws.  BEGIN, a change, COMMIT or
\* ROLLBACK may have been applied; a COMMIT may also have ended in a rollback.
TxFails(x) ==
    /\ txStep[x] \in InTry
    /\ \/ /\ UNCHANGED <<active, holds, changes, committed>>
       \/ /\ txStep[x] = "start"
          /\ active' = active \cup {x}
          /\ Begins(x) \/ UNCHANGED holds
          /\ UNCHANGED <<changes, committed>>
       \/ /\ txStep[x] = "change"
          /\ Connected(x)
          /\ changes' = [changes EXCEPT ![x] = @ + 1]
          /\ UNCHANGED <<active, holds, committed>>
       \/ /\ txStep[x] = "commit"
          /\ CommitsWork(x) \/ RollsBack(x)
          /\ UNCHANGED <<active, changes>>
       \/ /\ txStep[x] = "rollback"
          /\ RollsBack(x)
          /\ UNCHANGED <<active, changes>>
    /\ Catch(x, txStep[x])
    /\ UNCHANGED <<connection, rollbackRequested, historyVars>>

\* The ROLLBACK of the catch block rejects: only the finally block is left.
RecoverFails(x) ==
    /\ TxGoes(x, "recover", "release")
    /\ RollsBack(x) \/ UNCHANGED <<holds, committed>>
    /\ rollbackRejected' = rollbackRejected \cup {x}
    /\ UNCHANGED <<outcome, connection, active, rollbackRequested, changes, releaseRejected>>

\* The finally block.  A query runner whose connection broke is released already.
Release(x) ==
    /\ TxGoes(x, "release", IF outcome[x] = "result" THEN "done" ELSE "failed")
    /\ connection' = [connection EXCEPT ![x] = NoConnection]
    /\ UNCHANGED <<outcome, active, rollbackRequested, changes, holds, committed, historyVars>>

\* release() rejects, in place of the result, with or without the connection given back.
ReleaseFails(x) ==
    /\ TxGoes(x, "release", "failed")
    /\ Connected(x)
    /\ connection' \in {connection, [connection EXCEPT ![x] = NoConnection]}
    /\ releaseRejected' = releaseRejected \cup {x}
    /\ UNCHANGED <<outcome, active, rollbackRequested, changes, holds, committed, rollbackRejected>>

\* The pool opens another one in its place.
ConnectionBreaks(k) ==
    /\ connection' = [x \in Execution |-> IF connection[x] = k THEN NoConnection ELSE connection[x]]
    /\ holds' = [holds EXCEPT ![k] = {}]
    /\ UNCHANGED <<txStep, outcome, active, rollbackRequested, changes, committed, historyVars>>

TxStep(x) ==
    \/ Connect(x)
    \/ StartTransaction(x)
    \/ RowChanged(x)
    \/ TaskReturns(x)
    \/ Commit(x)
    \/ Rollback(x)
    \/ Release(x)

TxNext ==
    \/ \E x \in Execution :
          \/ Execute(x) \/ TxStep(x) \/ RequestRollback(x) \/ Modify(x)
          \/ TxFails(x) \/ RecoverFails(x) \/ ReleaseFails(x)
    \/ \E k \in Connection : ConnectionBreaks(k)

TxSpec == TxInit /\ [][TxNext]_txVars

----------------------------------------------------------------------------

\* A task's changes are committed all or none, with the changes of whichever execution they
\* are: all once its caller has a result without having asked for a rollback, and none if it
\* has asked for one - unless not even the ROLLBACK of the catch block was acknowledged:
\* what is left open then goes back to the pool, and the next COMMIT on it commits it.
TransactionsAtomic ==
    \A x \in Execution :
        /\ committed[x] \in {0, changes[x]}
        /\ txStep[x] = "done" =>
              committed[x] = IF x \in rollbackRequested THEN 0 ELSE changes[x]
        /\ x \in rollbackRequested /\ committed[x] # 0 =>
              txStep[x] = "failed" /\ x \in rollbackRejected

\* An execution that has ended has given its connection back, unless release() rejected; no
\* two have the same connection; and a transaction open on a connection holds the changes of
\* the execution that has it, and of no other than those whose ROLLBACK rejected.
ConnectionsReturn ==
    /\ \A x \in Execution :
          txStep[x] \in {"done", "failed"} /\ Connected(x) => x \in releaseRejected
    /\ \A x, y \in Execution : Connected(x) /\ connection[x] = connection[y] => x = y
    /\ \A k \in Connection : \A x \in holds[k] :
          connection[x] = k \/ (txStep[x] = "failed" /\ x \in rollbackRejected)

\* Both: how a transaction is settled, whatever fails.
TransactionsSettle == TransactionsAtomic /\ ConnectionsReturn
=============================================================================
