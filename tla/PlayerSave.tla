----------------------------- MODULE PlayerSave -----------------------------
(***************************************************************************)
(* Saving a player: Database, DBTransaction (src/src/database.cpp, .h) and *)
(* IOLoginData::savePlayer, over a connection that may be lost at any      *)
(* statement, a database that may refuse one, and a server that may crash. *)
(*                                                                         *)
(* What is stored of a player is abstracted to its parts: the row of       *)
(* `players` and the tables that savePlayer empties and fills again.  The  *)
(* content of a part is the version of the player it was written from.     *)
(* The player is one that is saved (`save` = 1).                           *)
(***************************************************************************)
EXTENDS Integers, Sequences

CONSTANTS
    MaxVersion,      \* bound on the changes to the player in memory
    MaxFailures      \* bound on the failures of the environment

Part == {"row", "items", "storage"}
Gone == -1           \* a part between its DELETE and its INSERT
Version == 0 .. MaxVersion
Content == [Part -> Version \cup {Gone}]

NoTransaction == [part \in {} |-> 0]

(* The statements between START TRANSACTION and COMMIT, in order: "row" is *)
(* updated in place, the others are deleted and inserted.                  *)
Statements == <<
    [part |-> "row", deletes |-> FALSE],
    [part |-> "items", deletes |-> TRUE],
    [part |-> "items", deletes |-> FALSE],
    [part |-> "storage", deletes |-> TRUE],
    [part |-> "storage", deletes |-> FALSE] >>

Tries == 3           \* Player::onRemoveCreature

VARIABLES
    memory,          \* the version of the player in memory
    stored,          \* what the database has committed
    working,         \* what the open transaction sees, if there is one
    connected,       \* the connection handle is usable
    retryQueries,    \* Database::retryQueries
    lockDepth,       \* how often the game thread holds databaseLock
    miscounted,      \* databaseLock was released too often, and counts wrongly
    txn,             \* DBTransaction::state
    pc,              \* where savePlayer is
    next,            \* the next statement
    tries,           \* attempts begun by the caller
    reported,        \* the last version savePlayer returned true for
    failures         \* failures so far

vars == <<memory, stored, working, connected, retryQueries, lockDepth,
          miscounted, txn, pc, next, tries, reported, failures>>

dbVars == <<stored, working, connected, failures>>

Init ==
    /\ memory = 0
    /\ stored = [part \in Part |-> 0]
    /\ working = NoTransaction
    /\ connected = TRUE
    /\ retryQueries = TRUE
    /\ lockDepth = 0
    /\ miscounted = FALSE
    /\ txn = "none"
    /\ pc = "idle"
    /\ next = 1
    /\ tries = 0
    /\ reported = 0
    /\ failures = 0

InTransaction == working # NoTransaction

-----------------------------------------------------------------------------
(* ::executeQuery and Database::executeQuery for one statement.            *)

(* It runs: in the open transaction, or by itself.  A handle that is lost  *)
(* and may be retried is connected again until it works.                   *)
Runs(effect) ==
    /\ connected \/ retryQueries
    /\ connected' = TRUE
    /\ IF InTransaction
       THEN working' = effect /\ UNCHANGED stored
       ELSE stored' = effect /\ UNCHANGED working
    /\ UNCHANGED failures

(* The connection is lost under the statement: the database rolls the      *)
(* transaction back.  With retryQueries the statement is sent again over a *)
(* new connection, where it runs by itself.                                *)
LostMutant(effect) ==          \* retries inside a transaction, too
    /\ failures < MaxFailures
    /\ failures' = failures + 1
    /\ working' = NoTransaction
    /\ connected' = TRUE
    /\ stored' = effect

LostAndRetried(effect) ==
    /\ failures < MaxFailures
    /\ retryQueries
    /\ failures' = failures + 1
    /\ working' = NoTransaction
    /\ connected' = TRUE
    /\ stored' = effect

Lost ==
    /\ failures < MaxFailures
    /\ connected
    /\ ~retryQueries
    /\ failures' = failures + 1
    /\ working' = NoTransaction
    /\ connected' = FALSE
    /\ UNCHANGED stored

(* The handle was lost by an earlier statement of the same transaction.    *)
StillLost ==
    /\ ~connected
    /\ ~retryQueries
    /\ UNCHANGED dbVars

(* The database refuses the statement for another reason.                  *)
Refused ==
    /\ failures < MaxFailures
    /\ connected
    /\ failures' = failures + 1
    /\ UNCHANGED <<stored, working, connected>>

(* executeQuery returns true, or false.                                    *)
Executes(effect) == Runs(effect) \/ LostAndRetried(effect)
Fails == Lost \/ StillLost \/ Refused

-----------------------------------------------------------------------------
(* The player changes while no save is running: the game thread does both. *)
Play ==
    /\ pc = "idle"
    /\ memory < MaxVersion
    /\ memory' = memory + 1
    /\ UNCHANGED <<stored, working, connected, retryQueries, lockDepth, miscounted,
                   txn, pc, next, tries, reported, failures>>

(* An attempt of the caller: SELECT `save` first, which may find nothing.  *)
Attempt ==
    /\ pc' = "begin"
    /\ tries' = tries + 1
    /\ next' = 1
    /\ txn' = "none"

Save ==
    /\ pc = "idle"
    /\ tries = 0
    /\ Attempt
    /\ UNCHANGED <<memory, stored, working, connected, retryQueries, lockDepth,
                   miscounted, reported, failures>>

SelectFails ==
    /\ pc = "begin"
    /\ failures < MaxFailures
    /\ failures' = failures + 1
    /\ pc' = "failed"
    /\ UNCHANGED <<memory, stored, working, connected, retryQueries, lockDepth,
                   miscounted, txn, next, tries, reported>>

(* DBTransaction::begin and Database::beginTransaction.  Whatever comes of *)
(* it, the state of the object is STATE_START.                             *)
Begin ==
    /\ pc = "begin"
    /\ \/ failures' = failures
       \/ failures < MaxFailures /\ failures' = failures + 1
    /\ working' = stored
    /\ connected' = TRUE
    /\ lockDepth' = lockDepth + 1
    /\ retryQueries' = FALSE
    /\ txn' = "start"
    /\ pc' = "statements"
    /\ UNCHANGED <<memory, stored, miscounted, next, tries, reported>>

BeginRefused ==
    /\ pc = "begin"
    /\ Refused
    /\ retryQueries' = TRUE
    /\ txn' = "start"
    /\ pc' = "failed"
    /\ UNCHANGED <<memory, lockDepth, miscounted, next, tries, reported>>

(* What a statement of savePlayer makes of the content.                    *)
Effect(content) ==
    LET statement == Statements[next]
    IN  [content EXCEPT ![statement.part] =
            IF statement.deletes THEN Gone ELSE memory]

Statement ==
    /\ pc = "statements"
    /\ next <= Len(Statements)
    /\ Executes(Effect(IF InTransaction THEN working ELSE stored))
    /\ next' = next + 1
    /\ UNCHANGED <<memory, retryQueries, lockDepth, miscounted, txn, pc, tries,
                   reported>>

StatementFails ==
    /\ pc = "statements"
    /\ next <= Len(Statements)
    /\ Fails
    /\ pc' = "failed"
    /\ UNCHANGED <<memory, retryQueries, lockDepth, miscounted, txn, next, tries,
                   reported>>

(* databaseLock.unlock(): undefined on a lock this thread does not hold;   *)
(* an implementation refuses it or counts one too few.                     *)
Unlock ==
    IF lockDepth > 0
    THEN lockDepth' = lockDepth - 1 /\ UNCHANGED miscounted
    ELSE \/ UNCHANGED <<lockDepth, miscounted>>
         \/ lockDepth' = lockDepth - 1 /\ miscounted' = TRUE

(* COMMIT.  When its answer is lost the transaction may have been          *)
(* committed or not, and savePlayer returns false.                         *)
CommitWorks ==
    /\ connected
    /\ stored' = working
    /\ reported' = memory
    /\ pc' = "idle"
    /\ tries' = 0
    /\ UNCHANGED <<connected, failures>>

CommitFailsMutant ==          \* takes no notice of executeQuery's result
    /\ connected
    /\ failures < MaxFailures
    /\ failures' = failures + 1
    /\ stored' \in {stored, working}
    /\ connected' \in BOOLEAN
    /\ reported' = memory
    /\ pc' = "idle"
    /\ tries' = 0

CommitFails ==
    /\ connected
    /\ failures < MaxFailures
    /\ failures' = failures + 1
    /\ stored' \in {stored, working}
    /\ connected' \in BOOLEAN
    /\ pc' = "failed"
    /\ UNCHANGED <<reported, tries>>

CommitMutant ==               \* retryQueries not restored
    /\ pc = "statements"
    /\ next > Len(Statements)
    /\ CommitWorks \/ CommitFails
    /\ working' = NoTransaction
    /\ txn' = "commit"
    /\ Unlock
    /\ UNCHANGED <<memory, next, retryQueries>>

Commit ==
    /\ pc = "statements"
    /\ next > Len(Statements)
    /\ CommitWorks \/ CommitFails
    /\ working' = NoTransaction
    /\ txn' = "commit"
    /\ retryQueries' = TRUE
    /\ Unlock
    /\ UNCHANGED <<memory, next>>

(* The destructor of the DBTransaction when savePlayer returns false: the  *)
(* rollback runs, or is lost with the connection and comes to the same.    *)
RollbackMutant ==             \* the destructor releases the lock only
    /\ txn = "start"
    /\ Unlock
    /\ retryQueries' = TRUE
    /\ UNCHANGED working

Rollback ==
    /\ txn = "start"
    /\ working' = NoTransaction
    /\ retryQueries' = TRUE
    /\ Unlock

(* The caller tries again, up to three times.                              *)
SaveFailed ==
    /\ pc = "failed"
    /\ \/ Rollback
       \/ txn # "start" /\ UNCHANGED <<working, retryQueries, lockDepth, miscounted>>
    /\ IF tries < Tries
       THEN Attempt
       ELSE pc' = "idle" /\ tries' = 0 /\ UNCHANGED <<next, txn>>
    /\ UNCHANGED <<memory, stored, connected, reported, failures>>

(* The process dies and is started again: the database rolls back, and the *)
(* player is loaded from what is stored.                                   *)
Crash ==
    /\ failures < MaxFailures
    /\ failures' = failures + 1
    /\ working' = NoTransaction
    /\ connected' = TRUE
    /\ retryQueries' = TRUE
    /\ lockDepth' = 0
    /\ miscounted' = FALSE
    /\ txn' = "none"
    /\ pc' = "idle"
    /\ next' = 1
    /\ tries' = 0
    /\ memory' = stored["row"]
    /\ UNCHANGED <<stored, reported>>

Next ==
    \/ Play
    \/ Save
    \/ SelectFails
    \/ Begin
    \/ BeginRefused
    \/ Statement
    \/ StatementFails
    \/ Commit
    \/ SaveFailed
    \/ Crash

Spec == Init /\ [][Next]_vars

-----------------------------------------------------------------------------
TypeOK ==
    /\ memory \in Version
    /\ stored \in Content
    /\ working \in Content \cup {NoTransaction}
    /\ connected \in BOOLEAN /\ retryQueries \in BOOLEAN
    /\ lockDepth \in -MaxFailures .. 1 /\ miscounted \in BOOLEAN
    /\ txn \in {"none", "start", "commit"}
    /\ pc \in {"idle", "begin", "statements", "failed"}
    /\ next \in 1 .. Len(Statements) + 1
    /\ tries \in 0 .. Tries
    /\ reported \in Version
    /\ failures \in 0 .. MaxFailures

(* What is stored is one version of the player, whole: losing a connection *)
(* or the server in the middle of savePlayer never leaves a mixture of two *)
(* versions or a table that was emptied and not filled.                    *)
WholeVersion == \E version \in Version : \A part \in Part : stored[part] = version

(* A version that savePlayer returned true for is not lost: neither by a   *)
(* later failed save nor by a crash.                                       *)
ReportedIsStored == reported <= stored["row"]

(* "Do not retry queries if we are in the middle of a transaction"         *)
(* (database.h): a retried statement would run outside of it; and once     *)
(* the transaction is over, queries are retried again.                     *)
RetryOnlyOutside ==
    /\ InTransaction => ~retryQueries
    /\ pc = "idle" => retryQueries

(* Statements of an open transaction are never mixed with another thread's:*)
(* the lock is held for as long as the transaction is open (unless the     *)
(* second release after BeginRefused has spoilt the count), and a save that has ended   *)
(* leaves no transaction open.                                             *)
TransactionIsLocked ==
    /\ InTransaction /\ ~miscounted => lockDepth = 1
    /\ pc = "idle" => ~InTransaction
=============================================================================
