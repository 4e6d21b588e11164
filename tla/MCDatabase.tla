------------------------------ MODULE MCDatabase ------------------------------
(* What lies around the database, a behaviour being of one part: the queries *)
(* that run beside the game; the saving of a player, with enough failures to *)
(* use up the three attempts of one save and begin another; and the sessions *)
(* of a character who is loaded and saved: one that plays and two that want  *)
(* to take it over at once; and the things of a player, stored and loaded.   *)
EXTENDS DatabaseTasks, ItemStore

CONSTANTS MaxVersion, MaxFailures, p1, p2, p3, Protocols, NoOne

ASSUME MCDatabaseAssumption ==
    /\ MaxVersion \in Nat /\ MaxFailures \in Nat
    /\ NoOne \notin Protocols

VARIABLES
    part,
    memory, saved, working, connected, retryQueries, lockDepth, miscounted,
    txn, savePc, next, tries, reported, failures,
    protocol, sessionTasks, connecting, player, client, isConnecting,
    status, refs, inCheck, toRelease, barred, released

saving == <<memory, saved, working, connected, retryQueries, lockDepth, miscounted,
            txn, savePc, next, tries, reported, failures>>
sessions == <<protocol, sessionTasks, connecting, player, client, isConnecting,
              status, refs, inCheck, toRelease, barred, released>>

S == INSTANCE PlayerSave WITH pc <- savePc, stored <- saved
G == INSTANCE GameSession WITH conn <- protocol, queue <- sessionTasks

MCInit ==
    /\ part \in {"queries", "saving", "sessions", "things"}
    /\ Init /\ S!Init /\ G!Init /\ StoreInit

MCNext ==
    /\ UNCHANGED part
    /\ \/ part = "queries" /\ Next /\ UNCHANGED <<saving, sessions, storeVars>>
       \/ part = "saving" /\ S!Next /\ UNCHANGED <<vars, sessions, storeVars>>
       \/ part = "sessions" /\ (G!Next \/ UNCHANGED sessions) 
          /\ UNCHANGED <<vars, saving, storeVars>>
       \/ part = "things" /\ StoreNext /\ UNCHANGED <<vars, saving, sessions>>

MCSpec ==
    /\ MCInit /\ [][MCNext]_<<part, vars, saving, sessions, storeVars>>
    /\ WF_vars(part = "queries" /\ ThreadMain) /\ WF_vars(part = "queries" /\ GameGoesOn)
    /\ G!SessionFairness

-----------------------------------------------------------------------------
(* Two takers run each query once, overtake only one in hand, and leave none *)
(* behind a flush (databasetasks.cpp:74, game.cpp:191).                      *)
QueriesRunOnce ==
    part = "queries" => TypeOK /\ RunOnce /\ OnlyHeldOvertaken /\ FlushedMeansRun

(* The callback of a query comes after it and is not lost to a dispatcher    *)
(* that still takes tasks (databasetasks.cpp:62).                            *)
CallbacksFollow == part = "queries" => CallbackKept /\ CallbackAfterQuery

(* Every query is run, whatever the moment of the shutdown.                  *)
QueriesRun == part = "queries" => EventuallyRun

(* What is stored is a whole version, no version that was reported saved is  *)
(* lost, and no statement of a transaction is sent outside of it, mixed with *)
(* another thread's or left in an open one (iologindata.cpp:701,             *)
(* database.cpp:64, 111).                                                    *)
SavesAreWhole ==
    part = "saving" =>
        /\ S!TypeOK /\ S!WholeVersion /\ S!ReportedIsStored
        /\ S!RetryOnlyOutside /\ S!TransactionIsLocked

(* One session plays a character, and its objects are freed exactly when     *)
(* nobody holds them (protocolgame.cpp:226, creature.h:478).                 *)
SessionsKept == part = "sessions" => G!SessionTypeOK /\ G!Counted /\ G!OneSession

(* A login is answered, and who has lost his client leaves as soon as        *)
(* nothing bars him for good (protocolgame.cpp:207, :226, player.cpp:838).   *)
SessionsEnd == part = "sessions" => G!LoginAnswered /\ G!GhostsLeave

(* What is stored of a player and loaded again is what he had and was sent,  *)
(* each thing in its place (iologindata.cpp:529, 895).                       *)
ThingsAreStored == part = "things" => StoredIsKept
=============================================================================
