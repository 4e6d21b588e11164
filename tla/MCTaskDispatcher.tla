-------------------------- MODULE MCTaskDispatcher --------------------------
(* Two producing threads and a few tasks: enough for both threads to be    *)
(* between unlock and notify at once, and for tasks to arrive before,      *)
(* between and after the steps of a shutdown.                              *)
EXTENDS TaskDispatcher

CONSTANTS network, scheduler

(* The server ends once it is told to, and the main thread goes on when the *)
(* loader has failed or is done (game.cpp:140, otserv.cpp:88).              *)
ServerEnds == MainLeavesWait /\ ShutdownEnds
=============================================================================
