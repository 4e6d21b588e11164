----------------------------- MODULE GameSession -----------------------------
(***************************************************************************)
(* The sessions of one character: ProtocolGame::login, connect, logout and *)
(* release of src/src/protocolgame.cpp, the Player objects they create and *)
(* count references to, and the kicks of a player who does not answer.     *)
(* Each protocol belongs to one connection, whose closing dispatches       *)
(* release; a second session of the character first disconnects the other, *)
(* then takes its player over a second later (allowClones is off and       *)
(* replaceKickOnLogin on, their defaults).                                 *)
(***************************************************************************)
EXTENDS Naturals, Sequences, FiniteSets, SequencesExt

CONSTANTS
    Protocols,      \* the sessions the clients try to open
    NoOne           \* the null pointer

(* A Player is created by a protocol, at most one by each: it is named     *)
(* after its creator.                                                      *)
Players == Protocols

VARIABLES
    conn,           \* the connection of each protocol
    queue,          \* dispatcher tasks of the protocols
    connecting,     \* the player a scheduled connect is for (eventConnect)
    player,         \* ProtocolGame::player
    client,         \* Player::client
    isConnecting,   \* Player::isConnecting
    status,         \* the life of each Player object
    refs,           \* its referenceCounter
    inCheck,        \* it is in a list of creatures to check
    toRelease,      \* entries for it in ToReleaseCreatures
    barred,         \* the player whose client is gone may not leave
    released        \* history: protocols whose release has run

objectVars == <<status, refs, inCheck, toRelease, barred>>
vars == <<conn, queue, connecting, player, client, isConnecting, objectVars, released>>

(* "closed": close() was called, but a handler of the connection still     *)
(* holds it; "expired": it has been destroyed.                             *)
ConnStatus == {"fresh", "open", "closed", "expired"}
Status == {"none", "loading", "online", "removed", "deleted"}

Login(p) == [task |-> "login", of |-> p]
Release(p) == [task |-> "release", of |-> p]
Task == {Login(p) : p \in Protocols} \cup {Release(p) : p \in Protocols}

Init ==
    /\ conn = [p \in Protocols |-> "fresh"]
    /\ queue = <<>>
    /\ connecting = [p \in Protocols |-> NoOne]
    /\ player = [p \in Protocols |-> NoOne]
    /\ client = [o \in Players |-> NoOne]
    /\ isConnecting = [o \in Players |-> FALSE]
    /\ status = [o \in Players |-> "none"]
    /\ refs = [o \in Players |-> 0]
    /\ inCheck = [o \in Players |-> FALSE]
    /\ toRelease = [o \in Players |-> 0]
    /\ barred = FALSE
    /\ released = {}

-----------------------------------------------------------------------------
Online == {o \in Players : status[o] = "online"}

(* Connection::close of some connections, in a step that leaves the rest   *)
(* of the queue as q.                                                      *)
Closing(q, ps) ==
    LET open == {p \in ps \ {NoOne} : conn[p] = "open"}
    IN  /\ conn' = [p \in Protocols |-> IF p \in open THEN "closed" ELSE conn[p]]
        /\ queue' = q \o SetToSeq({Release(p) : p \in open})

(* An object whose counter has come to 0 is deleted.                       *)
Reap(counts) ==
    /\ refs' = counts
    /\ status' = [o \in Players |->
                    IF counts[o] = 0 /\ refs[o] > 0 THEN "deleted" ELSE status[o]]

-----------------------------------------------------------------------------
(* The network: the first packet queues the login; the connection closes   *)
(* at any time, and is destroyed when its last handler has run.            *)
OnRecvFirstMessage(p) ==
    /\ conn[p] = "fresh"
    /\ conn' = [conn EXCEPT ![p] = "open"]
    /\ queue' = Append(queue, Login(p))
    /\ UNCHANGED <<connecting, player, client, isConnecting, objectVars, released>>

ConnectionCloses(p) ==
    /\ conn[p] = "open"
    /\ Closing(queue, {p})
    /\ UNCHANGED <<connecting, player, client, isConnecting, objectVars, released>>

ConnectionExpires(p) ==
    /\ conn[p] = "closed"
    /\ conn' = [conn EXCEPT ![p] = "expired"]
    /\ UNCHANGED <<queue, connecting, player, client, isConnecting, objectVars, released>>

-----------------------------------------------------------------------------
(* The game thread.                                                        *)

(* The character is offline: a new Player, which is refused (bans, wait    *)
(* list, state of the game) or placed on the map.                          *)
LoginNew(p, rest) ==
    /\ Online = {}
    /\ player' = [player EXCEPT ![p] = p]
    /\ client' = [client EXCEPT ![p] = p]
    /\ \/ /\ status' = [status EXCEPT ![p] = "loading"]
          /\ refs' = [refs EXCEPT ![p] = 1]
          /\ Closing(rest, {p})
          /\ UNCHANGED inCheck
       \/ /\ status' = [status EXCEPT ![p] = "online"]
          /\ refs' = [refs EXCEPT ![p] = 3]
          /\ inCheck' = [inCheck EXCEPT ![p] = TRUE]
          /\ queue' = rest
          /\ UNCHANGED conn
    /\ UNCHANGED <<connecting, isConnecting, toRelease, barred>>

(* ProtocolGame::connect to player o.                                      *)
ConnectMutant(p, o, rest) ==     \* does not look at the client
    /\ connecting' = [connecting EXCEPT ![p] = NoOne]
    /\ IF o \notin Online
       THEN /\ Closing(rest, {p})
            /\ UNCHANGED <<player, client, isConnecting, refs>>
       ELSE /\ queue' = rest
            /\ UNCHANGED conn
            /\ player' = [player EXCEPT ![p] = o]
            /\ client' = [client EXCEPT ![o] = p]
            /\ refs' = [refs EXCEPT ![o] = @ + 1]
            /\ isConnecting' = [isConnecting EXCEPT ![o] = FALSE]
    /\ UNCHANGED <<status, inCheck, toRelease, barred>>

Connect(p, o, rest) ==
    /\ connecting' = [connecting EXCEPT ![p] = NoOne]
    /\ IF o \notin Online \/ client[o] # NoOne
       THEN /\ Closing(rest, {p})
            /\ UNCHANGED <<player, client, isConnecting, refs, barred>>
       ELSE /\ queue' = rest
            /\ UNCHANGED conn
            /\ IF conn[p] = "expired"
               THEN UNCHANGED <<player, client, isConnecting, refs, barred>>
               ELSE /\ player' = [player EXCEPT ![p] = o]
                    /\ client' = [client EXCEPT ![o] = p]
                    /\ refs' = [refs EXCEPT ![o] = @ + 1]
                    /\ isConnecting' = [isConnecting EXCEPT ![o] = FALSE]
                    /\ barred' = FALSE
    /\ UNCHANGED <<status, inCheck, toRelease>>

(* The character is online: its session is disconnected first, if it has   *)
(* one.                                                                    *)
LoginFoundMutant(p, o, rest) ==  \* waits for nothing
    IF client[o] = NoOne
    THEN Connect(p, o, rest)
    ELSE /\ Closing(rest, {client[o]})
         /\ isConnecting' = [isConnecting EXCEPT ![o] = TRUE]
         /\ UNCHANGED <<connecting, player, client, objectVars>>

LoginFound(p, o, rest) ==
    IF client[o] = NoOne
    THEN Connect(p, o, rest)
    ELSE /\ Closing(rest, {client[o]})
         /\ isConnecting' = [isConnecting EXCEPT ![o] = TRUE]
         /\ connecting' = [connecting EXCEPT ![p] = o]
         /\ UNCHANGED <<player, client, objectVars>>

RunLogin ==
    /\ queue # <<>> /\ Head(queue).task = "login"
    /\ LET p == Head(queue).of IN
          \/ LoginNew(p, Tail(queue))
          \/ \E o \in Online : LoginFound(p, o, Tail(queue))
    /\ UNCHANGED released

RunRelease ==
    /\ queue # <<>> /\ Head(queue).task = "release"
    /\ queue' = Tail(queue)
    /\ LET p == Head(queue).of
           o == player[p]
       IN  /\ released' = released \cup {p}
           /\ IF o # NoOne /\ client[o] = p
              THEN /\ client' = [client EXCEPT ![o] = NoOne]
                   /\ player' = [player EXCEPT ![p] = NoOne]
                   /\ Reap([refs EXCEPT ![o] = @ - 1])
              ELSE UNCHANGED <<client, player, refs, status>>
    /\ UNCHANGED <<conn, connecting, isConnecting, inCheck, toRelease, barred>>

RunConnect(p) ==
    /\ connecting[p] # NoOne
    /\ Connect(p, connecting[p], queue)
    /\ UNCHANGED released

(* Game::removeCreature.                                                   *)
RemoveCreature(o) ==
    /\ status' = [status EXCEPT ![o] = "removed"]
    /\ toRelease' = [toRelease EXCEPT ![o] = @ + 1]
    /\ barred' = FALSE
    /\ UNCHANGED <<refs, inCheck>>

(* A logout of the client or a kick.                                       *)
Logout(o) ==
    /\ o \in Online
    /\ Closing(queue, {client[o]})
    /\ RemoveCreature(o)
    /\ UNCHANGED <<connecting, player, client, isConnecting, released>>

(* Player::sendPing: a player who does not answer is logged out, unless    *)
(* another session is connecting to it, he stands on a tile nobody may log *)
(* out on, or the scripts of the logout refuse.                            *)
NoPongMutant(o) ==               \* looks for the client only
    /\ client[o] # NoOne
    /\ Logout(o)

NoPong(o) ==
    /\ ~isConnecting[o]
    /\ ~barred
    /\ Logout(o)

(* A player without a client is pushed onto such a tile or off it, or the  *)
(* scripts change their mind.  (While he has a client nothing depends on   *)
(* it: his kick is then one of the ways a session may end.)                *)
BarOrUnbar ==
    /\ \E o \in Online : client[o] = NoOne
    /\ barred' = ~barred
    /\ UNCHANGED <<conn, queue, connecting, player, client, isConnecting, status, refs,
                   inCheck, toRelease, released>>

(* Death leaves the session open, with the player removed.                 *)
Death(o) ==
    /\ o \in Online
    /\ RemoveCreature(o)
    /\ UNCHANGED <<conn, queue, connecting, player, client, isConnecting, released>>

(* The check lists drop a removed creature when its turn comes; cleanup    *)
(* then gives up the references collected.                                 *)
CheckCreatures ==
    LET gone == {o \in Players : inCheck[o] /\ status[o] = "removed"}
        due == [o \in Players |-> toRelease[o] + (IF o \in gone THEN 1 ELSE 0)]
    IN  /\ inCheck' = [o \in Players |-> inCheck[o] /\ o \notin gone]
        /\ toRelease' = [o \in Players |-> 0]
        /\ due # toRelease'
        /\ Reap([o \in Players |-> refs[o] - due[o]])
        /\ UNCHANGED <<conn, queue, connecting, player, client, isConnecting, barred,
                       released>>

(* Another check list or the decay of items: only cleanup.                 *)
CleanupMutant ==                 \* forgets to clear the list
    /\ \E o \in Players : toRelease[o] > 0
    /\ toRelease' = toRelease
    /\ Reap([o \in Players |-> IF refs[o] > toRelease[o] THEN refs[o] - toRelease[o] ELSE 0])
    /\ UNCHANGED <<conn, queue, connecting, player, client, isConnecting, inCheck, barred,
                   released>>

Cleanup ==
    /\ \E o \in Players : toRelease[o] > 0
    /\ toRelease' = [o \in Players |-> 0]
    /\ Reap([o \in Players |-> refs[o] - toRelease[o]])
    /\ UNCHANGED <<conn, queue, connecting, player, client, isConnecting, inCheck, barred,
                   released>>

-----------------------------------------------------------------------------
Next ==
    \/ \E p \in Protocols : OnRecvFirstMessage(p) \/ ConnectionCloses(p)
                              \/ ConnectionExpires(p) \/ RunConnect(p)
    \/ \E o \in Players : Logout(o) \/ NoPong(o) \/ Death(o)
    \/ BarOrUnbar
    \/ RunLogin
    \/ RunRelease
    \/ CheckCreatures
    \/ Cleanup

Spec == Init /\ [][Next]_vars

(* The dispatcher runs its tasks and the scheduler its events, a player    *)
(* whose client has gone is pinged again and again; clients, connections,  *)
(* and what bars a logout are free.                                        *)
SessionFairness ==
    /\ WF_vars(RunLogin) /\ WF_vars(RunRelease)
    /\ \A p \in Protocols : WF_vars(RunConnect(p))
    /\ WF_vars(CheckCreatures)
    /\ \A o \in Players : WF_vars(client[o] = NoOne /\ NoPong(o))

FairSpec == Spec /\ SessionFairness

-----------------------------------------------------------------------------
SessionTypeOK ==
    /\ conn \in [Protocols -> ConnStatus]
    /\ queue \in Seq(Task)
    /\ connecting \in [Protocols -> Players \cup {NoOne}]
    /\ player \in [Protocols -> Players \cup {NoOne}]
    /\ client \in [Players -> Protocols \cup {NoOne}]
    /\ isConnecting \in [Players -> BOOLEAN]
    /\ status \in [Players -> Status]
    /\ refs \in [Players -> 0 .. 4]
    /\ inCheck \in [Players -> BOOLEAN]
    /\ toRelease \in [Players -> 0 .. 2]
    /\ barred \in BOOLEAN
    /\ released \subseteq Protocols

(* The counter of a Player is the number of those who hold it: sessions,   *)
(* the map or the list of creatures to release, and the check list.  So    *)
(* none is deleted while held, neither leaked, nor released twice.         *)
Held(o) ==
    Cardinality({p \in Protocols : player[p] = o})
        + (IF status[o] = "online" THEN 1 ELSE 0)
        + (IF inCheck[o] THEN 1 ELSE 0)
        + toRelease[o]

Counted ==
    \A o \in Players :
        /\ refs[o] = Held(o)
        /\ status[o] \in {"none", "deleted"} <=> refs[o] = 0

(* One session plays the character: two clients logging in at once, while  *)
(* a third is kicked, never drive the same player, and the player answers  *)
(* to the session that holds it.                                           *)
OneSession ==
    /\ Cardinality(Online) <= 1
    /\ \A p \in Protocols : player[p] # NoOne => client[player[p]] = p
    /\ \A o \in Players : client[o] # NoOne => player[client[o]] = o

(* A login does not wait for ever: the client gets a player or is          *)
(* disconnected.                                                           *)
LoginAnswered ==
    \A p \in Protocols :
        conn[p] # "fresh" ~> player[p] # NoOne \/ conn[p] # "open"

(* A player whose client has gone does not stay in the game, unless a      *)
(* session is connecting to it or his logout is refused; from the moment   *)
(* nothing refuses it for good, he leaves.                                 *)
GhostsLeave ==
    \A o \in Players :
        o \in Online /\ client[o] = NoOne
            ~> o \notin Online \/ client[o] # NoOne \/ isConnecting[o] \/ barred

(* A protocol that has been released holds no player: nothing would ever   *)
(* release it again.                                                       *)
NoLeak == \A p \in released : player[p] = NoOne
=============================================================================
