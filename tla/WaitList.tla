------------------------------- MODULE WaitList -------------------------------
(***************************************************************************)
(* The list of players who wait for a place in a full world: clientLogin   *)
(* of src/src/protocolgame.cpp.  A refused client tries again on its own   *)
(* and loses its entry when it does not do so in time.  Players that may   *)
(* always log in pass by the list.                                         *)
(***************************************************************************)
EXTENDS Naturals, Sequences, FiniteSets, SequencesExt

CONSTANTS
    Ordinary, Premium, Staff,
    MaxPlayers

VARIABLES
    playing,        \* the players in the world
    waitList,       \* entries of guid and whether its time is over
    stale,          \* priorityEnd was invalidated by a change of the list
    priorityEnd,    \* the position of that iterator
    tried           \* the player whose login the last step decided, as a set

waitVars == <<playing, waitList, stale, priorityEnd, tried>>

Entry(g) == [guid |-> g, late |-> FALSE]
Known == {waitList[i].guid : i \in DOMAIN waitList}

WaitInit ==
    /\ playing = {} /\ waitList = <<>> /\ tried = {}
    /\ stale = FALSE /\ priorityEnd = 0

(* The number of entries before that of g, which is its slot less one.     *)
Ahead(list, g) == CHOOSE n \in 0 .. Len(list) - 1 : list[n + 1].guid = g

Admit(g) == playing' = playing \cup {g}

-----------------------------------------------------------------------------
(* The world has a place, or the player needs none.                        *)
PassesBy(g) ==
    \/ g \in Staff
    \/ waitList = <<>> /\ Cardinality(playing) < MaxPlayers

(* A known player enters when there is a place for him and for everybody   *)
(* ahead of him.                                                           *)
LoginKnownMutant(g, list) ==     \* looks for one place only
    IF Cardinality(playing) < MaxPlayers
    THEN /\ Admit(g)
         /\ waitList' = RemoveAt(list, Ahead(list, g) + 1)
         /\ stale' = TRUE
    ELSE /\ waitList' = [list EXCEPT ![Ahead(list, g) + 1] = Entry(g)]
         /\ stale' = (stale \/ list # waitList)
         /\ UNCHANGED playing

LoginKnown(g, list) ==
    IF Cardinality(playing) + Ahead(list, g) < MaxPlayers
    THEN /\ Admit(g)
         /\ waitList' = RemoveAt(list, Ahead(list, g) + 1)
         /\ stale' = TRUE
    ELSE /\ waitList' = [list EXCEPT ![Ahead(list, g) + 1] = Entry(g)]
         /\ stale' = (stale \/ list # waitList)
         /\ UNCHANGED playing

(* A new entry.  The one of a premium player goes to priorityEnd, which    *)
(* then is its position; at position 0 the result 0 means "let him in".    *)
LoginUnknown(g, list) ==
    IF g \in Premium
    THEN \E n \in IF stale \/ list # waitList THEN 0 .. Len(list) ELSE {priorityEnd} :
            /\ waitList' = InsertAt(list, n + 1, Entry(g))
            /\ priorityEnd' = n
            /\ stale' = FALSE
            /\ IF n = 0 THEN Admit(g) ELSE UNCHANGED playing
    ELSE /\ waitList' = Append(list, Entry(g))
         /\ stale' = TRUE
         /\ UNCHANGED <<playing, priorityEnd>>

ClientLogin(g) ==
    LET kept == SelectSeq(waitList, LAMBDA e : ~ e.late)
    IN  /\ g \notin playing
        /\ tried' = {g}
        /\ IF PassesBy(g)
           THEN Admit(g) /\ UNCHANGED <<waitList, stale, priorityEnd>>
           ELSE IF \E i \in DOMAIN kept : kept[i].guid = g
                THEN LoginKnown(g, kept) /\ UNCHANGED priorityEnd
                ELSE LoginUnknown(g, kept)

(* A player leaves; the time of an entry runs out.                         *)
Leave(g) ==
    /\ g \in playing
    /\ playing' = playing \ {g}
    /\ tried' = {}
    /\ UNCHANGED <<waitList, stale, priorityEnd>>

RunsOut(i) ==
    /\ ~ waitList[i].late
    /\ waitList' = [waitList EXCEPT ![i].late = TRUE]
    /\ tried' = {}
    /\ UNCHANGED <<playing, stale, priorityEnd>>

WaitNext ==
    \/ \E g \in Ordinary \cup Premium \cup Staff : ClientLogin(g) \/ Leave(g)
    \/ \E i \in DOMAIN waitList : RunsOut(i)

-----------------------------------------------------------------------------
(* A waiting player whose next attempt would succeed.                      *)
MayEnter(g) ==
    \E i \in DOMAIN waitList :
        /\ waitList[i].guid = g /\ ~ waitList[i].late
        /\ Cardinality(playing) + i <= MaxPlayers

(* The login of an ordinary player takes nobody's place: whoever could     *)
(* enter before still can, whether that login was let in or queued         *)
(* (protocolgame.cpp:86).                                                  *)
NoPlaceTaken ==
    \A g \in Ordinary \cup Premium :
        MayEnter(g) /\ g \notin playing' /\ (\E h \in Ordinary : tried' = {h}) => MayEnter(g)'

(* Nobody has two entries, and an ordinary player in the world has none.   *)
OneEntry ==
    /\ \A i, j \in DOMAIN waitList : waitList[i].guid = waitList[j].guid => i = j
    /\ Ordinary \cap playing \cap Known = {}
=============================================================================
