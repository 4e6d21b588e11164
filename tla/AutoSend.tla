------------------------------- MODULE AutoSend -------------------------------
(***************************************************************************)
(* The output buffers of the game protocols: what the game writes is       *)
(* gathered in Protocol::outputBuffer and sent when the buffer is full or  *)
(* by sendAll of src/src/outputmessage.cpp, an event that the scheduler    *)
(* repeats every 10 ms as long as bufferedProtocols has a member.  All of  *)
(* it runs on the game thread.                                             *)
(***************************************************************************)
EXTENDS Naturals, Sequences, FiniteSets

CONSTANTS
    Clients,        \* the protocols of the game clients
    BufferSize,     \* packets that fit into one output message
    MaxWrites       \* bound on the packets written to a client

VARIABLES
    session,            \* of a protocol: "new", "in" after login, "out" after release
    bufferedProtocols,
    chains,             \* sendAll events that are pending
    outputBuffer,       \* the packets in it, <<>> for the null pointer
    wrote,              \* history: packets written to each protocol
    sent                \* history: packets handed to its connection

autoVars == <<session, bufferedProtocols, chains, outputBuffer, wrote, sent>>

AutoInit ==
    /\ session = [p \in Clients |-> "new"]
    /\ bufferedProtocols = {}
    /\ chains = 0
    /\ outputBuffer = [p \in Clients |-> <<>>]
    /\ wrote = [p \in Clients |-> 0]
    /\ sent = [p \in Clients |-> <<>>]

-----------------------------------------------------------------------------
(* insert_protocol_to_autosend: the event of an earlier list may still be  *)
(* pending when the list is empty.                                         *)
InsertMutant(p) ==               \* looks at the list after the insertion
    /\ chains' = chains
    /\ bufferedProtocols' = bufferedProtocols \cup {p}

Insert(p) ==
    /\ chains' = IF bufferedProtocols = {} THEN chains + 1 ELSE chains
    /\ bufferedProtocols' = bufferedProtocols \cup {p}

(* The end of ProtocolGame::login.                                         *)
Login(p) ==
    /\ session[p] = "new"
    /\ session' = [session EXCEPT ![p] = "in"]
    /\ Insert(p)
    /\ UNCHANGED <<outputBuffer, wrote, sent>>

(* writeToOutputBuffer: a packet that does not fit sends the buffer first. *)
(* The first packet may be written before the login.                       *)
WriteMutant(p) ==                \* overtakes what is buffered
    /\ session[p] # "out" /\ wrote[p] < MaxWrites
    /\ wrote' = [wrote EXCEPT ![p] = @ + 1]
    /\ IF Len(outputBuffer[p]) < BufferSize
       THEN /\ outputBuffer' = [outputBuffer EXCEPT ![p] = Append(@, wrote'[p])]
            /\ UNCHANGED sent
       ELSE /\ sent' = [sent EXCEPT ![p] = Append(@, wrote'[p])]
            /\ UNCHANGED outputBuffer
    /\ UNCHANGED <<session, bufferedProtocols, chains>>

WriteToOutputBuffer(p) ==
    /\ session[p] # "out" /\ wrote[p] < MaxWrites
    /\ wrote' = [wrote EXCEPT ![p] = @ + 1]
    /\ IF Len(outputBuffer[p]) < BufferSize
       THEN /\ outputBuffer' = [outputBuffer EXCEPT ![p] = Append(@, wrote'[p])]
            /\ UNCHANGED sent
       ELSE /\ sent' = [sent EXCEPT ![p] = @ \o outputBuffer[p]]
            /\ outputBuffer' = [outputBuffer EXCEPT ![p] = <<wrote'[p]>>]
    /\ UNCHANGED <<session, bufferedProtocols, chains>>

(* One pending event runs and plans its successor.                         *)
SendAllMutant ==                 \* sends on after the last protocol has gone
    /\ chains > 0
    /\ sent' = [p \in Clients |->
                  IF p \in bufferedProtocols THEN sent[p] \o outputBuffer[p] ELSE sent[p]]
    /\ outputBuffer' = [p \in Clients |->
                          IF p \in bufferedProtocols THEN <<>> ELSE outputBuffer[p]]
    /\ UNCHANGED <<session, bufferedProtocols, chains, wrote>>

SendAll ==
    /\ chains > 0
    /\ sent' = [p \in Clients |->
                  IF p \in bufferedProtocols THEN sent[p] \o outputBuffer[p] ELSE sent[p]]
    /\ outputBuffer' = [p \in Clients |->
                          IF p \in bufferedProtocols THEN <<>> ELSE outputBuffer[p]]
    /\ chains' = IF bufferedProtocols = {} THEN chains - 1 ELSE chains
    /\ UNCHANGED <<session, bufferedProtocols, wrote>>

(* ProtocolGame::release: what the buffer holds is never sent.  Release    *)
(* comes after the login, whose task was queued before.                    *)
Release(p) ==
    /\ session[p] = "in"
    /\ session' = [session EXCEPT ![p] = "out"]
    /\ bufferedProtocols' = bufferedProtocols \ {p}
    /\ UNCHANGED <<chains, outputBuffer, wrote, sent>>

AutoNext ==
    \/ SendAll
    \/ \E p \in Clients : Login(p) \/ WriteToOutputBuffer(p) \/ Release(p)

(* The scheduler's thread and the game thread go on.                       *)
AutoFairness == WF_autoVars(SendAll)

-----------------------------------------------------------------------------
(* What was handed over and what is buffered is what was written, in that  *)
(* order (protocol.cpp:63, outputmessage.cpp:31).                          *)
BufferedInOrder ==
    \A p \in Clients : sent[p] \o outputBuffer[p] = [n \in 1 .. wrote[p] |-> n]

(* While somebody is logged in an event is pending.                        *)
ChainRuns == bufferedProtocols # {} => chains > 0

(* What is written reaches the connection without another write, unless    *)
(* the session ends (outputmessage.cpp:40).                                *)
BufferIsSent ==
    \A p \in Clients :
        \A n \in 1 .. MaxWrites :
            (session[p] = "in" /\ wrote[p] = n) ~> (session[p] = "out" \/ Len(sent[p]) >= n)

(* With nobody logged in the events end, however many were started.        *)
ChainsEnd == (bufferedProtocols = {} /\ chains > 0) ~> (chains = 0 \/ bufferedProtocols # {})
=============================================================================
