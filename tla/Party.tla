-------------------------------- MODULE Party --------------------------------
(***************************************************************************)
(* Parties and chat channels: src/src/party.cpp, src/src/chat.cpp, the     *)
(* handlers of src/src/game.cpp that call them, and what a player does to  *)
(* both when it moves, advances, goes idle, reconnects or logs out         *)
(* (src/src/player.cpp).                                                   *)
(*                                                                         *)
(* Everything runs on the game thread: a handler is one step.  The calls a *)
(* handler makes are operators from a state to the next one, in the order  *)
(* of the code, because what one call sees depends on what the call before *)
(* it has already changed.  A party is known by its address, which a later *)
(* party may get again.  A callback of the scripts that refuses leaves     *)
(* everything as it was, so a refusal is a stuttering step; only a refusal *)
(* to disband would not be, and no script of the repository refuses that.  *)
(***************************************************************************)
EXTENDS Naturals, FiniteSets, FiniteSetsExt, SequencesExt

CONSTANTS
    Players,
    Parties,        \* addresses a Party may be allocated at
    PrivateIds,     \* identifiers of private channels, 100 to 9999 in the code
    Levels,
    Places          \* two places are within EXPERIENCE_SHARE_RANGE iff equal

None == "none"

ASSUME LevelsAssumption == Levels \subseteq Nat \ {0}
ASSUME PartiesAssumption == None \notin Players \cup Parties /\ IsFiniteSet(Parties)

Freed == [leader |-> None, members |-> <<>>, invites |-> {},
          active |-> FALSE, enabled |-> FALSE, ticks |-> {}]
NoChannel == [owner |-> None, users |-> {}, invites |-> {}, open |-> FALSE]
Channels == ({"party"} \X Parties) \cup ({"private"} \X PrivateIds)
            \cup {<<"public", 3>>}

VARIABLES
    online,      \* who is in the game
    level,
    place,
    partyOf,     \* Player::party
    invitedTo,   \* Player::invitePartyList
    party,       \* the parties by address, Freed where there is none
    channel      \* Chat::partyChannels, privateChannels and a normal channel

vars == <<online, level, place, partyOf, invitedTo, party, channel>>

Now == [online |-> online, level |-> level, place |-> place,
        partyOf |-> partyOf, invitedTo |-> invitedTo, party |-> party,
        channel |-> channel]

Become(s) ==
    /\ online' = s.online
    /\ level' = s.level
    /\ place' = s.place
    /\ partyOf' = s.partyOf
    /\ invitedTo' = s.invitedTo
    /\ party' = s.party
    /\ channel' = s.channel

Init ==
    /\ online = Players
    /\ level \in [Players -> Levels]
    /\ place \in [Players -> Places]
    /\ partyOf = [p \in Players |-> None]
    /\ invitedTo = [p \in Players |-> {}]
    /\ party = [P \in Parties |-> Freed]
    /\ channel = [c \in Channels |-> [NoChannel EXCEPT !.open = c[1] = "public"]]

-----------------------------------------------------------------------------
(* The channels.                                                           *)

(* Chat::getChannel: whether p is given channel c.                         *)
GetChannel(s, c, p) ==
    /\ s.channel[c].open
    /\ \/ c[1] = "public"
       \/ c[1] = "party" /\ s.partyOf[p] = c[2]
       \/ c[1] = "private" /\ p \in {s.channel[c].owner} \cup s.channel[c].invites

(* Chat::createChannel: the private channel gets its creator as the owner. *)
CreateChannel(s, c, p) ==
    [s EXCEPT !.channel[c] =
        [NoChannel EXCEPT !.open = TRUE,
                          !.owner = IF c[1] = "private" THEN p ELSE None]]

AddUser(s, c, p) == [s EXCEPT !.channel[c].users = @ \cup {p}]

RemoveUser(s, c, p) == [s EXCEPT !.channel[c].users = @ \ {p}]

DeleteChannel(s, c) == [s EXCEPT !.channel[c] = NoChannel]

(* The owner's leaving deletes a private channel.                          *)
RemoveUserFromChannel(s, c, p) ==
    IF ~ (GetChannel(s, c, p) /\ p \in s.channel[c].users) THEN s
    ELSE IF s.channel[c].owner = p THEN DeleteChannel(s, c)
    ELSE RemoveUser(s, c, p)

(* Player::sendClosePrivate(CHANNEL_PARTY), with the party p is in now.    *)
SendClosePrivate(s, p) ==
    IF s.partyOf[p] = None THEN s
    ELSE RemoveUserFromChannel(s, <<"party", s.partyOf[p]>>, p)

RemoveUserFromAllChannelsMutant(s, p) ==  \* forgets the invitations
    [s EXCEPT !.channel = [c \in Channels |->
        IF s.channel[c].owner = p THEN NoChannel
        ELSE [s.channel[c] EXCEPT !.users = @ \ {p}]]]

RemoveUserFromAllChannels(s, p) ==
    [s EXCEPT !.channel = [c \in Channels |->
        IF s.channel[c].owner = p THEN NoChannel
        ELSE [s.channel[c] EXCEPT !.users = @ \ {p}, !.invites = @ \ {p}]]]

-----------------------------------------------------------------------------
(* Shared experience.                                                      *)

(* getMemberSharedExperienceStatus is SHAREDEXP_OK: not alone, at least    *)
(* two thirds of the highest level, near the leader, and not idle.         *)
Fits(s, P, p) ==
    LET all == {s.party[P].leader} \cup ToSet(s.party[P].members)
        highest == Max({s.level[q] : q \in all})
    IN /\ s.party[P].members # <<>>
       /\ 3 * s.level[p] >= 2 * highest
       /\ s.place[p] = s.place[s.party[P].leader]

Active(s, P, p) == p \in s.party[P].ticks

GetSharedExperienceStatus(s, P) ==
    \A p \in {s.party[P].leader} \cup ToSet(s.party[P].members) :
        Fits(s, P, p) /\ Active(s, P, p)

UpdateSharedExperience(s, P) ==
    IF P # None /\ s.party[P].active
    THEN [s EXCEPT !.party[P].enabled = GetSharedExperienceStatus(s, P)]
    ELSE s

ClearPlayerPoints(s, P, p) ==
    IF P # None /\ p \in s.party[P].ticks
    THEN UpdateSharedExperience([s EXCEPT !.party[P].ticks = @ \ {p}], P)
    ELSE s

-----------------------------------------------------------------------------
(* The operations of a party.                                              *)

(* erase(std::find(p)), if it finds him.                                   *)
Without(list, p) ==
    IF p \in ToSet(list) THEN RemoveAt(list, CHOOSE i \in DOMAIN list : list[i] = p)
    ELSE list

IsEmpty(s, P) == s.party[P].members = <<>> /\ s.party[P].invites = {}

(* The leader and then the members lose the party before they are taken    *)
(* out of its channel; then it is deleted, and its channel is not.         *)
Disband(s, P) ==
    LET expel(t, p) == SendClosePrivate([t EXCEPT !.partyOf[p] = None], p)
        left == FoldLeft(expel, s, <<s.party[P].leader>> \o s.party[P].members)
    IN [left EXCEPT
           !.invitedTo = [p \in Players |->
               IF p \in s.party[P].invites THEN @[p] \ {P} ELSE @[p]],
           !.party[P] = Freed]

InvitePlayer(s, P, p) ==
    [s EXCEPT !.party[P].invites = @ \cup {p}, !.invitedTo[p] = @ \cup {P}]

RemoveInvite(s, P, p, fromPlayer) ==
    LET t == [s EXCEPT !.party[P].invites = @ \ {p},
                       !.invitedTo[p] = IF fromPlayer THEN @ \ {P} ELSE @]
    IN IF p \notin s.party[P].invites THEN s
       ELSE IF IsEmpty(t, P) THEN Disband(t, P)
       ELSE t

ClearPartyInvitations(s, p) ==
    [FoldSet(LAMBDA P, t : RemoveInvite(t, P, p, FALSE), s, s.invitedTo[p])
        EXCEPT !.invitedTo[p] = {}]

PassPartyLeadershipMutant(s, P, p) ==   \* the new leader stays a member
    UpdateSharedExperience(
        [s EXCEPT !.party[P].members = <<s.party[P].leader>> \o @,
                  !.party[P].leader = p], P)

PassPartyLeadership(s, P, p) ==
    UpdateSharedExperience(
        [s EXCEPT !.party[P].members = <<s.party[P].leader>> \o Without(@, p),
                  !.party[P].leader = p], P)

LeaveParty(s, P, p) ==
    LET old == s.party[P]
        alone == \/ old.members = <<>>
                 \/ Len(old.members) = 1 /\ old.invites = {}
        missingLeader == old.leader = p /\ alone
        passed == IF old.leader = p /\ ~alone
                  THEN PassPartyLeadership(s, P, Head(old.members)) ELSE s
        out == [passed EXCEPT !.party[P].members = Without(@, p),
                              !.partyOf[p] = None]
        done == ClearPlayerPoints(
                    UpdateSharedExperience(SendClosePrivate(out, p), P), P, p)
    IN IF missingLeader \/ IsEmpty(done, P) THEN Disband(done, P) ELSE done

JoinPartyMutant(s, P, p) ==     \* does not look at the experience again
    LET formed == IF s.party[P].members = <<>>
                  THEN ClearPartyInvitations(s, s.party[P].leader) ELSE s
    IN ClearPartyInvitations([formed EXCEPT !.party[P].members = Append(@, p),
                                            !.partyOf[p] = P], p)

JoinParty(s, P, p) ==
    LET formed == IF s.party[P].members = <<>>
                  THEN ClearPartyInvitations(s, s.party[P].leader) ELSE s
        joined == [formed EXCEPT !.party[P].members = Append(@, p),
                                 !.partyOf[p] = P]
    IN UpdateSharedExperience(ClearPartyInvitations(joined, p), P)

IsInviting(p, q) ==
    /\ partyOf[p] # None
    /\ party[partyOf[p]].leader = p
    /\ q \in party[partyOf[p]].invites

-----------------------------------------------------------------------------
(* The handlers of Game for parties.                                       *)

Leads(p) == p \in online /\ partyOf[p] # None /\ party[partyOf[p]].leader = p

PlayerInviteToParty(p, q) ==
    /\ p # q /\ {p, q} \subseteq online
    /\ ~ IsInviting(q, p)
    /\ partyOf[q] = None
    /\ \E P \in Parties :
        /\ \/ Leads(p) /\ P = partyOf[p]
           \/ partyOf[p] = None /\ party[P] = Freed
        /\ Become(InvitePlayer([Now EXCEPT !.partyOf[p] = P, !.party[P].leader = p],
                               P, q))

PlayerJoinParty(p, q) ==
    /\ {p, q} \subseteq online
    /\ IsInviting(q, p)
    /\ partyOf[p] = None
    /\ Become(JoinParty(Now, partyOf[q], p))

PlayerRevokePartyInvitation(p, q) ==
    /\ Leads(p) /\ q \in online
    /\ IsInviting(p, q)
    /\ Become(RemoveInvite(Now, partyOf[p], q, TRUE))

PlayerPassPartyLeadership(p, q) ==
    /\ Leads(p) /\ q \in online
    /\ p # q /\ partyOf[q] = partyOf[p]
    /\ Become(PassPartyLeadership(Now, partyOf[p], q))

PlayerLeaveParty(p) ==
    /\ p \in online /\ partyOf[p] # None
    /\ Become(LeaveParty(Now, partyOf[p], p))

PlayerEnableSharedPartyExperience(p, on) ==
    /\ Leads(p)
    /\ party[partyOf[p]].active # on
    /\ LET P == partyOf[p]
           s == [Now EXCEPT !.party[P].active = on]
       IN Become([s EXCEPT !.party[P].enabled =
                               IF on THEN GetSharedExperienceStatus(s, P) ELSE @])

(* A hit on a monster or a partner healed: updatePlayerTicks.              *)
Fight(p) ==
    /\ p \in online /\ partyOf[p] # None
    /\ Become(UpdateSharedExperience(
                  [Now EXCEPT !.party[partyOf[p]].ticks = @ \cup {p}], partyOf[p]))

(* onIdleStatus.                                                           *)
Idle(p) ==
    /\ p \in online /\ partyOf[p] # None
    /\ Become(ClearPlayerPoints(Now, partyOf[p], p))

(* PZ_LOCKED has passed since the last tick: no code runs.                 *)
Expire(p) ==
    /\ partyOf[p] # None
    /\ p \in party[partyOf[p]].ticks
    /\ party' = [party EXCEPT ![partyOf[p]].ticks = @ \ {p}]
    /\ UNCHANGED <<online, level, place, partyOf, invitedTo, channel>>

(* Player::onCreatureMove.                                                 *)
Move(p, where) ==
    /\ p \in online /\ place[p] # where
    /\ Become(UpdateSharedExperience([Now EXCEPT !.place[p] = where], partyOf[p]))

AddExperience(p, to) ==
    /\ p \in online /\ level[p] < to
    /\ Become(UpdateSharedExperience([Now EXCEPT !.level[p] = to], partyOf[p]))

(* A death that costs levels also ends the player's stay: see Logout.      *)
RemoveExperience(p, to) ==
    /\ p \in online /\ level[p] > to
    /\ Become(UpdateSharedExperience([Now EXCEPT !.level[p] = to], partyOf[p]))

-----------------------------------------------------------------------------
(* The handlers of Game for channels.                                      *)

(* getChannelList, when the client asks for the channels, creates the      *)
(* channel of the party.                                                   *)
PlayerRequestChannels(p) ==
    /\ p \in online /\ partyOf[p] # None
    /\ LET c == <<"party", partyOf[p]>>
       IN ~ channel[c].open /\ Become(CreateChannel(Now, c, p))

PlayerOpenChannel(p, c) ==
    /\ p \in online
    /\ GetChannel(Now, c, p) /\ p \notin channel[c].users
    /\ Become(AddUser(Now, c, p))

(* The first free identifier, unless the player owns a channel.            *)
PlayerCreatePrivateChannel(p) ==
    /\ p \in online
    /\ \A c \in Channels : channel[c].owner # p
    /\ \E i \in PrivateIds :
        /\ ~ channel[<<"private", i>>].open
        /\ \A j \in PrivateIds : j < i => channel[<<"private", j>>].open
        /\ Become(AddUser(CreateChannel(Now, <<"private", i>>, p), <<"private", i>>, p))

PlayerChannelInvite(p, q, c) ==
    /\ {p, q} \subseteq online /\ p # q
    /\ channel[c].owner = p
    /\ q \notin channel[c].invites
    /\ Become([Now EXCEPT !.channel[c].invites = @ \cup {q}])

PlayerChannelExclude(p, q, c) ==
    /\ {p, q} \subseteq online /\ p # q
    /\ channel[c].owner = p
    /\ q \in channel[c].invites
    /\ Become(RemoveUser([Now EXCEPT !.channel[c].invites = @ \ {q}], c, q))

PlayerCloseChannel(p, c) ==
    /\ p \in online /\ p \in channel[c].users
    /\ Become(RemoveUserFromChannel(Now, c, p))

(* ProtocolGame::connect on a player that is still in the game.            *)
Reconnect(p) ==
    /\ p \in online
    /\ Become(RemoveUserFromAllChannels(Now, p))

(* Player::onRemoveCreature.                                               *)
Logout(p) ==
    /\ p \in online
    /\ LET cleared == ClearPartyInvitations(Now, p)
           left == IF cleared.partyOf[p] = None THEN cleared
                   ELSE LeaveParty(cleared, cleared.partyOf[p], p)
       IN Become([RemoveUserFromAllChannels(left, p) EXCEPT !.online = @ \ {p}])

Login(p) ==
    /\ p \notin online
    /\ Become([Now EXCEPT !.online = @ \cup {p}])

PartyStep ==
    \/ \E p, q \in Players :
        \/ PlayerInviteToParty(p, q)
        \/ PlayerJoinParty(p, q)
        \/ PlayerRevokePartyInvitation(p, q)
        \/ PlayerPassPartyLeadership(p, q)
    \/ \E p \in Players :
        \/ PlayerLeaveParty(p)
        \/ Login(p)
        \/ Logout(p)

SharingStep ==
    \E p \in Players :
        \/ Fight(p) \/ Idle(p) \/ Expire(p)
        \/ \E on \in BOOLEAN : PlayerEnableSharedPartyExperience(p, on)
        \/ \E w \in Places : Move(p, w)
        \/ \E n \in Levels : AddExperience(p, n) \/ RemoveExperience(p, n)

ChatStep ==
    \E p \in Players :
        \/ PlayerRequestChannels(p)
        \/ PlayerCreatePrivateChannel(p)
        \/ Reconnect(p)
        \/ \E c \in Channels :
            \/ PlayerOpenChannel(p, c)
            \/ PlayerCloseChannel(p, c)
            \/ \E q \in Players :
                PlayerChannelInvite(p, q, c) \/ PlayerChannelExclude(p, q, c)

Next == PartyStep \/ SharingStep \/ ChatStep

Spec == Init /\ [][Next]_vars

-----------------------------------------------------------------------------
(* A player is in a party exactly when that party has it as its leader or  *)
(* once among its members; a party lives only while it has a member or an  *)
(* invitation, nobody holds a freed one, invitations are known on both     *)
(* sides, and nobody in a party that has formed still holds invitations:   *)
(* Party::leaveParty, passPartyLeadership, disband, removeInvite and       *)
(* Player::clearPartyInvitations, which call each other.                   *)
Membership ==
    /\ \A p \in Players, P \in Parties :
        /\ partyOf[p] = P <=> p = party[P].leader \/ p \in ToSet(party[P].members)
        /\ P \in invitedTo[p] <=> p \in party[P].invites
        /\ p \in ToSet(party[P].members) => invitedTo[p] = {}
        /\ p = party[P].leader /\ party[P].members # <<>> => invitedTo[p] = {}
    /\ \A P \in Parties :
        /\ party[P] # Freed => party[P].leader # None /\ ~ IsEmpty(Now, P)
        /\ party[P].leader \notin ToSet(party[P].members)
        /\ IsInjective(party[P].members)

(* While sharing is active, the stored answer is the current one: each of  *)
(* the many events that can change it calls updateSharedExperience.  Only  *)
(* the passing of time makes it stale, and only towards "enabled".         *)
SharingIsCurrent ==
    \A P \in Parties :
        party[P].active =>
            LET all == {party[P].leader} \cup ToSet(party[P].members)
            IN /\ party[P].enabled => \A p \in all : Fits(Now, P, p)
               /\ GetSharedExperienceStatus(Now, P) => party[P].enabled

(* A channel holds pointers to players: each of them is in the game.  A    *)
(* private channel has an owner in the game who has no other one, and only *)
(* the owner and the invited use it.                                       *)
ChannelsAreClean ==
    \A c \in Channels :
        /\ channel[c].users \cup channel[c].invites \subseteq online
        /\ c[1] = "private" =>
            /\ channel[c].open => channel[c].owner \in online
            /\ channel[c].users \subseteq {channel[c].owner} \cup channel[c].invites
            /\ \A d \in Channels :
                channel[c].open /\ channel[c].owner = channel[d].owner => c = d
=============================================================================
