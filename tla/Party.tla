-------------------------------- MODULE Party --------------------------------
(***************************************************************************)
(* Parties of players (src/src/party.cpp and the handlers of               *)
(* src/src/game.cpp that call it).                                         *)
(*                                                                         *)
(* Who belongs to a party and who is invited is written down twice: in the *)
(* party (leader, memberList, inviteList) and in each player (party,       *)
(* invitePartyList).  A party is deleted by disband, so a pointer that one *)
(* of the two sides keeps too long is a pointer to freed memory.           *)
(* Whether the members share experience is cached in sharedExpEnabled.     *)
(***************************************************************************)
EXTENDS Players, Integers, SequencesExt

CONSTANTS
    PartyId,        \* the Party objects; as many as can be led at a time
    Level,          \* the levels players may have
    Region,         \* the places; two players in different ones are out of range
    MaxPartyChanges \* bound: the moves, changes of level and hits that expire

ASSUME PartyAssumption ==
    /\ Level \subseteq Nat /\ Region \subseteq Nat /\ MaxPartyChanges \in Nat
    /\ Min(Level) \in Level /\ Min(Region) \in Region
    /\ None \notin Player \cup PartyId

VARIABLES
    party,          \* the Party objects that exist
    partyOf,        \* Player::party
    invitePartyList,
    member,         \* of each player: online, level, place, in fight
    changes         \* bound: the moves and changes of level so far

partyVars == <<party, partyOf, invitePartyList, member, changes>>

\* Party::ticksMap: the last time a player has hit or healed, as far as it counts.
Tick == {"none", "recent", "old"}
PartyObject ==
    [leader : Player, memberList : Seq(Player), inviteList : SUBSET Player,
     ticksMap : [Player -> Tick], sharedExpActive : BOOLEAN, sharedExpEnabled : BOOLEAN]

ASSUME NoPartyAssumption == None \notin PartyObject

Online == {p \in Player : member[p].online}
Live(b) == {id \in PartyId : b.party[id] # None}
Members(pt) == ToSet(pt.memberList)
Everyone(pt) == {pt.leader} \cup Members(pt)
IsEmpty(pt) == pt.memberList = <<>> /\ pt.inviteList = {}

\* memberList.erase(std::find(...)); nobody is in the list twice.
Erase(list, p) ==
    IF p \in ToSet(list) THEN RemoveAt(list, CHOOSE i \in DOMAIN list : list[i] = p) ELSE list

\* The books of the parties and the players, which one call changes together.
Book == [party |-> party, partyOf |-> partyOf, invitePartyList |-> invitePartyList]
Write(b) == party' = b.party /\ partyOf' = b.partyOf /\ invitePartyList' = b.invitePartyList

\* The players stand together and are all as weak.
PartyInit ==
    /\ party = [id \in PartyId |-> None]
    /\ partyOf = [p \in Player |-> None]
    /\ invitePartyList = [p \in Player |-> {}]
    /\ member = [p \in Player |-> [online |-> TRUE, level |-> Min(Level), at |-> Min(Region), inFight |-> FALSE]]
    /\ changes = 0

-----------------------------------------------------------------------------
(* Shared experience.                                                      *)

HighestLevel(pt, m) == Max({m[p].level : p \in Everyone(pt)})
\* ceil(2 * highest / 3)
MinLevel(pt, m) == (2 * HighestLevel(pt, m) + 2) \div 3

CanUseSharedExperience(pt, p, m) ==
    /\ pt.memberList # <<>>
    /\ m[p].level >= MinLevel(pt, m)
    /\ m[p].at = m[pt.leader].at
    /\ pt.ticksMap[p] = "recent"

CanEnableSharedExperience(pt, m) == \A p \in Everyone(pt) : CanUseSharedExperience(pt, p, m)

UpdateSharedExperience(pt, m) ==
    IF pt.sharedExpActive THEN [pt EXCEPT !.sharedExpEnabled = CanEnableSharedExperience(pt, m)]
    ELSE pt

\* Faulty: the flag is left as it was.
ClearPlayerPoints_Quiet(pt, p, m) == [pt EXCEPT !.ticksMap[p] = "none"]
ClearPlayerPoints(pt, p, m) ==
    IF pt.ticksMap[p] = "none" THEN pt
    ELSE UpdateSharedExperience([pt EXCEPT !.ticksMap[p] = "none"], m)

-----------------------------------------------------------------------------
(* The operations of a party, as functions of the books.                   *)

Disband(b, id) ==
    [b EXCEPT !.party[id] = None,
              !.partyOf = [p \in Player |-> IF p \in Everyone(b.party[id]) THEN None ELSE @[p]],
              !.invitePartyList =
                  [p \in Player |-> IF p \in b.party[id].inviteList THEN @[p] \ {id} ELSE @[p]]]

InvitePlayer(b, id, p) ==
    IF p \in b.party[id].inviteList THEN b
    ELSE [b EXCEPT !.party[id].inviteList = @ \cup {p}, !.invitePartyList[p] = @ \cup {id}]

JoinParty(b, id, p, m) ==
    IF p \notin b.party[id].inviteList THEN b
    ELSE LET joined == [b.party[id] EXCEPT !.inviteList = @ \ {p}, !.memberList = Append(@, p)]
         IN [b EXCEPT !.party[id] = UpdateSharedExperience(joined, m),
                      !.partyOf[p] = id,
                      !.invitePartyList[p] = @ \ {id}]

RemoveInvite(b, id, p, removeFromPlayer) ==
    IF p \notin b.party[id].inviteList THEN b
    ELSE LET removed == [b EXCEPT !.party[id].inviteList = @ \ {p},
                                  !.invitePartyList[p] = IF removeFromPlayer THEN @ \ {id} ELSE @]
         IN IF IsEmpty(removed.party[id]) THEN Disband(removed, id) ELSE removed

PassPartyLeadership(b, id, p, m) ==
    LET pt == b.party[id]
    IN IF pt.leader = p \/ b.partyOf[p] # id THEN b
       ELSE LET passed == [pt EXCEPT !.leader = p,
                                     !.memberList = <<pt.leader>> \o Erase(@, p)]
            IN [b EXCEPT !.party[id] = UpdateSharedExperience(passed, m)]

\* The leader goes and there is nobody to lead the party.
MissingLeader(pt, p) ==
    pt.leader = p /\ (pt.memberList = <<>> \/ (Len(pt.memberList) = 1 /\ pt.inviteList = {}))

\* Faulty: nobody looks whether a party is left.
LeaveParty_Empty(b, id, p, m) ==
    LET missing == MissingLeader(b.party[id], p)
        passed == IF b.party[id].leader = p /\ ~missing
                  THEN PassPartyLeadership(b, id, Head(b.party[id].memberList), m) ELSE b
        left == [passed.party[id] EXCEPT !.memberList = Erase(@, p)]
        gone == [passed EXCEPT
                    !.party[id] = ClearPlayerPoints(UpdateSharedExperience(left, m), p, m),
                    !.partyOf[p] = None]
    IN IF missing THEN Disband(gone, id) ELSE gone
LeaveParty(b, id, p, m) ==
    LET missing == MissingLeader(b.party[id], p)
        passed == IF b.party[id].leader = p /\ ~missing
                  THEN PassPartyLeadership(b, id, Head(b.party[id].memberList), m) ELSE b
        left == [passed.party[id] EXCEPT !.memberList = Erase(@, p)]
        gone == [passed EXCEPT
                    !.party[id] = ClearPlayerPoints(UpdateSharedExperience(left, m), p, m),
                    !.partyOf[p] = None]
    IN IF missing \/ IsEmpty(gone.party[id]) THEN Disband(gone, id) ELSE gone

\* Player::clearPartyInvitations
ClearPartyInvitations(b, p) ==
    LET inviting == {id \in b.invitePartyList[p] : p \in b.party[id].inviteList}
        left == [id \in inviting |-> [b.party[id] EXCEPT !.inviteList = @ \ {p}]]
        empty == {id \in inviting : IsEmpty(left[id])}
    IN [party |-> [id \in PartyId |-> IF id \in empty THEN None
                                      ELSE IF id \in inviting THEN left[id] ELSE b.party[id]],
        partyOf |-> [q \in Player |-> IF \E id \in empty : q \in Everyone(left[id]) THEN None ELSE b.partyOf[q]],
        invitePartyList |-> [b.invitePartyList EXCEPT ![p] = {}]]

-----------------------------------------------------------------------------
(* The handlers of the game.                                               *)

Leads(p) == partyOf[p] # None /\ party[partyOf[p]].leader = p
IsInviting(p, q) == Leads(p) /\ q \in party[partyOf[p]].inviteList
IsPartner(p, q) == partyOf[p] # None /\ partyOf[q] = partyOf[p]

NewParty(p) == [leader |-> p, memberList |-> <<>>, inviteList |-> {},
                ticksMap |-> [q \in Player |-> "none"],
                sharedExpActive |-> FALSE, sharedExpEnabled |-> FALSE]

\* playerInviteToParty
PlayerInviteToParty(p, q) ==
    /\ ~IsInviting(q, p)
    /\ partyOf[q] = None
    /\ \/ /\ Leads(p)
          /\ Write(InvitePlayer(Book, partyOf[p], q))
       \/ /\ partyOf[p] = None
          /\ \E id \in PartyId :
                 /\ party[id] = None
                 /\ Write(InvitePlayer([Book EXCEPT !.party[id] = NewParty(p), !.partyOf[p] = id], id, q))
    /\ UNCHANGED <<member, changes>>

\* playerJoinParty
PlayerJoinParty(p, leader) ==
    /\ IsInviting(leader, p)
    /\ partyOf[p] = None
    /\ Write(JoinParty(Book, partyOf[leader], p, member))
    /\ UNCHANGED <<member, changes>>

\* playerRevokePartyInvitation
PlayerRevokePartyInvitation(p, q) ==
    /\ IsInviting(p, q)
    /\ Write(RemoveInvite(Book, partyOf[p], q, TRUE))
    /\ UNCHANGED <<member, changes>>

\* playerPassPartyLeadership
PlayerPassPartyLeadership(p, q) ==
    /\ Leads(p) /\ IsPartner(p, q)
    /\ Write(PassPartyLeadership(Book, partyOf[p], q, member))
    /\ UNCHANGED <<member, changes>>

\* playerLeaveParty
PlayerLeaveParty(p) ==
    /\ partyOf[p] # None /\ ~member[p].inFight
    /\ Write(LeaveParty(Book, partyOf[p], p, member))
    /\ UNCHANGED <<member, changes>>

\* playerEnableSharedPartyExperience, setSharedExperience
PlayerEnableSharedPartyExperience(p, active) ==
    /\ Leads(p) /\ ~member[p].inFight
    /\ LET pt == party[partyOf[p]]
           enabled == IF active THEN CanEnableSharedExperience(pt, member) ELSE pt.sharedExpEnabled
       IN /\ pt.sharedExpActive # active
          /\ party' = [party EXCEPT ![partyOf[p]] =
                          [pt EXCEPT !.sharedExpActive = active, !.sharedExpEnabled = enabled]]
    /\ UNCHANGED <<partyOf, invitePartyList, member, changes>>

-----------------------------------------------------------------------------
(* What else the players do.                                               *)

\* Player p's party looks again after p has changed.
Refresh(p, m) ==
    party' = IF partyOf[p] = None THEN party
             ELSE [party EXCEPT ![partyOf[p]] = UpdateSharedExperience(@, m)]

\* Player::onCreatureMove
Move(p, r) ==
    /\ changes < MaxPartyChanges /\ changes' = changes + 1
    /\ member[p].at # r
    /\ member' = [member EXCEPT ![p].at = r]
    /\ Refresh(p, member')
    /\ UNCHANGED <<partyOf, invitePartyList>>

\* addExperience, removeExperience
ChangeLevel(p, l) ==
    /\ changes < MaxPartyChanges /\ changes' = changes + 1
    /\ member[p].level # l
    /\ member' = [member EXCEPT ![p].level = l]
    /\ Refresh(p, member')
    /\ UNCHANGED <<partyOf, invitePartyList>>

\* A player hits a hostile monster, which puts him in a fight, or heals a
\* partner: onAttackedCreatureDrainHealth, onTargetCreatureGainHealth.
Points(p) ==
    /\ partyOf[p] # None
    /\ \E f \in {member[p].inFight, TRUE} : member' = [member EXCEPT ![p].inFight = f]
    /\ party' = [party EXCEPT ![partyOf[p]] =
                    UpdateSharedExperience([@ EXCEPT !.ticksMap[p] = "recent"], member)]
    /\ UNCHANGED <<partyOf, invitePartyList, changes>>

\* The condition of the fight ends: onIdleStatus.
OnIdleStatus(p) ==
    /\ member[p].inFight
    /\ member' = [member EXCEPT ![p].inFight = FALSE]
    /\ party' = IF partyOf[p] = None THEN party
                ELSE [party EXCEPT ![partyOf[p]] = ClearPlayerPoints(@, p, member)]
    /\ UNCHANGED <<partyOf, invitePartyList, changes>>

\* Time passes: a hit no longer counts.  Nothing looks at the party.
PointsExpire(p) ==
    /\ changes < MaxPartyChanges /\ changes' = changes + 1
    /\ partyOf[p] # None
    /\ party[partyOf[p]].ticksMap[p] = "recent"
    /\ party' = [party EXCEPT ![partyOf[p]].ticksMap[p] = "old"]
    /\ UNCHANGED <<partyOf, invitePartyList, member>>

\* Player::onRemoveCreature
LogOut(p) ==
    /\ LET cleared == ClearPartyInvitations(Book, p)
       IN Write(IF cleared.partyOf[p] = None THEN cleared
                ELSE LeaveParty(cleared, cleared.partyOf[p], p, member))
    /\ member' = [member EXCEPT ![p] = [@ EXCEPT !.online = FALSE, !.inFight = FALSE]]
    /\ UNCHANGED changes

LogIn(p) ==
    /\ ~member[p].online
    /\ member' = [member EXCEPT ![p].online = TRUE]
    /\ UNCHANGED <<party, partyOf, invitePartyList, changes>>

PartyNext ==
    \/ \E p \in Online :
        \/ \E q \in Online :
            \/ PlayerInviteToParty(p, q)
            \/ PlayerJoinParty(p, q)
            \/ PlayerRevokePartyInvitation(p, q)
            \/ PlayerPassPartyLeadership(p, q)
        \/ PlayerLeaveParty(p)
        \/ \E active \in BOOLEAN : PlayerEnableSharedPartyExperience(p, active)
        \/ \E r \in Region : Move(p, r)
        \/ \E l \in Level : ChangeLevel(p, l)
        \/ Points(p)
        \/ OnIdleStatus(p)
        \/ PointsExpire(p)
        \/ LogOut(p)
    \/ \E p \in Player : LogIn(p)

PartySpec == PartyInit /\ [][PartyNext]_partyVars

-----------------------------------------------------------------------------
PartyTypeOK ==
    /\ party \in [PartyId -> PartyObject \cup {None}]
    /\ partyOf \in [Player -> PartyId \cup {None}]
    /\ invitePartyList \in [Player -> SUBSET PartyId]
    /\ member \in [Player -> [online : BOOLEAN, level : Level, at : Region, inFight : BOOLEAN]]
    /\ changes \in 0 .. MaxPartyChanges

\* A player points to the party that counts him in, and to no other.
MembershipAgrees ==
    \A p \in Player, id \in PartyId :
        partyOf[p] = id <=> id \in Live(Book) /\ p \in Everyone(party[id])

\* A player holds the invitations of the parties that invite him.
InvitationsAgree ==
    \A p \in Player, id \in PartyId :
        id \in invitePartyList[p] <=> id \in Live(Book) /\ p \in party[id].inviteList

\* The two books agree: nobody keeps a pointer to a party that was deleted or
\* that does not count him, no party keeps one to a player who has left the
\* world, nobody is counted twice, and every party has someone besides its
\* leader.
PartyAgrees ==
    /\ MembershipAgrees
    /\ InvitationsAgree
    /\ \A id \in Live(Book) :
           /\ Everyone(party[id]) \cup party[id].inviteList \subseteq Online
           /\ IsInjective(party[id].memberList) /\ party[id].leader \notin Members(party[id])
           /\ ~IsEmpty(party[id])

\* The cached flag is right up to the passing of time: when experience is to be
\* shared, it is shared unless somebody is too far, too weak or has not fought.
SharedExperienceIsDue ==
    \A id \in Live(Book) :
        LET aged == {p \in Player : party[id].ticksMap[p] = "old"}
            stillFighting == [party[id] EXCEPT !.ticksMap =
                                 [p \in Player |-> IF p \in aged THEN "recent" ELSE @[p]]]
        IN party[id].sharedExpActive =>
             /\ party[id].sharedExpEnabled => CanEnableSharedExperience(stillFighting, member)
             /\ CanEnableSharedExperience(party[id], member) => party[id].sharedExpEnabled

\* PartyAgrees and SharedExperienceIsDue: the records of a party and its members
\* fit together, and shared experience is on exactly when it may be.
PartiesAgree == PartyAgrees /\ SharedExperienceIsDue
=============================================================================
