-------------------------------- MODULE Chat --------------------------------
(***************************************************************************)
(* Chat channels and guilds (src/src/chat.cpp, guild.cpp, and their        *)
(* callers in game.cpp, player.cpp, party.cpp and protocolgame.cpp).       *)
(*                                                                         *)
(* A channel keeps pointers to those who listen, without references.  The  *)
(* channels of parties are kept by the address of the party, those of      *)
(* guilds by the guild, and nobody deletes them.  Which channel a client   *)
(* means by "party" or "guild" is found by what the player is in at that   *)
(* moment, which has already changed when he is made to leave the channel. *)
(*                                                                         *)
(* Of the channels of chatchannels.xml there is one, which admits players  *)
(* by a script, which may answer otherwise the next time.  getChannelList  *)
(* makes the channels of parties and guilds: here those nobody has asked   *)
(* for are there, without users.                                           *)
(***************************************************************************)
EXTENDS Players, Naturals, FiniteSets

CONSTANTS
    Address,        \* where parties are allocated
    GuildId,
    RanklessGuild,  \* those without ranks: registered, and nobody is in one
    PrivateId,      \* the numbers of private channels
    MaxWindows      \* bound: how many channels a client shows at once

ASSUME ChatAssumption ==
    /\ RanklessGuild \subseteq GuildId /\ MaxWindows \in Nat
    /\ None \notin Player \cup Address \cup GuildId
    /\ PrivateId \cap {"public", "party", "guild"} = {}

VARIABLES
    inGame, client, \* the players in the game, and those of them with a client
    partyAt,        \* of each player: the address of his party
    guildOf,        \* of each player
    membersOnline,  \* of each guild
    channels,       \* public, party and guild: users; private: owner, invites, users
    windows,        \* external: the channels each client shows
    estranged,      \* history: players whose windows and channels have come apart
    kept            \* history: members a guild keeps though they have left it

chatVars == <<inGame, client, partyAt, guildOf, membersOnline, channels, windows, estranged, kept>>

Kind == {"public", "party", "guild"}
NoChannel == [owner |-> None, invites |-> {}, users |-> {}]

ChatInit ==
    /\ inGame = {} /\ client = {}
    /\ partyAt = [p \in Player |-> None] /\ guildOf = [p \in Player |-> None]
    /\ membersOnline = [i \in GuildId |-> {}]
    /\ channels = [public |-> {}, party |-> [x \in Address |-> {}],
                   guild |-> [i \in GuildId |-> {}], private |-> [n \in PrivateId |-> NoChannel]]
    /\ windows = [p \in Player |-> {}]
    /\ estranged = {} /\ kept = {}

\* The books that one call changes together.
Rooms == [in |-> inGame, client |-> client, party |-> partyAt, guild |-> guildOf, members |-> membersOnline,
          ch |-> channels, win |-> windows, apart |-> estranged, kept |-> kept]
Settle(b) ==
    /\ inGame' = b.in /\ client' = b.client /\ partyAt' = b.party /\ guildOf' = b.guild
    /\ membersOnline' = b.members /\ channels' = b.ch /\ windows' = b.win
    /\ estranged' = b.apart /\ kept' = b.kept

-----------------------------------------------------------------------------
(* Channels, as a player names them.                                       *)

MayListen(b, n, p) == b.ch.private[n].owner # None /\ p \in {b.ch.private[n].owner} \cup b.ch.private[n].invites

\* Whether getChannel finds one.
Found(b, p, c) ==
    CASE c = "public" -> TRUE
      [] c = "party" -> b.party[p] # None
      [] c = "guild" -> b.guild[p] # None
      [] OTHER -> MayListen(b, c, p)
Users(b, p, c) ==
    CASE c = "public" -> b.ch.public
      [] c = "party" -> IF b.party[p] = None THEN {} ELSE b.ch.party[b.party[p]]
      [] c = "guild" -> IF b.guild[p] = None THEN {} ELSE b.ch.guild[b.guild[p]]
      [] OTHER -> b.ch.private[c].users
SetUsers(b, p, c, us) ==
    CASE c = "public" -> [b EXCEPT !.ch.public = us]
      [] c = "party" -> [b EXCEPT !.ch.party[b.party[p]] = us]
      [] c = "guild" -> [b EXCEPT !.ch.guild[b.guild[p]] = us]
      [] OTHER -> [b EXCEPT !.ch.private[c].users = us]

Show(b, p, c) == IF p \in b.client THEN [b EXCEPT !.win[p] = @ \cup {c}] ELSE b
Hide(b, ps, c) == [b EXCEPT !.win = [p \in Player |-> IF p \in ps THEN @[p] \ {c} ELSE @[p]]]

GetPrivateChannel(b, p) == {n \in PrivateId : b.ch.private[n].owner = p}

\* closeChannel, and out of the map
DeletePrivate(b, n) == [Hide(b, b.ch.private[n].users, n) EXCEPT !.ch.private[n] = NoChannel]

RemoveUserFromChannel(b, p, c) ==
    IF ~Found(b, p, c) \/ p \notin Users(b, p, c) THEN b
    ELSE LET removed == SetUsers(b, p, c, Users(b, p, c) \ {p})
         IN IF c \in PrivateId /\ b.ch.private[c].owner = p THEN DeletePrivate(removed, c) ELSE removed

ChannelsWithout(ch, p) ==
    [public |-> ch.public \ {p},
     party |-> [x \in Address |-> ch.party[x] \ {p}],
     guild |-> [i \in GuildId |-> ch.guild[i] \ {p}],
     private |-> [n \in PrivateId |-> [ch.private[n] EXCEPT !.users = @ \ {p}, !.invites = @ \ {p}]]]
LeaveChannels(b, p) == [b EXCEPT !.ch = ChannelsWithout(@, p), !.apart = @ \ {p}]

\* Faulty: the channel of the player himself is left as it is.
RemoveUserFromAllChannels_KeepsOwn(b, p) == LeaveChannels(b, p)
RemoveUserFromAllChannels(b, p) ==
    LET left == LeaveChannels(b, p)
        own == GetPrivateChannel(left, p)
    IN IF own = {} THEN left ELSE DeletePrivate(left, CHOOSE n \in own : TRUE)

\* Party::leaveParty and disband: the party is gone when the channel is looked for.
SendClosePrivate(b, p, c) == Hide(RemoveUserFromChannel(b, p, c), {p}, c)
LeaveParty(b, p) ==
    LET listens == b.party[p] # None /\ p \in b.ch.party[b.party[p]]
        left == SendClosePrivate([b EXCEPT !.party[p] = None], p, "party")
    IN IF listens THEN [left EXCEPT !.apart = @ \cup {p}] ELSE left

\* Guild::removeMember, and setGuild, which ends early if there is no rank to give.
RemoveMember(b, i, p) == [b EXCEPT !.members[i] = @ \ {p}]
SetGuild(b, p, i) ==
    LET old == b.guild[p]
        listens == old # None /\ (p \in b.ch.guild[old] \/ "guild" \in b.win[p])
        apart == [b EXCEPT !.apart = IF listens THEN @ \cup {p} ELSE @]
    IN IF i = old THEN b
       ELSE IF i \in RanklessGuild
            THEN [apart EXCEPT !.guild[p] = None,
                               !.kept = IF old = None THEN @ ELSE @ \cup {<<old, p>>}]
       ELSE LET joined == IF i = None THEN apart ELSE [apart EXCEPT !.members[i] = @ \cup {p}]
                left == IF old = None THEN joined ELSE RemoveMember(joined, old, p)
            IN [left EXCEPT !.guild[p] = i, !.kept = @ \ {<<i, p>>}]

-----------------------------------------------------------------------------
(* The steps of the dispatcher's thread.                                   *)

EnterGame(p) ==
    /\ p \notin inGame
    /\ \E i \in (GuildId \ RanklessGuild) \cup {None} :
          LET placed == [Rooms EXCEPT !.in = @ \cup {p}, !.client = @ \cup {p}, !.guild[p] = i]
          IN Settle(IF i = None THEN placed ELSE [placed EXCEPT !.members[i] = @ \cup {p}])

\* Player::onRemoveCreature.  A guild that keeps him has his address for good; it
\* is not followed further.
LeaveGame(p) ==
    /\ p \in inGame
    /\ LET left == RemoveUserFromAllChannels(LeaveParty(Rooms, p), p)
           member == IF left.guild[p] = None THEN left ELSE RemoveMember(left, left.guild[p], p)
       IN Settle([member EXCEPT !.in = @ \ {p}, !.client = @ \ {p}, !.guild[p] = None, !.win[p] = {},
                                !.members = [i \in GuildId |-> IF <<i, p>> \in left.kept THEN @[i] \ {p} ELSE @[i]],
                                !.kept = {k \in @ : k[2] # p}])

\* The connection is lost, or taken over; then another client gets the player.
LoseClient(p) == p \in client /\ Settle([Rooms EXCEPT !.client = @ \ {p}, !.win[p] = {}])
TakeClient(p) ==
    /\ p \in inGame \ client
    /\ Settle([RemoveUserFromAllChannels(Rooms, p) EXCEPT !.client = @ \cup {p}])

\* The code takes the lowest free number; which one it is tells nothing here.
PlayerCreatePrivateChannel(p) ==
    LET free == {n \in PrivateId : channels.private[n].owner = None}
        n == CHOOSE n \in free : TRUE
    IN /\ p \in client /\ GetPrivateChannel(Rooms, p) = {} /\ free # {}
       /\ Cardinality(windows[p]) < MaxWindows
       /\ Settle(Show([Rooms EXCEPT !.ch.private[n] = [owner |-> p, invites |-> {}, users |-> {p}]], p, n))

PlayerChannelInvite(p, q) ==
    \E n \in GetPrivateChannel(Rooms, p) :
        /\ p \in client /\ q \in inGame \ {p}
        /\ Settle([Rooms EXCEPT !.ch.private[n].invites = @ \cup {q}])
PlayerChannelExclude(p, q) ==
    \E n \in GetPrivateChannel(Rooms, p) :
        /\ p \in client /\ q \in channels.private[n].invites \ {p}
        /\ LET left == [owner |-> p, invites |-> channels.private[n].invites \ {q},
                        users |-> channels.private[n].users \ {q}]
           IN Settle(Hide([Rooms EXCEPT !.ch.private[n] = left], {q}, n))

PlayerOpenChannel(p, c) ==
    /\ p \in client /\ Found(Rooms, p, c) /\ p \notin Users(Rooms, p, c)
    /\ Cardinality(windows[p]) < MaxWindows
    /\ Settle(Show(SetUsers(Rooms, p, c, Users(Rooms, p, c) \cup {p}), p, c))

\* The client closes its window and tells so; the script may not know him any more.
PlayerCloseChannel(p, c) ==
    /\ p \in client /\ c \in windows[p]
    /\ LET closed == Hide(Rooms, {p}, c)
       IN \/ Settle(RemoveUserFromChannel(closed, p, c))
          \/ /\ c = "public" /\ p \in channels.public
             /\ Settle([closed EXCEPT !.apart = @ \cup {p}])

\* A party needs two; its address may be one of a party that was deleted.
JoinParty(p, x) == p \in inGame /\ partyAt[p] = None /\ Settle([Rooms EXCEPT !.party[p] = x])
PlayerLeaveParty(p) == p \in inGame /\ partyAt[p] # None /\ Settle(LeaveParty(Rooms, p))
\* A guild stays registered until its last member is removed.
PlayerSetGuild(p) ==
    /\ p \in inGame
    /\ \E i \in {k \in GuildId : membersOnline[k] # {} \/ k \in RanklessGuild} \cup {None} :
          Settle(SetGuild(Rooms, p, i))

\* Chat::load: the channel is made anew, without its users.
Reload ==
    Settle([Rooms EXCEPT !.ch.public = {},
                         !.apart = @ \cup {p \in Player : "public" \in windows[p]}])

ChatNext ==
    \/ Reload
    \/ \E p \in Player :
        \/ EnterGame(p) \/ LeaveGame(p) \/ LoseClient(p) \/ TakeClient(p)
        \/ PlayerCreatePrivateChannel(p) \/ PlayerLeaveParty(p) \/ PlayerSetGuild(p)
        \/ \E q \in Player : PlayerChannelInvite(p, q) \/ PlayerChannelExclude(p, q)
        \/ \E c \in Kind \cup PrivateId : PlayerOpenChannel(p, c) \/ PlayerCloseChannel(p, c)
        \/ \E x \in Address : JoinParty(p, x)

ChatSpec == ChatInit /\ [][ChatNext]_chatVars

-----------------------------------------------------------------------------
(* Properties.                                                             *)

Listeners ==
    channels.public
    \cup (UNION {channels.party[x] : x \in Address})
    \cup (UNION {channels.guild[i] : i \in GuildId})
    \cup (UNION {channels.private[n].users \cup channels.private[n].invites : n \in PrivateId})

\* Channels and guilds point at players in the game only, a guild at those who
\* are in it, and nobody is in a guild that was deleted because it was empty.
ListenersAreThere ==
    /\ Listeners \subseteq inGame
    /\ \A i \in GuildId, p \in Player :
          /\ guildOf[p] = i => p \in membersOnline[i]
          /\ p \in membersOnline[i] => p \in inGame /\ (guildOf[p] = i \/ <<i, p>> \in kept)

\* The owner of a private channel listens to it, and only he and those invited.
OwnersListen ==
    \A n \in PrivateId :
        LET c == channels.private[n]
        IN IF c.owner = None THEN c = NoChannel
           ELSE c.owner \in c.users /\ c.users \subseteq {c.owner} \cup c.invites

\* What a client shows as a channel is one the player listens to, and the other
\* way round, unless the two came apart: he left his party or guild while he
\* listened, the script of the channel refused to know him, or it was reloaded.
WindowsAreHeard ==
    \A p \in client \ estranged :
        /\ \A c \in Kind \cup PrivateId : c \in windows[p] <=> p \in Users(Rooms, p, c)
        /\ \A x \in Address : p \in channels.party[x] => partyAt[p] = x
        /\ \A i \in GuildId : p \in channels.guild[i] => guildOf[p] = i

\* The three together, over parties and guilds joined and left, channels opened,
\* closed and reloaded, and players who lose their client or log out.
ChannelsAgree == ListenersAreThere /\ OwnersListen /\ WindowsAreHeard
=============================================================================
