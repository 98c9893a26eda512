--------------------------- MODULE DealingsProofs ---------------------------
(***************************************************************************)
(* The dealings of players with each other, for any players, parties and   *)
(* items: what the parties and their members have written down of each     *)
(* other agrees, and so do the two sides of a trade, the items on offer    *)
(* and where they are, and the players that are watched with the protocols *)
(* that watch them.                                                        *)
(***************************************************************************)
EXTENDS Party, Trade, Casting, FiniteSetTheorems, SequenceTheorems, TLAPS

-----------------------------------------------------------------------------
(***************************************************************************)
(* Sequences without repetition, as the lists of members are.              *)
(***************************************************************************)
LEMMA EraseEffect ==
    ASSUME NEW S, NEW s \in Seq(S), IsInjective(s), NEW e
    PROVE  LET t == Erase(s, e)
           IN /\ t \in Seq(S) /\ IsInjective(t) /\ ToSet(t) = ToSet(s) \ {e}
              /\ Len(t) <= Len(s) /\ (e \in ToSet(s) => Len(t) = Len(s) - 1)
  <1>1. CASE e \notin ToSet(s)
    BY <1>1 DEF Erase
  <1>2. CASE e \in ToSet(s)
    <2>1. PICK i \in DOMAIN s : i = (CHOOSE j \in DOMAIN s : s[j] = e) /\ s[i] = e
      BY <1>2 DEF ToSet
    <2>2. PICK t : t = Erase(s, e)
      OBVIOUS
    <2>3. t = SubSeq(s, 1, i - 1) \o SubSeq(s, i + 1, Len(s))
      BY <1>2, <2>1, <2>2 DEF Erase, RemoveAt
    <2>4. i \in 1 .. Len(s) /\ Len(s) \in Nat
      OBVIOUS
    <2>5. /\ t \in Seq(S) /\ Len(t) = Len(s) - 1
          /\ \A j \in 1 .. Len(t) : t[j] = IF j < i THEN s[j] ELSE s[j + 1]
      <3>1. PICK u : u = SubSeq(s, 1, i - 1)
        OBVIOUS
      <3>2. u \in Seq(S) /\ Len(u) = i - 1 /\ \A j \in 1 .. i - 1 : u[j] = s[j]
        BY <2>4, <3>1
      <3>3. PICK v : v = SubSeq(s, i + 1, Len(s))
        OBVIOUS
      <3>4. v \in Seq(S) /\ Len(v) = Len(s) - i /\ \A j \in 1 .. Len(s) - i : v[j] = s[i + j]
        BY <2>4, <3>3
      <3>5. /\ t \in Seq(S) /\ Len(t) = Len(u) + Len(v)
            /\ \A j \in 1 .. Len(t) : t[j] = IF j <= Len(u) THEN u[j] ELSE v[j - Len(u)]
        <4>1. t = u \o v
          BY <2>3, <3>1, <3>3
        <4>2. u \in Seq(S) /\ v \in Seq(S)
          BY <3>2, <3>4
        <4> QED
          BY <4>1, <4>2
      <3>6. Len(t) = Len(s) - 1
        BY <2>4, <3>2, <3>4, <3>5
      <3>7. ASSUME NEW j \in 1 .. Len(t)
            PROVE  t[j] = IF j < i THEN s[j] ELSE s[j + 1]
        <4>1. CASE j < i
          BY <2>4, <3>2, <3>5, <3>7, <4>1
        <4>2. CASE j >= i
          <5>1. PICK k \in Int : k = j - Len(u)
            BY <3>2, <2>4, <3>7
          <5>2. k \in 1 .. Len(s) - i /\ i + k = j + 1 /\ ~(j <= Len(u)) /\ ~(j < i)
            BY <2>4, <3>2, <3>6, <3>7, <4>2, <5>1
          <5>3. t[j] = v[k]
            BY <3>5, <3>7, <5>1, <5>2
          <5>4. v[k] = s[j + 1]
            BY <3>4, <5>2
          <5> QED
            BY <5>2, <5>3, <5>4
        <4> QED
          BY <2>4, <3>6, <3>7, <4>1, <4>2
      <3> QED
        BY <3>5, <3>6, <3>7
    <2>6. IsInjective(t)
      BY <2>4, <2>5 DEF IsInjective
    <2>7. ToSet(t) = ToSet(s) \ {e}
      <3>1. ASSUME NEW j \in 1 .. Len(t)
            PROVE  t[j] \in ToSet(s) /\ t[j] # e
        <4>1. PICK k \in 1 .. Len(s) : t[j] = s[k] /\ k # i
          BY <2>4, <2>5
        <4> QED
          BY <2>1, <4>1 DEF ToSet, IsInjective
      <3>2. ASSUME NEW x \in ToSet(s), x # e
            PROVE  \E j \in 1 .. Len(t) : t[j] = x
        <4>1. PICK k \in 1 .. Len(s) : s[k] = x
          BY <3>2 DEF ToSet
        <4>2. k # i
          BY <2>1, <3>2, <4>1
        <4>3. CASE k < i
          BY <2>4, <2>5, <4>1, <4>3
        <4>4. CASE k > i
          <5>1. k - 1 \in 1 .. Len(t) /\ ~(k - 1 < i) /\ k - 1 + 1 = k
            BY <2>4, <2>5, <4>4
          <5> QED
            BY <2>5, <4>1, <5>1
        <4> QED
          BY <2>4, <4>2, <4>3, <4>4
      <3>3. DOMAIN t = 1 .. Len(t)
        BY <2>5
      <3> QED
        BY <3>1, <3>2, <3>3 DEF ToSet
    <2> QED
      BY <1>2, <2>2, <2>4, <2>5, <2>6, <2>7
  <1> QED
    BY <1>1, <1>2

LEMMA AppendEffect ==
    ASSUME NEW S, NEW s \in Seq(S), IsInjective(s), NEW e \in S, e \notin ToSet(s)
    PROVE  LET t == Append(s, e)
           IN /\ t \in Seq(S) /\ IsInjective(t) /\ ToSet(t) = ToSet(s) \cup {e} /\ t # <<>>
  <1>1. PICK t : t = Append(s, e)
    OBVIOUS
  <1>2. /\ t \in Seq(S) /\ Len(t) = Len(s) + 1 /\ DOMAIN t = 1 .. Len(s) + 1 /\ t # <<>>
        /\ t[Len(s) + 1] = e /\ \A j \in 1 .. Len(s) : t[j] = s[j]
    BY <1>1
  <1>3. \A j \in 1 .. Len(s) : s[j] \in ToSet(s)
    BY DEF ToSet
  <1>4. IsInjective(t)
    BY <1>2, <1>3 DEF IsInjective
  <1>5. ToSet(t) = ToSet(s) \cup {e}
    BY <1>2 DEF ToSet
  <1> QED
    BY <1>1, <1>2, <1>4, <1>5

LEMMA PrependEffect ==
    ASSUME NEW S, NEW s \in Seq(S), IsInjective(s), NEW e \in S, e \notin ToSet(s)
    PROVE  LET t == <<e>> \o s
           IN /\ t \in Seq(S) /\ IsInjective(t) /\ ToSet(t) = ToSet(s) \cup {e} /\ t # <<>>
              /\ Len(t) = Len(s) + 1
  <1>1. PICK t : t = <<e>> \o s
    OBVIOUS
  <1>2. /\ t \in Seq(S) /\ Len(t) = Len(s) + 1 /\ DOMAIN t = 1 .. Len(s) + 1 /\ t # <<>>
        /\ t[1] = e /\ \A j \in 2 .. Len(s) + 1 : t[j] = s[j - 1]
    BY <1>1
  <1>3. \A j \in 1 .. Len(s) : s[j] \in ToSet(s)
    BY DEF ToSet
  <1>4. IsInjective(t)
    <2> SUFFICES ASSUME NEW i \in 1 .. Len(s) + 1, NEW j \in 1 .. Len(s) + 1, t[i] = t[j]
                 PROVE  i = j
      BY <1>2 DEF IsInjective
    <2>1. ASSUME NEW k \in 1 .. Len(s) + 1, k # 1
          PROVE  k - 1 \in 1 .. Len(s) /\ t[k] = s[k - 1] /\ t[k] # t[1]
      <3>1. k - 1 \in 1 .. Len(s) /\ k \in 2 .. Len(s) + 1
        BY <2>1
      <3> QED
        BY <1>2, <1>3, <3>1
    <2>2. CASE i # 1 /\ j # 1
      <3>1. i - 1 = j - 1
        BY <2>1, <2>2 DEF IsInjective
      <3> QED
        BY <3>1
    <2> QED
      BY <2>1, <2>2
  <1>5. ToSet(t) = ToSet(s) \cup {e}
    <2>1. \A j \in 1 .. Len(s) : j + 1 \in 2 .. Len(s) + 1 /\ t[j + 1] = s[j]
      BY <1>2
    <2>2. \A k \in 2 .. Len(s) + 1 : k - 1 \in 1 .. Len(s)
      OBVIOUS
    <2>3. \A k \in 1 .. Len(s) + 1 : k = 1 \/ k \in 2 .. Len(s) + 1
      OBVIOUS
    <2>4. 1 \in 1 .. Len(s) + 1 /\ \A k \in 1 .. Len(s) : k + 1 \in 1 .. Len(s) + 1
      OBVIOUS
    <2>5. \A x : x \in ToSet(t) <=> \E k \in 1 .. Len(s) + 1 : t[k] = x
      BY <1>2 DEF ToSet
    <2>6. \A x : x \in ToSet(s) <=> \E k \in 1 .. Len(s) : s[k] = x
      BY DEF ToSet
    <2>7. ASSUME NEW x \in ToSet(t) PROVE x \in ToSet(s) \cup {e}
      BY <1>2, <2>2, <2>3, <2>5, <2>6
    <2>8. ASSUME NEW x \in ToSet(s) \cup {e} PROVE x \in ToSet(t)
      BY <1>2, <2>1, <2>4, <2>5, <2>6
    <2> QED
      BY <2>7, <2>8
  <1> QED
    BY <1>1, <1>2, <1>4, <1>5
-----------------------------------------------------------------------------
(***************************************************************************)
(* Parties: the inductive invariant, of the books b and what the members m *)
(* are, party by party.                                                    *)
(***************************************************************************)
Books == [party : [PartyId -> PartyObject \cup {None}], partyOf : [Player -> PartyId \cup {None}],
          invitePartyList : [Player -> SUBSET PartyId]]
MemberType == [Player -> [online : BOOLEAN, level : Level, at : Region, inFight : BOOLEAN]]

\* The party as if no hit had become too old.
Still(pt) ==
    [pt EXCEPT !.ticksMap = [p \in Player |-> IF pt.ticksMap[p] = "old" THEN "recent" ELSE pt.ticksMap[p]]]
Due(pt, m) ==
    pt.sharedExpActive =>
        /\ pt.sharedExpEnabled => CanEnableSharedExperience(Still(pt), m)
        /\ CanEnableSharedExperience(pt, m) => pt.sharedExpEnabled

Fit(pt, m) ==
    /\ pt \in PartyObject
    /\ \A p \in Everyone(pt) \cup pt.inviteList : m[p].online
    /\ IsInjective(pt.memberList) /\ pt.leader \notin Members(pt)
    /\ Due(pt, m)

MembersMatch(b, id) == \A p \in Player : b.partyOf[p] = id <=> p \in Everyone(b.party[id])
PartyOk(b, id, m) ==
    IF b.party[id] = None THEN \A p \in Player : b.partyOf[p] # id
    ELSE MembersMatch(b, id) /\ Fit(b.party[id], m) /\ ~IsEmpty(b.party[id])
InvitesMatch(b, id) ==
    \A p \in Player : id \in b.invitePartyList[p] <=> b.party[id] # None /\ p \in b.party[id].inviteList

BooksAgree(b, m) == b \in Books /\ \A id \in PartyId : PartyOk(b, id, m) /\ InvitesMatch(b, id)
PartyInv == BooksAgree(Book, member) /\ member \in MemberType

LEMMA PartyObjectType ==
    ASSUME NEW pt \in PartyObject
    PROVE  /\ pt # None /\ pt.leader \in Player /\ pt.memberList \in Seq(Player)
           /\ pt.inviteList \in SUBSET Player /\ Members(pt) \in SUBSET Player
           /\ Everyone(pt) \in SUBSET Player
  <1>1. pt.memberList \in Seq(Player)
    BY DEF PartyObject
  <1>2. Members(pt) \in SUBSET Player
    BY <1>1 DEF Members, ToSet
  <1> QED
    BY <1>1, <1>2, NoPartyAssumption DEF PartyObject, Everyone

(***************************************************************************)
(* Shared experience depends on who is in the party, what they are and     *)
(* whose hits are recent.                                                  *)
(***************************************************************************)
SameTeam(pt, qt, m, n) ==
    /\ qt.leader = pt.leader /\ Everyone(qt) = Everyone(pt) /\ (qt.memberList = <<>> <=> pt.memberList = <<>>)
    /\ \A p \in Everyone(pt) : n[p].level = m[p].level /\ n[p].at = m[p].at

LEMMA CanEnableMonotone ==
    ASSUME NEW pt, NEW qt, NEW m, NEW n, SameTeam(pt, qt, m, n),
           \A p \in Everyone(pt) : pt.ticksMap[p] = "recent" => qt.ticksMap[p] = "recent"
    PROVE  CanEnableSharedExperience(pt, m) => CanEnableSharedExperience(qt, n)
  <1>1. {m[p].level : p \in Everyone(pt)} = {n[p].level : p \in Everyone(qt)}
    BY DEF SameTeam
  <1>2. MinLevel(pt, m) = MinLevel(qt, n)
    BY <1>1 DEF MinLevel, HighestLevel
  <1>3. pt.leader \in Everyone(pt)
    BY DEF Everyone
  <1>4. m[pt.leader].at = n[qt.leader].at
    BY <1>3 DEF SameTeam
  <1>5. ASSUME NEW p \in Everyone(pt), CanUseSharedExperience(pt, p, m)
        PROVE  CanUseSharedExperience(qt, p, n)
    BY <1>2, <1>4, <1>5 DEF CanUseSharedExperience, SameTeam
  <1> QED
    BY <1>5 DEF CanEnableSharedExperience, SameTeam

LEMMA StillEffect ==
    ASSUME NEW pt \in PartyObject
    PROVE  /\ Still(pt).leader = pt.leader /\ Still(pt).memberList = pt.memberList
           /\ \A p \in Player : Still(pt).ticksMap[p] = IF pt.ticksMap[p] = "old" THEN "recent" ELSE pt.ticksMap[p]
  BY DEF Still, PartyObject

LEMMA DueKept ==
    ASSUME NEW pt \in PartyObject, NEW qt \in PartyObject, NEW m, NEW n, SameTeam(pt, qt, m, n), Due(pt, m),
           qt.sharedExpActive = pt.sharedExpActive, qt.sharedExpEnabled = pt.sharedExpEnabled,
           \A p \in Everyone(pt) : \/ qt.ticksMap[p] = pt.ticksMap[p]
                                   \/ pt.ticksMap[p] = "recent" /\ qt.ticksMap[p] = "old"
    PROVE  Due(qt, n)
  <1>1. Everyone(pt) \subseteq Player
    BY PartyObjectType
  <1>2. CanEnableSharedExperience(qt, n) => CanEnableSharedExperience(pt, m)
    <2>1. SameTeam(qt, pt, n, m)
      BY DEF SameTeam
    <2>2. \A p \in Everyone(qt) : qt.ticksMap[p] = "recent" => pt.ticksMap[p] = "recent"
      BY DEF SameTeam
    <2> QED
      BY <2>1, <2>2, CanEnableMonotone
  <1>3. CanEnableSharedExperience(Still(pt), m) => CanEnableSharedExperience(Still(qt), n)
    <2>1. PICK a : a = Still(pt)
      OBVIOUS
    <2>2. PICK g : g = Still(qt)
      OBVIOUS
    <2>3. /\ a.leader = pt.leader /\ a.memberList = pt.memberList
          /\ \A p \in Player : a.ticksMap[p] = IF pt.ticksMap[p] = "old" THEN "recent" ELSE pt.ticksMap[p]
      BY <2>1, StillEffect
    <2>4. /\ g.leader = qt.leader /\ g.memberList = qt.memberList
          /\ \A p \in Player : g.ticksMap[p] = IF qt.ticksMap[p] = "old" THEN "recent" ELSE qt.ticksMap[p]
      BY <2>2, StillEffect
    <2>5. Everyone(a) = Everyone(pt) /\ Everyone(g) = Everyone(qt)
      BY <2>3, <2>4 DEF Everyone, Members
    <2>6. SameTeam(a, g, m, n)
      BY <2>3, <2>4, <2>5 DEF SameTeam
    <2>7. \A p \in Everyone(a) : a.ticksMap[p] = "recent" => g.ticksMap[p] = "recent"
      BY <1>1, <2>3, <2>4, <2>5
    <2> QED
      BY <2>1, <2>2, <2>6, <2>7, CanEnableMonotone
  <1> QED
    BY <1>2, <1>3 DEF Due

LEMMA DueAnew ==
    ASSUME NEW pt \in PartyObject, NEW u \in PartyObject, NEW m,
           u.leader = pt.leader, u.memberList = pt.memberList, u.ticksMap = pt.ticksMap,
           u.sharedExpActive => (u.sharedExpEnabled <=> CanEnableSharedExperience(pt, m))
    PROVE  Due(u, m)
  <1>1. Everyone(u) = Everyone(pt) /\ Everyone(u) \subseteq Player
    BY PartyObjectType DEF Everyone, Members
  <1>2. CanEnableSharedExperience(u, m) <=> CanEnableSharedExperience(pt, m)
    <2>1. SameTeam(pt, u, m, m) /\ SameTeam(u, pt, m, m)
      BY <1>1 DEF SameTeam
    <2> QED
      BY <2>1, CanEnableMonotone
  <1>3. CanEnableSharedExperience(u, m) => CanEnableSharedExperience(Still(u), m)
    <2>1. PICK a : a = Still(u)
      OBVIOUS
    <2>2. /\ a.leader = u.leader /\ a.memberList = u.memberList
          /\ \A p \in Player : a.ticksMap[p] = IF u.ticksMap[p] = "old" THEN "recent" ELSE u.ticksMap[p]
      BY <2>1, StillEffect
    <2>3. SameTeam(u, a, m, m)
      BY <2>2 DEF SameTeam, Everyone, Members
    <2>4. \A p \in Everyone(u) : u.ticksMap[p] = "recent" => a.ticksMap[p] = "recent"
      BY <1>1, <2>2
    <2> QED
      BY <2>1, <2>3, <2>4, CanEnableMonotone
  <1> QED
    BY <1>2, <1>3 DEF Due

LEMMA UpdateEffect ==
    ASSUME NEW pt \in PartyObject, NEW m
    PROVE  LET u == UpdateSharedExperience(pt, m)
           IN /\ u \in PartyObject /\ u.leader = pt.leader /\ u.memberList = pt.memberList
              /\ u.inviteList = pt.inviteList /\ u.ticksMap = pt.ticksMap
              /\ Due(u, m)
  <1>1. PICK u : u = UpdateSharedExperience(pt, m)
    OBVIOUS
  <1>2. CASE ~pt.sharedExpActive
    BY <1>1, <1>2 DEF UpdateSharedExperience, Due
  <1>3. CASE pt.sharedExpActive
    <2>1. PICK can \in BOOLEAN : can = CanEnableSharedExperience(pt, m)
      BY DEF CanEnableSharedExperience
    <2>2. u = [pt EXCEPT !.sharedExpEnabled = can]
      BY <1>1, <1>3, <2>1 DEF UpdateSharedExperience
    <2>3. /\ u \in PartyObject /\ u.leader = pt.leader /\ u.memberList = pt.memberList
          /\ u.inviteList = pt.inviteList /\ u.ticksMap = pt.ticksMap /\ u.sharedExpEnabled = can
      BY <2>2 DEF PartyObject
    <2> QED
      BY <1>1, <2>1, <2>3, DueAnew
  <1> QED
    BY <1>2, <1>3

LEMMA ClearPointsEffect ==
    ASSUME NEW pt \in PartyObject, NEW m, Due(pt, m), NEW p \in Player
    PROVE  LET u == ClearPlayerPoints(pt, p, m)
           IN /\ u \in PartyObject /\ u.leader = pt.leader /\ u.memberList = pt.memberList
              /\ u.inviteList = pt.inviteList
              /\ Due(u, m)
  <1>1. CASE pt.ticksMap[p] = "none"
    BY <1>1 DEF ClearPlayerPoints
  <1>2. CASE pt.ticksMap[p] # "none"
    <2>1. PICK qt : qt = [pt EXCEPT !.ticksMap[p] = "none"]
      OBVIOUS
    <2>2. /\ qt \in PartyObject /\ qt.leader = pt.leader /\ qt.memberList = pt.memberList
          /\ qt.inviteList = pt.inviteList
      BY <2>1 DEF PartyObject, Tick
    <2>3. ClearPlayerPoints(pt, p, m) = UpdateSharedExperience(qt, m)
      BY <1>2, <2>1 DEF ClearPlayerPoints
    <2> QED
      BY <2>2, <2>3, UpdateEffect
  <1> QED
    BY <1>1, <1>2
(***************************************************************************)
(* Disband takes a party out of both books, even when the leader who left  *)
(* is in one of them only.                                                 *)
(***************************************************************************)
LEMMA LiveParty ==
    ASSUME NEW b \in Books, NEW id \in PartyId, b.party[id] # None
    PROVE  b.party[id] \in PartyObject
  BY DEF Books

Leaving(b, id) ==
    \A p \in Player : /\ b.partyOf[p] = id => p \in Everyone(b.party[id])
                      /\ p \in Everyone(b.party[id]) => b.partyOf[p] \in {id, None}

LEMMA DisbandAgrees ==
    ASSUME NEW b \in Books, NEW m, NEW id \in PartyId, b.party[id] # None, Leaving(b, id),
           \A k \in PartyId : k # id => PartyOk(b, k, m),
           \A k \in PartyId : InvitesMatch(b, k)
    PROVE  LET d == Disband(b, id)
           IN /\ BooksAgree(d, m)
              /\ \A p \in Player : /\ b.partyOf[p] = None => d.partyOf[p] = None
                                   /\ b.invitePartyList[p] = {} => d.invitePartyList[p] = {}
  <1> DEFINE of == [p \in Player |-> IF p \in Everyone(b.party[id]) THEN None ELSE b.partyOf[p]]
             inv == [p \in Player |-> IF p \in b.party[id].inviteList THEN b.invitePartyList[p] \ {id}
                                      ELSE b.invitePartyList[p]]
  <1>1. PICK d : d = Disband(b, id)
    OBVIOUS
  <1>2. of \in [Player -> PartyId \cup {None}] /\ inv \in [Player -> SUBSET PartyId]
    BY DEF Books
  <1>3. d = [b EXCEPT !.party[id] = None, !.partyOf = of, !.invitePartyList = inv]
    BY <1>1, Zenon DEF Disband
  <1>4. \A p \in Player :
           /\ of[p] = IF p \in Everyone(b.party[id]) THEN None ELSE b.partyOf[p]
           /\ inv[p] = IF p \in b.party[id].inviteList THEN b.invitePartyList[p] \ {id}
                       ELSE b.invitePartyList[p]
    OBVIOUS
  <1> HIDE DEF of, inv
  <1>5. /\ d \in Books /\ d.partyOf = of /\ d.invitePartyList = inv
        /\ d.party[id] = None /\ \A k \in PartyId : k # id => d.party[k] = b.party[k]
    BY <1>2, <1>3 DEF Books
  <1>6. None \notin PartyId
    BY PartyAssumption
  <1>7. ASSUME NEW k \in PartyId PROVE PartyOk(d, k, m)
    <2>1. CASE k = id
      <3>1. \A p \in Player : of[p] # id
        BY <1>4, <1>6 DEF Leaving
      <3> QED
        BY <1>5, <2>1, <3>1 DEF PartyOk
    <2>2. CASE k # id /\ b.party[k] = None
      BY <1>4, <1>5, <1>6, <2>2 DEF PartyOk
    <2>3. CASE k # id /\ b.party[k] # None
      <3>1. MembersMatch(b, k) /\ Fit(b.party[k], m) /\ ~IsEmpty(b.party[k])
        BY <2>3 DEF PartyOk
      <3>2. MembersMatch(d, k)
        <4> SUFFICES ASSUME NEW p \in Player PROVE d.partyOf[p] = k <=> p \in Everyone(d.party[k])
          BY DEF MembersMatch
        <4>1. b.partyOf[p] = k <=> p \in Everyone(b.party[k])
          BY <3>1 DEF MembersMatch
        <4>2. CASE p \in Everyone(b.party[id])
          BY <1>4, <1>5, <1>6, <2>3, <4>1, <4>2 DEF Leaving
        <4>3. CASE p \notin Everyone(b.party[id])
          BY <1>4, <1>5, <2>3, <4>1, <4>3
        <4> QED
          BY <4>2, <4>3
      <3> QED
        BY <1>5, <2>3, <3>1, <3>2 DEF PartyOk
    <2> QED
      BY <2>1, <2>2, <2>3
  <1>8. ASSUME NEW k \in PartyId PROVE InvitesMatch(d, k)
    <2>1. InvitesMatch(b, k) /\ InvitesMatch(b, id)
      OBVIOUS
    <2>2. CASE k = id
      BY <1>4, <1>5, <2>1, <2>2 DEF InvitesMatch
    <2>3. CASE k # id
      BY <1>4, <1>5, <2>1, <2>3 DEF InvitesMatch
    <2> QED
      BY <2>2, <2>3
  <1> QED
    BY <1>1, <1>4, <1>5, <1>7, <1>8 DEF BooksAgree

(***************************************************************************)
(* Inviting, and taking an invitation back.                                *)
(***************************************************************************)
LEMMA InviteAgrees ==
    ASSUME NEW b \in Books, NEW m, NEW id \in PartyId, NEW q \in Player, m[q].online,
           b.party[id] # None, MembersMatch(b, id), Fit(b.party[id], m),
           IsEmpty(b.party[id]) => q \notin b.party[id].inviteList,
           \A k \in PartyId : k # id => PartyOk(b, k, m),
           \A k \in PartyId : InvitesMatch(b, k)
    PROVE  BooksAgree(InvitePlayer(b, id, q), m)
  <1>1. CASE q \in b.party[id].inviteList
    <2>1. ~IsEmpty(b.party[id])
      BY <1>1 DEF IsEmpty
    <2> QED
      BY <1>1, <2>1 DEF InvitePlayer, BooksAgree, PartyOk
  <1>2. CASE q \notin b.party[id].inviteList
    <2>1. PICK pt \in PartyObject : pt = b.party[id]
      BY LiveParty
    <2>2. PICK qt : qt = [pt EXCEPT !.inviteList = pt.inviteList \cup {q}]
      OBVIOUS
    <2>3. /\ qt \in PartyObject /\ qt.leader = pt.leader /\ qt.memberList = pt.memberList
          /\ qt.inviteList = pt.inviteList \cup {q} /\ qt.ticksMap = pt.ticksMap
          /\ qt.sharedExpActive = pt.sharedExpActive /\ qt.sharedExpEnabled = pt.sharedExpEnabled
      BY <2>2 DEF PartyObject
    <2>4. PICK d : d = InvitePlayer(b, id, q)
      OBVIOUS
    <2>5. d = [b EXCEPT !.party[id] = qt, !.invitePartyList[q] = b.invitePartyList[q] \cup {id}]
      BY <1>2, <2>1, <2>2, <2>4 DEF InvitePlayer, Books
    <2>6. /\ d \in Books /\ d.partyOf = b.partyOf
          /\ d.party[id] = qt /\ \A k \in PartyId : k # id => d.party[k] = b.party[k]
          /\ d.invitePartyList[q] = b.invitePartyList[q] \cup {id}
          /\ \A p \in Player : p # q => d.invitePartyList[p] = b.invitePartyList[p]
      BY <2>3, <2>5 DEF Books
    <2>7. Everyone(qt) = Everyone(pt) /\ Members(qt) = Members(pt)
      BY <2>3 DEF Everyone, Members
    <2>8. Fit(qt, m)
      <3>1. Due(qt, m)
        <4>1. SameTeam(pt, qt, m, m)
          BY <2>3, <2>7 DEF SameTeam
        <4> QED
          BY <2>1, <2>3, <4>1, DueKept DEF Fit
      <3> QED
        BY <2>1, <2>3, <2>7, <3>1 DEF Fit
    <2>9. PartyOk(d, id, m)
      BY <2>1, <2>3, <2>6, <2>7, <2>8, PartyObjectType DEF PartyOk, MembersMatch, IsEmpty
    <2>10. \A k \in PartyId : k # id => PartyOk(d, k, m)
      BY <2>6 DEF PartyOk, MembersMatch
    <2>11. ASSUME NEW k \in PartyId PROVE InvitesMatch(d, k)
      <3>1. InvitesMatch(b, k)
        OBVIOUS
      <3>2. CASE k = id
        BY <2>1, <2>3, <2>6, <3>1, <3>2, PartyObjectType DEF InvitesMatch
      <3>3. CASE k # id
        BY <2>6, <3>1, <3>3 DEF InvitesMatch
      <3> QED
        BY <3>2, <3>3
    <2> QED
      BY <2>4, <2>6, <2>9, <2>10, <2>11 DEF BooksAgree
  <1> QED
    BY <1>1, <1>2

LEMMA RevokeAgrees ==
    ASSUME NEW b, NEW m, BooksAgree(b, m), NEW id \in PartyId, b.party[id] # None, NEW q \in Player
    PROVE  BooksAgree(RemoveInvite(b, id, q, TRUE), m)
  <1>1. CASE q \notin b.party[id].inviteList
    BY <1>1 DEF RemoveInvite
  <1>2. CASE q \in b.party[id].inviteList
    <2> b \in Books
      BY DEF BooksAgree
    <2>1. PICK pt \in PartyObject : pt = b.party[id]
      BY LiveParty
    <2>2. PICK qt : qt = [pt EXCEPT !.inviteList = pt.inviteList \ {q}]
      OBVIOUS
    <2>3. /\ qt \in PartyObject /\ qt.leader = pt.leader /\ qt.memberList = pt.memberList
          /\ qt.inviteList = pt.inviteList \ {q} /\ qt.ticksMap = pt.ticksMap
          /\ qt.sharedExpActive = pt.sharedExpActive /\ qt.sharedExpEnabled = pt.sharedExpEnabled
      BY <2>2 DEF PartyObject
    <2>4. PICK d : d = [b EXCEPT !.party[id] = qt, !.invitePartyList[q] = b.invitePartyList[q] \ {id}]
      OBVIOUS
    <2>5. /\ d \in Books /\ d.partyOf = b.partyOf
          /\ d.party[id] = qt /\ \A k \in PartyId : k # id => d.party[k] = b.party[k]
          /\ d.invitePartyList[q] = b.invitePartyList[q] \ {id}
          /\ \A p \in Player : p # q => d.invitePartyList[p] = b.invitePartyList[p]
      BY <2>3, <2>4 DEF Books
    <2>6. RemoveInvite(b, id, q, TRUE) = IF IsEmpty(d.party[id]) THEN Disband(d, id) ELSE d
      BY <1>2, <2>1, <2>2, <2>4 DEF RemoveInvite, Books
    <2>7. Everyone(qt) = Everyone(pt) /\ Members(qt) = Members(pt)
      BY <2>3 DEF Everyone, Members
    <2>8. MembersMatch(b, id) /\ Fit(pt, m)
      BY <2>1 DEF BooksAgree, PartyOk
    <2>9. Fit(qt, m)
      <3>1. Due(qt, m)
        <4>1. SameTeam(pt, qt, m, m)
          BY <2>3, <2>7 DEF SameTeam
        <4> QED
          BY <2>1, <2>3, <2>8, <4>1, DueKept DEF Fit
      <3> QED
        BY <2>3, <2>7, <2>8, <3>1 DEF Fit
    <2>10. MembersMatch(d, id)
      BY <2>1, <2>5, <2>7, <2>8 DEF MembersMatch
    <2>11. \A k \in PartyId : k # id => PartyOk(d, k, m)
      BY <2>5 DEF BooksAgree, PartyOk, MembersMatch
    <2>12. ASSUME NEW k \in PartyId PROVE InvitesMatch(d, k)
      <3>1. InvitesMatch(b, k)
        BY DEF BooksAgree
      <3>2. CASE k = id
        BY <2>1, <2>3, <2>5, <3>1, <3>2, PartyObjectType DEF InvitesMatch
      <3>3. CASE k # id
        BY <2>5, <3>1, <3>3 DEF InvitesMatch
      <3> QED
        BY <3>2, <3>3
    <2>13. d.party[id] # None
      BY <2>3, <2>5, PartyObjectType
    <2>14. CASE IsEmpty(qt)
      <3>1. Leaving(d, id)
        BY <2>10 DEF Leaving, MembersMatch
      <3>2. RemoveInvite(b, id, q, TRUE) = Disband(d, id)
        BY <2>5, <2>6, <2>14
      <3>3. d \in Books
        BY <2>5
      <3>4. BooksAgree(Disband(d, id), m)
        BY <2>11, <2>12, <2>13, <3>1, <3>3, DisbandAgrees
      <3> QED
        BY <3>2, <3>4
    <2>15. CASE ~IsEmpty(qt)
      <3>1. PartyOk(d, id, m)
        BY <2>5, <2>9, <2>10, <2>13, <2>15 DEF PartyOk
      <3> QED
        BY <2>5, <2>6, <2>11, <2>12, <2>15, <3>1 DEF BooksAgree
    <2> QED
      BY <2>14, <2>15
  <1> QED
    BY <1>1, <1>2
(***************************************************************************)
(* Joining, and passing the leadership on.                                 *)
(***************************************************************************)
LEMMA JoinAgrees ==
    ASSUME NEW b, NEW m, BooksAgree(b, m), NEW id \in PartyId, b.party[id] # None,
           NEW p \in Player, b.partyOf[p] = None
    PROVE  BooksAgree(JoinParty(b, id, p, m), m)
  <1>1. CASE p \notin b.party[id].inviteList
    BY <1>1 DEF JoinParty
  <1>2. CASE p \in b.party[id].inviteList
    <2> b \in Books
      BY DEF BooksAgree
    <2>1. PICK pt \in PartyObject : pt = b.party[id]
      BY LiveParty
    <2>2. MembersMatch(b, id) /\ Fit(pt, m) /\ None \notin PartyId
      BY <2>1, PartyAssumption DEF BooksAgree, PartyOk
    <2>3. /\ pt.memberList \in Seq(Player) /\ IsInjective(pt.memberList)
          /\ p \notin Everyone(pt) /\ p \notin ToSet(pt.memberList)
      BY <2>1, <2>2, PartyObjectType DEF Fit, MembersMatch, Everyone, Members
    <2>4. PICK list : list = Append(pt.memberList, p)
      OBVIOUS
    <2>5. list \in Seq(Player) /\ IsInjective(list) /\ ToSet(list) = ToSet(pt.memberList) \cup {p} /\ list # <<>>
      BY <2>3, <2>4, AppendEffect
    <2>6. PICK joined : joined = [pt EXCEPT !.inviteList = pt.inviteList \ {p}, !.memberList = list]
      OBVIOUS
    <2>7. /\ joined \in PartyObject /\ joined.leader = pt.leader /\ joined.memberList = list
          /\ joined.inviteList = pt.inviteList \ {p}
      BY <2>5, <2>6 DEF PartyObject
    <2>8. PICK qt : qt = UpdateSharedExperience(joined, m)
      OBVIOUS
    <2>9. /\ qt \in PartyObject /\ qt.leader = pt.leader /\ qt.memberList = list
          /\ qt.inviteList = pt.inviteList \ {p} /\ Due(qt, m)
      BY <2>7, <2>8, UpdateEffect
    <2>10. PICK d : d = JoinParty(b, id, p, m)
      OBVIOUS
    <2>11. d = [b EXCEPT !.party[id] = qt, !.partyOf[p] = id,
                         !.invitePartyList[p] = b.invitePartyList[p] \ {id}]
      BY <1>2, <2>1, <2>4, <2>6, <2>8, <2>10 DEF JoinParty, Books
    <2>12. /\ d \in Books
           /\ d.party[id] = qt /\ \A k \in PartyId : k # id => d.party[k] = b.party[k]
           /\ d.partyOf[p] = id /\ \A q \in Player : q # p => d.partyOf[q] = b.partyOf[q]
           /\ d.invitePartyList[p] = b.invitePartyList[p] \ {id}
           /\ \A q \in Player : q # p => d.invitePartyList[q] = b.invitePartyList[q]
      BY <2>9, <2>11 DEF Books
    <2>13. Everyone(qt) = Everyone(pt) \cup {p} /\ Members(qt) = Members(pt) \cup {p}
      BY <2>5, <2>9 DEF Everyone, Members
    <2>14. Fit(qt, m)
      <3>1. m[p].online
        BY <1>2, <2>1, <2>2 DEF Fit
      <3>2. pt.leader \notin Members(qt)
        BY <2>2, <2>3, <2>13 DEF Fit, Everyone
      <3> QED
        BY <2>2, <2>5, <2>9, <2>13, <3>1, <3>2 DEF Fit
    <2>15. PartyOk(d, id, m)
      <3>1. MembersMatch(d, id)
        BY <2>1, <2>2, <2>12, <2>13 DEF MembersMatch
      <3>2. ~IsEmpty(qt)
        BY <2>5, <2>9 DEF IsEmpty
      <3> QED
        BY <2>9, <2>12, <2>14, <3>1, <3>2, PartyObjectType DEF PartyOk
    <2>16. ASSUME NEW k \in PartyId, k # id PROVE PartyOk(d, k, m)
      <3>1. PartyOk(b, k, m)
        BY DEF BooksAgree
      <3>2. CASE b.party[k] = None
        BY <2>12, <2>16, <3>1, <3>2 DEF PartyOk
      <3>3. CASE b.party[k] # None
        <4>1. MembersMatch(d, k)
          BY <2>2, <2>12, <2>16, <3>1, <3>3 DEF PartyOk, MembersMatch
        <4> QED
          BY <2>12, <2>16, <3>1, <3>3, <4>1 DEF PartyOk
      <3> QED
        BY <3>2, <3>3
    <2>17. ASSUME NEW k \in PartyId PROVE InvitesMatch(d, k)
      <3>1. InvitesMatch(b, k)
        BY DEF BooksAgree
      <3>2. CASE k = id
        BY <2>1, <2>9, <2>12, <3>1, <3>2, PartyObjectType DEF InvitesMatch
      <3>3. CASE k # id
        BY <2>12, <3>1, <3>3 DEF InvitesMatch
      <3> QED
        BY <3>2, <3>3
    <2> QED
      BY <2>10, <2>12, <2>15, <2>16, <2>17 DEF BooksAgree
  <1> QED
    BY <1>1, <1>2

\* What a call leaves of one party is another party of the same players.
LEMMA ReplaceAgrees ==
    ASSUME NEW b \in Books, NEW m, NEW id \in PartyId, b.party[id] # None, MembersMatch(b, id),
           \A k \in PartyId : k # id => PartyOk(b, k, m),
           \A k \in PartyId : InvitesMatch(b, k),
           NEW qt, Fit(qt, m), ~IsEmpty(qt), Everyone(qt) = Everyone(b.party[id]),
           qt.inviteList = b.party[id].inviteList
    PROVE  LET d == [b EXCEPT !.party[id] = qt]
           IN /\ BooksAgree(d, m) /\ d.party[id] = qt
              /\ d.partyOf = b.partyOf /\ d.invitePartyList = b.invitePartyList
  <1>1. qt \in PartyObject /\ qt # None
    BY PartyObjectType DEF Fit
  <1>2. PICK d : d = [b EXCEPT !.party[id] = qt]
    OBVIOUS
  <1>3. /\ d \in Books /\ d.partyOf = b.partyOf /\ d.invitePartyList = b.invitePartyList
        /\ d.party[id] = qt /\ \A k \in PartyId : k # id => d.party[k] = b.party[k]
    BY <1>1, <1>2 DEF Books
  <1>4. ASSUME NEW k \in PartyId PROVE PartyOk(d, k, m) /\ InvitesMatch(d, k)
    <2>1. InvitesMatch(b, k)
      OBVIOUS
    <2>2. CASE k = id
      BY <1>1, <1>3, <2>1, <2>2 DEF PartyOk, MembersMatch, InvitesMatch
    <2>3. CASE k # id
      BY <1>3, <2>1, <2>3 DEF PartyOk, MembersMatch, InvitesMatch
    <2> QED
      BY <2>2, <2>3
  <1> QED
    BY <1>2, <1>3, <1>4 DEF BooksAgree

LEMMA PassAgrees ==
    ASSUME NEW b, NEW m, BooksAgree(b, m), NEW id \in PartyId, b.party[id] # None,
           NEW p \in Player
    PROVE  LET d == PassPartyLeadership(b, id, p, m)
           IN /\ BooksAgree(d, m) /\ d.party[id] # None
              /\ d.partyOf = b.partyOf /\ d.invitePartyList = b.invitePartyList
              /\ p \in Everyone(b.party[id]) => d.party[id].leader = p
  <1> b \in Books
    BY DEF BooksAgree
  <1>1. PICK pt \in PartyObject : pt = b.party[id]
    BY LiveParty
  <1>2. MembersMatch(b, id) /\ Fit(pt, m) /\ ~IsEmpty(pt)
    BY <1>1 DEF BooksAgree, PartyOk
  <1>3. CASE pt.leader = p \/ b.partyOf[p] # id
    BY <1>1, <1>2, <1>3 DEF PassPartyLeadership, MembersMatch
  <1>4. CASE pt.leader # p /\ b.partyOf[p] = id
    <2>1. /\ pt.memberList \in Seq(Player) /\ IsInjective(pt.memberList) /\ pt.leader \in Player
          /\ p \in ToSet(pt.memberList) /\ pt.leader \notin ToSet(pt.memberList)
      BY <1>1, <1>2, <1>4, PartyObjectType DEF Fit, MembersMatch, Everyone, Members
    <2>2. PICK rest : rest = Erase(pt.memberList, p)
      OBVIOUS
    <2>3. rest \in Seq(Player) /\ IsInjective(rest) /\ ToSet(rest) = ToSet(pt.memberList) \ {p}
      BY <2>1, <2>2, EraseEffect
    <2>4. PICK list : list = <<pt.leader>> \o rest
      OBVIOUS
    <2>5. list \in Seq(Player) /\ IsInjective(list) /\ ToSet(list) = ToSet(rest) \cup {pt.leader} /\ list # <<>>
      BY <2>1, <2>3, <2>4, PrependEffect
    <2>6. PICK passed : passed = [pt EXCEPT !.leader = p, !.memberList = list]
      OBVIOUS
    <2>7. /\ passed \in PartyObject /\ passed.leader = p /\ passed.memberList = list
          /\ passed.inviteList = pt.inviteList
      BY <2>5, <2>6 DEF PartyObject
    <2>8. PICK qt : qt = UpdateSharedExperience(passed, m)
      OBVIOUS
    <2>9. /\ qt \in PartyObject /\ qt.leader = p /\ qt.memberList = list
          /\ qt.inviteList = pt.inviteList /\ Due(qt, m)
      BY <2>7, <2>8, UpdateEffect
    <2>10. PassPartyLeadership(b, id, p, m) = [b EXCEPT !.party[id] = qt]
      BY <1>1, <1>4, <2>2, <2>4, <2>6, <2>8 DEF PassPartyLeadership
    <2>11. Everyone(qt) = Everyone(pt) /\ p \notin Members(qt)
      BY <2>1, <2>3, <2>5, <2>9 DEF Everyone, Members
    <2>12. Fit(qt, m) /\ ~IsEmpty(qt) /\ qt # None
      BY <1>2, <2>5, <2>9, <2>11, PartyObjectType DEF Fit, IsEmpty
    <2>13. /\ \A k \in PartyId : k # id => PartyOk(b, k, m)
           /\ \A k \in PartyId : InvitesMatch(b, k)
      BY DEF BooksAgree
    <2> QED
      BY <1>1, <1>2, <2>9, <2>10, <2>11, <2>12, <2>13, ReplaceAgrees
  <1> QED
    BY <1>3, <1>4

(***************************************************************************)
(* Leaving: the leader passes the party on, if there is anybody to lead it *)
(* and anybody to be led, and goes like the others.                        *)
(***************************************************************************)
Quit(b, id, p, m) ==
    LET left == [b.party[id] EXCEPT !.memberList = Erase(@, p)]
    IN [b EXCEPT !.party[id] = ClearPlayerPoints(UpdateSharedExperience(left, m), p, m),
                 !.partyOf[p] = None]

LEMMA QuitEffect ==
    ASSUME NEW b, NEW m, BooksAgree(b, m), NEW id \in PartyId, NEW p \in Player, b.partyOf[p] = id
    PROVE  LET d == Quit(b, id, p, m)
           IN /\ d \in Books /\ d.invitePartyList = b.invitePartyList
              /\ d.partyOf[p] = None /\ \A q \in Player : q # p => d.partyOf[q] = b.partyOf[q]
              /\ d.party[id] \in PartyObject /\ d.party[id].leader = b.party[id].leader
              /\ d.party[id].inviteList = b.party[id].inviteList
              /\ Members(d.party[id]) = Members(b.party[id]) \ {p}
              /\ IsInjective(d.party[id].memberList) /\ Due(d.party[id], m)
              /\ \A k \in PartyId : k # id => PartyOk(d, k, m)
              /\ \A k \in PartyId : InvitesMatch(d, k)
  <1> b \in Books
    BY DEF BooksAgree
  <1>1. b.party[id] # None /\ None \notin PartyId
    BY PartyAssumption DEF BooksAgree, PartyOk
  <1>2. PICK pt \in PartyObject : pt = b.party[id]
    BY <1>1, LiveParty
  <1>3. MembersMatch(b, id) /\ Fit(pt, m)
    BY <1>1, <1>2 DEF BooksAgree, PartyOk
  <1>4. pt.memberList \in Seq(Player) /\ IsInjective(pt.memberList)
    BY <1>3, PartyObjectType DEF Fit
  <1>5. PICK list : list = Erase(pt.memberList, p)
    OBVIOUS
  <1>6. list \in Seq(Player) /\ IsInjective(list) /\ ToSet(list) = ToSet(pt.memberList) \ {p}
    BY <1>4, <1>5, EraseEffect
  <1>7. PICK left : left = [pt EXCEPT !.memberList = list]
    OBVIOUS
  <1>8. /\ left \in PartyObject /\ left.leader = pt.leader /\ left.memberList = list
        /\ left.inviteList = pt.inviteList
    BY <1>6, <1>7 DEF PartyObject
  <1>9. PICK u : u = UpdateSharedExperience(left, m)
    OBVIOUS
  <1>10. /\ u \in PartyObject /\ u.leader = pt.leader /\ u.memberList = list
         /\ u.inviteList = pt.inviteList /\ Due(u, m)
    BY <1>8, <1>9, UpdateEffect
  <1>11. PICK qt : qt = ClearPlayerPoints(u, p, m)
    OBVIOUS
  <1>12. /\ qt \in PartyObject /\ qt.leader = pt.leader /\ qt.memberList = list
         /\ qt.inviteList = pt.inviteList /\ Due(qt, m)
    BY <1>10, <1>11, ClearPointsEffect
  <1>13. PICK d : d = Quit(b, id, p, m)
    OBVIOUS
  <1>14. d = [b EXCEPT !.party[id] = qt, !.partyOf[p] = None]
    BY <1>2, <1>5, <1>7, <1>9, <1>11, <1>13 DEF Quit
  <1>15. /\ d \in Books /\ d.invitePartyList = b.invitePartyList
         /\ d.party[id] = qt /\ \A k \in PartyId : k # id => d.party[k] = b.party[k]
         /\ d.partyOf[p] = None /\ \A q \in Player : q # p => d.partyOf[q] = b.partyOf[q]
    BY <1>12, <1>14 DEF Books
  <1>16. ASSUME NEW k \in PartyId, k # id PROVE PartyOk(d, k, m)
    <2>1. PartyOk(b, k, m)
      BY DEF BooksAgree
    <2>2. CASE b.party[k] = None
      BY <1>1, <1>15, <1>16, <2>1, <2>2 DEF PartyOk
    <2>3. CASE b.party[k] # None
      <3>1. MembersMatch(d, k)
        BY <1>1, <1>15, <1>16, <2>1, <2>3 DEF PartyOk, MembersMatch
      <3> QED
        BY <1>15, <1>16, <2>1, <2>3, <3>1 DEF PartyOk
    <2> QED
      BY <2>2, <2>3
  <1>17. ASSUME NEW k \in PartyId PROVE InvitesMatch(d, k)
    <2>1. InvitesMatch(b, k)
      BY DEF BooksAgree
    <2>2. CASE k = id
      BY <1>1, <1>2, <1>12, <1>15, <2>1, <2>2, PartyObjectType DEF InvitesMatch
    <2>3. CASE k # id
      BY <1>15, <2>1, <2>3 DEF InvitesMatch
    <2> QED
      BY <2>2, <2>3
  <1>18. Members(qt) = Members(pt) \ {p} /\ IsInjective(qt.memberList)
    BY <1>6, <1>12 DEF Members
  <1> QED
    BY <1>2, <1>12, <1>13, <1>15, <1>16, <1>17, <1>18

\* Who is not the leader leaves, or the leader when nobody is left to lead.
LEMMA QuitAgrees ==
    ASSUME NEW b, NEW m, BooksAgree(b, m), NEW id \in PartyId, NEW p \in Player, b.partyOf[p] = id,
           NEW missing \in BOOLEAN, ~missing => b.party[id].leader # p
    PROVE  LET gone == Quit(b, id, p, m)
               d == IF missing \/ IsEmpty(gone.party[id]) THEN Disband(gone, id) ELSE gone
           IN /\ BooksAgree(d, m) /\ d.partyOf[p] = None
              /\ b.invitePartyList[p] = {} => d.invitePartyList[p] = {}
  <1>1. PICK gone : gone = Quit(b, id, p, m)
    OBVIOUS
  <1>2. /\ gone \in Books /\ gone.invitePartyList = b.invitePartyList
        /\ gone.partyOf[p] = None /\ \A q \in Player : q # p => gone.partyOf[q] = b.partyOf[q]
        /\ gone.party[id] \in PartyObject /\ gone.party[id].leader = b.party[id].leader
        /\ gone.party[id].inviteList = b.party[id].inviteList
        /\ Members(gone.party[id]) = Members(b.party[id]) \ {p}
        /\ IsInjective(gone.party[id].memberList) /\ Due(gone.party[id], m)
        /\ \A k \in PartyId : k # id => PartyOk(gone, k, m)
        /\ \A k \in PartyId : InvitesMatch(gone, k)
    BY <1>1, QuitEffect
  <1>3. gone.party[id] # None /\ None \notin PartyId
    BY <1>2, PartyObjectType, PartyAssumption
  <1>4. b.party[id] # None /\ MembersMatch(b, id) /\ Fit(b.party[id], m)
    BY DEF BooksAgree, PartyOk
  <1>5. CASE missing \/ IsEmpty(gone.party[id])
    <2>1. Leaving(gone, id)
      <3> SUFFICES ASSUME NEW q \in Player
                   PROVE  /\ gone.partyOf[q] = id => q \in Everyone(gone.party[id])
                          /\ q \in Everyone(gone.party[id]) => gone.partyOf[q] \in {id, None}
        BY DEF Leaving
      <3>1. CASE q = p
        BY <1>2, <1>3, <3>1
      <3>2. CASE q # p
        BY <1>2, <1>4, <3>2 DEF MembersMatch, Everyone
      <3> QED
        BY <3>1, <3>2
    <2>2. PICK d : d = Disband(gone, id)
      OBVIOUS
    <2>3. /\ BooksAgree(d, m)
          /\ \A q \in Player : /\ gone.partyOf[q] = None => d.partyOf[q] = None
                               /\ gone.invitePartyList[q] = {} => d.invitePartyList[q] = {}
      BY <1>2, <1>3, <2>1, <2>2, DisbandAgrees
    <2> QED
      BY <1>1, <1>2, <1>5, <2>2, <2>3
  <1>6. CASE ~missing /\ ~IsEmpty(gone.party[id])
    <2>1. Everyone(gone.party[id]) = Everyone(b.party[id]) \ {p}
      BY <1>2, <1>6 DEF Everyone
    <2>2. MembersMatch(gone, id)
      <3> SUFFICES ASSUME NEW q \in Player
                   PROVE  gone.partyOf[q] = id <=> q \in Everyone(gone.party[id])
        BY DEF MembersMatch
      <3> QED
        BY <1>2, <1>3, <1>4, <2>1 DEF MembersMatch
    <2>3. Fit(gone.party[id], m)
      BY <1>2, <1>4, <2>1 DEF Fit
    <2>4. PartyOk(gone, id, m)
      BY <1>3, <1>6, <2>2, <2>3 DEF PartyOk
    <2>5. BooksAgree(gone, m)
      BY <1>2, <2>4 DEF BooksAgree
    <2> QED
      BY <1>1, <1>2, <1>6, <2>5
  <1> QED
    BY <1>5, <1>6

LEMMA LeaveAgrees ==
    ASSUME NEW b, NEW m, BooksAgree(b, m), NEW id \in PartyId, NEW p \in Player, b.partyOf[p] = id
    PROVE  LET d == LeaveParty(b, id, p, m)
           IN /\ BooksAgree(d, m) /\ d.partyOf[p] = None
              /\ b.invitePartyList[p] = {} => d.invitePartyList[p] = {}
  <1> DEFINE missing == MissingLeader(b.party[id], p)
             passes == b.party[id].leader = p /\ ~missing
             passed == IF passes THEN PassPartyLeadership(b, id, Head(b.party[id].memberList), m) ELSE b
             gone == Quit(passed, id, p, m)
  <1>1. LeaveParty(b, id, p, m) = IF missing \/ IsEmpty(gone.party[id]) THEN Disband(gone, id) ELSE gone
    BY Zenon DEF LeaveParty, Quit
  <1>2. b.party[id] # None /\ b \in Books
    BY PartyAssumption DEF BooksAgree, PartyOk
  <1>3. PICK pt \in PartyObject : pt = b.party[id]
    BY <1>2, LiveParty
  <1>4. missing \in BOOLEAN
    BY DEF MissingLeader
  <1>5. /\ BooksAgree(passed, m) /\ passed.partyOf = b.partyOf /\ passed.invitePartyList = b.invitePartyList
        /\ ~missing => passed.party[id].leader # p
    <2>1. CASE ~passes
      BY <2>1
    <2>2. CASE passes
      <3>1. PICK q : q = Head(pt.memberList)
        OBVIOUS
      <3>2. pt.memberList # <<>> /\ pt.memberList \in Seq(Player)
        BY <1>3, <2>2, PartyObjectType DEF MissingLeader
      <3>3. q \in Player /\ q \in Members(pt)
        BY <3>1, <3>2 DEF Members, ToSet
      <3>4. Fit(pt, m)
        BY <1>2, <1>3 DEF BooksAgree, PartyOk
      <3>5. q # p /\ q \in Everyone(pt)
        BY <1>3, <2>2, <3>3, <3>4 DEF Fit, Everyone
      <3>6. passed = PassPartyLeadership(b, id, q, m)
        BY <1>3, <2>2, <3>1
      <3> HIDE DEF passed, passes, missing
      <3> QED
        BY <1>2, <1>3, <3>3, <3>5, <3>6, PassAgrees
    <2> QED
      BY <2>1, <2>2
  <1>6. passed.partyOf[p] = id
    BY <1>5
  <1> HIDE DEF passed, passes, missing
  <1> QED
    BY <1>1, <1>4, <1>5, <1>6, QuitAgrees
(***************************************************************************)
(* Player::clearPartyInvitations.                                          *)
(***************************************************************************)
LEMMA ClearAgrees ==
    ASSUME NEW b, NEW m, BooksAgree(b, m), NEW p \in Player
    PROVE  LET d == ClearPartyInvitations(b, p)
           IN BooksAgree(d, m) /\ d.invitePartyList[p] = {}
  <1> DEFINE inviting == {id \in b.invitePartyList[p] : p \in b.party[id].inviteList}
             left == [id \in inviting |-> [b.party[id] EXCEPT !.inviteList = @ \ {p}]]
             empty == {id \in inviting : IsEmpty(left[id])}
             party_ == [id \in PartyId |-> IF id \in empty THEN None
                                           ELSE IF id \in inviting THEN left[id] ELSE b.party[id]]
             of == [q \in Player |-> IF \E id \in empty : q \in Everyone(left[id]) THEN None ELSE b.partyOf[q]]
             inv == [b.invitePartyList EXCEPT ![p] = {}]
  <1>1. b \in Books /\ \A id \in PartyId : PartyOk(b, id, m) /\ InvitesMatch(b, id)
    BY DEF BooksAgree
  <1>2. PICK d : d = ClearPartyInvitations(b, p)
    OBVIOUS
  <1>3. d = [party |-> party_, partyOf |-> of, invitePartyList |-> inv]
    BY <1>2, Zenon DEF ClearPartyInvitations
  <1>4. \A id \in PartyId : id \in inviting <=> b.party[id] # None /\ p \in b.party[id].inviteList
    BY <1>1 DEF InvitesMatch
  <1>5. inviting \subseteq PartyId
    BY <1>1 DEF Books
  <1>6. ASSUME NEW id \in inviting
        PROVE  /\ left[id] \in PartyObject /\ left[id].leader = b.party[id].leader
               /\ left[id].memberList = b.party[id].memberList
               /\ left[id].inviteList = b.party[id].inviteList \ {p}
               /\ Everyone(left[id]) = Everyone(b.party[id])
               /\ Fit(left[id], m)
    <2>1. PICK pt : pt = b.party[id]
      OBVIOUS
    <2>2. id \in PartyId /\ b.party[id] # None /\ pt \in PartyObject
      BY <1>1, <1>4, <1>5, <2>1, LiveParty
    <2>3. PICK qt : qt = [pt EXCEPT !.inviteList = pt.inviteList \ {p}]
      OBVIOUS
    <2>4. /\ qt \in PartyObject /\ qt.leader = pt.leader /\ qt.memberList = pt.memberList
          /\ qt.inviteList = pt.inviteList \ {p} /\ qt.ticksMap = pt.ticksMap
          /\ qt.sharedExpActive = pt.sharedExpActive /\ qt.sharedExpEnabled = pt.sharedExpEnabled
      BY <2>2, <2>3 DEF PartyObject
    <2>5. left[id] = qt
      BY <2>1, <2>2, <2>3
    <2>6. Everyone(qt) = Everyone(pt) /\ Members(qt) = Members(pt)
      BY <2>4 DEF Everyone, Members
    <2>7. Fit(pt, m)
      BY <1>1, <2>1, <2>2 DEF PartyOk
    <2>8. Due(qt, m)
      <3>1. SameTeam(pt, qt, m, m)
        BY <2>4, <2>6 DEF SameTeam
      <3> QED
        BY <2>2, <2>4, <2>7, <3>1, DueKept DEF Fit
    <2>9. Fit(qt, m)
      BY <2>4, <2>6, <2>7, <2>8 DEF Fit
    <2> HIDE DEF left
    <2> QED
      BY <2>1, <2>4, <2>5, <2>6, <2>9
  <1>7. empty \subseteq inviting /\ \A id \in inviting : id \in empty <=> IsEmpty(left[id])
    OBVIOUS
  <1> HIDE DEF inviting, left, empty
  <1>8. /\ party_ \in [PartyId -> PartyObject \cup {None}]
        /\ \A id \in PartyId : party_[id] = IF id \in empty THEN None
                                            ELSE IF id \in inviting THEN left[id] ELSE b.party[id]
    BY <1>1, <1>6 DEF Books
  <1>9. /\ of \in [Player -> PartyId \cup {None}]
        /\ \A q \in Player : of[q] = IF \E id \in empty : q \in Everyone(left[id]) THEN None ELSE b.partyOf[q]
    BY <1>1 DEF Books
  <1>10. /\ inv \in [Player -> SUBSET PartyId]
         /\ inv[p] = {} /\ \A q \in Player : q # p => inv[q] = b.invitePartyList[q]
    BY <1>1 DEF Books
  <1> HIDE DEF party_, of, inv
  <1>11. d \in Books /\ d.party = party_ /\ d.partyOf = of /\ d.invitePartyList = inv
    BY <1>3, <1>8, <1>9, <1>10 DEF Books
  <1>12. None \notin PartyId
    BY PartyAssumption
  <1>13. \A q \in Player : \A id \in empty : q \in Everyone(left[id]) <=> b.partyOf[q] = id
    BY <1>1, <1>4, <1>5, <1>6, <1>7 DEF PartyOk, MembersMatch
  <1>14. \A q \in Player : of[q] = IF b.partyOf[q] \in empty THEN None ELSE b.partyOf[q]
    BY <1>9, <1>13
  <1>15. ASSUME NEW k \in PartyId PROVE PartyOk(d, k, m)
    <2>1. CASE k \in empty
      <3>1. \A q \in Player : of[q] # k
        BY <1>12, <1>14, <2>1
      <3> QED
        BY <1>8, <1>11, <2>1, <3>1 DEF PartyOk
    <2>2. CASE k \notin empty
      <3>1. \A q \in Player : of[q] = k <=> b.partyOf[q] = k
        BY <1>12, <1>14, <2>2
      <3>2. CASE k \in inviting
        <4>1. MembersMatch(b, k)
          BY <1>1, <1>4, <3>2 DEF PartyOk
        <4>2. MembersMatch(d, k)
          BY <1>6, <1>8, <1>11, <2>2, <3>1, <3>2, <4>1 DEF MembersMatch
        <4>3. d.party[k] = left[k] /\ left[k] # None
          BY <1>6, <1>8, <1>11, <2>2, <3>2, PartyObjectType
        <4> QED
          BY <1>6, <1>7, <2>2, <3>2, <4>2, <4>3 DEF PartyOk
      <3>3. CASE k \notin inviting
        <4>1. d.party[k] = b.party[k]
          BY <1>8, <1>11, <2>2, <3>3
        <4> QED
          BY <1>1, <1>11, <3>1, <4>1 DEF PartyOk, MembersMatch
      <3> QED
        BY <3>2, <3>3
    <2> QED
      BY <2>1, <2>2
  <1>16. ASSUME NEW k \in PartyId, NEW q \in Player
         PROVE  k \in d.invitePartyList[q] <=> d.party[k] # None /\ q \in d.party[k].inviteList
    <2>1. k \in b.invitePartyList[q] <=> b.party[k] # None /\ q \in b.party[k].inviteList
      BY <1>1 DEF InvitesMatch
    <2>2. CASE k \in empty
      <3>1. q # p => q \notin b.party[k].inviteList
        BY <1>6, <1>7, <2>2 DEF IsEmpty
      <3> QED
        BY <1>8, <1>10, <1>11, <2>1, <2>2, <3>1
    <2>3. CASE k \notin empty /\ k \in inviting
      <3>1. d.party[k] = left[k] /\ left[k] # None /\ b.party[k] # None
        BY <1>4, <1>6, <1>8, <1>11, <2>3, PartyObjectType
      <3> QED
        BY <1>6, <1>10, <1>11, <2>1, <2>3, <3>1
    <2>4. CASE k \notin empty /\ k \notin inviting
      <3>1. d.party[k] = b.party[k]
        BY <1>8, <1>11, <2>4
      <3> QED
        BY <1>4, <1>10, <1>11, <2>1, <2>4, <3>1
    <2> QED
      BY <2>2, <2>3, <2>4
  <1> QED
    BY <1>2, <1>10, <1>11, <1>15, <1>16 DEF BooksAgree, InvitesMatch

(***************************************************************************)
(* What the players are changes.                                           *)
(***************************************************************************)
LEMMA FitKept ==
    ASSUME NEW pt, NEW m, NEW n, Fit(pt, m),
           \A p \in Everyone(pt) : n[p].level = m[p].level /\ n[p].at = m[p].at,
           \A p \in Everyone(pt) \cup pt.inviteList : n[p].online
    PROVE  Fit(pt, n)
  <1>1. SameTeam(pt, pt, m, n)
    BY DEF SameTeam
  <1> QED
    BY <1>1, DueKept DEF Fit

\* Nobody moves or grows, and who is in a party or invited is online.
LEMMA SameStanding ==
    ASSUME NEW b, NEW m, NEW n, BooksAgree(b, m),
           \A p \in Player : n[p].level = m[p].level /\ n[p].at = m[p].at,
           \A p \in Player : m[p].online /\ (b.partyOf[p] # None \/ b.invitePartyList[p] # {}) => n[p].online
    PROVE  BooksAgree(b, n)
  <1> SUFFICES ASSUME NEW id \in PartyId PROVE PartyOk(b, id, n)
    BY DEF BooksAgree
  <1>1. PartyOk(b, id, m) /\ InvitesMatch(b, id) /\ b \in Books /\ None \notin PartyId
    BY PartyAssumption DEF BooksAgree
  <1>2. CASE b.party[id] = None
    BY <1>1, <1>2 DEF PartyOk
  <1>3. CASE b.party[id] # None
    <2>1. PICK pt \in PartyObject : pt = b.party[id]
      BY <1>1, <1>3, LiveParty
    <2>2. Fit(pt, m) /\ Everyone(pt) \subseteq Player /\ pt.inviteList \subseteq Player
      BY <1>1, <1>3, <2>1, PartyObjectType DEF PartyOk
    <2>3. ASSUME NEW p \in Everyone(pt) \cup pt.inviteList PROVE n[p].online
      <3>1. p \in Player /\ m[p].online
        BY <2>2 DEF Fit
      <3>2. b.partyOf[p] # None \/ b.invitePartyList[p] # {}
        BY <1>1, <1>3, <2>1, <3>1 DEF PartyOk, MembersMatch, InvitesMatch
      <3> QED
        BY <3>1, <3>2
    <2>4. Fit(pt, n)
      BY <2>2, <2>3, FitKept
    <2> QED
      BY <1>1, <1>3, <2>1, <2>4 DEF PartyOk
  <1> QED
    BY <1>2, <1>3

\* Player p, who is online, moves or grows, and his party looks again.
LEMMA RefreshAgrees ==
    ASSUME NEW b, NEW m, NEW n, BooksAgree(b, m), NEW p \in Player, n[p].online,
           \A q \in Player : q # p => n[q] = m[q]
    PROVE  BooksAgree(IF b.partyOf[p] = None THEN b
                      ELSE [b EXCEPT !.party[b.partyOf[p]] = UpdateSharedExperience(@, n)], n)
  <1> b \in Books
    BY DEF BooksAgree
  <1>1. ASSUME NEW k \in PartyId, b.partyOf[p] # k PROVE PartyOk(b, k, n)
    <2>1. PartyOk(b, k, m)
      BY DEF BooksAgree
    <2>2. CASE b.party[k] = None
      BY <2>1, <2>2 DEF PartyOk
    <2>3. CASE b.party[k] # None
      <3>1. PICK pt \in PartyObject : pt = b.party[k]
        BY <2>3, LiveParty
      <3>2. Fit(pt, m) /\ Everyone(pt) \subseteq Player /\ pt.inviteList \subseteq Player
        BY <2>1, <2>3, <3>1, PartyObjectType DEF PartyOk
      <3>3. p \notin Everyone(pt)
        BY <1>1, <2>1, <2>3, <3>1 DEF PartyOk, MembersMatch
      <3>4. Fit(pt, n)
        <4>1. \A q \in Everyone(pt) : n[q] = m[q]
          BY <3>2, <3>3
        <4>2. \A q \in Everyone(pt) \cup pt.inviteList : n[q].online
          BY <3>2 DEF Fit
        <4> QED
          BY <3>2, <4>1, <4>2, FitKept
      <3> QED
        BY <2>1, <2>3, <3>1, <3>4 DEF PartyOk
    <2> QED
      BY <2>2, <2>3
  <1>2. CASE b.partyOf[p] = None
    BY <1>1, <1>2, PartyAssumption DEF BooksAgree
  <1>3. CASE b.partyOf[p] # None
    <2>1. PICK id \in PartyId : id = b.partyOf[p]
      BY <1>3 DEF Books
    <2>2. PartyOk(b, id, m)
      BY DEF BooksAgree
    <2>3. b.party[id] # None
      BY <2>1, <2>2 DEF PartyOk
    <2>4. PICK pt \in PartyObject : pt = b.party[id]
      BY <2>3, LiveParty
    <2>5. MembersMatch(b, id) /\ Fit(pt, m) /\ ~IsEmpty(pt)
      BY <2>2, <2>3, <2>4 DEF PartyOk
    <2>6. PICK qt : qt = UpdateSharedExperience(pt, n)
      OBVIOUS
    <2>7. /\ qt \in PartyObject /\ qt.leader = pt.leader /\ qt.memberList = pt.memberList
          /\ qt.inviteList = pt.inviteList /\ Due(qt, n)
      BY <2>6, UpdateEffect
    <2>8. Everyone(qt) = Everyone(pt) /\ Members(qt) = Members(pt) /\ ~IsEmpty(qt)
      BY <2>5, <2>7 DEF Everyone, Members, IsEmpty
    <2>9. Fit(qt, n)
      <3>1. \A q \in Everyone(pt) \cup pt.inviteList : n[q].online
        BY <2>5, PartyObjectType DEF Fit
      <3> QED
        BY <2>5, <2>7, <2>8, <3>1 DEF Fit
    <2>10. BooksAgree([b EXCEPT !.party[id] = qt], n)
      <3>1. /\ \A k \in PartyId : k # id => PartyOk(b, k, n)
            /\ \A k \in PartyId : InvitesMatch(b, k)
        BY <1>1, <2>1 DEF BooksAgree
      <3> QED
        BY <2>3, <2>4, <2>5, <2>7, <2>8, <2>9, <3>1, ReplaceAgrees
    <2>11. [b EXCEPT !.party[b.partyOf[p]] = UpdateSharedExperience(@, n)] = [b EXCEPT !.party[id] = qt]
      BY <2>1, <2>4, <2>6 DEF Books
    <2> QED
      BY <1>3, <2>10, <2>11
  <1> QED
    BY <1>2, <1>3

-----------------------------------------------------------------------------
(***************************************************************************)
(* The handlers.                                                           *)
(***************************************************************************)
LEMMA BookType == PartyInv => Book \in Books
  BY DEF PartyInv, BooksAgree

\* What a handler writes is what the book is after it.
LEMMA WriteEffect ==
    ASSUME NEW d \in Books, Write(d)
    PROVE  Book' = d
  BY DEF Write, Book, Books

LEMMA WriteAgrees ==
    ASSUME NEW d, BooksAgree(d, member'), Write(d), member' \in MemberType
    PROVE  PartyInv'
  <1>1. d \in Books BY DEF BooksAgree
  <1>2. Book' = d BY <1>1, WriteEffect
  <1> QED BY <1>2 DEF PartyInv

LEMMA InitAgrees == PartyInit => PartyInv
  <1> SUFFICES ASSUME PartyInit PROVE PartyInv
      OBVIOUS
  <1>1. /\ \A id \in PartyId : Book.party[id] = None
        /\ \A p \in Player : Book.partyOf[p] = None /\ Book.invitePartyList[p] = {}
    BY DEF PartyInit, Book
  <1>2. Book \in Books BY DEF PartyInit, Book, Books
  <1>3. \A id \in PartyId : PartyOk(Book, id, member) /\ InvitesMatch(Book, id)
    BY <1>1, PartyAssumption DEF PartyOk, InvitesMatch
  <1>4. member \in MemberType BY PartyAssumption DEF PartyInit, MemberType
  <1> QED BY <1>2, <1>3, <1>4 DEF PartyInv, BooksAgree

\* A player who is in a party is in one that exists and counts him.
LEMMA InParty ==
    ASSUME NEW b, NEW m, BooksAgree(b, m), NEW p \in Player, b.partyOf[p] # None
    PROVE  /\ b.partyOf[p] \in PartyId /\ b.party[b.partyOf[p]] # None
           /\ b.party[b.partyOf[p]] \in PartyObject
           /\ p \in Everyone(b.party[b.partyOf[p]])
  <1>1. b.partyOf[p] \in PartyId BY DEF BooksAgree, Books
  <1>2. PartyOk(b, b.partyOf[p], m) BY <1>1 DEF BooksAgree
  <1> QED BY <1>1, <1>2 DEF PartyOk, MembersMatch, Fit

LEMMA NewPartyFits ==
    ASSUME NEW p \in Player, NEW m, m[p].online
    PROVE  /\ Fit(NewParty(p), m) /\ IsEmpty(NewParty(p)) /\ Everyone(NewParty(p)) = {p}
           /\ NewParty(p).inviteList = {}
  <1> DEFINE pt == NewParty(p)
  <1>1. /\ pt.leader = p /\ pt.memberList = <<>> /\ pt.inviteList = {} /\ ~pt.sharedExpActive
    BY DEF NewParty
  <1>2. pt \in PartyObject
    <2>1. <<>> \in Seq(Player) OBVIOUS
    <2> QED BY <2>1 DEF NewParty, PartyObject, Tick
  <1>3. Members(pt) = {} BY <1>1 DEF Members, ToSet
  <1>4. IsInjective(pt.memberList) BY <1>1 DEF IsInjective
  <1>5. Due(pt, m) BY <1>1 DEF Due
  <1> HIDE DEF pt
  <1>6. Everyone(pt) = {p} BY <1>1, <1>3 DEF Everyone
  <1> QED BY <1>1, <1>2, <1>3, <1>4, <1>5, <1>6 DEF Fit, IsEmpty, pt

LEMMA InviteStep ==
    ASSUME PartyInv, NEW p \in Online, NEW q \in Online, PlayerInviteToParty(p, q)
    PROVE  PartyInv'
  <1>1. /\ BooksAgree(Book, member) /\ member' = member /\ member' \in MemberType
    BY DEF PartyInv, PlayerInviteToParty
  <1>2. Book \in Books /\ p \in Player /\ q \in Player /\ member[p].online /\ member[q].online
    BY <1>1 DEF BooksAgree, Online
  <1>3. Book.party = party /\ Book.partyOf = partyOf /\ Book.invitePartyList = invitePartyList
    BY DEF Book
  <1>4. CASE Leads(p) /\ Write(InvitePlayer(Book, partyOf[p], q))
    <2> DEFINE id == partyOf[p]
    <2>1. id \in PartyId /\ Book.party[id] # None BY <1>1, <1>2, <1>3, <1>4, InParty DEF Leads
    <2>2. PartyOk(Book, id, member) BY <1>1, <2>1 DEF BooksAgree
    <2>3. MembersMatch(Book, id) /\ Fit(Book.party[id], member) /\ ~IsEmpty(Book.party[id])
      BY <2>1, <2>2 DEF PartyOk
    <2> HIDE DEF id
    <2>4. \A k \in PartyId : PartyOk(Book, k, member) /\ InvitesMatch(Book, k) BY <1>1 DEF BooksAgree
    <2>5. BooksAgree(InvitePlayer(Book, id, q), member) BY <1>2, <2>1, <2>3, <2>4, InviteAgrees
    <2> QED BY <1>1, <1>4, <2>5, WriteAgrees DEF id
  <1>5. CASE partyOf[p] = None /\ \E id \in PartyId :
                 /\ party[id] = None
                 /\ Write(InvitePlayer([Book EXCEPT !.party[id] = NewParty(p), !.partyOf[p] = id], id, q))
    <2>1. PICK id \in PartyId :
                 /\ party[id] = None
                 /\ Write(InvitePlayer([Book EXCEPT !.party[id] = NewParty(p), !.partyOf[p] = id], id, q))
      BY <1>5
    <2>2. PICK pt : pt = NewParty(p) OBVIOUS
    <2>3. /\ Fit(pt, member) /\ IsEmpty(pt) /\ Everyone(pt) = {p} /\ pt.inviteList = {}
      BY <1>2, <2>2, NewPartyFits
    <2>4. pt \in PartyObject /\ pt # None BY <2>3, PartyObjectType DEF Fit
    <2>5. PICK d : d = [Book EXCEPT !.party[id] = pt, !.partyOf[p] = id] OBVIOUS
    <2>6. /\ d \in Books
          /\ d.party[id] = pt /\ \A k \in PartyId : k # id => d.party[k] = Book.party[k]
          /\ d.partyOf[p] = id /\ \A r \in Player : r # p => d.partyOf[r] = Book.partyOf[r]
          /\ d.invitePartyList = Book.invitePartyList
      BY <1>2, <2>4, <2>5 DEF Books
    <2>7. PartyOk(Book, id, member) /\ InvitesMatch(Book, id) BY <1>1 DEF BooksAgree
    <2>8. MembersMatch(d, id) BY <1>3, <2>1, <2>3, <2>6, <2>7 DEF MembersMatch, PartyOk
    <2>9. ASSUME NEW k \in PartyId, k # id PROVE PartyOk(d, k, member)
      <3>1. PartyOk(Book, k, member) BY <1>1 DEF BooksAgree
      <3>2. \A r \in Player : d.partyOf[r] = k <=> Book.partyOf[r] = k
        BY <1>3, <1>5, <2>6, <2>9, PartyAssumption
      <3>3. d.party[k] = Book.party[k] BY <2>6, <2>9
      <3> QED BY <3>1, <3>2, <3>3 DEF PartyOk, MembersMatch
    <2>10. ASSUME NEW k \in PartyId PROVE InvitesMatch(d, k)
      <3>1. InvitesMatch(Book, k) BY <1>1 DEF BooksAgree
      <3>2. CASE k = id BY <1>3, <2>1, <2>3, <2>6, <3>1, <3>2 DEF InvitesMatch
      <3>3. CASE k # id BY <2>6, <3>1, <3>3 DEF InvitesMatch
      <3> QED BY <3>2, <3>3
    <2>11. q \notin d.party[id].inviteList BY <2>3, <2>6
    <2>12. BooksAgree(InvitePlayer(d, id, q), member)
      BY <1>2, <2>3, <2>4, <2>6, <2>8, <2>9, <2>10, <2>11, InviteAgrees
    <2> QED BY <1>1, <2>1, <2>2, <2>5, <2>12, WriteAgrees
  <1> QED BY <1>4, <1>5 DEF PlayerInviteToParty

LEMMA JoinStep ==
    ASSUME PartyInv, NEW p \in Online, NEW q \in Online, PlayerJoinParty(p, q)
    PROVE  PartyInv'
  <1>1. BooksAgree(Book, member) /\ member' = member /\ member' \in MemberType
    BY DEF PartyInv, PlayerJoinParty
  <1>2. p \in Player /\ q \in Player /\ Book.party = party /\ Book.partyOf = partyOf
    BY DEF Online, Book
  <1>3. partyOf[q] \in PartyId /\ Book.party[partyOf[q]] # None
    BY <1>1, <1>2, InParty DEF PlayerJoinParty, IsInviting, Leads
  <1>4. BooksAgree(JoinParty(Book, partyOf[q], p, member), member)
    BY <1>1, <1>2, <1>3, JoinAgrees DEF PlayerJoinParty
  <1> QED BY <1>1, <1>4, WriteAgrees DEF PlayerJoinParty

LEMMA RevokeStep ==
    ASSUME PartyInv, NEW p \in Online, NEW q \in Online, PlayerRevokePartyInvitation(p, q)
    PROVE  PartyInv'
  <1>1. BooksAgree(Book, member) /\ member' = member /\ member' \in MemberType
    BY DEF PartyInv, PlayerRevokePartyInvitation
  <1>2. p \in Player /\ q \in Player /\ Book.party = party /\ Book.partyOf = partyOf
    BY DEF Online, Book
  <1>3. partyOf[p] \in PartyId /\ Book.party[partyOf[p]] # None
    BY <1>1, <1>2, InParty DEF PlayerRevokePartyInvitation, IsInviting, Leads
  <1>4. BooksAgree(RemoveInvite(Book, partyOf[p], q, TRUE), member)
    BY <1>1, <1>2, <1>3, RevokeAgrees
  <1> QED BY <1>1, <1>4, WriteAgrees DEF PlayerRevokePartyInvitation

LEMMA PassStep ==
    ASSUME PartyInv, NEW p \in Online, NEW q \in Online, PlayerPassPartyLeadership(p, q)
    PROVE  PartyInv'
  <1>1. BooksAgree(Book, member) /\ member' = member /\ member' \in MemberType
    BY DEF PartyInv, PlayerPassPartyLeadership
  <1>2. p \in Player /\ q \in Player /\ Book.party = party /\ Book.partyOf = partyOf
    BY DEF Online, Book
  <1>3. partyOf[p] \in PartyId /\ Book.party[partyOf[p]] # None
    BY <1>1, <1>2, InParty DEF PlayerPassPartyLeadership, Leads
  <1>4. BooksAgree(PassPartyLeadership(Book, partyOf[p], q, member), member)
    BY <1>1, <1>2, <1>3, PassAgrees
  <1> QED BY <1>1, <1>4, WriteAgrees DEF PlayerPassPartyLeadership

LEMMA LeaveStep ==
    ASSUME PartyInv, NEW p \in Online, PlayerLeaveParty(p)
    PROVE  PartyInv'
  <1>1. BooksAgree(Book, member) /\ member' = member /\ member' \in MemberType
    BY DEF PartyInv, PlayerLeaveParty
  <1>2. p \in Player /\ Book.partyOf = partyOf /\ Book.partyOf[p] # None
    BY DEF Online, Book, PlayerLeaveParty
  <1>3. partyOf[p] \in PartyId BY <1>1, <1>2, InParty
  <1>4. BooksAgree(LeaveParty(Book, partyOf[p], p, member), member)
    BY <1>1, <1>2, <1>3, LeaveAgrees
  <1> QED BY <1>1, <1>4, WriteAgrees DEF PlayerLeaveParty

\* Player p's party is replaced by qt, which has the same players.
LEMMA ReplaceStep ==
    ASSUME PartyInv, NEW p \in Player, partyOf[p] # None,
           NEW qt, Fit(qt, member), qt.leader = party[partyOf[p]].leader,
           qt.memberList = party[partyOf[p]].memberList, qt.inviteList = party[partyOf[p]].inviteList,
           party' = [party EXCEPT ![partyOf[p]] = qt],
           partyOf' = partyOf, invitePartyList' = invitePartyList
    PROVE  BooksAgree(Book', member)
  <1> DEFINE id == partyOf[p]
             d == [Book EXCEPT !.party[id] = qt]
  <1>1. BooksAgree(Book, member) BY DEF PartyInv
  <1>2. Book.party = party /\ Book.partyOf = partyOf /\ Book \in Books BY <1>1 DEF Book, BooksAgree
  <1>3. id \in PartyId /\ Book.party[id] # None BY <1>1, <1>2, InParty
  <1>4. \A k \in PartyId : PartyOk(Book, k, member) /\ InvitesMatch(Book, k) BY <1>1 DEF BooksAgree
  <1>5. MembersMatch(Book, id) /\ ~IsEmpty(Book.party[id]) BY <1>3, <1>4 DEF PartyOk
  <1>6. Everyone(qt) = Everyone(Book.party[id]) /\ ~IsEmpty(qt) /\ qt.inviteList = Book.party[id].inviteList
    BY <1>2, <1>5 DEF Everyone, Members, IsEmpty
  <1>7. Book' = d BY <1>2 DEF Book
  <1> HIDE DEF id
  <1>8. BooksAgree(d, member) BY <1>2, <1>3, <1>4, <1>5, <1>6, ReplaceAgrees
  <1> QED BY <1>7, <1>8

LEMMA PartyHere ==
    ASSUME PartyInv, NEW p \in Player, partyOf[p] # None
    PROVE  /\ partyOf[p] \in PartyId /\ party[partyOf[p]] \in PartyObject
           /\ Fit(party[partyOf[p]], member)
  <1>1. BooksAgree(Book, member) /\ Book.party = party /\ Book.partyOf = partyOf
    BY DEF PartyInv, Book
  <1>2. partyOf[p] \in PartyId /\ party[partyOf[p]] # None /\ party[partyOf[p]] \in PartyObject
    BY <1>1, InParty
  <1>3. PartyOk(Book, partyOf[p], member) BY <1>1, <1>2 DEF BooksAgree
  <1> QED BY <1>1, <1>2, <1>3 DEF PartyOk

LEMMA EnableStep ==
    ASSUME PartyInv, NEW p \in Online, NEW active \in BOOLEAN,
           PlayerEnableSharedPartyExperience(p, active)
    PROVE  PartyInv'
  <1>1. p \in Player /\ partyOf[p] # None /\ member' = member
    BY DEF Online, PlayerEnableSharedPartyExperience, Leads
  <1>2. PICK pt : pt = party[partyOf[p]] OBVIOUS
  <1>3. pt \in PartyObject /\ Fit(pt, member) BY <1>1, <1>2, PartyHere
  <1>4. PICK enabled : enabled = IF active THEN CanEnableSharedExperience(pt, member) ELSE pt.sharedExpEnabled
    OBVIOUS
  <1>5. enabled \in BOOLEAN BY <1>3, <1>4 DEF PartyObject, CanEnableSharedExperience
  <1>6. PICK qt : qt = [pt EXCEPT !.sharedExpActive = active, !.sharedExpEnabled = enabled] OBVIOUS
  <1>7. /\ qt \in PartyObject /\ qt.leader = pt.leader /\ qt.memberList = pt.memberList
        /\ qt.inviteList = pt.inviteList /\ qt.ticksMap = pt.ticksMap
        /\ qt.sharedExpActive = active /\ qt.sharedExpEnabled = enabled
    BY <1>3, <1>5, <1>6 DEF PartyObject
  <1>8. Due(qt, member) BY <1>3, <1>4, <1>7, DueAnew
  <1>9. Fit(qt, member) BY <1>3, <1>7, <1>8 DEF Fit, Everyone, Members
  <1>10. party' = [party EXCEPT ![partyOf[p]] = qt] /\ partyOf' = partyOf /\ invitePartyList' = invitePartyList
    BY <1>2, <1>4, <1>6 DEF PlayerEnableSharedPartyExperience
  <1>11. BooksAgree(Book', member) BY <1>1, <1>2, <1>7, <1>9, <1>10, ReplaceStep
  <1> QED BY <1>1, <1>11 DEF PartyInv

\* Player p moves or grows.
LEMMA ChangeStep ==
    ASSUME PartyInv, NEW p \in Online, member' \in MemberType, member'[p].online,
           \A q \in Player : q # p => member'[q] = member[q],
           Refresh(p, member'), partyOf' = partyOf, invitePartyList' = invitePartyList
    PROVE  PartyInv'
  <1> DEFINE d == IF Book.partyOf[p] = None THEN Book
                  ELSE [Book EXCEPT !.party[Book.partyOf[p]] = UpdateSharedExperience(@, member')]
  <1>1. BooksAgree(Book, member) /\ p \in Player BY DEF PartyInv, Online
  <1>2. BooksAgree(d, member') BY <1>1, RefreshAgrees
  <1>3. Book' = d BY DEF Refresh, Book
  <1> QED BY <1>2, <1>3 DEF PartyInv

LEMMA MoveStep ==
    ASSUME PartyInv, NEW p \in Online, NEW r \in Region, Move(p, r)
    PROVE  PartyInv'
  <1>1. /\ member \in MemberType /\ p \in Player /\ member[p].online
        /\ member' = [member EXCEPT ![p].at = r]
    BY DEF PartyInv, Online, Move
  <1>2. /\ member' \in MemberType /\ member'[p].online
        /\ \A q \in Player : q # p => member'[q] = member[q]
    BY <1>1 DEF MemberType
  <1> QED BY <1>2, ChangeStep DEF Move

LEMMA LevelStep ==
    ASSUME PartyInv, NEW p \in Online, NEW l \in Level, ChangeLevel(p, l)
    PROVE  PartyInv'
  <1>1. /\ member \in MemberType /\ p \in Player /\ member[p].online
        /\ member' = [member EXCEPT ![p].level = l]
    BY DEF PartyInv, Online, ChangeLevel
  <1>2. /\ member' \in MemberType /\ member'[p].online
        /\ \A q \in Player : q # p => member'[q] = member[q]
    BY <1>1 DEF MemberType
  <1> QED BY <1>2, ChangeStep DEF ChangeLevel

\* Nobody moves, grows or leaves.
LEMMA StandingStep ==
    ASSUME BooksAgree(Book', member), member \in MemberType, member' \in MemberType,
           \A p \in Player : /\ member'[p].level = member[p].level /\ member'[p].at = member[p].at
                             /\ member[p].online => member'[p].online
    PROVE  PartyInv'
  <1>1. BooksAgree(Book', member') BY SameStanding
  <1> QED BY <1>1 DEF PartyInv

LEMMA PointsStep ==
    ASSUME PartyInv, NEW p \in Online, Points(p)
    PROVE  PartyInv'
  <1>1. p \in Player /\ partyOf[p] # None /\ member \in MemberType BY DEF Online, Points, PartyInv
  <1>2. PICK pt : pt = party[partyOf[p]] OBVIOUS
  <1>3. pt \in PartyObject /\ Fit(pt, member) BY <1>1, <1>2, PartyHere
  <1>4. PICK ht : ht = [pt EXCEPT !.ticksMap[p] = "recent"] OBVIOUS
  <1>5. /\ ht \in PartyObject /\ ht.leader = pt.leader /\ ht.memberList = pt.memberList
        /\ ht.inviteList = pt.inviteList
    <2>1. [pt.ticksMap EXCEPT ![p] = "recent"] \in [Player -> Tick] BY <1>3 DEF PartyObject, Tick
    <2> QED BY <1>3, <1>4, <2>1 DEF PartyObject
  <1>6. PICK qt : qt = UpdateSharedExperience(ht, member) OBVIOUS
  <1>7. /\ qt \in PartyObject /\ qt.leader = pt.leader /\ qt.memberList = pt.memberList
        /\ qt.inviteList = pt.inviteList /\ Due(qt, member)
    BY <1>5, <1>6, UpdateEffect
  <1>8. Fit(qt, member) BY <1>3, <1>7 DEF Fit, Everyone, Members
  <1>9. party' = [party EXCEPT ![partyOf[p]] = qt] /\ partyOf' = partyOf /\ invitePartyList' = invitePartyList
    BY <1>2, <1>4, <1>6 DEF Points
  <1>10. BooksAgree(Book', member) BY <1>1, <1>2, <1>7, <1>8, <1>9, ReplaceStep
  <1>11. PICK f \in {member[p].inFight, TRUE} : member' = [member EXCEPT ![p].inFight = f] BY DEF Points
  <1>12. f \in BOOLEAN BY <1>1 DEF MemberType
  <1>13. member' \in MemberType BY <1>1, <1>11, <1>12 DEF MemberType
  <1>14. \A q \in Player : /\ member'[q].level = member[q].level /\ member'[q].at = member[q].at
                           /\ member[q].online => member'[q].online
    BY <1>1, <1>11 DEF MemberType
  <1> QED BY <1>1, <1>10, <1>13, <1>14, StandingStep

LEMMA IdleStep ==
    ASSUME PartyInv, NEW p \in Online, OnIdleStatus(p)
    PROVE  PartyInv'
  <1>1. /\ p \in Player /\ member \in MemberType /\ BooksAgree(Book, member)
        /\ member' = [member EXCEPT ![p].inFight = FALSE]
        /\ partyOf' = partyOf /\ invitePartyList' = invitePartyList
    BY DEF Online, OnIdleStatus, PartyInv
  <1>2. /\ member' \in MemberType
        /\ \A q \in Player : /\ member'[q].level = member[q].level /\ member'[q].at = member[q].at
                             /\ member[q].online => member'[q].online
    BY <1>1 DEF MemberType
  <1>3. CASE partyOf[p] = None
    <2>1. Book' = Book BY <1>1, <1>3 DEF OnIdleStatus, Book
    <2> QED BY <1>1, <1>2, <2>1, StandingStep
  <1>4. CASE partyOf[p] # None
    <2>1. PICK pt : pt = party[partyOf[p]] OBVIOUS
    <2>2. pt \in PartyObject /\ Fit(pt, member) BY <1>1, <1>4, <2>1, PartyHere
    <2>3. PICK qt : qt = ClearPlayerPoints(pt, p, member) OBVIOUS
    <2>4. /\ qt \in PartyObject /\ qt.leader = pt.leader /\ qt.memberList = pt.memberList
          /\ qt.inviteList = pt.inviteList /\ Due(qt, member)
      BY <1>1, <2>2, <2>3, ClearPointsEffect DEF Fit
    <2>5. Fit(qt, member) BY <2>2, <2>4 DEF Fit, Everyone, Members
    <2>6. party' = [party EXCEPT ![partyOf[p]] = qt] BY <1>4, <2>1, <2>3 DEF OnIdleStatus
    <2>7. BooksAgree(Book', member) BY <1>1, <1>4, <2>1, <2>4, <2>5, <2>6, ReplaceStep
    <2> QED BY <1>1, <1>2, <2>7, StandingStep
  <1> QED BY <1>3, <1>4

LEMMA ExpireStep ==
    ASSUME PartyInv, NEW p \in Online, PointsExpire(p)
    PROVE  PartyInv'
  <1>1. /\ p \in Player /\ partyOf[p] # None /\ member' = member
        /\ partyOf' = partyOf /\ invitePartyList' = invitePartyList
    BY DEF Online, PointsExpire
  <1>2. PICK pt : pt = party[partyOf[p]] OBVIOUS
  <1>3. pt \in PartyObject /\ Fit(pt, member) /\ pt.ticksMap[p] = "recent" BY <1>1, <1>2, PartyHere DEF PointsExpire
  <1>4. PICK qt : qt = [pt EXCEPT !.ticksMap[p] = "old"] OBVIOUS
  <1>5. [pt.ticksMap EXCEPT ![p] = "old"] \in [Player -> Tick] BY <1>3 DEF PartyObject, Tick
  <1>6. /\ qt \in PartyObject /\ qt.leader = pt.leader /\ qt.memberList = pt.memberList
        /\ qt.inviteList = pt.inviteList /\ qt.ticksMap = [pt.ticksMap EXCEPT ![p] = "old"]
        /\ qt.sharedExpActive = pt.sharedExpActive /\ qt.sharedExpEnabled = pt.sharedExpEnabled
    BY <1>3, <1>4, <1>5 DEF PartyObject
  <1>7. \A q \in Everyone(pt) : \/ qt.ticksMap[q] = pt.ticksMap[q]
                                \/ pt.ticksMap[q] = "recent" /\ qt.ticksMap[q] = "old"
    BY <1>1, <1>3, <1>6, PartyObjectType DEF PartyObject
  <1>8. SameTeam(pt, qt, member, member) BY <1>6 DEF SameTeam, Everyone, Members
  <1>9. Due(qt, member) BY <1>3, <1>6, <1>7, <1>8, DueKept DEF Fit
  <1>10. Fit(qt, member) BY <1>3, <1>6, <1>9 DEF Fit, Everyone, Members
  <1>11. party' = [party EXCEPT ![partyOf[p]] = qt] BY <1>2, <1>4 DEF PointsExpire
  <1>12. BooksAgree(Book', member) BY <1>1, <1>2, <1>6, <1>10, <1>11, ReplaceStep
  <1> QED BY <1>1, <1>12 DEF PartyInv

LEMMA LogOutStep ==
    ASSUME PartyInv, NEW p \in Online, LogOut(p)
    PROVE  PartyInv'
  <1>1. /\ p \in Player /\ member \in MemberType /\ BooksAgree(Book, member)
        /\ member' = [member EXCEPT ![p] = [@ EXCEPT !.online = FALSE, !.inFight = FALSE]]
    BY DEF Online, LogOut, PartyInv
  <1>2. /\ member' \in MemberType /\ \A q \in Player : q # p => member'[q] = member[q]
        /\ member'[p].level = member[p].level /\ member'[p].at = member[p].at
    BY <1>1 DEF MemberType
  <1>3. PICK g : g = ClearPartyInvitations(Book, p) OBVIOUS
  <1>4. BooksAgree(g, member) /\ g.invitePartyList[p] = {} BY <1>1, <1>3, ClearAgrees
  <1>5. PICK d : d = IF g.partyOf[p] = None THEN g ELSE LeaveParty(g, g.partyOf[p], p, member) OBVIOUS
  <1>6. BooksAgree(d, member) /\ d.partyOf[p] = None /\ d.invitePartyList[p] = {}
    <2>1. CASE g.partyOf[p] = None BY <1>4, <1>5, <2>1
    <2>2. CASE g.partyOf[p] # None
      <3>1. PICK id : id = g.partyOf[p] OBVIOUS
      <3>2. id \in PartyId BY <1>1, <1>4, <2>2, <3>1, InParty
      <3>3. d = LeaveParty(g, id, p, member) BY <1>5, <2>2, <3>1
      <3> QED BY <1>1, <1>4, <3>1, <3>2, <3>3, LeaveAgrees
    <2> QED BY <2>1, <2>2
  <1>7. Write(d) BY <1>3, <1>5 DEF LogOut
  <1>8. \A q \in Player : member'[q].level = member[q].level /\ member'[q].at = member[q].at BY <1>2
  <1>9. \A q \in Player : member[q].online /\ (d.partyOf[q] # None \/ d.invitePartyList[q] # {})
                              => member'[q].online
    BY <1>2, <1>6
  <1>10. BooksAgree(d, member') BY <1>6, <1>8, <1>9, SameStanding
  <1> QED BY <1>2, <1>7, <1>10, WriteAgrees

LEMMA LogInStep ==
    ASSUME PartyInv, NEW p \in Player, LogIn(p)
    PROVE  PartyInv'
  <1>1. /\ member \in MemberType /\ BooksAgree(Book, member) /\ Book' = Book
        /\ member' = [member EXCEPT ![p].online = TRUE]
    BY DEF LogIn, PartyInv, Book
  <1>2. /\ member' \in MemberType
        /\ \A q \in Player : /\ member'[q].level = member[q].level /\ member'[q].at = member[q].at
                             /\ member[q].online => member'[q].online
    BY <1>1 DEF MemberType
  <1> QED BY <1>1, <1>2, StandingStep

LEMMA PartyStep == PartyInv /\ [PartyNext]_partyVars => PartyInv'
  <1> SUFFICES ASSUME PartyInv, [PartyNext]_partyVars PROVE PartyInv'
      OBVIOUS
  <1>1. CASE UNCHANGED partyVars
    <2>1. Book' = Book /\ member' = member BY <1>1 DEF partyVars, Book
    <2> QED BY <2>1 DEF PartyInv
  <1>2. CASE \E p \in Online, q \in Online : \/ PlayerInviteToParty(p, q) \/ PlayerJoinParty(p, q)
                                             \/ PlayerRevokePartyInvitation(p, q)
                                             \/ PlayerPassPartyLeadership(p, q)
    BY <1>2, InviteStep, JoinStep, RevokeStep, PassStep
  <1>3. CASE \E p \in Online : PlayerLeaveParty(p) \/ \E active \in BOOLEAN : PlayerEnableSharedPartyExperience(p, active)
    BY <1>3, LeaveStep, EnableStep
  <1>4. CASE \E p \in Online : (\E r \in Region : Move(p, r)) \/ \E l \in Level : ChangeLevel(p, l)
    BY <1>4, MoveStep, LevelStep
  <1>5. CASE \E p \in Online : Points(p) \/ OnIdleStatus(p) \/ PointsExpire(p)
    BY <1>5, PointsStep, IdleStep, ExpireStep
  <1>6. CASE \E p \in Online : LogOut(p) BY <1>6, LogOutStep
  <1>7. CASE \E p \in Player : LogIn(p) BY <1>7, LogInStep
  <1> QED BY <1>1, <1>2, <1>3, <1>4, <1>5, <1>6, <1>7 DEF PartyNext

LEMMA InvAgrees == PartyInv => PartiesAgree
  <1> SUFFICES ASSUME PartyInv PROVE PartiesAgree
      OBVIOUS
  <1>1. /\ BooksAgree(Book, member) /\ Book.party = party /\ Book.partyOf = partyOf
        /\ Book.invitePartyList = invitePartyList
    BY DEF PartyInv, Book
  <1>2. \A id \in PartyId : PartyOk(Book, id, member) /\ InvitesMatch(Book, id) BY <1>1 DEF BooksAgree
  <1>3. MembershipAgrees
    <2> SUFFICES ASSUME NEW p \in Player, NEW id \in PartyId
                 PROVE  partyOf[p] = id <=> id \in Live(Book) /\ p \in Everyone(party[id])
        BY DEF MembershipAgrees
    <2>1. PartyOk(Book, id, member) BY <1>2
    <2> QED BY <1>1, <2>1 DEF PartyOk, MembersMatch, Live
  <1>4. InvitationsAgree BY <1>1, <1>2 DEF InvitationsAgree, InvitesMatch, Live
  <1>5. ASSUME NEW id \in Live(Book)
        PROVE  /\ Everyone(party[id]) \cup party[id].inviteList \subseteq Online
               /\ IsInjective(party[id].memberList) /\ party[id].leader \notin Members(party[id])
               /\ ~IsEmpty(party[id])
    <2>1. id \in PartyId /\ Book.party[id] # None BY DEF Live
    <2>2. Fit(party[id], member) /\ ~IsEmpty(party[id]) BY <1>1, <1>2, <2>1 DEF PartyOk
    <2>3. Everyone(party[id]) \cup party[id].inviteList \subseteq Player BY <2>2, PartyObjectType DEF Fit
    <2> QED BY <2>2, <2>3 DEF Fit, Online
  <1>6. SharedExperienceIsDue
    <2> SUFFICES ASSUME NEW id \in Live(Book)
                 PROVE  LET aged == {p \in Player : party[id].ticksMap[p] = "old"}
                            stillFighting == [party[id] EXCEPT !.ticksMap =
                                                 [p \in Player |-> IF p \in aged THEN "recent" ELSE @[p]]]
                        IN party[id].sharedExpActive =>
                             /\ party[id].sharedExpEnabled => CanEnableSharedExperience(stillFighting, member)
                             /\ CanEnableSharedExperience(party[id], member) => party[id].sharedExpEnabled
        BY DEF SharedExperienceIsDue
    <2> DEFINE aged == {p \in Player : party[id].ticksMap[p] = "old"}
               stillFighting == [party[id] EXCEPT !.ticksMap =
                                    [p \in Player |-> IF p \in aged THEN "recent" ELSE party[id].ticksMap[p]]]
    <2>1. id \in PartyId /\ Book.party[id] # None BY DEF Live
    <2>2. Due(party[id], member) BY <1>1, <1>2, <2>1 DEF PartyOk, Fit
    <2>3. stillFighting = Still(party[id])
      <3>1. [p \in Player |-> IF p \in aged THEN "recent" ELSE party[id].ticksMap[p]]
              = [p \in Player |-> IF party[id].ticksMap[p] = "old" THEN "recent" ELSE party[id].ticksMap[p]]
        OBVIOUS
      <3> QED BY <3>1 DEF Still
    <2> QED BY <2>2, <2>3 DEF Due
  <1> QED BY <1>3, <1>4, <1>5, <1>6 DEF PartiesAgree, PartyAgrees

\* Whatever the players do, in whatever order: nobody is left with a pointer
\* to a party that was deleted or that has let go of him, no party counts a
\* player who has left the world, none is left without anybody but its leader,
\* and experience is shared exactly when it is due.
THEOREM PartiesCorrect == PartySpec => []PartiesAgree
  <1>1. PartySpec => []PartyInv BY InitAgrees, PartyStep, PTL DEF PartySpec
  <1> QED BY <1>1, InvAgrees, PTL

-----------------------------------------------------------------------------
(***************************************************************************)
(* Trades: what lies above an item.                                        *)
(***************************************************************************)
Cylinder == Player \cup Container \cup Tile
Parents == [Item -> Cylinder]

LEMMA CylinderParts ==
    /\ Container \subseteq Item /\ Player \cap Item = {} /\ Tile \cap Item = {} /\ Player \cap Tile = {}
    /\ \A i \in Item : i \in Cylinder <=> i \in Container
    /\ Tile \subseteq Nat /\ None \notin Player /\ None \notin Item
  BY TradeAssumption DEF Cylinder

LEMMA AboveLeast ==
    ASSUME NEW par \in Parents, NEW i \in Item,
           NEW T, par[i] \in T, \A k \in T \cap Container : par[k] \in T
    PROVE  Above(i, par) \subseteq T
  <1> DEFINE Closed(S) == \A k \in {i} \cup S : par[k] \in Container => par[k] \in S
             containers == {k \in Container : \A S \in SUBSET Container : Closed(S) => k \in S}
             S0 == T \cap Container
  <1>1. Closed(S0) OBVIOUS
  <1>2. containers \subseteq S0 BY <1>1
  <1> HIDE DEF containers
  <1>3. {par[k] : k \in {i} \cup containers} \subseteq T BY <1>2
  <1> QED BY <1>3 DEF Above, containers

LEMMA AboveClosed ==
    ASSUME NEW par \in Parents, NEW i \in Item
    PROVE  /\ par[i] \in Above(i, par) /\ Above(i, par) \subseteq Cylinder
           /\ \A k \in Above(i, par) \cap Container : par[k] \in Above(i, par)
  <1> DEFINE Closed(S) == \A k \in {i} \cup S : par[k] \in Container => par[k] \in S
             containers == {k \in Container : \A S \in SUBSET Container : Closed(S) => k \in S}
  <1>1. Above(i, par) = {par[k] : k \in {i} \cup containers} BY DEF Above
  <1>2. ASSUME NEW m \in {i} \cup containers, par[m] \in Container PROVE par[m] \in containers
    <2> SUFFICES ASSUME NEW S \in SUBSET Container, Closed(S) PROVE par[m] \in S
        BY <1>2
    <2>1. m \in {i} \cup S OBVIOUS
    <2> QED BY <1>2, <2>1
  <1>3. containers \subseteq Item BY CylinderParts
  <1> HIDE DEF containers
  <1>4. Above(i, par) \subseteq Cylinder BY <1>1, <1>3 DEF Parents
  <1> QED BY <1>1, <1>2, <1>4

LEMMA AboveTrans ==
    ASSUME NEW par \in Parents, NEW i \in Item, NEW k \in Container, k \in Above(i, par)
    PROVE  Above(k, par) \subseteq Above(i, par)
  <1>1. k \in Item BY CylinderParts
  <1> QED BY <1>1, AboveClosed, AboveLeast

LEMMA AboveUnfold ==
    ASSUME NEW par \in Parents, NEW i \in Item
    PROVE  /\ par[i] \in Container => Above(i, par) = {par[i]} \cup Above(par[i], par)
           /\ par[i] \notin Container => Above(i, par) = {par[i]}
  <1>1. ASSUME par[i] \in Container PROVE Above(i, par) = {par[i]} \cup Above(par[i], par)
    <2> DEFINE T == {par[i]} \cup Above(par[i], par)
    <2>1. par[i] \in Item BY <1>1, CylinderParts
    <2>2. \A k \in T \cap Container : par[k] \in T BY <2>1, AboveClosed
    <2>3. Above(i, par) \subseteq T BY <2>2, AboveLeast
    <2>4. T \subseteq Above(i, par) BY <1>1, AboveClosed, AboveTrans
    <2> QED BY <2>3, <2>4
  <1>2. ASSUME par[i] \notin Container PROVE Above(i, par) = {par[i]}
    <2>1. PICK T : T = {par[i]} OBVIOUS
    <2>2. Above(i, par) \subseteq T BY <1>2, <2>1, AboveLeast
    <2> QED BY <2>1, <2>2, AboveClosed
  <1> QED BY <1>1, <1>2

\* What lies above an item lies in a row.
LEMMA AboveChain ==
    ASSUME NEW par \in Parents, NEW i \in Item, NEW k \in Above(i, par), NEW x \in Above(i, par)
    PROVE  x = k \/ (k \in Container /\ x \in Above(k, par)) \/ (x \in Container /\ k \in Above(x, par))
  <1> DEFINE T == {y \in Above(i, par) : \/ y = k \/ (k \in Container /\ y \in Above(k, par))
                                         \/ (y \in Container /\ k \in Above(y, par))}
  <1>1. par[i] \in T BY AboveClosed, AboveUnfold
  <1>2. ASSUME NEW y \in T \cap Container PROVE par[y] \in T
    <2>1. y \in Item /\ (k \in Container => k \in Item) BY <1>2, CylinderParts
    <2>2. par[y] \in Above(i, par) BY <1>2, AboveClosed
    <2>3. CASE y = k BY <1>2, <2>1, <2>2, <2>3, AboveClosed
    <2>4. CASE k \in Container /\ y \in Above(k, par) BY <1>2, <2>1, <2>2, <2>4, AboveClosed
    <2>5. CASE k \in Above(y, par) BY <1>2, <2>1, <2>2, <2>5, AboveClosed, AboveUnfold
    <2> QED BY <1>2, <2>3, <2>4, <2>5
  <1>3. Above(i, par) \subseteq T BY <1>1, <1>2, AboveLeast
  <1> QED BY <1>3

\* An item is with one player or on one tile, and so is what is inside it.
LEMMA RootEffect ==
    ASSUME NEW par \in Parents, NEW i \in Item, NEW x \in Above(i, par), x \notin Item
    PROVE  TopParent(i, par) = x
  <1>1. ASSUME NEW y \in Above(i, par), y \notin Item PROVE y = x
    <2>1. y \notin Container /\ x \notin Container BY <1>1, CylinderParts
    <2> QED BY <1>1, <2>1, AboveChain
  <1>2. Above(i, par) \ Item = {x} BY <1>1
  <1> QED BY <1>2 DEF TopParent, TheOne

LEMMA SameRoot ==
    ASSUME NEW par \in Parents, NEW i \in Item, NEW k \in Container, k \in Above(i, par)
    PROVE  TopParent(i, par) = TopParent(k, par)
  <1>1. k \in Item BY CylinderParts
  <1>2. Above(k, par) \subseteq Above(i, par) BY AboveTrans
  <1>3. ASSUME NEW x \in Above(i, par), x \notin Item PROVE x \in Above(k, par)
    <2>1. x \notin Container BY <1>3, CylinderParts
    <2>2. x # k BY <1>1, <1>3
    <2> QED BY <1>3, <2>1, <2>2, AboveChain
  <1>4. Above(i, par) \ Item = Above(k, par) \ Item BY <1>2, <1>3
  <1> QED BY <1>4 DEF TopParent

(***************************************************************************)
(* An item moves: what is above others stays as it is, and nothing comes   *)
(* to lie inside itself.                                                   *)
(***************************************************************************)
Acyclic(par) == \A k \in Container : k \notin Above(k, par)

MovesOnly(i, par, qar) == \A x \in Item : x # i => qar[x] = par[x]

LEMMA AboveFrame ==
    ASSUME NEW par \in Parents, NEW qar \in Parents, NEW i \in Item, MovesOnly(i, par, qar),
           NEW k \in Item, k # i, i \notin Above(k, par)
    PROVE  Above(k, qar) = Above(k, par)
  <1>1. Container \subseteq Item BY CylinderParts
  <1>2. Above(k, qar) \subseteq Above(k, par)
    <2>1. qar[k] \in Above(k, par) BY AboveClosed DEF MovesOnly
    <2>2. \A x \in Above(k, par) \cap Container : qar[x] \in Above(k, par)
      BY <1>1, AboveClosed DEF MovesOnly
    <2> QED BY <2>1, <2>2, AboveLeast
  <1>3. Above(k, par) \subseteq Above(k, qar)
    <2>1. par[k] \in Above(k, qar) BY AboveClosed DEF MovesOnly
    <2>2. \A x \in Above(k, qar) \cap Container : par[x] \in Above(k, qar)
      BY <1>1, <1>2, AboveClosed DEF MovesOnly
    <2> QED BY <2>1, <2>2, AboveLeast
  <1> QED BY <1>2, <1>3

LEMMA AboveFrameBack ==
    ASSUME NEW par \in Parents, NEW qar \in Parents, NEW i \in Item, MovesOnly(i, par, qar),
           NEW k \in Item, k # i
    PROVE  i \in Above(k, qar) <=> i \in Above(k, par)
  <1>1. MovesOnly(i, qar, par) BY DEF MovesOnly
  <1>2. ASSUME i \notin Above(k, par) PROVE i \notin Above(k, qar)
    <2>1. Above(k, qar) = Above(k, par) BY <1>2, AboveFrame
    <2> QED BY <1>2, <2>1
  <1>3. ASSUME i \notin Above(k, qar) PROVE i \notin Above(k, par)
    <2>1. Above(k, par) = Above(k, qar) BY <1>1, <1>3, AboveFrame
    <2> QED BY <1>3, <2>1
  <1> QED BY <1>2, <1>3

\* Item i may be put into g.
MayHold(g, i, par) == g \in Cylinder /\ (g \in Container => g # i /\ i \notin Above(g, par))

LEMMA MoveAcyclic ==
    ASSUME NEW par \in Parents, Acyclic(par), NEW i \in Item, NEW g, MayHold(g, i, par)
    PROVE  LET qar == [par EXCEPT ![i] = g] IN qar \in Parents /\ Acyclic(qar) /\ i \notin Above(i, qar)
  <1>1. PICK qar : qar = [par EXCEPT ![i] = g] OBVIOUS
  <1>2. g \in Cylinder BY DEF MayHold
  <1>3. qar \in Parents /\ qar[i] = g /\ \A x \in Item : x # i => qar[x] = par[x] BY <1>1, <1>2 DEF Parents
  <1>4. MovesOnly(i, par, qar) BY <1>3 DEF MovesOnly
  <1>5. i \notin Above(i, qar)
    <2>1. CASE g \in Container
      <3>1. g \in Item /\ g # i /\ i \notin Above(g, par) BY <2>1, CylinderParts DEF MayHold
      <3>2. i \notin Above(g, qar) BY <1>3, <1>4, <3>1, AboveFrameBack
      <3> QED BY <1>3, <2>1, <3>1, <3>2, AboveUnfold
    <2>2. CASE g \notin Container
      <3>1. Above(i, qar) = {g} BY <1>3, <2>2, AboveUnfold
      <3>2. i = g => i \in Container BY <1>2, CylinderParts
      <3> QED BY <2>2, <3>1, <3>2
    <2> QED BY <2>1, <2>2
  <1>6. ASSUME NEW k \in Container PROVE k \notin Above(k, qar)
    <2>1. k \in Item BY CylinderParts
    <2>2. CASE k = i BY <1>5, <2>2
    <2>3. CASE k # i /\ i \notin Above(k, par)
      <3>1. Above(k, qar) = Above(k, par) BY <1>3, <1>4, <2>1, <2>3, AboveFrame
      <3> QED BY <3>1 DEF Acyclic
    <2>4. CASE k # i /\ i \in Above(k, par)
      <3>1. i \in Above(k, qar) BY <1>3, <1>4, <2>1, <2>4, AboveFrameBack
      <3>2. i \in Container
        <4>1. i \in Cylinder BY <2>1, <2>4, AboveClosed
        <4> QED BY <4>1, CylinderParts
      <3>3. k \notin Above(i, qar)
        <4> SUFFICES ASSUME k \in Above(i, qar) PROVE FALSE
            OBVIOUS
        <4>1. Above(k, qar) \subseteq Above(i, qar) BY <1>3, AboveTrans
        <4> QED BY <1>5, <3>1, <4>1
      <3> DEFINE T == Above(k, par) \cup Above(i, qar)
      <3>4. qar[k] \in T BY <1>3, <2>1, <2>4, AboveClosed
      <3>5. ASSUME NEW x \in T \cap Container PROVE qar[x] \in T
        <4>1. x \in Item BY <3>5, CylinderParts
        <4>2. CASE x = i BY <1>3, <4>1, <4>2, AboveClosed
        <4>3. CASE x # i /\ x \in Above(k, par) BY <1>3, <2>1, <3>5, <4>1, <4>3, AboveClosed
        <4>4. CASE x \in Above(i, qar) BY <1>3, <3>5, <4>1, <4>4, AboveClosed
        <4> QED BY <3>5, <4>2, <4>3, <4>4
      <3>6. Above(k, qar) \subseteq T BY <1>3, <2>1, <3>4, <3>5, AboveLeast
      <3> QED BY <3>3, <3>6 DEF Acyclic
    <2> QED BY <2>2, <2>3, <2>4
  <1> QED BY <1>1, <1>3, <1>5, <1>6 DEF Acyclic

-----------------------------------------------------------------------------
(***************************************************************************)
(* Trades: the inductive invariant, of the deals d, where the items are    *)
(* and where the players stand.  In the middle of a transfer the items of  *)
(* its two players are no longer on offer.                                 *)
(***************************************************************************)
Open(d) == {r \in Player : d.state[r] # "transfer"}

PlaceAt(i, par, pos) ==
    IF TopParent(i, par) \in Player THEN pos[TopParent(i, par)] ELSE TopParent(i, par)
InReach(p, i, par, pos) == TopParent(i, par) \in {p} \cup Tile /\ InRange(pos[p], PlaceAt(i, par, pos), 1)
Apart(i, j, par) == i # j /\ ~IsHolding(i, j, par) /\ ~IsHolding(j, i, par)

Paired(r, d, pos) ==
    /\ d.state[r] = "none" <=> d.partner[r] = None
    /\ d.partner[r] # None =>
          /\ d.partner[r] # r /\ d.partner[d.partner[r]] = r
          /\ InRange(pos[r], pos[d.partner[r]], 2)
          /\ d.state[r] = "accept" => d.state[d.partner[r]] \in {"initiated", "acknowledge"}
          /\ d.state[r] = "transfer" => d.state[d.partner[r]] = "transfer"
    /\ d.state[r] \in {"none", "acknowledge"} => d.item[r] = None

Dealt(d, par, pos) ==
    /\ d \in Deal /\ \A r \in Player : Paired(r, d, pos)
    /\ d.tradeItems = {d.item[r] : r \in Open(d)} \ {None}
    /\ \A r \in Open(d) : d.item[r] # None => InReach(r, d.item[r], par, pos)
    /\ \A r, s \in Open(d) : r # s /\ d.item[r] # None /\ d.item[s] # None =>
            Apart(d.item[r], d.item[s], par)

LEMMA DealParts ==
    ASSUME NEW d \in Deal
    PROVE  /\ d.state \in [Player -> {"none", "initiated", "acknowledge", "accept", "transfer"}]
           /\ d.partner \in [Player -> Player \cup {None}] /\ d.item \in [Player -> Item \cup {None}]
           /\ d.tradeItems \in SUBSET Item
  BY DEF Deal

(***************************************************************************)
(* Trades are closed in pairs, but for the one that is in transfer.        *)
(***************************************************************************)
Closes(C, d, e) ==
    /\ e \in Deal
    /\ \A r \in Player : IF r \in C THEN e.state[r] = "none" /\ e.partner[r] = None /\ e.item[r] = None
                         ELSE e.state[r] = d.state[r] /\ e.partner[r] = d.partner[r] /\ e.item[r] = d.item[r]
    /\ e.tradeItems = d.tradeItems \ {d.item[r] : r \in C}

LEMMA CloseEffect ==
    ASSUME NEW d \in Deal, NEW pos, \A r \in Player : Paired(r, d, pos), NEW P \in SUBSET Player
    PROVE  \E C \in SUBSET Open(d) :
              /\ P \cap Open(d) \subseteq C
              /\ \A r \in C : d.partner[r] # None => d.partner[r] \in C
              /\ Closes(C, d, Close(P, d))
  <1> DEFINE Q == {q \in P : \A r \in Pair(q, d) : d.state[r] # "transfer"}
             C == UNION {Pair(p, d) : p \in Q}
             e == Close(P, d)
  <1>1. \A r \in Player : d.partner[r] \in Player \cup {None} /\ Pair(r, d) \subseteq Player
    BY DealParts DEF Pair
  <1>2. ASSUME NEW r \in C PROVE r \in Open(d) /\ (d.partner[r] # None => d.partner[r] \in C)
    <2>1. PICK p \in Q : r \in Pair(p, d) OBVIOUS
    <2>2. p \in Player /\ r \in Open(d) BY <1>1, <2>1 DEF Open
    <2>3. ASSUME d.partner[r] # None PROVE d.partner[r] \in Pair(p, d)
      <3>1. CASE r = p BY <1>1, <2>2, <2>3, <3>1, CylinderParts DEF Pair
      <3>2. CASE r # p
        <4>1. r = d.partner[p] /\ r \in Player BY <2>1, <3>2 DEF Pair
        <4>2. d.partner[p] # None BY <4>1, CylinderParts
        <4>3. d.partner[r] = p BY <2>2, <4>1, <4>2 DEF Paired
        <4> QED BY <4>3 DEF Pair
      <3> QED BY <3>1, <3>2
    <2> QED BY <2>2, <2>3
  <1>3. ASSUME NEW q \in P \cap Open(d) PROVE q \in C
    <2>1. ASSUME NEW r \in Pair(q, d) PROVE d.state[r] # "transfer"
      <3>1. CASE r = q BY <1>3, <3>1 DEF Open
      <3>2. CASE r # q
        <4>1. r = d.partner[q] /\ r \in Player BY <2>1, <3>2 DEF Pair
        <4>2. d.partner[q] # None BY <4>1, CylinderParts
        <4>3. d.partner[r] = q /\ d.partner[r] # None BY <4>1, <4>2, CylinderParts DEF Paired
        <4> QED BY <1>3, <4>1, <4>3 DEF Paired, Open
      <3> QED BY <3>1, <3>2
    <2>2. q \in Q BY <2>1
    <2>3. q \in Pair(q, d) BY DEF Pair
    <2> QED BY <2>2, <2>3
  <1>4. e = [state |-> [r \in Player |-> IF r \in C THEN "none" ELSE d.state[r]],
             partner |-> [r \in Player |-> IF r \in C THEN None ELSE d.partner[r]],
             item |-> [r \in Player |-> IF r \in C THEN None ELSE d.item[r]],
             tradeItems |-> d.tradeItems \ {d.item[r] : r \in C}]
    BY DEF Close
  <1> HIDE DEF C, e
  <1>5. Closes(C, d, e)
    <2>1. /\ [r \in Player |-> IF r \in C THEN "none" ELSE d.state[r]]
                \in [Player -> {"none", "initiated", "acknowledge", "accept", "transfer"}]
          /\ [r \in Player |-> IF r \in C THEN None ELSE d.partner[r]] \in [Player -> Player \cup {None}]
          /\ [r \in Player |-> IF r \in C THEN None ELSE d.item[r]] \in [Player -> Item \cup {None}]
      BY DealParts
    <2>2. d.tradeItems \ {d.item[r] : r \in C} \in SUBSET Item BY DealParts
    <2>3. e \in Deal BY <1>4, <2>1, <2>2 DEF Deal
    <2> QED BY <1>4, <2>3 DEF Closes
  <1>6. C \in SUBSET Open(d) /\ P \cap Open(d) \subseteq C BY <1>2, <1>3
  <1> QED BY <1>2, <1>5, <1>6 DEF e

\* From d to e trades are closed only, and none that is in transfer.
Fewer(d, e) ==
    /\ Open(e) = Open(d)
    /\ \A r \in Open(d) : e.item[r] \in {d.item[r], None}
    /\ \A r \in Player \ Open(d) : e.state[r] = d.state[r] /\ e.partner[r] = d.partner[r] /\ e.item[r] = d.item[r]

LEMMA CloseKeeps ==
    ASSUME NEW d, NEW par, NEW pos, Dealt(d, par, pos), NEW P \in SUBSET Player
    PROVE  LET e == Close(P, d)
           IN /\ Dealt(e, par, pos) /\ Fewer(d, e)
              /\ \A r \in P \cap Open(d) : e.item[r] = None /\ e.partner[r] = None
  <1>1. d \in Deal /\ \A r \in Player : Paired(r, d, pos) BY DEF Dealt
  <1>2. PICK e : e = Close(P, d) OBVIOUS
  <1>3. PICK C \in SUBSET Open(d) :
              /\ P \cap Open(d) \subseteq C
              /\ \A r \in C : d.partner[r] # None => d.partner[r] \in C
              /\ Closes(C, d, e)
    BY <1>1, <1>2, CloseEffect
  <1>4. C \subseteq Player /\ e \in Deal BY <1>3 DEF Open, Closes
  <1>5. \A r \in Player : d.partner[r] \in Player \cup {None} BY <1>1, DealParts
  <1>6. Open(e) = Open(d) BY <1>3, <1>4 DEF Closes, Open
  <1>7. Fewer(d, e)
    <2>1. \A r \in Player \ Open(d) : r \notin C BY <1>3
    <2> QED BY <1>3, <1>4, <1>6, <2>1 DEF Fewer, Closes, Open
  <1>8. \A r \in P \cap Open(d) : e.item[r] = None /\ e.partner[r] = None BY <1>3, <1>4 DEF Closes
  <1>9. ASSUME NEW r \in Player PROVE Paired(r, e, pos)
    <2>1. CASE r \in C BY <1>3, <2>1 DEF Paired, Closes
    <2>2. CASE r \notin C
      <3>1. e.state[r] = d.state[r] /\ e.partner[r] = d.partner[r] /\ e.item[r] = d.item[r]
        BY <1>3, <2>2 DEF Closes
      <3>2. CASE d.partner[r] = None BY <1>1, <3>1, <3>2 DEF Paired
      <3>3. CASE d.partner[r] # None
        <4>1. PICK s \in Player : s = d.partner[r] BY <1>5, <3>3
        <4>2. d.partner[s] = r /\ r # None BY <1>1, <3>3, <4>1, CylinderParts DEF Paired
        <4>3. s \notin C BY <1>3, <2>2, <4>2
        <4>4. e.state[s] = d.state[s] /\ e.partner[s] = d.partner[s] BY <1>3, <4>3 DEF Closes
        <4> QED BY <1>1, <3>1, <4>1, <4>4 DEF Paired
      <3> QED BY <3>2, <3>3
    <2> QED BY <2>1, <2>2
  <1>10. \A r \in Open(e) : e.item[r] # None => e.item[r] = d.item[r] /\ r \in Open(d)
    BY <1>6, <1>7 DEF Fewer
  <1>11. e.tradeItems = {e.item[r] : r \in Open(e)} \ {None}
    <2>1. d.tradeItems = {d.item[r] : r \in Open(d)} \ {None}
          /\ e.tradeItems = d.tradeItems \ {d.item[r] : r \in C}
      BY <1>3 DEF Dealt, Closes
    <2>2. ASSUME NEW x \in e.tradeItems PROVE x \in {e.item[r] : r \in Open(e)} \ {None}
      <3>1. PICK r \in Open(d) : x = d.item[r] /\ x # None /\ r \notin C BY <2>1, <2>2
      <3>2. e.item[r] = x /\ r \in Open(e) BY <1>3, <1>6, <3>1 DEF Closes, Open
      <3> QED BY <3>1, <3>2
    <2>3. ASSUME NEW x \in {e.item[r] : r \in Open(e)} \ {None} PROVE x \in e.tradeItems
      <3>1. PICK r \in Open(e) : x = e.item[r] /\ x # None BY <2>3
      <3>2. r \in Open(d) /\ d.item[r] = x BY <1>10, <3>1
      <3>3. r \notin C BY <1>3, <3>1, <3>2 DEF Closes, Open
      <3>4. \A s \in C : d.item[s] # x BY <1>3, <3>1, <3>2, <3>3 DEF Dealt, Apart
      <3> QED BY <2>1, <3>1, <3>2, <3>4
    <2> QED BY <2>2, <2>3
  <1>12. Dealt(e, par, pos)
    <2>1. \A r \in Open(e) : e.item[r] # None => InReach(r, e.item[r], par, pos)
      BY <1>10 DEF Dealt
    <2>2. \A r, s \in Open(e) : r # s /\ e.item[r] # None /\ e.item[s] # None => Apart(e.item[r], e.item[s], par)
      BY <1>10 DEF Dealt
    <2> QED BY <1>4, <1>9, <1>11, <2>1, <2>2 DEF Dealt
  <1> QED BY <1>2, <1>7, <1>8, <1>12

LEMMA CloseTradesKeeps ==
    ASSUME NEW d, NEW par, NEW pos, Dealt(d, par, pos), NEW P \in SUBSET Player, NEW concerned
    PROVE  LET e == CloseTrades(P, d, concerned)
           IN /\ Dealt(e, par, pos) /\ Fewer(d, e)
              /\ \A r \in P \cap Open(d) : e.item[r] # None => d.item[r] \notin concerned
  <1> DEFINE Q == {p \in P : d.item[p] \in concerned}
  <1>1. PICK e : e = Close(Q, d) OBVIOUS
  <1>2. Dealt(e, par, pos) /\ Fewer(d, e) /\ \A r \in Q \cap Open(d) : e.item[r] = None
    BY <1>1, CloseKeeps
  <1> QED BY <1>1, <1>2 DEF CloseTrades

LEMMA FewerTrans ==
    ASSUME NEW d, NEW e, NEW f, Fewer(d, e), Fewer(e, f)
    PROVE  Fewer(d, f)
  BY DEF Fewer

-----------------------------------------------------------------------------
(***************************************************************************)
(* Trades: what the notifications of a change close.                       *)
(***************************************************************************)
LEMMA PlaceSame == \A i, par : Place(i, par) = PlaceAt(i, par, position)
  BY DEF Place, PlaceAt

LEMMA HoldersAreContainers ==
    ASSUME NEW par \in Parents, NEW i \in Item, NEW k \in Item, IsHolding(k, i, par)
    PROVE  k \in Container /\ k \in Above(i, par)
  <1>1. k \in Above(i, par) BY DEF IsHolding
  <1>2. k \in Cylinder BY <1>1, AboveClosed
  <1> QED BY <1>1, <1>2, CylinderParts

\* Items that lie in each other are in one place.
LEMMA SamePlace ==
    ASSUME NEW par \in Parents, NEW i \in Item, NEW o \in Item,
           o = i \/ IsHolding(o, i, par) \/ IsHolding(i, o, par)
    PROVE  TopParent(o, par) = TopParent(i, par) /\ Place(o, par) = Place(i, par)
  <1>1. CASE o = i BY <1>1
  <1>2. CASE IsHolding(o, i, par)
    <2>1. TopParent(o, par) = TopParent(i, par) BY <1>2, HoldersAreContainers, SameRoot
    <2> QED BY <2>1 DEF Place
  <1>3. CASE IsHolding(i, o, par)
    <2>1. TopParent(o, par) = TopParent(i, par) BY <1>3, HoldersAreContainers, SameRoot
    <2> QED BY <2>1 DEF Place
  <1> QED BY <1>1, <1>2, <1>3

\* Who has offered an item is the one who carries it, and near it in any case.
LEMMA InReachNear ==
    ASSUME NEW par, NEW o, NEW r \in Player, InReach(r, o, par, position)
    PROVE  /\ Near(r, Place(o, par), 1) /\ Near(r, Place(o, par), 2)
           /\ TopParent(o, par) \in Player => TopParent(o, par) = r
  <1>1. TopParent(o, par) \in {r} \cup Tile /\ InRange(position[r], PlaceAt(o, par, position), 1)
    BY DEF InReach
  <1>2. InRange(position[r], Place(o, par), 1) BY <1>1, PlaceSame
  <1>3. InRange(position[r], Place(o, par), 2)
    <2>1. PICK z : z = position[r] - Place(o, par) OBVIOUS
    <2>2. z \in -1 .. 1 BY <1>2, <2>1 DEF InRange
    <2>3. z \in -2 .. 2 BY <2>2
    <2> QED BY <2>1, <2>3 DEF InRange
  <1>4. TopParent(o, par) \in Player => TopParent(o, par) = r BY <1>1, CylinderParts
  <1> QED BY <1>2, <1>3, <1>4 DEF Near

LEMMA OnRemoveKeeps ==
    ASSUME NEW par \in Parents, Acyclic(par), NEW d, Dealt(d, par, position), NEW i \in Item
    PROVE  LET e == OnRemove(i, par, d)
           IN /\ Dealt(e, par, position) /\ Fewer(d, e)
              /\ \A r \in Open(d) : e.item[r] # None => Apart(e.item[r], i, par)
  <1>1. PICK g : g = par[i] OBVIOUS
  <1>2. g \in Cylinder BY <1>1 DEF Parents
  <1>3. d \in Deal BY DEF Dealt
  <1> DEFINE Concerned(o) == o = i \/ IsHolding(o, i, par) \/ IsHolding(i, o, par)
  <1>4. ASSUME NEW P \in SUBSET Player, NEW S,
               \A r \in Open(d) : d.item[r] # None /\ Concerned(d.item[r]) => r \in P /\ d.item[r] \in S,
               OnRemove(i, par, d) = CloseTrades(P, d, S)
        PROVE  LET e == OnRemove(i, par, d)
               IN /\ Dealt(e, par, position) /\ Fewer(d, e)
                  /\ \A r \in Open(d) : e.item[r] # None => Apart(e.item[r], i, par)
    <2>1. PICK e : e = OnRemove(i, par, d) OBVIOUS
    <2>2. /\ Dealt(e, par, position) /\ Fewer(d, e)
          /\ \A r \in P \cap Open(d) : e.item[r] # None => d.item[r] \notin S
      BY <1>4, <2>1, CloseTradesKeeps
    <2>3. ASSUME NEW r \in Open(d), e.item[r] # None PROVE Apart(e.item[r], i, par)
      <3>1. e.item[r] = d.item[r] BY <2>2, <2>3 DEF Fewer
      <3>2. ~Concerned(d.item[r]) BY <1>4, <2>2, <2>3, <3>1
      <3> QED BY <3>1, <3>2 DEF Apart
    <2> QED BY <2>1, <2>2, <2>3
  <1>5. ASSUME NEW r \in Open(d), d.item[r] # None, Concerned(d.item[r])
        PROVE  /\ r \in Player /\ d.item[r] \in Item /\ InReach(r, d.item[r], par, position)
               /\ TopParent(d.item[r], par) = TopParent(i, par) /\ Place(d.item[r], par) = Place(i, par)
    <2>1. r \in Player BY DEF Open
    <2>2. d.item[r] \in Item BY <1>3, <1>5, <2>1, DealParts
    <2>3. InReach(r, d.item[r], par, position) BY <1>5 DEF Dealt
    <2> QED BY <1>5, <2>1, <2>2, <2>3, SamePlace
  <1>6. CASE g \in Player
    <2> DEFINE S == {o \in Item : CheckTradeState(i, o, par) \/ IsHolding(i, o, par)}
    <2>1. OnRemove(i, par, d) = CloseTrades({g}, d, S) BY <1>1, <1>6 DEF OnRemove
    <2>2. TopParent(i, par) = g
      <3>1. g \in Above(i, par) /\ g \notin Item BY <1>1, <1>6, AboveClosed, CylinderParts
      <3> QED BY <3>1, RootEffect
    <2>3. ASSUME NEW r \in Open(d), d.item[r] # None, Concerned(d.item[r])
          PROVE  r \in {g} /\ d.item[r] \in S
      <3>1. r = g BY <1>5, <1>6, <2>2, <2>3, InReachNear
      <3> QED BY <1>5, <2>3, <3>1 DEF CheckTradeState
    <2>4. PICK P \in SUBSET Player : P = {g} BY <1>6
    <2>5. PICK T : T = S OBVIOUS
    <2> HIDE DEF S, Concerned
    <2> QED BY <1>4, <2>1, <2>3, <2>4, <2>5
  <1>7. CASE g \in Item
    <2> DEFINE S == {o \in Item : CheckTradeState(i, o, par) \/ (par[o] # g /\ IsHolding(g, o, par))}
    <2>1. OnRemove(i, par, d) = CloseTrades(Spectators(g, par), d, S)
      BY <1>1, <1>7, CylinderParts DEF OnRemove
    <2>2. g \in Container BY <1>2, <1>7, CylinderParts
    <2>3. IsHolding(g, i, par) BY <1>1, AboveClosed DEF IsHolding
    <2>4. Place(i, par) = Place(g, par) BY <1>7, <2>3, SamePlace
    <2>5. ASSUME NEW r \in Open(d), d.item[r] # None, Concerned(d.item[r])
          PROVE  r \in Spectators(g, par) /\ d.item[r] \in S
      <3>1. PICK o \in Item : o = d.item[r] BY <1>5, <2>5
      <3>2. r \in Spectators(g, par) BY <1>5, <2>4, <2>5, InReachNear DEF Spectators
      <3>3. CASE o = i \/ IsHolding(o, i, par) BY <3>1, <3>2, <3>3 DEF CheckTradeState
      <3>4. CASE IsHolding(i, o, par)
        <4>1. i \in Container /\ i \in Above(o, par) BY <3>4, HoldersAreContainers
        <4>2. g \in Above(o, par) BY <1>1, <4>1, AboveTrans, AboveClosed
        <4>3. par[o] # g
          <5> SUFFICES ASSUME par[o] = g PROVE FALSE
              OBVIOUS
          <5>1. i = g \/ i \in Above(g, par) BY <2>2, <4>1, AboveUnfold
          <5>2. Above(g, par) \subseteq Above(i, par) BY <2>2, <2>3, AboveTrans DEF IsHolding
          <5>3. i \in Above(i, par) BY <2>3, <5>1, <5>2 DEF IsHolding
          <5> QED BY <4>1, <5>3 DEF Acyclic
        <4> QED BY <3>1, <3>2, <4>2, <4>3 DEF IsHolding
      <3> QED BY <2>5, <3>1, <3>3, <3>4
    <2>6. PICK P \in SUBSET Player : P = Spectators(g, par) BY DEF Spectators
    <2>7. PICK T : T = S OBVIOUS
    <2> HIDE DEF S, Concerned
    <2> QED BY <1>4, <2>1, <2>5, <2>6, <2>7
  <1>8. CASE g \notin Player /\ g \notin Item
    <2> DEFINE S == {o \in Item : CheckTradeState(i, o, par) \/ IsHolding(i, o, par)}
    <2>1. OnRemove(i, par, d) = CloseTrades(Player, d, S) BY <1>1, <1>8 DEF OnRemove
    <2>2. ASSUME NEW r \in Open(d), d.item[r] # None, Concerned(d.item[r])
          PROVE  r \in Player /\ d.item[r] \in S
      BY <1>5, <2>2 DEF CheckTradeState
    <2>3. PICK T : T = S OBVIOUS
    <2> HIDE DEF S, Concerned
    <2> QED BY <1>4, <2>1, <2>2, <2>3
  <1> QED BY <1>6, <1>7, <1>8

\* Where nothing moves that an offer concerns, the offers stay as they are.
LEMMA DealtFrame ==
    ASSUME NEW par \in Parents, NEW qar \in Parents, NEW i \in Item, MovesOnly(i, par, qar),
           NEW d, NEW pos, Dealt(d, par, pos),
           \A r \in Open(d) : d.item[r] # None => d.item[r] # i /\ ~IsHolding(i, d.item[r], par)
    PROVE  Dealt(d, qar, pos)
  <1>1. ASSUME NEW r \in Open(d), d.item[r] # None
        PROVE  /\ Above(d.item[r], qar) = Above(d.item[r], par)
               /\ TopParent(d.item[r], qar) = TopParent(d.item[r], par)
    <2>1. d.item[r] \in Item BY <1>1, DealParts DEF Dealt, Open
    <2>2. Above(d.item[r], qar) = Above(d.item[r], par) BY <1>1, <2>1, AboveFrame DEF IsHolding
    <2> QED BY <2>2 DEF TopParent
  <1>2. \A r \in Open(d) : d.item[r] # None => InReach(r, d.item[r], qar, pos)
    BY <1>1 DEF Dealt, InReach, PlaceAt
  <1>3. \A r, s \in Open(d) : r # s /\ d.item[r] # None /\ d.item[s] # None => Apart(d.item[r], d.item[s], qar)
    BY <1>1 DEF Dealt, Apart, IsHolding
  <1> QED BY <1>2, <1>3 DEF Dealt

LEMMA OnAddKeeps ==
    ASSUME NEW par \in Parents, NEW qar \in Parents, NEW i \in Item, MovesOnly(i, par, qar),
           NEW d, Dealt(d, par, position),
           \A r \in Open(d) : d.item[r] # None => Apart(d.item[r], i, par)
    PROVE  LET e == OnAdd(i, qar, d)
           IN /\ Dealt(e, qar, position) /\ Fewer(d, e)
              /\ \A r \in Open(d) : e.item[r] # None => ~IsHolding(e.item[r], i, qar)
  <1>1. Dealt(d, qar, position) BY DealtFrame DEF Apart
  <1>2. PICK g : g = qar[i] OBVIOUS
  <1>3. g \in Cylinder BY <1>2 DEF Parents
  <1>4. ASSUME NEW r \in Open(d), d.item[r] # None
        PROVE  r \in Player /\ d.item[r] \in Item /\ InReach(r, d.item[r], qar, position)
    BY <1>1, <1>4, DealParts DEF Dealt, Open
  <1>5. CASE g \in Item
    <2>1. g \in Container BY <1>3, <1>5, CylinderParts
    <2> DEFINE S == {o \in Item : CheckTradeState(i, o, qar)}
    <2>2. OnAdd(i, qar, d) = CloseTrades(Spectators(g, qar), d, S) BY <1>2, <1>5 DEF OnAdd
    <2>3. PICK e : e = OnAdd(i, qar, d) OBVIOUS
    <2>4. PICK P \in SUBSET Player : P = Spectators(g, qar) BY DEF Spectators
    <2>5. PICK T : T = S OBVIOUS
    <2>6. e = CloseTrades(P, d, T) BY <2>2, <2>3, <2>4, <2>5
    <2>7. /\ Dealt(e, qar, position) /\ Fewer(d, e)
          /\ \A r \in P \cap Open(d) : e.item[r] # None => d.item[r] \notin T
      BY <1>1, <2>6, CloseTradesKeeps
    <2>8. ASSUME NEW r \in Open(d), e.item[r] # None, IsHolding(e.item[r], i, qar) PROVE FALSE
      <3>1. PICK o : o = e.item[r] OBVIOUS
      <3>2. o = d.item[r] /\ o # None BY <2>7, <2>8, <3>1 DEF Fewer
      <3>3. r \in Player /\ o \in Item /\ InReach(r, o, qar, position) BY <1>4, <3>2
      <3>4. IsHolding(g, i, qar) BY <1>2, AboveClosed DEF IsHolding
      <3>5. Place(o, qar) = Place(g, qar)
        <4>1. Place(o, qar) = Place(i, qar) BY <2>8, <3>1, <3>3, SamePlace
        <4>2. Place(g, qar) = Place(i, qar) BY <1>5, <3>4, SamePlace
        <4> QED BY <4>1, <4>2
      <3>6. r \in Spectators(g, qar) BY <3>3, <3>5, InReachNear DEF Spectators
      <3>7. o \in S BY <2>8, <3>1, <3>3 DEF CheckTradeState
      <3> QED BY <2>4, <2>5, <2>7, <2>8, <3>2, <3>6, <3>7
    <2> QED BY <2>3, <2>7, <2>8
  <1>6. CASE g \notin Item
    <2>1. OnAdd(i, qar, d) = d BY <1>2, <1>6 DEF OnAdd
    <2>2. Above(i, qar) = {g} BY <1>2, <1>6, AboveUnfold, CylinderParts
    <2>3. \A r \in Open(d) : d.item[r] # None => ~IsHolding(d.item[r], i, qar)
      BY <1>4, <1>6, <2>2 DEF IsHolding
    <2>4. Fewer(d, d) BY DEF Fewer
    <2> QED BY <1>1, <2>1, <2>3, <2>4
  <1> QED BY <1>5, <1>6

\* Item i moves to g: no offer that is left has anything to do with it.
LEMMA OnMoveKeeps ==
    ASSUME NEW par \in Parents, Acyclic(par), NEW d, Dealt(d, par, position), NEW i \in Item,
           NEW g, MayHold(g, i, par)
    PROVE  LET qar == [par EXCEPT ![i] = g]
               e == OnMove(i, g, par, d)
           IN /\ qar \in Parents /\ Acyclic(qar) /\ MovesOnly(i, par, qar)
              /\ Dealt(e, qar, position) /\ Fewer(d, e)
              /\ \A r \in Open(d) : e.item[r] # None =>
                    Apart(e.item[r], i, par) /\ ~IsHolding(e.item[r], i, qar)
  <1>1. PICK qar : qar = [par EXCEPT ![i] = g] OBVIOUS
  <1>2. qar \in Parents /\ Acyclic(qar) BY <1>1, MoveAcyclic
  <1>3. MovesOnly(i, par, qar) BY <1>1 DEF MovesOnly, Parents
  <1>4. PICK f : f = OnRemove(i, par, d) OBVIOUS
  <1>5. /\ Dealt(f, par, position) /\ Fewer(d, f)
        /\ \A r \in Open(d) : f.item[r] # None => Apart(f.item[r], i, par)
    BY <1>4, OnRemoveKeeps
  <1>6. Open(f) = Open(d) BY <1>5 DEF Fewer
  <1>7. PICK e : e = OnAdd(i, qar, f) OBVIOUS
  <1>8. /\ Dealt(e, qar, position) /\ Fewer(f, e)
        /\ \A r \in Open(f) : e.item[r] # None => ~IsHolding(e.item[r], i, qar)
    BY <1>2, <1>3, <1>5, <1>6, <1>7, OnAddKeeps
  <1>9. e = OnMove(i, g, par, d) BY <1>1, <1>4, <1>7 DEF OnMove
  <1>10. Fewer(d, e) BY <1>5, <1>8, FewerTrans
  <1>11. \A r \in Open(d) : e.item[r] # None => Apart(e.item[r], i, par)
    BY <1>5, <1>6, <1>8 DEF Fewer
  <1> QED BY <1>1, <1>2, <1>3, <1>6, <1>8, <1>9, <1>10, <1>11

LEMMA OnUpdateKeeps ==
    ASSUME NEW par \in Parents, NEW d, Dealt(d, par, position), NEW i \in Item
    PROVE  LET e == OnUpdate(i, par, d)
           IN /\ Dealt(e, par, position) /\ Fewer(d, e)
              /\ \A r \in Open(d) : e.item[r] # None => e.item[r] # i /\ ~IsHolding(e.item[r], i, par)
  <1>1. PICK g : g = par[i] OBVIOUS
  <1>2. g \in Cylinder BY <1>1 DEF Parents
  <1>3. d \in Deal BY DEF Dealt
  <1> DEFINE Concerned(o) == o = i \/ IsHolding(o, i, par)
  <1>4. ASSUME NEW P \in SUBSET Player, NEW S,
               \A r \in Open(d) : d.item[r] # None /\ Concerned(d.item[r]) => r \in P /\ d.item[r] \in S,
               OnUpdate(i, par, d) = CloseTrades(P, d, S)
        PROVE  LET e == OnUpdate(i, par, d)
               IN /\ Dealt(e, par, position) /\ Fewer(d, e)
                  /\ \A r \in Open(d) : e.item[r] # None => e.item[r] # i /\ ~IsHolding(e.item[r], i, par)
    <2>1. PICK e : e = OnUpdate(i, par, d) OBVIOUS
    <2>2. /\ Dealt(e, par, position) /\ Fewer(d, e)
          /\ \A r \in P \cap Open(d) : e.item[r] # None => d.item[r] \notin S
      BY <1>4, <2>1, CloseTradesKeeps
    <2>3. ASSUME NEW r \in Open(d), e.item[r] # None PROVE ~Concerned(e.item[r])
      <3>1. e.item[r] = d.item[r] BY <2>2, <2>3 DEF Fewer
      <3> QED BY <1>4, <2>2, <2>3, <3>1
    <2> QED BY <2>1, <2>2, <2>3
  <1>5. ASSUME NEW r \in Open(d), d.item[r] # None, Concerned(d.item[r])
        PROVE  /\ r \in Player /\ d.item[r] \in Item /\ InReach(r, d.item[r], par, position)
               /\ TopParent(d.item[r], par) = TopParent(i, par) /\ Place(d.item[r], par) = Place(i, par)
    <2>1. r \in Player BY DEF Open
    <2>2. d.item[r] \in Item BY <1>3, <1>5, <2>1, DealParts
    <2>3. InReach(r, d.item[r], par, position) BY <1>5 DEF Dealt
    <2> QED BY <1>5, <2>1, <2>2, <2>3, SamePlace
  <1>6. CASE g \in Player
    <2> DEFINE S == {o \in Item : CheckTradeState(i, o, par)}
    <2>1. OnUpdate(i, par, d) = CloseTrades({g}, d, S) BY <1>1, <1>6 DEF OnUpdate
    <2>2. TopParent(i, par) = g
      <3>1. g \in Above(i, par) /\ g \notin Item BY <1>1, <1>6, AboveClosed, CylinderParts
      <3> QED BY <3>1, RootEffect
    <2>3. ASSUME NEW r \in Open(d), d.item[r] # None, Concerned(d.item[r])
          PROVE  r \in {g} /\ d.item[r] \in S
      <3>1. r = g BY <1>5, <1>6, <2>2, <2>3, InReachNear
      <3> QED BY <1>5, <2>3, <3>1 DEF CheckTradeState
    <2>4. PICK P \in SUBSET Player : P = {g} BY <1>6
    <2>5. PICK T : T = S OBVIOUS
    <2> HIDE DEF S, Concerned
    <2> QED BY <1>4, <2>1, <2>3, <2>4, <2>5
  <1>7. CASE g \in Item
    <2> DEFINE S == {o \in Item : CheckTradeState(i, o, par)}
    <2>1. OnUpdate(i, par, d) = CloseTrades(Spectators(g, par), d, S)
      BY <1>1, <1>7, CylinderParts DEF OnUpdate
    <2>2. IsHolding(g, i, par) BY <1>1, AboveClosed DEF IsHolding
    <2>3. Place(i, par) = Place(g, par) BY <1>7, <2>2, SamePlace
    <2>4. ASSUME NEW r \in Open(d), d.item[r] # None, Concerned(d.item[r])
          PROVE  r \in Spectators(g, par) /\ d.item[r] \in S
      BY <1>5, <2>3, <2>4, InReachNear DEF Spectators, CheckTradeState
    <2>5. PICK P \in SUBSET Player : P = Spectators(g, par) BY DEF Spectators
    <2>6. PICK T : T = S OBVIOUS
    <2> HIDE DEF S, Concerned
    <2> QED BY <1>4, <2>1, <2>4, <2>5, <2>6
  <1>8. CASE g \notin Player /\ g \notin Item
    <2>1. OnUpdate(i, par, d) = CloseTrades(Player, d, {i}) BY <1>1, <1>8 DEF OnUpdate
    <2>2. Above(i, par) = {g} BY <1>1, <1>8, AboveUnfold, CylinderParts
    <2>3. ASSUME NEW r \in Open(d), d.item[r] # None, Concerned(d.item[r])
          PROVE  r \in Player /\ d.item[r] \in {i}
      BY <1>5, <1>8, <2>2, <2>3 DEF IsHolding
    <2>4. PICK T : T = {i} OBVIOUS
    <2> HIDE DEF Concerned
    <2> QED BY <1>4, <2>1, <2>3, <2>4
  <1> QED BY <1>6, <1>7, <1>8

-----------------------------------------------------------------------------
(***************************************************************************)
(* Trades: room, and what was shown of an offer.                           *)
(***************************************************************************)
RoomKept(par) ==
    /\ \A p \in Player : Cardinality(In(p, par)) <= Slots
    /\ \A g \in Container : Cardinality(In(g, par)) <= Capacity

\* There is a place for one more in g.
HasPlace(g, par) ==
    /\ g \in Player => Cardinality(In(g, par)) < Slots
    /\ g \in Container => Cardinality(In(g, par)) < Capacity

LEMMA InFinite ==
    ASSUME NEW g, NEW par
    PROVE  In(g, par) \in SUBSET Item /\ IsFiniteSet(In(g, par)) /\ Cardinality(In(g, par)) \in Nat
  <1>1. In(g, par) \in SUBSET Item BY DEF In
  <1>2. IsFiniteSet(In(g, par)) BY <1>1, TradeAssumption, FS_Subset
  <1> QED BY <1>1, <1>2, FS_CardinalityType

LEMMA FewerIn ==
    ASSUME NEW g, NEW par, NEW qar, In(g, qar) \subseteq In(g, par)
    PROVE  Cardinality(In(g, qar)) <= Cardinality(In(g, par))
  BY InFinite, FS_Subset

LEMMA RoomMove ==
    ASSUME NEW par \in Parents, RoomKept(par), NEW i \in Item, NEW g \in Cylinder, HasPlace(g, par)
    PROVE  RoomKept([par EXCEPT ![i] = g])
  <1>1. PICK qar : qar = [par EXCEPT ![i] = g] OBVIOUS
  <1>2. qar[i] = g /\ \A x \in Item : x # i => qar[x] = par[x] BY <1>1 DEF Parents
  <1>3. Slots \in Nat /\ Capacity \in Nat BY TradeAssumption
  <1>4. ASSUME NEW e PROVE Cardinality(In(e, qar)) <= Cardinality(In(e, par)) + (IF e = g THEN 1 ELSE 0)
    <2>1. PICK m : m = Cardinality(In(e, qar)) OBVIOUS
    <2>2. PICK n : n = Cardinality(In(e, par)) OBVIOUS
    <2>3. m \in Nat /\ n \in Nat BY <2>1, <2>2, InFinite
    <2>4. CASE e = g
      <3>1. PICK S : S = In(e, par) \cup {i} OBVIOUS
      <3>2. In(e, qar) \in SUBSET S BY <1>2, <3>1 DEF In
      <3>3. IsFiniteSet(S) /\ Cardinality(S) \in {n, n + 1} BY <2>2, <3>1, InFinite, FS_AddElement
      <3>4. m <= Cardinality(S) BY <2>1, <3>2, <3>3, FS_Subset
      <3> QED BY <2>1, <2>2, <2>3, <2>4, <3>3, <3>4
    <2>5. CASE e # g
      <3>1. In(e, qar) \subseteq In(e, par) BY <1>2, <2>5 DEF In
      <3>2. m <= n BY <2>1, <2>2, <3>1, FewerIn
      <3> QED BY <2>1, <2>2, <2>3, <2>5, <3>2
    <2> QED BY <2>4, <2>5
  <1>5. ASSUME NEW p \in Player PROVE Cardinality(In(p, qar)) <= Slots
    <2>1. Cardinality(In(p, qar)) \in Nat /\ Cardinality(In(p, par)) \in Nat BY InFinite
    <2>2. CASE p = g BY <1>3, <1>4, <2>1, <2>2 DEF HasPlace
    <2>3. CASE p # g
      <3>1. Cardinality(In(p, qar)) <= Cardinality(In(p, par)) BY <1>4, <2>1, <2>3
      <3> QED BY <1>3, <2>1, <3>1 DEF RoomKept
    <2> QED BY <2>2, <2>3
  <1>6. ASSUME NEW e \in Container PROVE Cardinality(In(e, qar)) <= Capacity
    <2>1. Cardinality(In(e, qar)) \in Nat /\ Cardinality(In(e, par)) \in Nat BY InFinite
    <2>2. CASE e = g BY <1>3, <1>4, <2>1, <2>2 DEF HasPlace
    <2>3. CASE e # g
      <3>1. Cardinality(In(e, qar)) <= Cardinality(In(e, par)) BY <1>4, <2>1, <2>3
      <3> QED BY <1>3, <2>1, <3>1 DEF RoomKept
    <2> QED BY <2>2, <2>3
  <1> QED BY <1>1, <1>5, <1>6 DEF RoomKept

\* An item that a call puts away goes where it may and where there is room.
LEMMA DestinationEffect ==
    ASSUME NEW p \in Player, NEW i \in Item, NEW par, NEW g \in Destinations(p, i, par)
    PROVE  /\ MayHold(g, i, par) /\ HasPlace(g, par)
           /\ g = p \/ (g \in Container /\ p \in Above(g, par))
  <1>1. CASE Cardinality(In(p, par)) < Slots
    <2>1. g = p BY <1>1 DEF Destinations
    <2>2. p \notin Container BY CylinderParts
    <2> QED BY <1>1, <2>1, <2>2 DEF MayHold, HasPlace, Cylinder
  <1>2. CASE ~(Cardinality(In(p, par)) < Slots)
    <2>1. /\ g \in Container /\ IsHolding(p, g, par) /\ Cardinality(In(g, par)) < Capacity
          /\ g # i /\ ~IsHolding(i, g, par)
      BY <1>2 DEF Destinations, Searched, SearchedAll
    <2>2. g \notin Player BY <2>1, CylinderParts
    <2> QED BY <2>1, <2>2 DEF MayHold, HasPlace, Cylinder, IsHolding
  <1> QED BY <1>1, <1>2

Content(o, par) == {k \in Item : k = o \/ IsHolding(o, k, par)}
ShownIn(o, par, ver) == {<<k, par[k], ver[k]>> : k \in Content(o, par)}

LEMMA ShownMove ==
    ASSUME NEW par \in Parents, NEW qar \in Parents, NEW i \in Item, MovesOnly(i, par, qar),
           NEW o \in Item, Apart(o, i, par), ~IsHolding(o, i, qar), NEW ver
    PROVE  ShownIn(o, qar, ver) = ShownIn(o, par, ver)
  <1>1. ASSUME NEW k \in Item PROVE k \in Content(o, qar) <=> k \in Content(o, par)
    <2>1. CASE k = i BY <2>1 DEF Content, Apart
    <2>2. CASE k # i /\ i \notin Above(k, par)
      <3>1. Above(k, qar) = Above(k, par) BY <2>2, AboveFrame
      <3> QED BY <3>1 DEF Content, IsHolding
    <2>3. CASE k # i /\ i \in Above(k, par)
      <3>1. i \in Above(k, qar) BY <2>3, AboveFrameBack
      <3>2. k # o BY <2>3 DEF Apart, IsHolding
      <3>3. o \notin Above(k, par) BY <2>3, AboveChain DEF Apart, IsHolding
      <3>4. i \notin Above(o, qar) BY AboveFrameBack DEF Apart, IsHolding
      <3>5. o \notin Above(k, qar) BY <3>1, <3>4, AboveChain DEF Apart, IsHolding
      <3> QED BY <3>2, <3>3, <3>5 DEF Content, IsHolding
    <2> QED BY <2>1, <2>2, <2>3
  <1>2. Content(o, qar) = Content(o, par) BY <1>1 DEF Content
  <1>3. \A k \in Content(o, par) : k \in Item /\ k # i BY DEF Content, Apart
  <1> QED BY <1>2, <1>3 DEF ShownIn, MovesOnly

-----------------------------------------------------------------------------
(***************************************************************************)
(* Trades: the inductive invariant and the handlers.                       *)
(***************************************************************************)
TradeInv ==
    /\ Dealt(deal, parent, position) /\ Open(deal) = Player
    /\ parent \in Parents /\ Acyclic(parent) /\ RoomKept(parent)
    /\ position \in [Player -> Street]

\* What is still on offer is what was shown.
Stands == \A r \in Player : deal.item[r] # None /\ deal'.item[r] = deal.item[r] =>
              ShownIn(deal.item[r], parent', version') = ShownIn(deal.item[r], parent, version)

LEMMA TradeInit == Init => TradeInv
  <1> SUFFICES ASSUME Init PROVE TradeInv
      OBVIOUS
  <1>1. PICK x \in Tile : position = [p \in Player |-> x] /\ parent = [i \in Item |-> x]
    BY DEF Init
  <1>2. position \in [Player -> Street] BY <1>1, TradeAssumption
  <1>3. parent \in Parents /\ \A i \in Item : parent[i] = x BY <1>1 DEF Parents, Cylinder
  <1>4. x \notin Item /\ x \notin Player /\ x \notin Container BY CylinderParts
  <1>5. \A k \in Container : Above(k, parent) = {x} BY <1>3, <1>4, AboveUnfold, CylinderParts
  <1>6. Acyclic(parent) BY <1>4, <1>5, CylinderParts DEF Acyclic
  <1>7. RoomKept(parent)
    <2>1. \A g \in Player \cup Container : In(g, parent) = {} BY <1>3, <1>4, CylinderParts DEF In
    <2>2. Cardinality({}) = 0 BY FS_EmptySet
    <2>3. Slots \in Nat /\ Capacity \in Nat BY TradeAssumption
    <2> QED BY <2>1, <2>2, <2>3 DEF RoomKept
  <1>8. /\ deal \in Deal
        /\ \A p \in Player : deal.state[p] = "none" /\ deal.partner[p] = None /\ deal.item[p] = None
        /\ deal.tradeItems = {}
    BY DEF Init, NoDeal, Deal
  <1>9. Open(deal) = Player BY <1>8 DEF Open
  <1>10. Dealt(deal, parent, position) BY <1>8, <1>9 DEF Dealt, Paired
  <1> QED BY <1>2, <1>3, <1>6, <1>7, <1>9, <1>10 DEF TradeInv

LEMMA ReachesSame == \A p, i : Reaches(p, i) <=> InReach(p, i, parent, position)
  BY PlaceSame DEF Reaches, InReach, Near

LEMMA RequestStep ==
    ASSUME TradeInv, NEW p \in Player, NEW q \in Player, NEW i \in Item, RequestTrade(p, q, i)
    PROVE  TradeInv' /\ Stands
  <1>1. /\ Dealt(deal, parent, position) /\ Open(deal) = Player /\ deal \in Deal
        /\ \A r \in Player : Paired(r, deal, position)
        /\ parent' = parent /\ position' = position /\ version' = version
    BY DEF TradeInv, Dealt, RequestTrade
  <1>2. /\ p # q /\ InRange(position[p], position[q], 2) /\ InReach(p, i, parent, position)
        /\ ~Offered(i) /\ MayTrade(p, q)
    BY ReachesSame DEF RequestTrade, Near
  <1>3. /\ deal.state[p] = "none" \/ (deal.state[p] = "acknowledge" /\ deal.partner[p] = q)
        /\ deal.state[q] = "none" \/ deal.partner[q] = p
    BY <1>2 DEF MayTrade
  <1>4. p # None /\ q # None /\ i # None BY CylinderParts
  <1>5. deal.item[p] = None BY <1>1, <1>3 DEF Paired
  <1>6. deal.state[p] = "none" => deal.state[q] = "none" /\ deal.partner[q] = None
    BY <1>1, <1>3, <1>4 DEF Paired
  <1>7. deal.state[p] = "acknowledge" => deal.partner[q] = p /\ deal.state[q] # "none"
    BY <1>1, <1>3, <1>4 DEF Paired
  <1>8. PICK e : e = deal' OBVIOUS
  <1>9. e = [deal EXCEPT !.state[p] = "initiated",
                         !.state[q] = IF deal.state[q] = "none" THEN "acknowledge" ELSE deal.state[q],
                         !.partner[p] = q,
                         !.partner[q] = IF deal.state[q] = "none" THEN p ELSE deal.partner[q],
                         !.item[p] = i,
                         !.tradeItems = deal.tradeItems \cup {i}]
    BY <1>1, <1>2, <1>8, DealParts DEF RequestTrade, StartTrade
  <1>10. /\ e.state = [deal.state EXCEPT ![p] = "initiated",
                           ![q] = IF deal.state[q] = "none" THEN "acknowledge" ELSE deal.state[q]]
         /\ e.partner = [deal.partner EXCEPT ![p] = q,
                             ![q] = IF deal.state[q] = "none" THEN p ELSE deal.partner[q]]
         /\ e.item = [deal.item EXCEPT ![p] = i]
         /\ e.tradeItems = deal.tradeItems \cup {i}
         /\ e = [state |-> e.state, partner |-> e.partner, item |-> e.item, tradeItems |-> e.tradeItems]
    BY <1>1, <1>9 DEF Deal
  <1>11. e \in Deal
    <2>1. e.state \in [Player -> {"none", "initiated", "acknowledge", "accept", "transfer"}]
      BY <1>1, <1>10, DealParts
    <2>2. e.partner \in [Player -> Player \cup {None}] BY <1>1, <1>10, DealParts
    <2>3. e.item \in [Player -> Item \cup {None}] /\ e.tradeItems \in SUBSET Item BY <1>1, <1>10, DealParts
    <2> QED BY <1>10, <2>1, <2>2, <2>3 DEF Deal
  <1>12. /\ e.state[p] = "initiated" /\ e.partner[p] = q /\ e.item[p] = i
         /\ e.state[q] = IF deal.state[q] = "none" THEN "acknowledge" ELSE deal.state[q]
         /\ e.partner[q] = p /\ e.item[q] = deal.item[q]
         /\ \A r \in Player \ {p, q} : /\ e.state[r] = deal.state[r] /\ e.partner[r] = deal.partner[r]
                                       /\ e.item[r] = deal.item[r]
    BY <1>1, <1>2, <1>3, <1>6, <1>7, <1>10, DealParts
  <1>13. ASSUME NEW r \in Player PROVE Paired(r, e, position)
    <2>1. CASE r = p
      <3>1. e.state[q] # "none" BY <1>12
      <3> QED BY <1>2, <1>4, <1>12, <2>1 DEF Paired
    <2>2. CASE r = q
      <3>1. InRange(position[q], position[p], 2)
        <4>1. position[p] \in Nat /\ position[q] \in Nat BY TradeAssumption DEF TradeInv
        <4> QED BY <1>2, <4>1 DEF InRange
      <3>2. deal.state[q] # "transfer" BY <1>1 DEF Open
      <3>3. CASE deal.state[q] = "none"
        <4>1. deal.item[q] = None BY <1>1, <3>3 DEF Paired
        <4> QED BY <1>2, <1>4, <1>12, <2>2, <3>1, <3>3, <4>1 DEF Paired
      <3>4. CASE deal.state[q] # "none"
        <4>1. deal.state[q] = "acknowledge" => deal.item[q] = None BY <1>1 DEF Paired
        <4> QED BY <1>2, <1>4, <1>12, <2>2, <3>1, <3>2, <3>4, <4>1 DEF Paired
      <3> QED BY <3>3, <3>4
    <2>3. CASE r # p /\ r # q
      <3>1. e.state[r] = deal.state[r] /\ e.partner[r] = deal.partner[r] /\ e.item[r] = deal.item[r]
        BY <1>12, <2>3
      <3>2. Paired(r, deal, position) BY <1>1
      <3>3. CASE deal.partner[r] = None BY <3>1, <3>2, <3>3 DEF Paired
      <3>4. CASE deal.partner[r] # None
        <4>1. PICK s \in Player : s = deal.partner[r] BY <1>1, <3>4, DealParts
        <4>2. deal.partner[s] = r /\ r # None BY <3>2, <3>4, <4>1, CylinderParts DEF Paired
        <4>3. s # p
          <5>1. CASE deal.state[p] = "none"
            <6>1. deal.partner[p] = None BY <1>1, <5>1 DEF Paired
            <6> QED BY <4>2, <6>1
          <5>2. CASE deal.state[p] # "none" BY <1>3, <2>3, <4>2, <5>2
          <5> QED BY <5>1, <5>2
        <4>4. s # q
          <5>1. CASE deal.state[q] = "none"
            <6>1. deal.partner[q] = None BY <1>1, <5>1 DEF Paired
            <6> QED BY <4>2, <6>1
          <5>2. CASE deal.state[q] # "none" BY <1>3, <2>3, <4>2, <5>2
          <5> QED BY <5>1, <5>2
        <4>5. e.state[s] = deal.state[s] /\ e.partner[s] = deal.partner[s] BY <1>12, <4>3, <4>4
        <4> QED BY <3>1, <3>2, <4>1, <4>5 DEF Paired
      <3> QED BY <3>3, <3>4
    <2> QED BY <2>1, <2>2, <2>3
  <1>14. \A r \in Player : r # p => e.item[r] = deal.item[r] BY <1>12
  <1>15. Open(e) = Player
    <2>1. ASSUME NEW r \in Player PROVE e.state[r] # "transfer"
      <3>1. deal.state[r] # "transfer" BY <1>1 DEF Open
      <3> QED BY <1>12, <3>1
    <2> QED BY <2>1 DEF Open
  <1>16. e.tradeItems = {e.item[r] : r \in Open(e)} \ {None}
    <2>1. deal.tradeItems = {deal.item[r] : r \in Player} \ {None} BY <1>1 DEF Dealt
    <2> QED BY <1>4, <1>5, <1>10, <1>12, <1>14, <1>15, <2>1
  <1>17. \A r \in Player : deal.item[r] # None => Apart(deal.item[r], i, parent)
    <2>1. \A r \in Player : deal.item[r] # None => deal.item[r] \in deal.tradeItems BY <1>1 DEF Dealt
    <2> QED BY <1>2, <2>1 DEF Offered, Apart
  <1>18. Dealt(e, parent, position)
    <2>1. \A r \in Open(e) : e.item[r] # None => InReach(r, e.item[r], parent, position)
      BY <1>1, <1>2, <1>12, <1>14, <1>15 DEF Dealt
    <2>2. \A r, s \in Open(e) : r # s /\ e.item[r] # None /\ e.item[s] # None => Apart(e.item[r], e.item[s], parent)
      <3> SUFFICES ASSUME NEW r \in Player, NEW s \in Player, r # s, e.item[r] # None, e.item[s] # None
                   PROVE  Apart(e.item[r], e.item[s], parent)
          BY <1>15
      <3>1. CASE r = p BY <1>12, <1>14, <1>17, <3>1 DEF Apart
      <3>2. CASE s = p BY <1>12, <1>14, <1>17, <3>2 DEF Apart
      <3>3. CASE r # p /\ s # p BY <1>1, <1>14, <3>3 DEF Dealt
      <3> QED BY <3>1, <3>2, <3>3
    <2> QED BY <1>11, <1>13, <1>16, <2>1, <2>2 DEF Dealt
  <1>19. TradeInv' BY <1>1, <1>8, <1>15, <1>18 DEF TradeInv
  <1>20. Stands BY <1>1 DEF Stands
  <1> QED BY <1>19, <1>20

\* Nothing moves or changes and trades are closed only.
LEMMA StillStep ==
    ASSUME TradeInv, parent' = parent, version' = version, position' = position,
           Dealt(deal', parent, position), Open(deal') = Player
    PROVE  TradeInv' /\ Stands
  <1>1. TradeInv' BY DEF TradeInv
  <1>2. Stands BY DEF Stands
  <1> QED BY <1>1, <1>2

LEMMA CloseStep ==
    ASSUME TradeInv, NEW p \in Player, deal' = CloseTrade(p, deal),
           parent' = parent, version' = version, position' = position
    PROVE  TradeInv' /\ Stands
  <1>1. PICK P \in SUBSET Player : P = {p} OBVIOUS
  <1>2. deal' = Close(P, deal) BY <1>1 DEF CloseTrade
  <1>3. Dealt(deal, parent, position) /\ Open(deal) = Player BY DEF TradeInv
  <1>4. Dealt(deal', parent, position) /\ Fewer(deal, deal') BY <1>2, <1>3, CloseKeeps
  <1>5. Open(deal') = Player BY <1>3, <1>4 DEF Fewer
  <1> QED BY <1>4, <1>5, StillStep

\* Who may accept has a partner, who names him.
LEMMA AcceptsEffect ==
    ASSUME TradeInv, NEW p \in Player, Accepts(p)
    PROVE  LET q == deal.partner[p]
           IN /\ deal \in Deal /\ q \in Player /\ q # p /\ deal.partner[q] = p /\ deal.state[q] # "none"
              /\ InRange(position[p], position[q], 2) /\ InRange(position[q], position[p], 2)
  <1>1. deal \in Deal /\ Paired(p, deal, position) /\ deal.partner[p] # None
    BY DEF TradeInv, Dealt, Accepts
  <1>2. PICK q \in Player : q = deal.partner[p] BY <1>1, DealParts
  <1>3. q # p /\ deal.partner[q] = p /\ InRange(position[p], position[q], 2)
    BY <1>1, <1>2 DEF Paired
  <1>4. Paired(q, deal, position) /\ p # None BY CylinderParts DEF TradeInv, Dealt
  <1>5. deal.state[q] # "none" /\ InRange(position[q], position[p], 2) BY <1>3, <1>4 DEF Paired
  <1> QED BY <1>1, <1>2, <1>3, <1>5

LEMMA AcceptFirstStep ==
    ASSUME TradeInv, NEW p \in Player, AcceptFirst(p)
    PROVE  TradeInv' /\ Stands
  <1>1. /\ Dealt(deal, parent, position) /\ Open(deal) = Player /\ deal \in Deal
        /\ \A r \in Player : Paired(r, deal, position)
        /\ parent' = parent /\ position' = position /\ version' = version
    BY DEF TradeInv, Dealt, AcceptFirst
  <1>2. PICK q \in Player : q = deal.partner[p] BY AcceptsEffect DEF AcceptFirst
  <1>3. q # p /\ deal.partner[q] = p /\ deal.state[q] # "none" BY <1>2, AcceptsEffect DEF AcceptFirst
  <1>4. deal.state[p] \in {"acknowledge", "initiated"} /\ deal.state[q] # "accept"
    BY <1>2 DEF AcceptFirst, Accepts
  <1>5. PICK e : e = deal' OBVIOUS
  <1>6. e = [deal EXCEPT !.state[p] = "accept"] BY <1>5 DEF AcceptFirst
  <1>7. /\ e.state = [deal.state EXCEPT ![p] = "accept"] /\ e.partner = deal.partner /\ e.item = deal.item
        /\ e.tradeItems = deal.tradeItems
        /\ e = [state |-> e.state, partner |-> e.partner, item |-> e.item, tradeItems |-> e.tradeItems]
    BY <1>1, <1>6 DEF Deal
  <1>8. e.state \in [Player -> {"none", "initiated", "acknowledge", "accept", "transfer"}]
    BY <1>1, <1>7, DealParts
  <1>9. e \in Deal BY <1>1, <1>7, <1>8, DealParts DEF Deal
  <1>10. e.state[p] = "accept" /\ \A r \in Player : r # p => e.state[r] = deal.state[r]
    BY <1>1, <1>7, DealParts
  <1>11. Open(e) = Player BY <1>1, <1>10 DEF Open
  <1>12. deal.state[q] \in {"initiated", "acknowledge"}
    <2>1. deal.state[q] # "transfer" BY <1>1 DEF Open
    <2>2. deal.state[q] \in {"none", "initiated", "acknowledge", "accept", "transfer"} BY <1>1, DealParts
    <2> QED BY <1>3, <1>4, <2>1, <2>2
  <1>13. ASSUME NEW r \in Player PROVE Paired(r, e, position)
    <2>1. Paired(r, deal, position) BY <1>1
    <2>2. CASE r = p
      <3>1. deal.partner[p] # None BY <1>2, CylinderParts
      <3> QED BY <1>2, <1>3, <1>7, <1>10, <1>12, <2>1, <2>2, <3>1 DEF Paired
    <2>3. CASE r = q BY <1>3, <1>7, <1>10, <1>12, <2>1, <2>3 DEF Paired
    <2>4. CASE r # p /\ r # q
      <3>1. CASE deal.partner[r] = None BY <1>7, <1>10, <2>1, <2>4, <3>1 DEF Paired
      <3>2. CASE deal.partner[r] # None
        <4>1. deal.partner[r] # p BY <1>2, <2>1, <2>4, <3>2 DEF Paired
        <4>2. deal.partner[r] \in Player BY <1>1, <3>2, DealParts
        <4> QED BY <1>7, <1>10, <2>1, <2>4, <4>1, <4>2 DEF Paired
      <3> QED BY <3>1, <3>2
    <2> QED BY <2>2, <2>3, <2>4
  <1>14. Dealt(e, parent, position) BY <1>1, <1>7, <1>9, <1>11, <1>13 DEF Dealt
  <1> QED BY <1>1, <1>5, <1>11, <1>14, StillStep

(***************************************************************************)
(* The transfer of p and q, in three parts: the two items are taken off    *)
(* the list, they move, and the trade is over.                             *)
(***************************************************************************)
Swapping(d, p, q) ==
    /\ p \in Player /\ q \in Player /\ p # q /\ Open(d) = Player \ {p, q}
    /\ d.partner[p] = q /\ d.partner[q] = p

LEMMA TransferringKeeps ==
    ASSUME TradeInv, NEW p \in Player, Accepts(p), deal.state[deal.partner[p]] = "accept"
    PROVE  LET q == deal.partner[p]
               e == Transferring(p, q)
           IN Dealt(e, parent, position) /\ Swapping(e, p, q) /\ e.item = deal.item
  <1>1. /\ Dealt(deal, parent, position) /\ Open(deal) = Player /\ deal \in Deal
        /\ \A r \in Player : Paired(r, deal, position)
    BY DEF TradeInv, Dealt
  <1>2. PICK q \in Player : q = deal.partner[p] BY AcceptsEffect
  <1>3. /\ q # p /\ deal.partner[q] = p
        /\ InRange(position[p], position[q], 2) /\ InRange(position[q], position[p], 2)
    BY <1>2, AcceptsEffect
  <1>4. PICK e : e = Transferring(p, q) OBVIOUS
  <1>5. /\ e.state = [deal.state EXCEPT ![p] = "transfer", ![q] = "transfer"]
        /\ e.partner = deal.partner /\ e.item = deal.item
        /\ e.tradeItems = deal.tradeItems \ {deal.item[p], deal.item[q]}
        /\ e = [state |-> e.state, partner |-> e.partner, item |-> e.item, tradeItems |-> e.tradeItems]
    BY <1>1, <1>4 DEF Deal, Transferring
  <1>6. e.state \in [Player -> {"none", "initiated", "acknowledge", "accept", "transfer"}]
    BY <1>1, <1>5, DealParts
  <1>7. e.tradeItems \in SUBSET Item BY <1>1, <1>5, DealParts
  <1>8. e \in Deal BY <1>1, <1>5, <1>6, <1>7, DealParts DEF Deal
  <1>9. /\ e.state[p] = "transfer" /\ e.state[q] = "transfer"
        /\ \A r \in Player \ {p, q} : e.state[r] = deal.state[r]
    BY <1>1, <1>5, DealParts
  <1>10. Open(e) = Player \ {p, q} BY <1>1, <1>9 DEF Open
  <1>11. ASSUME NEW r \in Player PROVE Paired(r, e, position)
    <2>1. Paired(r, deal, position) /\ p # None /\ q # None BY <1>1, CylinderParts
    <2>2. CASE r = p BY <1>2, <1>3, <1>5, <1>9, <2>1, <2>2 DEF Paired
    <2>3. CASE r = q BY <1>2, <1>3, <1>5, <1>9, <2>1, <2>3 DEF Paired
    <2>4. CASE r # p /\ r # q
      <3>1. CASE deal.partner[r] = None BY <1>5, <1>9, <2>1, <2>4, <3>1 DEF Paired
      <3>2. CASE deal.partner[r] # None
        <4>1. deal.partner[r] # p /\ deal.partner[r] # q BY <1>2, <1>3, <2>1, <2>4, <3>2 DEF Paired
        <4>2. deal.partner[r] \in Player BY <1>1, <3>2, DealParts
        <4> QED BY <1>5, <1>9, <2>1, <2>4, <4>1, <4>2 DEF Paired
      <3> QED BY <3>1, <3>2
    <2> QED BY <2>2, <2>3, <2>4
  <1>12. e.tradeItems = {e.item[r] : r \in Open(e)} \ {None}
    <2>1. deal.tradeItems = {deal.item[r] : r \in Player} \ {None} BY <1>1 DEF Dealt
    <2>2. ASSUME NEW x \in e.tradeItems PROVE x \in {e.item[r] : r \in Open(e)} \ {None}
      BY <1>5, <1>10, <2>1, <2>2
    <2>3. ASSUME NEW x \in {e.item[r] : r \in Open(e)} \ {None} PROVE x \in e.tradeItems
      <3>1. PICK r \in Open(e) : x = deal.item[r] /\ x # None BY <1>5, <2>3
      <3>2. r \in Player /\ r # p /\ r # q BY <1>10, <3>1
      <3>3. x # deal.item[p] /\ x # deal.item[q] BY <1>1, <3>1, <3>2 DEF Dealt, Apart
      <3> QED BY <1>5, <2>1, <3>1, <3>2, <3>3
    <2> QED BY <2>2, <2>3
  <1>13. Dealt(e, parent, position)
    <2>1. \A r \in Open(e) : e.item[r] # None => InReach(r, e.item[r], parent, position)
      BY <1>1, <1>5, <1>10 DEF Dealt
    <2>2. \A r, s \in Open(e) : r # s /\ e.item[r] # None /\ e.item[s] # None => Apart(e.item[r], e.item[s], parent)
      BY <1>1, <1>5, <1>10 DEF Dealt
    <2> QED BY <1>8, <1>11, <1>12, <2>1, <2>2 DEF Dealt
  <1> QED BY <1>2, <1>3, <1>4, <1>5, <1>10, <1>13 DEF Swapping

LEMMA TradeOverKeeps ==
    ASSUME NEW d, NEW par, Dealt(d, par, position), NEW p, NEW q, Swapping(d, p, q)
    PROVE  LET e == TradeOver(p, q, d)
           IN /\ Dealt(e, par, position) /\ Open(e) = Player
              /\ \A r \in Player : e.item[r] # None => r \in Open(d) /\ e.item[r] = d.item[r]
  <1>1. d \in Deal /\ \A r \in Player : Paired(r, d, position) BY DEF Dealt
  <1>2. /\ p \in Player /\ q \in Player /\ p # q /\ Open(d) = Player \ {p, q}
        /\ d.partner[p] = q /\ d.partner[q] = p
    BY DEF Swapping
  <1>3. PICK e : e = TradeOver(p, q, d) OBVIOUS
  <1>4. /\ e.state = [d.state EXCEPT ![p] = "none", ![q] = "none"]
        /\ e.partner = [d.partner EXCEPT ![p] = None, ![q] = None]
        /\ e.item = [d.item EXCEPT ![p] = None, ![q] = None] /\ e.tradeItems = d.tradeItems
        /\ e = [state |-> e.state, partner |-> e.partner, item |-> e.item, tradeItems |-> e.tradeItems]
    BY <1>1, <1>3 DEF Deal, TradeOver
  <1>5. e.state \in [Player -> {"none", "initiated", "acknowledge", "accept", "transfer"}]
    <2>1. d.state \in [Player -> {"none", "initiated", "acknowledge", "accept", "transfer"}] BY <1>1, DealParts
    <2>2. e.state = [d.state EXCEPT ![p] = "none", ![q] = "none"] BY <1>4
    <2> QED BY <2>1, <2>2
  <1>6. e.partner \in [Player -> Player \cup {None}] /\ e.item \in [Player -> Item \cup {None}]
    <2>1. d.partner \in [Player -> Player \cup {None}] /\ d.item \in [Player -> Item \cup {None}]
      BY <1>1, DealParts
    <2>2. e.partner = [d.partner EXCEPT ![p] = None, ![q] = None] /\ e.item = [d.item EXCEPT ![p] = None, ![q] = None]
      BY <1>4
    <2> QED BY <2>1, <2>2
  <1>7. e \in Deal BY <1>1, <1>4, <1>5, <1>6, DealParts DEF Deal
  <1>8. /\ \A r \in {p, q} : e.state[r] = "none" /\ e.partner[r] = None /\ e.item[r] = None
        /\ \A r \in Player \ {p, q} : /\ e.state[r] = d.state[r] /\ e.partner[r] = d.partner[r]
                                      /\ e.item[r] = d.item[r]
    BY <1>1, <1>2, <1>4, DealParts
  <1>9. Open(e) = Player
    <2>1. \A r \in Player \ {p, q} : d.state[r] # "transfer" BY <1>2 DEF Open
    <2> QED BY <1>8, <2>1 DEF Open
  <1>10. ASSUME NEW r \in Player PROVE Paired(r, e, position)
    <2>1. CASE r \in {p, q} BY <1>8, <2>1 DEF Paired
    <2>2. CASE r \notin {p, q}
      <3>1. Paired(r, d, position) BY <1>1
      <3>2. e.state[r] = d.state[r] /\ e.partner[r] = d.partner[r] /\ e.item[r] = d.item[r] BY <1>8, <2>2
      <3>3. CASE d.partner[r] = None BY <3>1, <3>2, <3>3 DEF Paired
      <3>4. CASE d.partner[r] # None
        <4>1. PICK s \in Player : s = d.partner[r] BY <1>1, <3>4, DealParts
        <4>2. s \notin {p, q} BY <1>2, <2>2, <3>1, <3>4, <4>1 DEF Paired
        <4>3. e.state[s] = d.state[s] /\ e.partner[s] = d.partner[s] BY <1>8, <4>2
        <4> QED BY <3>1, <3>2, <4>1, <4>3 DEF Paired
      <3> QED BY <3>3, <3>4
    <2> QED BY <2>1, <2>2
  <1>11. \A r \in Player : e.item[r] # None => r \in Open(d) /\ e.item[r] = d.item[r]
    BY <1>2, <1>8
  <1>12. e.tradeItems = {e.item[r] : r \in Open(e)} \ {None}
    <2>1. d.tradeItems = {d.item[r] : r \in Open(d)} \ {None} BY DEF Dealt
    <2>2. \A r \in Open(d) : e.item[r] = d.item[r] /\ r \in Open(e) BY <1>2, <1>8, <1>9
    <2> QED BY <1>4, <1>9, <1>11, <2>1, <2>2
  <1>13. Dealt(e, par, position)
    <2>1. \A r \in Open(e) : e.item[r] # None => InReach(r, e.item[r], par, position)
      BY <1>9, <1>11 DEF Dealt
    <2>2. \A r, s \in Open(e) : r # s /\ e.item[r] # None /\ e.item[s] # None => Apart(e.item[r], e.item[s], par)
      BY <1>9, <1>11 DEF Dealt
    <2> QED BY <1>7, <1>10, <1>12, <2>1, <2>2 DEF Dealt
  <1> QED BY <1>3, <1>9, <1>11, <1>13

LEMMA AcceptFailsStep ==
    ASSUME TradeInv, NEW p \in Player, AcceptFails(p)
    PROVE  TradeInv' /\ Stands
  <1>1. PICK q \in Player : q = deal.partner[p] BY AcceptsEffect DEF AcceptFails
  <1>2. PICK d : d = Transferring(p, q) OBVIOUS
  <1>3. Dealt(d, parent, position) /\ Swapping(d, p, q) BY <1>1, <1>2, TransferringKeeps DEF AcceptFails
  <1>4. deal' = TradeOver(p, q, d) BY <1>1, <1>2 DEF AcceptFails
  <1>5. Dealt(deal', parent, position) /\ Open(deal') = Player BY <1>3, <1>4, TradeOverKeeps
  <1> QED BY <1>5, StillStep DEF AcceptFails

LEMMA FewerSwapping ==
    ASSUME NEW d, NEW e, NEW p, NEW q, Fewer(d, e), Swapping(d, p, q)
    PROVE  Swapping(e, p, q) /\ e.item[p] = d.item[p] /\ e.item[q] = d.item[q]
  <1>1. p \in Player \ Open(d) /\ q \in Player \ Open(d) BY DEF Swapping
  <1> QED BY <1>1 DEF Fewer, Swapping

LEMMA MoveItemStep ==
    ASSUME TradeInv, NEW p \in Player, NEW i \in Item, NEW g \in Player \cup Container \cup Tile,
           MoveItem(p, i, g)
    PROVE  TradeInv' /\ Stands
  <1>1. /\ Dealt(deal, parent, position) /\ Open(deal) = Player /\ parent \in Parents
        /\ Acyclic(parent) /\ RoomKept(parent)
        /\ parent' = [parent EXCEPT ![i] = g] /\ deal' = OnMove(i, g, parent, deal)
        /\ version' = version /\ position' = position
    BY DEF TradeInv, MoveItem
  <1>2. MayHold(g, i, parent) /\ HasPlace(g, parent)
    <2>1. g \in Cylinder BY DEF Cylinder
    <2>2. Takes(p, g, i) BY DEF MoveItem
    <2>3. CASE g \in Player
      <3>1. g \notin Container /\ g \notin Tile BY <2>3, CylinderParts
      <3>2. g = p /\ Cardinality(In(p, parent)) < Slots BY <2>2, <2>3, <3>1 DEF Takes
      <3> QED BY <2>1, <3>1, <3>2 DEF MayHold, HasPlace
    <2>4. CASE g \in Container
      <3>1. g \notin Player /\ g \notin Tile BY <2>4, CylinderParts
      <3>2. Cardinality(In(g, parent)) < Capacity /\ g # i /\ ~IsHolding(i, g, parent)
        BY <2>2, <2>4, <3>1 DEF Takes
      <3> QED BY <2>1, <3>1, <3>2 DEF MayHold, HasPlace, IsHolding
    <2>5. CASE g \in Tile
      <3>1. g \notin Container /\ g \notin Player BY <2>5, CylinderParts
      <3> QED BY <2>1, <3>1 DEF MayHold, HasPlace
    <2> QED BY <2>3, <2>4, <2>5
  <1>3. /\ parent' \in Parents /\ Acyclic(parent') /\ MovesOnly(i, parent, parent')
        /\ Dealt(deal', parent', position) /\ Fewer(deal, deal')
        /\ \A r \in Player : deal'.item[r] # None =>
              Apart(deal'.item[r], i, parent) /\ ~IsHolding(deal'.item[r], i, parent')
    BY <1>1, <1>2, OnMoveKeeps
  <1>4. RoomKept(parent') BY <1>1, <1>2, RoomMove DEF MayHold
  <1>5. Open(deal') = Player BY <1>1, <1>3 DEF Fewer
  <1>6. TradeInv' BY <1>1, <1>3, <1>4, <1>5 DEF TradeInv
  <1>7. Stands
    <2> SUFFICES ASSUME NEW r \in Player, deal.item[r] # None, deal'.item[r] = deal.item[r]
                 PROVE  ShownIn(deal.item[r], parent', version') = ShownIn(deal.item[r], parent, version)
        BY DEF Stands
    <2>1. PICK o \in Item : o = deal.item[r] BY <1>1, DealParts DEF Dealt
    <2>2. Apart(o, i, parent) /\ ~IsHolding(o, i, parent') BY <1>3, <2>1
    <2>3. ShownIn(o, parent', version) = ShownIn(o, parent, version) BY <1>1, <1>3, <2>2, ShownMove
    <2> QED BY <1>1, <2>1, <2>3
  <1> QED BY <1>6, <1>7

LEMMA TransformStep ==
    ASSUME TradeInv, NEW i \in Item, TransformItem(i)
    PROVE  TradeInv' /\ Stands
  <1>1. /\ Dealt(deal, parent, position) /\ Open(deal) = Player /\ parent \in Parents
        /\ deal' = OnUpdate(i, parent, deal) /\ parent' = parent /\ position' = position
        /\ version' = [version EXCEPT ![i] = version[i] + 1]
    BY DEF TradeInv, TransformItem
  <1>2. /\ Dealt(deal', parent, position) /\ Fewer(deal, deal')
        /\ \A r \in Player : deal'.item[r] # None =>
              deal'.item[r] # i /\ ~IsHolding(deal'.item[r], i, parent)
    BY <1>1, OnUpdateKeeps
  <1>3. Open(deal') = Player BY <1>1, <1>2 DEF Fewer
  <1>4. TradeInv' BY <1>1, <1>2, <1>3 DEF TradeInv
  <1>5. Stands
    <2> SUFFICES ASSUME NEW r \in Player, deal.item[r] # None, deal'.item[r] = deal.item[r]
                 PROVE  ShownIn(deal.item[r], parent', version') = ShownIn(deal.item[r], parent, version)
        BY DEF Stands
    <2>1. PICK o : o = deal.item[r] OBVIOUS
    <2>2. i \notin Content(o, parent) BY <1>2, <2>1 DEF Content
    <2>3. \A k \in Content(o, parent) : version'[k] = version[k] BY <1>1, <2>2
    <2> QED BY <1>1, <2>1, <2>3 DEF ShownIn
  <1> QED BY <1>4, <1>5

\* Player p walks to x and nothing that holds him to a trade is too far.
LEMMA WalkKeeps ==
    ASSUME NEW d, NEW par \in Parents, NEW pos \in [Player -> Street], NEW p \in Player, NEW x \in Street,
           Dealt(d, par, pos),
           d.partner[p] # None => InRange(pos[d.partner[p]], x, 2),
           p \in Open(d) /\ d.item[p] # None /\ TopParent(d.item[p], par) # p =>
                InRange(PlaceAt(d.item[p], par, pos), x, 1)
    PROVE  Dealt(d, par, [pos EXCEPT ![p] = x])
  <1>1. PICK qos : qos = [pos EXCEPT ![p] = x] OBVIOUS
  <1>2. /\ qos \in [Player -> Street] /\ qos[p] = x /\ \A r \in Player : r # p => qos[r] = pos[r]
    BY <1>1
  <1>3. x \in Nat /\ (\A r \in Player : pos[r] \in Nat) /\ Tile \subseteq Nat BY TradeAssumption
  <1>4. d \in Deal BY DEF Dealt
  <1>5. ASSUME NEW r \in Player PROVE Paired(r, d, qos)
    <2>1. Paired(r, d, pos) BY DEF Dealt
    <2>2. ASSUME d.partner[r] # None PROVE InRange(qos[r], qos[d.partner[r]], 2)
      <3>1. PICK s \in Player : s = d.partner[r] BY <1>4, <2>2, DealParts
      <3>2. s # r /\ d.partner[s] = r /\ InRange(pos[r], pos[s], 2) BY <2>1, <2>2, <3>1 DEF Paired
      <3>3. CASE r = p
        <4>1. InRange(pos[s], x, 2) BY <2>2, <3>1, <3>3
        <4>2. InRange(x, pos[s], 2) BY <1>3, <4>1 DEF InRange
        <4> QED BY <1>2, <3>1, <3>2, <3>3, <4>2
      <3>4. CASE s = p
        <4>1. r # None BY CylinderParts
        <4>2. InRange(pos[r], x, 2) BY <3>2, <3>4, <4>1
        <4> QED BY <1>2, <3>1, <3>2, <3>4, <4>2
      <3>5. CASE r # p /\ s # p BY <1>2, <3>1, <3>2, <3>5
      <3> QED BY <3>3, <3>4, <3>5
    <2> QED BY <2>1, <2>2 DEF Paired
  <1>6. ASSUME NEW r \in Open(d), d.item[r] # None PROVE InReach(r, d.item[r], par, qos)
    <2>1. r \in Player /\ InReach(r, d.item[r], par, pos) BY <1>6 DEF Open, Dealt
    <2>2. PICK t : t = TopParent(d.item[r], par) OBVIOUS
    <2>3. t \in {r} \cup Tile BY <2>1, <2>2 DEF InReach
    <2>4. CASE t = r
      <3>1. PlaceAt(d.item[r], par, qos) = qos[r] BY <2>1, <2>2, <2>4 DEF PlaceAt
      <3>2. InRange(qos[r], qos[r], 1) BY <1>2, <1>3, <2>1 DEF InRange
      <3> QED BY <2>2, <2>4, <3>1, <3>2 DEF InReach
    <2>5. CASE t # r
      <3>1. t \in Tile /\ t \notin Player /\ t \in Nat BY <1>3, <2>3, <2>5, CylinderParts
      <3>2. PlaceAt(d.item[r], par, qos) = t /\ PlaceAt(d.item[r], par, pos) = t BY <2>2, <3>1 DEF PlaceAt
      <3>3. InRange(qos[r], t, 1)
        <4>1. CASE r = p
          <5>1. InRange(t, x, 1) BY <1>6, <2>2, <2>5, <3>2, <4>1
          <5> QED BY <1>2, <1>3, <3>1, <4>1, <5>1 DEF InRange
        <4>2. CASE r # p BY <1>2, <2>1, <3>2, <4>2 DEF InReach
        <4> QED BY <4>1, <4>2
      <3> QED BY <2>2, <3>1, <3>2, <3>3 DEF InReach
    <2> QED BY <2>4, <2>5
  <1>7. Dealt(d, par, qos) BY <1>5, <1>6 DEF Dealt
  <1> QED BY <1>1, <1>7

LEMMA WalkStep ==
    ASSUME TradeInv, NEW p \in Player, NEW x \in Street, Walk(p, x)
    PROVE  TradeInv' /\ Stands
  <1>1. /\ Dealt(deal, parent, position) /\ Open(deal) = Player /\ parent \in Parents
        /\ position \in [Player -> Street]
        /\ position' = [position EXCEPT ![p] = x] /\ parent' = parent /\ version' = version
        /\ deal' = IF TooFar(p, x) THEN CloseTrade(p, deal) ELSE deal
    BY DEF TradeInv, Walk
  <1>2. position' \in [Player -> Street] BY <1>1
  <1>3. Dealt(deal', parent, position') /\ Open(deal') = Player
    <2>1. CASE TooFar(p, x)
      <3>1. PICK P \in SUBSET Player : P = {p} OBVIOUS
      <3>2. PICK e : e = Close(P, deal) OBVIOUS
      <3>3. /\ Dealt(e, parent, position) /\ Fewer(deal, e)
            /\ \A r \in P \cap Open(deal) : e.item[r] = None /\ e.partner[r] = None
        BY <1>1, <3>2, CloseKeeps
      <3>4. e.item[p] = None /\ e.partner[p] = None BY <1>1, <3>1, <3>3
      <3>5. deal' = e BY <1>1, <2>1, <3>1, <3>2 DEF CloseTrade
      <3>6. Dealt(e, parent, position') BY <1>1, <3>3, <3>4, WalkKeeps
      <3> QED BY <1>1, <3>3, <3>5, <3>6 DEF Fewer
    <2>2. CASE ~TooFar(p, x)
      <3>1. deal.partner[p] # None => InRange(position[deal.partner[p]], x, 2) BY <2>2 DEF TooFar
      <3>2. deal.item[p] # None /\ TopParent(deal.item[p], parent) # p =>
                InRange(PlaceAt(deal.item[p], parent, position), x, 1)
        BY <2>2, PlaceSame DEF TooFar
      <3>3. Dealt(deal, parent, position') BY <1>1, <3>1, <3>2, WalkKeeps
      <3> QED BY <1>1, <2>2, <3>3
    <2> QED BY <2>1, <2>2
  <1>4. TradeInv' BY <1>1, <1>2, <1>3 DEF TradeInv
  <1>5. Stands BY <1>1 DEF Stands
  <1> QED BY <1>4, <1>5

\* The items of the two move, one after the other.
Moved(p, q, i, j, g, first, d) ==
    /\ q = deal.partner[p] /\ i = deal.item[p] /\ j = deal.item[q]
    /\ g \in RoomFor(q, i, j)
    /\ first = [parent EXCEPT ![i] = g]
    /\ d = OnMove(i, g, parent, Transferring(p, q))

LEMMA OfferedApart ==
    ASSUME TradeInv, NEW p \in Player, NEW q \in Player, p # q, deal.item[p] # None, deal.item[q] # None
    PROVE  deal.item[p] \in Item /\ deal.item[q] \in Item /\ Apart(deal.item[p], deal.item[q], parent)
  <1>1. Dealt(deal, parent, position) /\ Open(deal) = Player BY DEF TradeInv
  <1> QED BY <1>1, DealParts DEF Dealt

LEMMA FirstMove ==
    ASSUME TradeInv, NEW p \in Player, Transfer(p), NEW q, NEW i, NEW j, NEW g, NEW first, NEW d,
           Moved(p, q, i, j, g, first, d)
    PROVE  /\ q \in Player /\ q # p /\ i \in Item /\ j \in Item /\ Apart(i, j, parent)
           /\ MayHold(g, i, parent) /\ (g = q \/ (g \in Container /\ q \in Above(g, parent)))
           /\ g # j /\ (g \in Item => ~IsHolding(j, g, parent))
           /\ first \in Parents /\ Acyclic(first) /\ RoomKept(first)
           /\ MovesOnly(i, parent, first) /\ first[i] = g
           /\ Dealt(d, first, position) /\ Swapping(d, p, q)
           /\ \A r \in Open(d) : d.item[r] # None =>
                 d.item[r] = deal.item[r] /\ Apart(d.item[r], i, parent) /\ ~IsHolding(d.item[r], i, first)
  <1>1. Accepts(p) /\ deal.state[deal.partner[p]] = "accept" /\ i # None /\ j # None
    BY DEF Transfer, Moved
  <1>2. q \in Player /\ q # p BY <1>1, AcceptsEffect DEF Moved
  <1>3. i \in Item /\ j \in Item /\ Apart(i, j, parent) BY <1>1, <1>2, OfferedApart DEF Moved
  <1>4. PICK t : t = Transferring(p, q) OBVIOUS
  <1>5. Dealt(t, parent, position) /\ Swapping(t, p, q) /\ t.item = deal.item
    BY <1>1, <1>4, TransferringKeeps DEF Moved
  <1>6. g \in Destinations(q, i, parent) /\ g # j /\ (g \in Item => ~IsHolding(j, g, parent))
    BY DEF Moved, RoomFor
  <1>7. MayHold(g, i, parent) /\ HasPlace(g, parent) /\ (g = q \/ (g \in Container /\ q \in Above(g, parent)))
    BY <1>2, <1>3, <1>6, DestinationEffect
  <1>8. parent \in Parents /\ Acyclic(parent) /\ RoomKept(parent) BY DEF TradeInv
  <1>9. first = [parent EXCEPT ![i] = g] /\ d = OnMove(i, g, parent, t) BY <1>4 DEF Moved
  <1>10. /\ first \in Parents /\ Acyclic(first) /\ MovesOnly(i, parent, first)
         /\ Dealt(d, first, position) /\ Fewer(t, d)
         /\ \A r \in Open(t) : d.item[r] # None => Apart(d.item[r], i, parent) /\ ~IsHolding(d.item[r], i, first)
    BY <1>3, <1>5, <1>7, <1>8, <1>9, OnMoveKeeps
  <1>11. RoomKept(first) BY <1>3, <1>7, <1>8, <1>9, RoomMove DEF MayHold
  <1>12. first[i] = g BY <1>3, <1>8, <1>9 DEF Parents
  <1>13. Swapping(d, p, q) BY <1>5, <1>10, FewerSwapping
  <1>14. \A r \in Open(d) : d.item[r] # None => d.item[r] = deal.item[r] /\ r \in Open(t)
    BY <1>5, <1>10 DEF Fewer
  <1> QED BY <1>2, <1>3, <1>6, <1>7, <1>10, <1>11, <1>12, <1>13, <1>14

LEMMA TransferCases ==
    ASSUME TradeInv, NEW p \in Player, Transfer(p)
    PROVE  \E q, i, j, g, first, d :
              /\ Moved(p, q, i, j, g, first, d)
              /\ \/ Destinations(p, j, first) = {} /\ parent' = first /\ deal' = TradeOver(p, q, d)
                 \/ \E e \in Destinations(p, j, first) :
                       /\ parent' = [first EXCEPT ![j] = e]
                       /\ deal' = TradeOver(p, q, OnMove(j, e, first, d))
  <1>1. PICK q : q = deal.partner[p] OBVIOUS
  <1>2. PICK i : i = deal.item[p] OBVIOUS
  <1>3. PICK j : j = deal.item[q] OBVIOUS
  <1>4. PICK g \in RoomFor(q, i, j) :
            LET first == [parent EXCEPT ![i] = g]
                d == OnMove(i, g, parent, Transferring(p, q))
            IN IF Destinations(p, j, first) = {}
               THEN /\ parent' = first
                    /\ deal' = TradeOver(p, q, d)
               ELSE \E e \in Destinations(p, j, first) :
                    /\ parent' = [first EXCEPT ![j] = e]
                    /\ deal' = TradeOver(p, q, OnMove(j, e, first, d))
    BY <1>1, <1>2, <1>3 DEF Transfer
  <1>5. PICK first : first = [parent EXCEPT ![i] = g] OBVIOUS
  <1>6. PICK d : d = OnMove(i, g, parent, Transferring(p, q)) OBVIOUS
  <1>7. Moved(p, q, i, j, g, first, d) BY <1>1, <1>2, <1>3, <1>5, <1>6 DEF Moved
  <1> QED BY <1>4, <1>5, <1>6, <1>7

LEMMA TransferStep ==
    ASSUME TradeInv, NEW p \in Player, Transfer(p)
    PROVE  TradeInv' /\ Stands
  <1>1. PICK q, i, j, g, first, d :
              /\ Moved(p, q, i, j, g, first, d)
              /\ \/ Destinations(p, j, first) = {} /\ parent' = first /\ deal' = TradeOver(p, q, d)
                 \/ \E e \in Destinations(p, j, first) :
                       /\ parent' = [first EXCEPT ![j] = e]
                       /\ deal' = TradeOver(p, q, OnMove(j, e, first, d))
    BY TransferCases
  <1>2. /\ i \in Item /\ j \in Item
        /\ first \in Parents /\ Acyclic(first) /\ RoomKept(first) /\ MovesOnly(i, parent, first)
        /\ Dealt(d, first, position) /\ Swapping(d, p, q)
        /\ \A r \in Open(d) : d.item[r] # None =>
              d.item[r] = deal.item[r] /\ Apart(d.item[r], i, parent) /\ ~IsHolding(d.item[r], i, first)
    BY <1>1, FirstMove
  <1>3. /\ parent \in Parents /\ position \in [Player -> Street] /\ position' = position /\ version' = version
        /\ deal \in Deal
    BY DEF TradeInv, Transfer, Dealt
  <1>4. ASSUME NEW r \in Open(d), d.item[r] # None
        PROVE  d.item[r] \in Item /\ ShownIn(d.item[r], first, version) = ShownIn(d.item[r], parent, version)
    <2>1. PICK o : o = d.item[r] OBVIOUS
    <2>2. o \in Item BY <1>2, <1>4, <2>1, DealParts DEF Dealt, Open
    <2>3. Apart(o, i, parent) /\ ~IsHolding(o, i, first) BY <1>2, <1>4, <2>1
    <2>4. ShownIn(o, first, version) = ShownIn(o, parent, version) BY <1>2, <1>3, <2>2, <2>3, ShownMove
    <2> QED BY <2>1, <2>2, <2>4
  <1>5. CASE parent' = first /\ deal' = TradeOver(p, q, d)
    <2>1. /\ Dealt(deal', first, position) /\ Open(deal') = Player
          /\ \A r \in Player : deal'.item[r] # None => r \in Open(d) /\ deal'.item[r] = d.item[r]
      BY <1>2, <1>5, TradeOverKeeps
    <2>2. TradeInv' BY <1>2, <1>3, <1>5, <2>1 DEF TradeInv
    <2>3. Stands BY <1>3, <1>4, <1>5, <2>1 DEF Stands
    <2> QED BY <2>2, <2>3
  <1>6. ASSUME NEW e \in Destinations(p, j, first), parent' = [first EXCEPT ![j] = e],
               deal' = TradeOver(p, q, OnMove(j, e, first, d))
        PROVE  TradeInv' /\ Stands
    <2>1. MayHold(e, j, first) /\ HasPlace(e, first) BY <1>2, <1>6, DestinationEffect
    <2>2. PICK f : f = OnMove(j, e, first, d) OBVIOUS
    <2>3. /\ parent' \in Parents /\ Acyclic(parent') /\ MovesOnly(j, first, parent')
          /\ Dealt(f, parent', position) /\ Fewer(d, f)
          /\ \A r \in Open(d) : f.item[r] # None => Apart(f.item[r], j, first) /\ ~IsHolding(f.item[r], j, parent')
      BY <1>2, <1>6, <2>1, <2>2, OnMoveKeeps
    <2>4. RoomKept(parent') BY <1>2, <1>6, <2>1, RoomMove DEF MayHold
    <2>5. Swapping(f, p, q) BY <1>2, <2>3, FewerSwapping
    <2>6. deal' = TradeOver(p, q, f) BY <1>6, <2>2
    <2>7. /\ Dealt(deal', parent', position) /\ Open(deal') = Player
          /\ \A r \in Player : deal'.item[r] # None => r \in Open(f) /\ deal'.item[r] = f.item[r]
      BY <2>3, <2>5, <2>6, TradeOverKeeps
    <2>8. TradeInv' BY <1>3, <2>3, <2>4, <2>7 DEF TradeInv
    <2>9. Stands
      <3> SUFFICES ASSUME NEW r \in Player, deal.item[r] # None, deal'.item[r] = deal.item[r]
                   PROVE  ShownIn(deal.item[r], parent', version') = ShownIn(deal.item[r], parent, version)
          BY DEF Stands
      <3>1. PICK o : o = deal.item[r] OBVIOUS
      <3>2. r \in Open(d) /\ f.item[r] = o /\ d.item[r] = o /\ o # None BY <2>3, <2>7, <3>1 DEF Fewer
      <3>3. o \in Item /\ ShownIn(o, first, version) = ShownIn(o, parent, version) BY <1>4, <3>2
      <3>4. Apart(o, j, first) /\ ~IsHolding(o, j, parent') BY <2>3, <3>2
      <3>5. ShownIn(o, parent', version) = ShownIn(o, first, version) BY <1>2, <2>3, <3>3, <3>4, ShownMove
      <3> QED BY <1>3, <3>1, <3>3, <3>5
    <2> QED BY <2>8, <2>9
  <1> QED BY <1>1, <1>5, <1>6

\* The room that the test has found for j, or the room that i leaves, is there
\* when i has gone.
LEMMA RoomIsLeft ==
    ASSUME TradeInv, NEW p \in Player, Transfer(p), NEW q, NEW i, NEW j, NEW g, NEW first, NEW d,
           Moved(p, q, i, j, g, first, d), j \notin Stack
    PROVE  Destinations(p, j, first) # {}
  <1>1. /\ q \in Player /\ q # p /\ i \in Item /\ j \in Item /\ Apart(i, j, parent)
        /\ g = q \/ (g \in Container /\ q \in Above(g, parent))
        /\ first \in Parents /\ MovesOnly(i, parent, first) /\ first[i] = g
    BY FirstMove
  <1>2. parent \in Parents /\ Acyclic(parent) /\ RoomKept(parent) BY DEF TradeInv
  <1>3. deal.item[p] = i /\ i # None BY <1>1, CylinderParts DEF Moved
  <1>4. PICK e \in Destinations(p, j, parent) : TRUE BY <1>1 DEF Transfer, Moved, HasRoom, Stacks
  <1>5. g # p BY <1>1, CylinderParts
  <1>6. ASSUME NEW x, x # g PROVE In(x, first) \subseteq In(x, parent)
    BY <1>1, <1>6 DEF In, MovesOnly
  <1>7. CASE Cardinality(In(p, first)) < Slots BY <1>7 DEF Destinations
  <1>8. CASE ~(Cardinality(In(p, first)) < Slots)
    <2>1. /\ Cardinality(In(p, first)) \in Nat /\ Cardinality(In(p, parent)) \in Nat /\ Slots \in Nat
          /\ Capacity \in Nat
      BY InFinite, TradeAssumption
    <2>2. Cardinality(In(p, first)) <= Cardinality(In(p, parent)) BY <1>5, <1>6, FewerIn
    <2>3. ~(Cardinality(In(p, parent)) < Slots) BY <1>8, <2>1, <2>2
    <2>4. /\ e \in Container /\ p \in Above(e, parent) /\ i # e
          /\ ~(parent[i] = p /\ IsHolding(i, e, parent))
          /\ Cardinality(In(e, parent)) < Capacity /\ e # j /\ ~IsHolding(j, e, parent)
      BY <1>3, <1>4, <2>3 DEF Destinations, Searched, IsHolding
    \* What would do: a container of p with room, which i is not above.
    <2>5. ASSUME NEW x \in Container, p \in Above(x, parent), x # i, i \notin Above(x, parent),
                 x # j, ~IsHolding(j, x, parent), Cardinality(In(x, first)) < Capacity
          PROVE  x \in Destinations(p, j, first)
      <3>1. x \in Item BY CylinderParts
      <3>2. Above(x, first) = Above(x, parent) BY <1>1, <1>2, <2>5, <3>1, AboveFrame
      <3>3. x \in Searched(p, first) BY <1>1, <1>3, <1>5, <2>5, <3>2 DEF Searched, IsHolding
      <3> QED BY <1>3, <1>8, <2>5, <3>2, <3>3 DEF Destinations, IsHolding
    <2>6. ASSUME NEW x \in Container, p \in Above(x, parent) PROVE x # g
      <3>1. x \in Item /\ p \notin Item /\ q \notin Item /\ q \notin Container BY <1>1, CylinderParts
      <3>2. ASSUME q \in Above(x, parent) PROVE FALSE
        <4>1. TopParent(x, parent) = p /\ TopParent(x, parent) = q BY <1>2, <2>6, <3>1, <3>2, RootEffect
        <4> QED BY <1>1, <4>1
      <3> QED BY <1>1, <3>1, <3>2
    <2>7. CASE i \notin Above(e, parent)
      <3>1. In(e, first) \subseteq In(e, parent) BY <1>6, <2>4, <2>6
      <3>2. Cardinality(In(e, first)) <= Cardinality(In(e, parent)) BY <3>1, FewerIn
      <3>3. Cardinality(In(e, first)) \in Nat /\ Cardinality(In(e, parent)) \in Nat BY InFinite
      <3>4. Cardinality(In(e, first)) < Capacity BY <2>1, <2>4, <3>2, <3>3
      <3> QED BY <2>4, <2>5, <2>7, <3>4
    <2>8. CASE i \in Above(e, parent)
      <3>1. PICK x : x = parent[i] OBVIOUS
      <3>2. e \in Item /\ p \notin Container /\ p \notin Item BY <2>4, CylinderParts
      <3>3. p # i BY <1>1, <3>2
      <3>4. i \in Container /\ p \in Above(i, parent)
        BY <1>2, <2>4, <2>8, <3>2, <3>3, AboveChain
      <3>5. x # p BY <2>4, <2>8, <3>1 DEF IsHolding
      <3>6. x \in Container /\ p \in Above(x, parent)
        BY <1>1, <1>2, <3>1, <3>4, <3>5, AboveUnfold
      <3>7. x \in Above(i, parent) /\ Above(x, parent) \subseteq Above(i, parent)
        BY <1>1, <1>2, <3>1, <3>6, AboveClosed, AboveTrans
      <3>8. x # i /\ i \notin Above(x, parent) BY <1>2, <3>4, <3>7 DEF Acyclic
      <3>9. x # j /\ ~IsHolding(j, x, parent) BY <1>1, <3>7 DEF Apart, IsHolding
      <3>10. Cardinality(In(x, first)) < Capacity
        <4>1. PICK S : S = In(x, parent) \ {i} OBVIOUS
        <4>2. i \in In(x, parent) BY <1>1, <3>1 DEF In
        <4>3. In(x, first) \in SUBSET S
          <5>1. x # g BY <2>6, <3>6
          <5> QED BY <1>1, <1>6, <4>1, <5>1 DEF In
        <4>4. IsFiniteSet(S) /\ Cardinality(S) = Cardinality(In(x, parent)) - 1
          BY <4>1, <4>2, InFinite, FS_RemoveElement
        <4>5. Cardinality(In(x, first)) <= Cardinality(S) BY <4>3, <4>4, FS_Subset
        <4>6. Cardinality(In(x, parent)) <= Capacity BY <1>2, <3>6 DEF RoomKept
        <4>7. Cardinality(In(x, first)) \in Nat /\ Cardinality(In(x, parent)) \in Nat BY InFinite
        <4> QED BY <2>1, <4>4, <4>5, <4>6, <4>7
      <3> QED BY <2>5, <3>6, <3>8, <3>9, <3>10
    <2> QED BY <2>7, <2>8
  <1> QED BY <1>7, <1>8

\* In the end each of the two items is with the other player.
LEMMA TransferSwaps ==
    ASSUME TradeInv, NEW p \in Player, Transfer(p), deal.item[deal.partner[p]] \notin Stack
    PROVE  /\ TopParent(deal.item[p], parent') = deal.partner[p]
           /\ TopParent(deal.item[deal.partner[p]], parent') = p
  <1>1. PICK q, i, j, g, first, d :
              /\ Moved(p, q, i, j, g, first, d)
              /\ \/ Destinations(p, j, first) = {} /\ parent' = first /\ deal' = TradeOver(p, q, d)
                 \/ \E e \in Destinations(p, j, first) :
                       /\ parent' = [first EXCEPT ![j] = e]
                       /\ deal' = TradeOver(p, q, OnMove(j, e, first, d))
    BY TransferCases
  <1>2. q = deal.partner[p] /\ i = deal.item[p] /\ j = deal.item[q] /\ j \notin Stack BY <1>1 DEF Moved
  <1>3. /\ q \in Player /\ i \in Item /\ j \in Item /\ Apart(i, j, parent) /\ MayHold(g, i, parent)
        /\ g = q \/ (g \in Container /\ q \in Above(g, parent))
        /\ g # j /\ (g \in Item => ~IsHolding(j, g, parent))
        /\ first \in Parents /\ MovesOnly(i, parent, first) /\ first[i] = g
    BY <1>1, FirstMove
  <1>4. parent \in Parents BY DEF TradeInv
  <1>5. PICK e \in Destinations(p, j, first) : parent' = [first EXCEPT ![j] = e] BY <1>1, <1>2, RoomIsLeft
  <1>6. MayHold(e, j, first) /\ (e = p \/ (e \in Container /\ p \in Above(e, first))) BY <1>3, DestinationEffect
  <1>7. parent' \in Parents /\ MovesOnly(j, first, parent') /\ parent'[j] = e
    BY <1>3, <1>5, <1>6 DEF Parents, MovesOnly, MayHold
  <1>8. p \notin Item /\ q \notin Item /\ Container \subseteq Item BY <1>3, CylinderParts
  <1>9. p \in Above(j, parent')
    <2>1. CASE e = p BY <1>3, <1>7, <2>1, AboveClosed
    <2>2. CASE e \in Container /\ p \in Above(e, first)
      <3>1. e \in Item /\ e # j /\ j \notin Above(e, first) BY <1>6, <1>8, <2>2 DEF MayHold
      <3>2. Above(e, parent') = Above(e, first) BY <1>3, <1>7, <3>1, AboveFrame
      <3> QED BY <1>3, <1>7, <2>2, <3>2, AboveUnfold
    <2> QED BY <1>6, <2>1, <2>2
  <1>10. q \in Above(i, parent')
    <2>1. parent'[i] = g BY <1>3, <1>7 DEF MovesOnly, Apart
    <2>2. CASE g = q BY <1>3, <1>7, <2>1, <2>2, AboveClosed
    <2>3. CASE g \in Container /\ q \in Above(g, parent)
      <3>1. g \in Item /\ g # i /\ i \notin Above(g, parent) /\ g # j /\ j \notin Above(g, parent)
        BY <1>3, <1>8, <2>3 DEF MayHold, IsHolding
      <3>2. Above(g, first) = Above(g, parent) BY <1>3, <1>4, <3>1, AboveFrame
      <3>3. Above(g, parent') = Above(g, first) BY <1>3, <1>7, <3>1, <3>2, AboveFrame
      <3> QED BY <1>3, <1>7, <2>1, <2>3, <3>2, <3>3, AboveUnfold
    <2> QED BY <1>3, <2>2, <2>3
  <1>11. TopParent(i, parent') = q /\ TopParent(j, parent') = p BY <1>3, <1>7, <1>8, <1>9, <1>10, RootEffect
  <1> QED BY <1>2, <1>11

LEMMA TradeStep == TradeInv /\ [Next]_vars => TradeInv' /\ Stands
  <1> SUFFICES ASSUME TradeInv, [Next]_vars PROVE TradeInv' /\ Stands
      OBVIOUS
  <1>1. ASSUME NEW p \in Player, NEW q \in Player, NEW i \in Item, RequestTrade(p, q, i)
        PROVE  TradeInv' /\ Stands
    BY <1>1, RequestStep
  <1>2. ASSUME NEW p \in Player, AcceptTrade(p) PROVE TradeInv' /\ Stands
    <2>1. CASE AcceptFirst(p) BY <2>1, AcceptFirstStep
    <2>2. CASE AcceptRefused(p) BY <2>2, CloseStep DEF AcceptRefused
    <2>3. CASE AcceptFails(p) BY <2>3, AcceptFailsStep
    <2>4. CASE Transfer(p) BY <2>4, TransferStep
    <2> QED BY <1>2, <2>1, <2>2, <2>3, <2>4 DEF AcceptTrade
  <1>3. ASSUME NEW p \in Player, PlayerCloseTrade(p) PROVE TradeInv' /\ Stands
    BY <1>3, CloseStep DEF PlayerCloseTrade
  <1>4. ASSUME NEW p \in Player, NEW x \in Street, Walk(p, x) PROVE TradeInv' /\ Stands
    BY <1>4, WalkStep
  <1>5. ASSUME NEW p \in Player, NEW i \in Item, NEW g \in Player \cup Container \cup Tile, MoveItem(p, i, g)
        PROVE  TradeInv' /\ Stands
    BY <1>5, MoveItemStep
  <1>6. ASSUME NEW i \in Item, TransformItem(i) PROVE TradeInv' /\ Stands
    BY <1>6, TransformStep
  <1>7. CASE UNCHANGED vars BY <1>7 DEF vars, TradeInv, Stands
  <1> QED BY <1>1, <1>2, <1>3, <1>4, <1>5, <1>6, <1>7 DEF Next

LEMMA TradeInvAgrees == TradeInv => TradesAgree
  <1> SUFFICES ASSUME TradeInv PROVE TradesAgree
      OBVIOUS
  <1>1. Dealt(deal, parent, position) /\ Open(deal) = Player BY DEF TradeInv
  <1>2. TradesArePairs BY <1>1 DEF Dealt, Paired, TradesArePairs, Near
  <1>3. OfferedOnce BY <1>1, ReachesSame DEF Dealt, Apart, OfferedOnce
  <1> QED BY <1>2, <1>3 DEF TradesAgree

(***************************************************************************)
(* For any players, items and streets: trades are pairs within call, and   *)
(* what is on offer is recorded once, in its owner's reach and not inside  *)
(* another offer.                                                          *)
(***************************************************************************)
THEOREM TradesCorrect == Spec => []TradesAgree
  <1>1. Spec => []TradeInv BY TradeInit, TradeStep, PTL DEF Spec
  <1> QED BY <1>1, TradeInvAgrees, PTL

(***************************************************************************)
(* An item that stays on offer stays, with all that is in it, as it was    *)
(* shown, whoever moves or changes items.                                  *)
(***************************************************************************)
THEOREM OffersStand == Spec => OfferStands
  <1>1. Spec => []TradeInv BY TradeInit, TradeStep, PTL DEF Spec
  <1> DEFINE Kept == \A i \in deal.tradeItems :
                        (\E p \in Player : deal.item[p] = i /\ deal'.item[p] = i) => Shown(i)' = Shown(i)
  <1>2. TradeInv /\ [Next]_vars => Kept
    <2> SUFFICES ASSUME TradeInv, [Next]_vars,
                        NEW i \in deal.tradeItems,
                        NEW p \in Player, deal.item[p] = i, deal'.item[p] = i
                 PROVE  Shown(i)' = Shown(i)
        OBVIOUS
    <2>1. i # None BY DEF TradeInv, Dealt
    <2>2. ShownIn(i, parent', version') = ShownIn(i, parent, version) BY <2>1, TradeStep DEF Stands
    <2>3. Shown(i) = ShownIn(i, parent, version) BY DEF Shown, ShownIn, Content
    <2>4. Shown(i)' = ShownIn(i, parent', version') BY DEF Shown, ShownIn, Content
    <2> QED BY <2>2, <2>3, <2>4
  <1>3. TradeInv /\ [Next]_vars => [Kept]_vars BY <1>2
  <1> QED BY <1>1, <1>3, PTL DEF Spec, OfferStands

(***************************************************************************)
(* A transfer that moves the first item moves the second too, unless it is *)
(* a stack: the room the test has counted on is still there, though the    *)
(* move of the first item has changed both inventories in between.         *)
(***************************************************************************)
THEOREM SwapsCorrect == Spec => TransferIsSwap
  <1>1. Spec => []TradeInv BY TradeInit, TradeStep, PTL DEF Spec
  <1> DEFINE Swap == \A p \in {r \in Player : deal.partner[r] # None} :
                       \A q \in {deal.partner[p]}, i \in {deal.item[p]} : \A j \in {deal.item[q]} :
                          deal'.partner[p] = None /\ Transfer(p) =>
                             j \in Stack \/ (Holder(i)' = q /\ Holder(j)' = p)
  <1>2. TradeInv => Swap
    <2> SUFFICES ASSUME TradeInv, NEW p \in Player, Transfer(p),
                        NEW q, NEW i, NEW j, q = deal.partner[p], i = deal.item[p], j = deal.item[q], j \notin Stack
                 PROVE  TopParent(i, parent') = q /\ TopParent(j, parent') = p
        BY DEF Holder
    <2> QED BY TransferSwaps
  <1>3. TradeInv /\ [Next]_vars => [Swap]_vars BY <1>2
  <1> QED BY <1>1, <1>3, PTL DEF Spec, TransferIsSwap

-----------------------------------------------------------------------------
(***************************************************************************)
(* Casting: the players that are watched, the protocols that watch and the *)
(* list of casts fit together.                                             *)
(*                                                                         *)
(* Good is what holds of a state between two calls.  A client that changes *)
(* its player is taken out of it and put back: Within (it still has its    *)
(* reference), Without (the reference is given up), then the client gets   *)
(* another player (WatchGood, ConnectGood, NewNear) or none (NobodyGood).  *)
(* AllBut is Good but for one client, which may watch from nobody's list:  *)
(* a telescope whose task runs, before it is home.                         *)
(***************************************************************************)
(***************************************************************************)
(* The inductive invariant.                                                *)
(***************************************************************************)
Task == [op : {"release", "navigate", "back"}, by : Client]
Entry == [name : Character \cup {None}, status : {"none", "loaded", "placed", "removed", "deleted"},
          refs : Int, owner : Client \cup {None}, broadcast : BOOLEAN, spectators : SUBSET Client]
CastState ==
    [conn : [Client -> {"new", "open", "closed"}],
     player : [Client -> Object \cup {None}],
     spectator : [Client -> BOOLEAN],
     spy : [Client -> BOOLEAN],
     home : [Client -> Character \cup {None}],
     eventConnect : [Client -> Object \cup {None}],
     obj : [Object -> Entry],
     liveCasts : SUBSET Object,
     cleaned : SUBSET Object,
     tasks : Seq(SUBSET Task),
     odd : Int,
     strayed : SUBSET Client,
     stranded : SUBSET Client]

Back(h, p) == IsQueued(h, "back", p)
OnceQueued(h, p) ==
    \A i, j \in DOMAIN h.tasks :
        ATaskOf("back", p) \in h.tasks[i] /\ ATaskOf("back", p) \in h.tasks[j] => i = j

World(h, o) == h.obj[o].status \in {"placed", "removed"} /\ o \notin h.cleaned
UsersBut(h, p, o) == {q \in Client \ {p} : h.player[q] = o}
Users(h, o) == {q \in Client : h.player[q] = o}
Counts(h, o, S) ==
    /\ h.obj[o].refs = Cardinality(S) + (IF World(h, o) THEN 1 ELSE 0)
    /\ h.obj[o].status \in {"none", "deleted"} <=> h.obj[o].refs = 0
Exact(h) == \A o \in Object : Counts(h, o, Users(h, o))
ExactBut(h, p) == \A o \in Object : Counts(h, o, UsersBut(h, p, o))

Fresh(h, p) == h.conn[p] = "new" => h.player[p] = None /\ ~h.spectator[p] /\ h.eventConnect[p] = None
Waits(h, p) == h.eventConnect[p] # None => h.player[p] = None /\ ~h.spectator[p] /\ h.conn[p] # "new"
Owns(h, p) == Plays(h, p) => h.obj[h.player[p]].owner = p
Owned(h, o) ==
    LET p == h.obj[o].owner
    IN p # None => h.player[p] = o /\ ~h.spectator[p]
ObjectAgrees(h, o) ==
    /\ h.obj[o].status = "placed" \/ o \in h.liveCasts => Owned(h, o)
    /\ o \in h.liveCasts => h.obj[o].owner # None /\ h.obj[o].broadcast
    /\ o \in h.cleaned => h.obj[o].status \in {"removed", "deleted"}
Listed(h, p, o) ==
    p \in h.obj[o].spectators =>
        /\ h.spectator[p] /\ h.player[p] = o
        /\ h.obj[o].broadcast \/ h.spy[p]
        /\ ~ Back(h, p)
Watches(h, p) ==
    h.spectator[p] /\ h.player[p] # None /\ h.conn[p] = "open" /\ p \notin h.stranded
    => p \in h.obj[h.player[p]].spectators \/ Back(h, p)
Sent(h, p) == OnceQueued(h, p) /\ (Back(h, p) => h.spectator[p])

ClientAgrees(h, p) == Fresh(h, p) /\ Waits(h, p) /\ Owns(h, p) /\ Watches(h, p) /\ Sent(h, p)
Agree(h) ==
    /\ \A p \in Client : ClientAgrees(h, p)
    /\ \A o \in Object : ObjectAgrees(h, o)
    /\ \A p \in Client, o \in Object : Listed(h, p, o)
Good(h) == h \in CastState /\ h.strayed = {} /\ Exact(h) /\ Agree(h)

(***************************************************************************)
(* The queue.                                                              *)
(***************************************************************************)
LEMMA NoneIsNone == /\ \A o \in Object : o # None
                    /\ \A p \in Client : p # None
  BY CastingAssumption

LEMMA QueueEffect ==
    ASSUME NEW h \in CastState, NEW batch \in SUBSET Task
    PROVE  LET r == Queue(h, batch)
           IN /\ r \in CastState
              /\ \E s : r = [h EXCEPT !.tasks = s]
              /\ \A p \in Client :
                    /\ Back(r, p) <=> Back(h, p) \/ ATaskOf("back", p) \in batch
                    /\ OnceQueued(h, p) /\ ~(Back(h, p) /\ ATaskOf("back", p) \in batch) => OnceQueued(r, p)
  <1> DEFINE r == Queue(h, batch)
  <1>1. CASE batch = {}
    <2>1. r = h
      BY <1>1 DEF Queue
    <2>2. h = [h EXCEPT !.tasks = h.tasks]
      BY DEF CastState
    <2> QED
      BY <1>1, <2>1, <2>2
  <1>2. CASE batch # {}
    <2>1. PICK s : s = Append(h.tasks, batch)
      OBVIOUS
    <2>2. h.tasks \in Seq(SUBSET Task)
      BY DEF CastState
    <2>3. /\ s \in Seq(SUBSET Task) /\ DOMAIN h.tasks = 1 .. Len(h.tasks) /\ DOMAIN s = 1 .. Len(h.tasks) + 1
          /\ Len(h.tasks) \in Nat
          /\ \A i \in DOMAIN h.tasks : s[i] = h.tasks[i]
          /\ s[Len(h.tasks) + 1] = batch
      BY <2>1, <2>2, AppendProperties, LenProperties
    <2>4. r = [h EXCEPT !.tasks = s]
      BY <1>2, <2>1 DEF Queue
    <2>5. r \in CastState /\ r.tasks = s
      BY <2>3, <2>4 DEF CastState
    <2>6. PICK n : n = Len(h.tasks) + 1 /\ n \notin DOMAIN h.tasks
      BY <2>3
    <2>7. DOMAIN s = DOMAIN h.tasks \cup {n}
      BY <2>3, <2>6
    <2>8. ASSUME NEW p \in Client
          PROVE  /\ Back(r, p) <=> Back(h, p) \/ ATaskOf("back", p) \in batch
                 /\ OnceQueued(h, p) /\ ~(Back(h, p) /\ ATaskOf("back", p) \in batch) => OnceQueued(r, p)
      <3>1. PICK t : t = ATaskOf("back", p)
        OBVIOUS
      <3>2. Back(r, p) <=> \E i \in DOMAIN s : t \in s[i]
        BY <2>5, <3>1 DEF Back, IsQueued
      <3>3. Back(h, p) <=> \E i \in DOMAIN h.tasks : t \in h.tasks[i]
        BY <3>1 DEF Back, IsQueued
      <3>4. OnceQueued(r, p) <=> \A i, j \in DOMAIN s : t \in s[i] /\ t \in s[j] => i = j
        BY <2>5, <3>1 DEF OnceQueued
      <3>5. OnceQueued(h, p) <=> \A i, j \in DOMAIN h.tasks : t \in h.tasks[i] /\ t \in h.tasks[j] => i = j
        BY <3>1 DEF OnceQueued
      <3> QED
        BY <2>3, <2>6, <2>7, <3>1, <3>2, <3>3, <3>4, <3>5
    <2> QED
      BY <2>4, <2>5, <2>8
  <1> QED
    BY <1>1, <1>2

(***************************************************************************)
(* A task leaves the queue.                                                *)
(***************************************************************************)
Taken(q, t) ==
    LET rest == Head(q) \ {t}
    IN IF rest = {} THEN Tail(q) ELSE [q EXCEPT ![1] = rest]
LEMMA TakenEffect ==
    ASSUME NEW h \in CastState, h.tasks # <<>>, NEW t \in Head(h.tasks), NEW s, s = Taken(h.tasks, t)
    PROVE  LET r == [h EXCEPT !.tasks = s]
           IN /\ r \in CastState /\ t \in Task
              /\ \A p \in Client :
                    /\ OnceQueued(h, p) => OnceQueued(r, p)
                    /\ Back(r, p) => Back(h, p)
                    /\ OnceQueued(h, p) /\ t = ATaskOf("back", p) => Back(h, p) /\ ~ Back(r, p)
                    /\ t # ATaskOf("back", p) => (Back(r, p) <=> Back(h, p))
  <1> DEFINE r == [h EXCEPT !.tasks = s]
  <1>0. PICK q : q = h.tasks
    OBVIOUS
  <1>1. q \in Seq(SUBSET Task) /\ q # <<>>
    BY <1>0 DEF CastState
  <1>2. /\ Len(q) \in Nat \ {0} /\ DOMAIN q = 1 .. Len(q) /\ Head(q) = q[1] /\ Head(q) \in SUBSET Task
        /\ Tail(q) \in Seq(SUBSET Task) /\ DOMAIN Tail(q) = 1 .. Len(q) - 1
        /\ \A i \in DOMAIN Tail(q) : Tail(q)[i] = q[i + 1]
    BY <1>1, HeadTailProperties, LenProperties, EmptySeq
  <1>3. PICK rest : rest = q[1] \ {t}
    OBVIOUS
  <1>4. s = IF rest = {} THEN Tail(q) ELSE [q EXCEPT ![1] = rest]
    BY <1>0, <1>2, <1>3 DEF Taken
  <1>5. t \in Task /\ t \in q[1] /\ rest \in SUBSET Task
    BY <1>0, <1>2, <1>3
  <1>6. s \in Seq(SUBSET Task)
    <2>1. CASE rest = {}
      BY <1>2, <1>4, <2>1
    <2>2. CASE rest # {}
      <3>1. [q EXCEPT ![1] = rest] \in Seq(SUBSET Task)
        BY <1>1, <1>5, ExceptSeq
      <3> QED
        BY <1>4, <2>2, <3>1
    <2> QED
      BY <2>1, <2>2
  <1>7. r \in CastState /\ r.tasks = s
    BY <1>6 DEF CastState
  <1>8. ASSUME NEW p \in Client
        PROVE  /\ OnceQueued(h, p) => OnceQueued(r, p)
               /\ Back(r, p) => Back(h, p)
               /\ OnceQueued(h, p) /\ t = ATaskOf("back", p) => Back(h, p) /\ ~ Back(r, p)
               /\ t # ATaskOf("back", p) => (Back(r, p) <=> Back(h, p))
    <2>1. PICK u : u = ATaskOf("back", p)
      OBVIOUS
    <2>2. Back(r, p) <=> \E i \in DOMAIN s : u \in s[i]
      BY <1>7, <2>1 DEF Back, IsQueued
    <2>3. Back(h, p) <=> \E i \in DOMAIN q : u \in q[i]
      BY <1>0, <2>1 DEF Back, IsQueued
    <2>4. OnceQueued(r, p) <=> \A i, j \in DOMAIN s : u \in s[i] /\ u \in s[j] => i = j
      BY <1>7, <2>1 DEF OnceQueued
    <2>5. OnceQueued(h, p) <=> \A i, j \in DOMAIN q : u \in q[i] /\ u \in q[j] => i = j
      BY <1>0, <2>1 DEF OnceQueued
    <2>6. CASE rest = {}
      <3>0. s = Tail(q) /\ DOMAIN s = 1 .. Len(q) - 1
        BY <1>2, <1>4, <2>6
      <3>1. \A i \in DOMAIN s : s[i] = q[i + 1] /\ i + 1 \in DOMAIN q
        <4> TAKE i \in DOMAIN s
        <4>1. i \in DOMAIN Tail(q) /\ s[i] = Tail(q)[i]
          BY <3>0
        <4>2. i \in 1 .. Len(q) - 1
          BY <3>0
        <4>3. i + 1 \in 1 .. Len(q)
          BY <1>2, <4>2
        <4> QED
          BY <1>2, <4>1, <4>3
      <3>2. q[1] = {t} /\ 1 \in DOMAIN q
        BY <1>2, <1>3, <1>5, <2>6
      <3>3. \A i \in DOMAIN q : i # 1 => i - 1 \in DOMAIN s /\ s[i - 1] = q[i]
        <4> TAKE i \in DOMAIN q
        <4>1. i # 1 => i - 1 \in 1 .. Len(q) - 1 /\ (i - 1) + 1 = i
          BY <1>2
        <4> QED
          BY <3>0, <3>1, <4>1
      <3>4. \A i, j \in DOMAIN s : i + 1 = j + 1 => i = j
        BY <1>2, <3>0
      <3>5. \A i \in DOMAIN s : i + 1 # 1
        BY <1>2, <3>0
      <3> HIDE DEF r
      <3>6. Back(r, p) => Back(h, p)
        BY <2>2, <2>3, <3>1
      <3>7. OnceQueued(h, p) => OnceQueued(r, p)
        <4> SUFFICES ASSUME OnceQueued(h, p), NEW i \in DOMAIN s, NEW j \in DOMAIN s, u \in s[i], u \in s[j]
                     PROVE  i = j
          BY <2>4
        <4>1. i + 1 = j + 1
          BY <2>5, <3>1
        <4> QED
          BY <3>4, <4>1
      <3>8. OnceQueued(h, p) /\ u = t => Back(h, p) /\ ~ Back(r, p)
        <4> SUFFICES ASSUME OnceQueued(h, p), u = t
                     PROVE  Back(h, p) /\ ~ Back(r, p)
          OBVIOUS
        <4>1. Back(h, p)
          BY <2>3, <3>2
        <4>2. ASSUME NEW i \in DOMAIN s, u \in s[i] PROVE FALSE
          <5>1. i + 1 = 1
            BY <2>5, <3>1, <3>2, <4>2
          <5> QED
            BY <3>5, <5>1
        <4> QED
          BY <2>2, <4>1, <4>2
      <3>9. u # t => (Back(h, p) => Back(r, p))
        <4> SUFFICES ASSUME u # t, NEW i \in DOMAIN q, u \in q[i]
                     PROVE  Back(r, p)
          BY <2>3
        <4>1. i # 1
          BY <3>2
        <4> QED
          BY <2>2, <3>3, <4>1
      <3> QED
        BY <2>1, <3>6, <3>7, <3>8, <3>9
    <2>7. CASE rest # {}
      <3>1. s = [q EXCEPT ![1] = rest]
        BY <1>4, <2>7
      <3>2. DOMAIN s = DOMAIN q /\ 1 \in DOMAIN q /\ s[1] = rest /\ \A i \in DOMAIN q : i # 1 => s[i] = q[i]
        BY <1>2, <3>1
      <3>3. \A x : x \in rest <=> x \in q[1] /\ x # t
        BY <1>3
      <3> HIDE DEF r
      <3>4. \A i \in DOMAIN q : u \in s[i] => u \in q[i]
        BY <3>2, <3>3
      <3>5. u # t => \A i \in DOMAIN q : u \in s[i] <=> u \in q[i]
        BY <3>2, <3>3
      <3>6. u = t => u \notin s[1] /\ u \in q[1]
        BY <1>5, <3>2, <3>3
      <3>7. (OnceQueued(h, p) => OnceQueued(r, p)) /\ (Back(r, p) => Back(h, p))
        BY <2>2, <2>3, <2>4, <2>5, <3>2, <3>4
      <3>8. u # t => (Back(r, p) <=> Back(h, p))
        BY <2>2, <2>3, <3>2, <3>5
      <3>9. OnceQueued(h, p) /\ u = t => Back(h, p) /\ ~ Back(r, p)
        BY <2>2, <2>3, <2>5, <3>2, <3>4, <3>6
      <3> QED
        BY <2>1, <3>7, <3>8, <3>9
    <2> QED
      BY <2>6, <2>7
  <1> QED
    BY <1>5, <1>7, <1>8

(***************************************************************************)
(* What the helpers leave alone.                                           *)
(***************************************************************************)
OthersSame(r, h) ==
    /\ r.player = h.player /\ r.spectator = h.spectator /\ r.spy = h.spy /\ r.home = h.home
    /\ r.eventConnect = h.eventConnect /\ r.cleaned = h.cleaned
    /\ r.strayed = h.strayed /\ r.stranded = h.stranded
ClosedIn(h, closed) == [p \in Client |-> IF p \in closed /\ h.conn[p] = "open" THEN "closed" ELSE h.conn[p]]

LEMMA DismissEffect ==
    ASSUME NEW h \in CastState, NEW closed \in SUBSET Client, NEW telescopes \in SUBSET Client
    PROVE  LET r == Dismiss(h, closed, telescopes)
           IN /\ r \in CastState /\ OthersSame(r, h) /\ r.obj = h.obj /\ r.liveCasts = h.liveCasts
              /\ r.conn = ClosedIn(h, closed)
              /\ \A q \in Client :
                    /\ Back(r, q) <=> Back(h, q) \/ q \in telescopes
                    /\ OnceQueued(h, q) /\ ~(Back(h, q) /\ q \in telescopes) => OnceQueued(r, q)
  <1>1. PICK open : open = {p \in closed : h.conn[p] = "open"}
    OBVIOUS
  <1>2. PICK batch : batch = {ATaskOf("release", p) : p \in open} \cup {ATaskOf("back", p) : p \in telescopes}
    OBVIOUS
  <1>3. batch \in SUBSET Task
    BY <1>1, <1>2 DEF Task, ATaskOf
  <1>4. \A q \in Client : ATaskOf("back", q) \in batch <=> q \in telescopes
    BY <1>2 DEF ATaskOf
  <1>5. PICK k : k = [h EXCEPT !.conn = [p \in Client |-> IF p \in open THEN "closed" ELSE h.conn[p]]]
    OBVIOUS
  <1>6. [p \in Client |-> IF p \in open THEN "closed" ELSE h.conn[p]] = ClosedIn(h, closed)
    BY <1>1 DEF ClosedIn
  <1>7. ClosedIn(h, closed) \in [Client -> {"new", "open", "closed"}]
    BY DEF ClosedIn, CastState
  <1>8. /\ k \in CastState /\ OthersSame(k, h) /\ k.obj = h.obj /\ k.liveCasts = h.liveCasts
        /\ k.conn = ClosedIn(h, closed) /\ k.tasks = h.tasks
    BY <1>5, <1>6, <1>7 DEF CastState, OthersSame
  <1>9. Dismiss(h, closed, telescopes) = Queue(k, batch)
    BY <1>1, <1>2, <1>5 DEF Dismiss
  <1>10. PICK r : r = Queue(k, batch)
    OBVIOUS
  <1>11. /\ r \in CastState /\ \E s : r = [k EXCEPT !.tasks = s]
         /\ \A q \in Client :
               /\ Back(r, q) <=> Back(k, q) \/ ATaskOf("back", q) \in batch
               /\ OnceQueued(k, q) /\ ~(Back(k, q) /\ ATaskOf("back", q) \in batch) => OnceQueued(r, q)
    BY <1>3, <1>8, <1>10, QueueEffect
  <1>12. /\ OthersSame(r, h) /\ r.obj = h.obj /\ r.liveCasts = h.liveCasts /\ r.conn = ClosedIn(h, closed)
    BY <1>8, <1>11 DEF OthersSame, CastState
  <1>13. \A q \in Client : (Back(k, q) <=> Back(h, q)) /\ (OnceQueued(k, q) <=> OnceQueued(h, q))
    BY <1>8 DEF Back, IsQueued, OnceQueued
  <1> QED
    BY <1>4, <1>9, <1>10, <1>11, <1>12, <1>13

\* The same holders and the same worlds.
LEMMA SameCounts ==
    ASSUME NEW h, NEW r, r.player = h.player, r.cleaned = h.cleaned,
           \A o \in Object : /\ r.obj[o].refs = h.obj[o].refs
                             /\ r.obj[o].status = h.obj[o].status
                                \/ (h.obj[o].status = "placed" /\ r.obj[o].status = "removed")
    PROVE  /\ Exact(h) => Exact(r)
           /\ \A p : ExactBut(h, p) => ExactBut(r, p)
  <1>1. \A o : Users(r, o) = Users(h, o) /\ \A p : UsersBut(r, p, o) = UsersBut(h, p, o)
    BY DEF Users, UsersBut
  <1>2. \A o \in Object : World(r, o) <=> World(h, o)
    BY DEF World
  <1>3. \A o \in Object : \A S : Counts(h, o, S) => Counts(r, o, S)
    BY <1>2 DEF Counts
  <1> QED
    BY <1>1, <1>3 DEF Exact, ExactBut

LEMMA DismissGood ==
    ASSUME NEW h, Good(h), NEW closed \in SUBSET Client
    PROVE  LET r == Dismiss(h, closed, {})
           IN Good(r) /\ OthersSame(r, h) /\ r.obj = h.obj /\ r.liveCasts = h.liveCasts
  <1>1. PICK r : r = Dismiss(h, closed, {})
    OBVIOUS
  <1>2. h \in CastState /\ Exact(h) /\ Agree(h) /\ h.strayed = {}
    BY DEF Good
  <1>3. /\ r \in CastState /\ OthersSame(r, h) /\ r.obj = h.obj /\ r.liveCasts = h.liveCasts
        /\ r.conn = ClosedIn(h, closed)
        /\ \A q \in Client : (Back(r, q) <=> Back(h, q)) /\ (OnceQueued(h, q) => OnceQueued(r, q))
    BY <1>1, <1>2, DismissEffect
  <1>4. Exact(r)
    BY <1>2, <1>3, SameCounts DEF OthersSame
  <1>5. \A q \in Client : /\ r.conn[q] = "new" <=> h.conn[q] = "new"
                          /\ r.conn[q] = "open" => h.conn[q] = "open"
    BY <1>3 DEF ClosedIn
  <1>6. ASSUME NEW q \in Client
        PROVE  ClientAgrees(r, q)
    BY <1>2, <1>3, <1>5
       DEF Agree, ClientAgrees, Fresh, Waits, Owns, Plays, Watches, Sent, OthersSame
  <1>7. ASSUME NEW o \in Object
        PROVE  ObjectAgrees(r, o)
    BY <1>2, <1>3 DEF Agree, ObjectAgrees, Owned, OthersSame
  <1>8. ASSUME NEW q \in Client, NEW o \in Object
        PROVE  Listed(r, q, o)
    BY <1>2, <1>3 DEF Agree, Listed, OthersSame
  <1>9. Good(r)
    BY <1>2, <1>3, <1>4, <1>6, <1>7, <1>8 DEF Good, Agree, OthersSame
  <1> QED
    BY <1>1, <1>3, <1>9

LEMMA CloseGood ==
    ASSUME NEW h, Good(h), NEW p \in Client
    PROVE  LET r == CloseOne(h, p)
           IN Good(r) /\ OthersSame(r, h) /\ r.obj = h.obj /\ r.liveCasts = h.liveCasts
  BY DismissGood DEF CloseOne

LEMMA TakeOutGood ==
    ASSUME NEW h, Good(h), NEW o \in Object
    PROVE  LET r == TakeOut(h, o)
           IN /\ Good(r) /\ OthersSame(r, h) /\ r.liveCasts = h.liveCasts /\ r.conn = h.conn /\ r.tasks = h.tasks
              /\ r.obj[o].status # "placed"
              /\ \A x \in Object :
                    /\ x # o => r.obj[x] = h.obj[x]
                    /\ r.obj[x].spectators = h.obj[x].spectators
  <1>1. PICK r : r = TakeOut(h, o)
    OBVIOUS
  <1>2. h \in CastState /\ Exact(h) /\ Agree(h) /\ h.strayed = {}
    BY DEF Good
  <1>3. PICK s : s = IF h.obj[o].status = "placed" THEN "removed" ELSE h.obj[o].status
    OBVIOUS
  <1>4. PICK e : e = [h.obj[o] EXCEPT !.status = s]
    OBVIOUS
  <1>5. h.obj[o] \in Entry
    BY <1>2 DEF CastState
  <1>6. /\ e \in Entry /\ e.status = s /\ e.refs = h.obj[o].refs /\ e.owner = h.obj[o].owner
        /\ e.broadcast = h.obj[o].broadcast /\ e.spectators = h.obj[o].spectators
    BY <1>3, <1>4, <1>5 DEF Entry
  <1>7. r = [h EXCEPT !.obj = [h.obj EXCEPT ![o] = e]]
    BY <1>1, <1>3, <1>4 DEF TakeOut
  <1>8. /\ r \in CastState /\ OthersSame(r, h) /\ r.liveCasts = h.liveCasts /\ r.conn = h.conn /\ r.tasks = h.tasks
        /\ r.obj = [h.obj EXCEPT ![o] = e]
    BY <1>2, <1>6, <1>7 DEF CastState, OthersSame
  <1>9. r.obj[o] = e /\ \A x \in Object : x # o => r.obj[x] = h.obj[x]
    BY <1>2, <1>8 DEF CastState
  <1>10. \A x \in Object :
           /\ r.obj[x].refs = h.obj[x].refs /\ r.obj[x].owner = h.obj[x].owner
           /\ r.obj[x].broadcast = h.obj[x].broadcast /\ r.obj[x].spectators = h.obj[x].spectators
           /\ r.obj[x].status = h.obj[x].status
              \/ (h.obj[x].status = "placed" /\ r.obj[x].status = "removed")
    BY <1>3, <1>6, <1>9
  <1>11. Exact(r)
    BY <1>2, <1>8, <1>10, SameCounts DEF OthersSame
  <1>12. \A q \in Client : (Back(r, q) <=> Back(h, q)) /\ (OnceQueued(r, q) <=> OnceQueued(h, q))
    BY <1>8 DEF Back, IsQueued, OnceQueued
  <1>13. ASSUME NEW q \in Client
         PROVE  ClientAgrees(r, q)
    <2>1. h.player[q] \in Object \cup {None}
      BY <1>2 DEF CastState
    <2> QED
      BY <1>2, <1>8, <1>10, <1>12, <2>1
         DEF Agree, ClientAgrees, Fresh, Waits, Owns, Plays, Watches, Sent, OthersSame
  <1>14. ASSUME NEW x \in Object
         PROVE  ObjectAgrees(r, x)
    BY <1>2, <1>8, <1>10 DEF Agree, ObjectAgrees, Owned, OthersSame
  <1>15. ASSUME NEW q \in Client, NEW x \in Object
         PROVE  Listed(r, q, x)
    BY <1>2, <1>8, <1>10, <1>12 DEF Agree, Listed, OthersSame
  <1>16. Good(r)
    BY <1>2, <1>8, <1>11, <1>13, <1>14, <1>15 DEF Good, Agree, OthersSame
  <1>17. r.obj[o].status # "placed"
    BY <1>3, <1>6, <1>9
  <1> QED
    BY <1>1, <1>8, <1>9, <1>10, <1>16, <1>17

(***************************************************************************)
(* Viewer::clear, for a player that is in the client it belongs to.        *)
(***************************************************************************)
LEMMA ClearGood ==
    ASSUME NEW h, Good(h), NEW o \in Object, Owned(h, o), NEW full \in BOOLEAN
    PROVE  LET r == Clear(h, o, full)
           IN /\ Good(r) /\ OthersSame(r, h) /\ o \notin r.liveCasts
              /\ r.obj[o].spectators = {} /\ (~ full => r.obj[o].broadcast = h.obj[o].broadcast)
              /\ r.obj[o].status = h.obj[o].status /\ r.obj[o].refs = h.obj[o].refs
              /\ r.obj[o].owner = h.obj[o].owner /\ r.obj[o].name = h.obj[o].name
              /\ \A x \in Object : x # o => r.obj[x] = h.obj[x]
  <1>1. h \in CastState /\ Exact(h) /\ Agree(h) /\ h.strayed = {}
    BY DEF Good
  <1>2. PICK watching : watching = h.obj[o].spectators
    OBVIOUS
  <1>3. PICK tele : tele = {p \in watching : h.home[p] # None}
    OBVIOUS
  <1>4. PICK told : told = Dismiss(h, watching \ tele, tele)
    OBVIOUS
  <1>5. h.obj[o] \in Entry /\ watching \in SUBSET Client /\ tele \in SUBSET Client
    BY <1>1, <1>2, <1>3 DEF CastState, Entry
  <1>6. /\ told \in CastState /\ OthersSame(told, h) /\ told.obj = h.obj /\ told.liveCasts = h.liveCasts
        /\ told.conn = ClosedIn(h, watching \ tele)
        /\ \A q \in Client : /\ Back(told, q) <=> Back(h, q) \/ q \in tele
                             /\ OnceQueued(h, q) /\ ~(Back(h, q) /\ q \in tele) => OnceQueued(told, q)
    BY <1>1, <1>4, <1>5, DismissEffect
  <1>7. PICK b : b = IF full THEN FALSE ELSE h.obj[o].broadcast
    OBVIOUS
  <1>8. PICK e : e = [h.obj[o] EXCEPT !.spectators = {}, !.broadcast = b]
    OBVIOUS
  <1>9. /\ e \in Entry /\ e.status = h.obj[o].status /\ e.refs = h.obj[o].refs /\ e.owner = h.obj[o].owner
        /\ e.name = h.obj[o].name /\ e.broadcast = b /\ e.spectators = {}
    BY <1>5, <1>7, <1>8 DEF Entry
  <1>10. PICK k : k = [told EXCEPT !.obj = [h.obj EXCEPT ![o] = e]]
    OBVIOUS
  <1>11. k = [told EXCEPT !.obj[o] = [told.obj[o] EXCEPT !.spectators = {}, !.broadcast = IF full THEN FALSE ELSE @]]
    BY <1>1, <1>6, <1>7, <1>8, <1>10 DEF CastState
  <1>12. /\ k \in CastState /\ OthersSame(k, h) /\ k.obj = [h.obj EXCEPT ![o] = e] /\ k.liveCasts = h.liveCasts
         /\ k.conn = ClosedIn(h, watching \ tele) /\ k.tasks = told.tasks
    BY <1>1, <1>6, <1>9, <1>10 DEF CastState, OthersSame
  <1>13. k.obj[o] = e /\ \A x \in Object : x # o => k.obj[x] = h.obj[x]
    BY <1>1, <1>12 DEF CastState
  <1>14. PICK r : r = RemoveCaster(k, o)
    OBVIOUS
  <1>15. Clear(h, o, full) = r
    BY <1>2, <1>3, <1>4, <1>11, <1>14 DEF Clear
  <1>16. Caster(k, o) = IF h.obj[o].owner # None THEN {o} ELSE {}
    BY <1>9, <1>12, <1>13 DEF Caster, HasClient, Owned, OthersSame
  <1>17. h.obj[o].owner = None => o \notin h.liveCasts
    BY <1>1 DEF Agree, ObjectAgrees
  <1>18. r = [k EXCEPT !.liveCasts = h.liveCasts \ {o}]
    BY <1>12, <1>14, <1>16, <1>17 DEF RemoveCaster
  <1>19. /\ r \in CastState /\ OthersSame(r, h) /\ r.obj = k.obj /\ r.liveCasts = h.liveCasts \ {o}
         /\ r.conn = ClosedIn(h, watching \ tele) /\ r.tasks = told.tasks
    BY <1>1, <1>12, <1>18 DEF CastState, OthersSame
  <1>20. \A q \in Client : (Back(r, q) <=> Back(told, q)) /\ (OnceQueued(r, q) <=> OnceQueued(told, q))
    BY <1>19 DEF Back, IsQueued, OnceQueued
  <1>21. Exact(r)
    BY <1>1, <1>9, <1>13, <1>19, SameCounts DEF OthersSame
  <1>22. \A q \in Client : /\ r.conn[q] = "new" <=> h.conn[q] = "new"
                           /\ r.conn[q] = "open" => h.conn[q] = "open" /\ q \notin watching \ tele
    BY <1>19 DEF ClosedIn
  <1>23. \A q \in Client : q \in watching => h.spectator[q] /\ h.player[q] = o /\ ~Back(h, q)
    BY <1>1, <1>2 DEF Agree, Listed
  <1>24. ASSUME NEW q \in Client
         PROVE  ClientAgrees(r, q)
    <2>1. h.player[q] \in Object \cup {None}
      BY <1>1 DEF CastState
    <2>2. Fresh(h, q) /\ Waits(h, q) /\ Owns(h, q) /\ Watches(h, q) /\ Sent(h, q)
      BY <1>1 DEF Agree, ClientAgrees
    <2>3. Fresh(r, q) /\ Waits(r, q)
      BY <1>19, <1>22, <2>2 DEF Fresh, Waits, OthersSame
    <2>4. Owns(r, q)
      BY <1>9, <1>13, <1>19, <2>1, <2>2 DEF Owns, Plays, OthersSame
    <2>5. Sent(r, q)
      BY <1>3, <1>6, <1>19, <1>20, <1>23, <2>2 DEF Sent, OthersSame
    <2>6. Watches(r, q)
      <3>1. CASE q \in watching
        <4>1. r.conn[q] = "open" => Back(r, q)
          BY <1>6, <1>20, <1>22, <3>1
        <4> QED
          BY <4>1 DEF Watches
      <3>2. CASE q \notin watching
        <4> SUFFICES ASSUME h.spectator[q], h.player[q] # None, r.conn[q] = "open", q \notin h.stranded
                     PROVE  q \in r.obj[h.player[q]].spectators \/ Back(r, q)
          BY <1>19 DEF Watches, OthersSame
        <4>1. q \in h.obj[h.player[q]].spectators \/ Back(h, q)
          BY <1>22, <2>2 DEF Watches
        <4> QED
          BY <1>2, <1>6, <1>13, <1>19, <1>20, <2>1, <3>2, <4>1
      <3> QED
        BY <3>1, <3>2
    <2> QED
      BY <2>3, <2>4, <2>5, <2>6 DEF ClientAgrees
  <1>25. ASSUME NEW x \in Object
         PROVE  ObjectAgrees(r, x)
    BY <1>1, <1>9, <1>13, <1>19 DEF Agree, ObjectAgrees, Owned, OthersSame
  <1>26. ASSUME NEW q \in Client, NEW x \in Object
         PROVE  Listed(r, q, x)
    <2> SUFFICES ASSUME q \in r.obj[x].spectators
                 PROVE  /\ r.spectator[q] /\ r.player[q] = x
                        /\ r.obj[x].broadcast \/ r.spy[q]
                        /\ ~ Back(r, q)
      BY DEF Listed
    <2>1. x # o
      BY <1>9, <1>13, <1>19
    <2>2. /\ h.spectator[q] /\ h.player[q] = x
          /\ h.obj[x].broadcast \/ h.spy[q]
          /\ ~ Back(h, q)
      BY <1>1, <1>13, <1>19, <2>1 DEF Agree, Listed
    <2>3. q \notin watching
      BY <1>23, <2>1, <2>2
    <2> QED
      BY <1>3, <1>6, <1>13, <1>19, <1>20, <2>1, <2>2, <2>3 DEF OthersSame
  <1>27. Good(r)
    BY <1>1, <1>19, <1>21, <1>24, <1>25, <1>26 DEF Good, Agree, OthersSame
  <1> QED
    BY <1>7, <1>9, <1>13, <1>15, <1>19, <1>27

(***************************************************************************)
(* A client p that changes its player: everything agrees but for p, who is *)
(* on no list.  Its reference is counted (Within) or given up (Without).   *)
(***************************************************************************)
Core(h, p) ==
    /\ h \in CastState /\ h.strayed = {}
    /\ h.conn[p] # "new" /\ h.eventConnect[p] = None /\ Sent(h, p)
    /\ \A q \in Client \ {p} : ClientAgrees(h, q)
    /\ \A o \in Object : /\ ObjectAgrees(h, o)
                         /\ h.obj[o].status = "placed" \/ o \in h.liveCasts => h.obj[o].owner # p
                         /\ p \notin h.obj[o].spectators
    /\ \A q \in Client \ {p}, o \in Object : Listed(h, q, o)
Within(h, p) == Core(h, p) /\ Exact(h)
Without(h, p) == Core(h, p) /\ ExactBut(h, p)

LEMMA UsersFinite ==
    ASSUME NEW h, NEW p, NEW o
    PROVE  /\ IsFiniteSet(Users(h, o)) /\ Cardinality(Users(h, o)) \in Nat
           /\ IsFiniteSet(UsersBut(h, p, o)) /\ Cardinality(UsersBut(h, p, o)) \in Nat
           /\ Cardinality(Users(h, o)) = 0 <=> Users(h, o) = {}
           /\ Cardinality(UsersBut(h, p, o)) = 0 <=> UsersBut(h, p, o) = {}
  <1>1. IsFiniteSet(Client)
    BY CastingAssumption
  <1>2. Users(h, o) \subseteq Client /\ UsersBut(h, p, o) \subseteq Client
    BY DEF Users, UsersBut
  <1>3. IsFiniteSet(Users(h, o)) /\ IsFiniteSet(UsersBut(h, p, o))
    BY <1>1, <1>2, FS_Subset
  <1> QED
    BY <1>3, FS_CardinalityType, FS_EmptySet

LEMMA UsersOf ==
    ASSUME NEW h, NEW p \in Client, NEW o
    PROVE  /\ h.player[p] = o => /\ Users(h, o) = UsersBut(h, p, o) \cup {p}
                                 /\ Cardinality(Users(h, o)) = Cardinality(UsersBut(h, p, o)) + 1
           /\ h.player[p] # o => Users(h, o) = UsersBut(h, p, o)
  <1>0. p \notin UsersBut(h, p, o)
    BY DEF UsersBut
  <1>1. p \notin UsersBut(h, p, o) /\ IsFiniteSet(UsersBut(h, p, o))
    BY <1>0, UsersFinite
  <1>2. h.player[p] = o => Users(h, o) = UsersBut(h, p, o) \cup {p}
    BY DEF Users, UsersBut
  <1>3. Cardinality(UsersBut(h, p, o) \cup {p}) = Cardinality(UsersBut(h, p, o)) + 1
    BY <1>1, FS_AddElement
  <1>4. h.player[p] # o => Users(h, o) = UsersBut(h, p, o)
    BY DEF Users, UsersBut
  <1> QED
    BY <1>2, <1>3, <1>4

(***************************************************************************)
(* A reference is given up, and the object deleted with the last.          *)
(***************************************************************************)
Gone == [NoPlayer EXCEPT !.status = "deleted"]
LEMMA NoPlayerParts ==
    /\ NoPlayer \in Entry /\ NoPlayer.name = None /\ NoPlayer.status = "none" /\ NoPlayer.refs = 0
    /\ NoPlayer.owner = None /\ NoPlayer.broadcast = FALSE /\ NoPlayer.spectators = {}
  <1>1. PICK f : f = FALSE
    OBVIOUS
  <1>2. f \in BOOLEAN
    BY <1>1, Zenon
  <1>3. NoPlayer = [name |-> None, status |-> "none", refs |-> 0, owner |-> None, broadcast |-> f, spectators |-> {}]
    BY <1>1, Zenon DEF NoPlayer
  <1>4. NoPlayer.broadcast = f
    BY <1>3
  <1> QED
    BY <1>1, <1>2, <1>3, <1>4 DEF Entry

LEMMA GoneParts ==
    /\ Gone \in Entry /\ Gone.status = "deleted" /\ Gone.refs = 0 /\ Gone.owner = None
    /\ Gone.broadcast = FALSE /\ Gone.spectators = {}
  BY NoPlayerParts DEF Gone, Entry

LEMMA CountedParts ==
    ASSUME NEW x \in Entry, NEW n \in Int
    PROVE  /\ Counted(x, n) \in Entry
           /\ x.refs + n = 0 => Counted(x, n) = Gone
           /\ x.refs + n # 0 =>
                LET y == Counted(x, n)
                IN /\ y.refs = x.refs + n /\ y.status = x.status /\ y.owner = x.owner /\ y.name = x.name
                   /\ y.broadcast = x.broadcast /\ y.spectators = x.spectators
  <1>1. CASE x.refs + n = 0
    BY <1>1, GoneParts DEF Counted, Gone
  <1>2. CASE x.refs + n # 0
    <2>1. Counted(x, n) = [x EXCEPT !.refs = x.refs + n]
      BY <1>2 DEF Counted
    <2>2. x.refs + n \in Int
      BY DEF Entry
    <2> QED
      BY <1>2, <2>1, <2>2 DEF Entry
  <1> QED
    BY <1>1, <1>2

LEMMA CountRefEffect ==
    ASSUME NEW h \in CastState, NEW o \in Object, NEW n \in Int
    PROVE  LET r == CountRef(h, o, n)
           IN /\ r \in CastState /\ OthersSame(r, h) /\ r.conn = h.conn /\ r.liveCasts = h.liveCasts
              /\ r.tasks = h.tasks /\ r.odd = h.odd
              /\ r.obj[o] = Counted(h.obj[o], n)
              /\ \A x \in Object : x # o => r.obj[x] = h.obj[x]
  <1>1. PICK e : e = Counted(h.obj[o], n)
    OBVIOUS
  <1>2. h.obj[o] \in Entry
    BY DEF CastState
  <1>3. e \in Entry
    BY <1>1, <1>2, CountedParts
  <1>4. PICK r : r = [h EXCEPT !.obj = [h.obj EXCEPT ![o] = e]]
    OBVIOUS
  <1>5. r = CountRef(h, o, n)
    BY <1>1, <1>4 DEF CountRef
  <1>6. /\ r \in CastState /\ OthersSame(r, h) /\ r.conn = h.conn /\ r.liveCasts = h.liveCasts
        /\ r.tasks = h.tasks /\ r.odd = h.odd /\ r.obj = [h.obj EXCEPT ![o] = e]
    BY <1>3, <1>4 DEF CastState, OthersSame
  <1>7. r.obj[o] = e /\ \A x \in Object : x # o => r.obj[x] = h.obj[x]
    BY <1>6 DEF CastState
  <1> QED
    BY <1>1, <1>5, <1>6, <1>7

LEMMA SameQueue ==
    ASSUME NEW h, NEW r, r.tasks = h.tasks, NEW q
    PROVE  (Back(r, q) <=> Back(h, q)) /\ (OnceQueued(r, q) <=> OnceQueued(h, q))
  BY DEF Back, IsQueued, OnceQueued

LEMMA DropEffect ==
    ASSUME NEW p \in Client, NEW h, Within(h, p), NEW o \in Object, h.player[p] = o
    PROVE  LET k == CountRef(h, o, -1)
           IN /\ Without(k, p) /\ OthersSame(k, h) /\ k.conn = h.conn /\ k.liveCasts = h.liveCasts
              /\ k.tasks = h.tasks /\ k.odd = h.odd
              /\ h.obj[o].status \notin {"none", "deleted"} /\ k.obj[o].status # "none"
              /\ \A x \in Object : /\ x # o => k.obj[x] = h.obj[x]
                                   /\ h.obj[x].status = "placed" =>
                                        /\ k.obj[x].status = "placed" /\ k.obj[x].broadcast = h.obj[x].broadcast
                                        /\ k.obj[x].owner = h.obj[x].owner /\ k.obj[x].name = h.obj[x].name
  <1>1. PICK k : k = CountRef(h, o, -1)
    OBVIOUS
  <1>2. h \in CastState /\ Core(h, p) /\ Exact(h)
    BY DEF Within, Core
  <1>3. /\ k \in CastState /\ OthersSame(k, h) /\ k.conn = h.conn /\ k.liveCasts = h.liveCasts
        /\ k.tasks = h.tasks /\ k.odd = h.odd
        /\ k.obj[o] = Counted(h.obj[o], -1)
        /\ \A x \in Object : x # o => k.obj[x] = h.obj[x]
    BY <1>1, <1>2, CountRefEffect
  <1>4. h.obj[o] \in Entry
    BY <1>2 DEF CastState
  <1>5. PICK n : n = Cardinality(UsersBut(h, p, o))
    OBVIOUS
  <1>6. n \in Nat /\ (n = 0 <=> UsersBut(h, p, o) = {})
    BY <1>5, UsersFinite
  <1>7. Cardinality(Users(h, o)) = n + 1
    BY <1>5, UsersOf
  <1>8. /\ h.obj[o].refs = n + 1 + (IF World(h, o) THEN 1 ELSE 0)
        /\ h.obj[o].status \in {"none", "deleted"} <=> h.obj[o].refs = 0
    BY <1>2, <1>7 DEF Exact, Counts
  <1>9. h.obj[o].status \notin {"none", "deleted"}
    BY <1>6, <1>8
  <1>10. \A x, q : UsersBut(k, q, x) = UsersBut(h, q, x)
    BY <1>3 DEF UsersBut, OthersSame
  <1>11. ASSUME NEW x \in Object, x # o
         PROVE  Counts(k, x, UsersBut(k, p, x))
    <2>1. Counts(h, x, Users(h, x)) /\ Users(h, x) = UsersBut(h, p, x)
      BY <1>2, <1>11, UsersOf DEF Exact
    <2> QED
      BY <1>3, <1>10, <1>11, <2>1 DEF Counts, World, OthersSame
  <1>12. CASE h.obj[o].refs + -1 = 0
    <2>1. n = 0 /\ ~World(h, o)
      BY <1>6, <1>8, <1>12
    <2>2. k.obj[o] = Gone
      BY <1>3, <1>4, <1>12, CountedParts
    <2>3. \A q \in Client \ {p} : h.player[q] # o
      BY <1>6, <2>1 DEF UsersBut
    <2>4. Counts(k, o, UsersBut(k, p, o))
      <3>1. ~World(k, o)
        BY <2>2, GoneParts DEF World
      <3>2. Cardinality(UsersBut(k, p, o)) = 0
        BY <1>5, <1>10, <2>1
      <3> QED
        BY <2>2, <3>1, <3>2, GoneParts DEF Counts
    <2>5. h.obj[o].status # "placed" /\ o \notin h.liveCasts
      <3>1. ObjectAgrees(h, o) /\ (h.obj[o].status = "placed" \/ o \in h.liveCasts => h.obj[o].owner # p)
        BY <1>2 DEF Core
      <3>2. h.obj[o].status # "placed"
        BY <2>1, <3>1 DEF World, ObjectAgrees
      <3>3. ASSUME o \in h.liveCasts PROVE FALSE
        <4>1. h.obj[o].owner # None /\ h.player[h.obj[o].owner] = o /\ h.obj[o].owner # p
          BY <3>1, <3>3 DEF ObjectAgrees, Owned
        <4>2. h.obj[o].owner \in Client
          BY <1>4, <4>1 DEF Entry
        <4> QED
          BY <2>3, <4>1, <4>2
      <3> QED
        BY <3>2, <3>3
    <2>6. Core(k, p)
      <3>1. k.strayed = {} /\ k.conn[p] # "new" /\ k.eventConnect[p] = None /\ Sent(k, p)
        BY <1>2, <1>3, SameQueue DEF Core, Sent, OthersSame
      <3>2. ASSUME NEW q \in Client \ {p}
            PROVE  ClientAgrees(k, q)
        <4>1. ClientAgrees(h, q)
          BY <1>2 DEF Core
        <4>2. h.player[q] = None \/ (h.player[q] \in Object /\ h.player[q] # o)
          BY <1>2, <2>3 DEF CastState
        <4> QED
          BY <1>3, <4>1, <4>2, SameQueue
             DEF ClientAgrees, Fresh, Waits, Owns, Plays, Watches, Sent, OthersSame
      <3>3. ASSUME NEW x \in Object
            PROVE  /\ ObjectAgrees(k, x)
                   /\ k.obj[x].status = "placed" \/ x \in k.liveCasts => k.obj[x].owner # p
                   /\ p \notin k.obj[x].spectators
        <4>1. /\ ObjectAgrees(h, x)
              /\ h.obj[x].status = "placed" \/ x \in h.liveCasts => h.obj[x].owner # p
              /\ p \notin h.obj[x].spectators
          BY <1>2 DEF Core
        <4>2. CASE x # o
          BY <1>3, <4>1, <4>2 DEF ObjectAgrees, Owned, OthersSame
        <4>3. CASE x = o
          BY <1>3, <2>2, <2>5, <4>3, GoneParts DEF ObjectAgrees
        <4> QED
          BY <4>2, <4>3
      <3>4. ASSUME NEW q \in Client \ {p}, NEW x \in Object
            PROVE  Listed(k, q, x)
        <4>1. Listed(h, q, x)
          BY <1>2 DEF Core
        <4> QED
          BY <1>3, <2>2, <4>1, GoneParts, SameQueue DEF Listed, OthersSame
      <3> QED
        BY <1>3, <3>1, <3>2, <3>3, <3>4 DEF Core
    <2> QED
      BY <1>1, <1>3, <1>9, <1>11, <2>2, <2>4, <2>5, <2>6, GoneParts DEF Without, ExactBut
  <1>13. CASE h.obj[o].refs + -1 # 0
    <2>1. /\ k.obj[o].refs = h.obj[o].refs + -1 /\ k.obj[o].status = h.obj[o].status
          /\ k.obj[o].owner = h.obj[o].owner /\ k.obj[o].name = h.obj[o].name
          /\ k.obj[o].broadcast = h.obj[o].broadcast /\ k.obj[o].spectators = h.obj[o].spectators
      BY <1>3, <1>4, <1>13, CountedParts
    <2>2. \A x \in Object :
             /\ k.obj[x].status = h.obj[x].status /\ k.obj[x].owner = h.obj[x].owner
             /\ k.obj[x].broadcast = h.obj[x].broadcast /\ k.obj[x].spectators = h.obj[x].spectators
             /\ k.obj[x].name = h.obj[x].name
      BY <1>3, <2>1
    <2>3. Counts(k, o, UsersBut(k, p, o))
      <3>1. World(k, o) <=> World(h, o)
        BY <1>3, <2>1 DEF World, OthersSame
      <3>2. k.obj[o].refs = n + (IF World(k, o) THEN 1 ELSE 0)
        BY <1>6, <1>8, <2>1, <3>1
      <3> QED
        BY <1>5, <1>6, <1>8, <1>9, <1>10, <1>13, <2>1, <3>2 DEF Counts
    <2>4. Core(k, p)
      <3>1. k.strayed = {} /\ k.conn[p] # "new" /\ k.eventConnect[p] = None /\ Sent(k, p)
        BY <1>2, <1>3, SameQueue DEF Core, Sent, OthersSame
      <3>2. ASSUME NEW q \in Client \ {p}
            PROVE  ClientAgrees(k, q)
        <4>1. ClientAgrees(h, q)
          BY <1>2 DEF Core
        <4>2. h.player[q] = None \/ h.player[q] \in Object
          BY <1>2 DEF CastState
        <4> QED
          BY <1>3, <2>2, <4>1, <4>2, SameQueue
             DEF ClientAgrees, Fresh, Waits, Owns, Plays, Watches, Sent, OthersSame
      <3>3. ASSUME NEW x \in Object
            PROVE  /\ ObjectAgrees(k, x)
                   /\ k.obj[x].status = "placed" \/ x \in k.liveCasts => k.obj[x].owner # p
                   /\ p \notin k.obj[x].spectators
        BY <1>2, <1>3, <2>2 DEF Core, ObjectAgrees, Owned, OthersSame
      <3>4. ASSUME NEW q \in Client \ {p}, NEW x \in Object
            PROVE  Listed(k, q, x)
        <4>1. Listed(h, q, x)
          BY <1>2 DEF Core
        <4> QED
          BY <1>3, <2>2, <4>1, SameQueue DEF Listed, OthersSame
      <3> QED
        BY <1>3, <3>1, <3>2, <3>3, <3>4 DEF Core
    <2> QED
      BY <1>1, <1>3, <1>9, <1>11, <2>2, <2>3, <2>4 DEF Without, ExactBut
  <1> QED
    BY <1>12, <1>13

\* All that is good, but p may watch from nobody's list.
AllBut(h, p) ==
    /\ h \in CastState /\ h.strayed = {} /\ Exact(h)
    /\ \A q \in Client : Fresh(h, q) /\ Waits(h, q) /\ Owns(h, q) /\ Sent(h, q) /\ (q = p \/ Watches(h, q))
    /\ \A o \in Object : ObjectAgrees(h, o)
    /\ \A q \in Client, o \in Object : Listed(h, q, o)

LEMMA NearGood ==
    ASSUME NEW h, NEW p \in Client
    PROVE  AllBut(h, p) /\ Watches(h, p) <=> Good(h)
  <1>1. AllBut(h, p) /\ Watches(h, p) => Good(h)
    BY DEF AllBut, Good, Agree, ClientAgrees
  <1>2. Good(h) => AllBut(h, p) /\ Watches(h, p)
    BY DEF AllBut, Good, Agree, ClientAgrees
  <1> QED
    BY <1>1, <1>2

LEMMA CloseNear ==
    ASSUME NEW p \in Client, NEW h, AllBut(h, p)
    PROVE  LET r == CloseOne(h, p)
           IN Good(r) /\ OthersSame(r, h) /\ r.obj = h.obj /\ r.liveCasts = h.liveCasts
  <1>1. PICK r : r = Dismiss(h, {p}, {})
    OBVIOUS
  <1>2. h \in CastState /\ Exact(h) /\ h.strayed = {}
    BY DEF AllBut
  <1>3. /\ r \in CastState /\ OthersSame(r, h) /\ r.obj = h.obj /\ r.liveCasts = h.liveCasts
        /\ r.conn = ClosedIn(h, {p})
        /\ \A q \in Client : (Back(r, q) <=> Back(h, q)) /\ (OnceQueued(h, q) => OnceQueued(r, q))
    <2>1. PICK closed : closed = {p}
      OBVIOUS
    <2>2. PICK nobody : nobody = {}
      OBVIOUS
    <2>3. closed \in SUBSET Client /\ nobody \in SUBSET Client /\ (\A q : q \notin nobody)
      BY <2>1, <2>2
    <2>4. r = Dismiss(h, closed, nobody)
      BY <1>1, <2>1, <2>2
    <2>5. /\ r \in CastState /\ OthersSame(r, h) /\ r.obj = h.obj /\ r.liveCasts = h.liveCasts
          /\ r.conn = ClosedIn(h, closed)
          /\ \A q \in Client :
                /\ Back(r, q) <=> Back(h, q) \/ q \in nobody
                /\ OnceQueued(h, q) /\ ~(Back(h, q) /\ q \in nobody) => OnceQueued(r, q)
      BY <1>2, <2>3, <2>4, DismissEffect
    <2> QED
      BY <2>1, <2>3, <2>5
  <1>4. Exact(r)
    BY <1>2, <1>3, SameCounts DEF OthersSame
  <1>5. \A q \in Client : /\ r.conn[q] = "new" <=> h.conn[q] = "new"
                          /\ r.conn[q] = "open" => h.conn[q] = "open" /\ q # p
    BY <1>3 DEF ClosedIn
  <1>6. ASSUME NEW q \in Client
        PROVE  ClientAgrees(r, q)
    <2>1. Fresh(h, q) /\ Waits(h, q) /\ Owns(h, q) /\ Sent(h, q) /\ (q = p \/ Watches(h, q))
      BY DEF AllBut
    <2> QED
      BY <1>3, <1>5, <2>1 DEF ClientAgrees, Fresh, Waits, Owns, Plays, Watches, Sent, OthersSame
  <1>7. ASSUME NEW o \in Object
        PROVE  ObjectAgrees(r, o)
    BY <1>3 DEF AllBut, ObjectAgrees, Owned, OthersSame
  <1>8. ASSUME NEW q \in Client, NEW o \in Object
        PROVE  Listed(r, q, o)
    BY <1>3 DEF AllBut, Listed, OthersSame
  <1>9. Good(r)
    BY <1>2, <1>3, <1>4, <1>6, <1>7, <1>8 DEF Good, Agree, OthersSame
  <1> QED
    BY <1>1, <1>3, <1>9 DEF CloseOne

LEMMA NobodyWithout ==
    ASSUME NEW p \in Client, NEW h, AllBut(h, p), h.player[p] = None, h.conn[p] # "new", h.eventConnect[p] = None
    PROVE  Without(h, p)
  <1>1. h \in CastState /\ Exact(h) /\ h.strayed = {}
    BY DEF AllBut
  <1>2. \A o \in Object : Users(h, o) = UsersBut(h, p, o)
    BY UsersOf, NoneIsNone
  <1>3. ExactBut(h, p)
    BY <1>1, <1>2 DEF Exact, ExactBut
  <1>4. \A q \in Client \ {p} : ClientAgrees(h, q)
    BY DEF AllBut, ClientAgrees
  <1>5. ASSUME NEW o \in Object
        PROVE  /\ ObjectAgrees(h, o)
               /\ h.obj[o].status = "placed" \/ o \in h.liveCasts => h.obj[o].owner # p
               /\ p \notin h.obj[o].spectators
    <2>1. ObjectAgrees(h, o) /\ Listed(h, p, o)
      BY DEF AllBut
    <2> QED
      BY <2>1, NoneIsNone DEF ObjectAgrees, Owned, Listed
  <1>6. Sent(h, p) /\ \A q \in Client, o \in Object : Listed(h, q, o)
    BY DEF AllBut
  <1> QED
    BY <1>1, <1>3, <1>4, <1>5, <1>6 DEF Without, Core

(***************************************************************************)
(* The client gets the player o.                                           *)
(***************************************************************************)
\* What the other clients have stays as it is.
OnlyOf(r, k, p) ==
    /\ r.conn = k.conn /\ r.eventConnect = k.eventConnect /\ r.cleaned = k.cleaned
    /\ r.liveCasts = k.liveCasts /\ r.tasks = k.tasks /\ r.strayed = k.strayed
    /\ \A q \in Client \ {p} : /\ r.player[q] = k.player[q] /\ r.spectator[q] = k.spectator[q]
                               /\ r.spy[q] = k.spy[q]
                               /\ q \in r.stranded <=> q \in k.stranded

LEMMA JoinNear ==
    ASSUME NEW p \in Client, NEW k, Without(k, p), NEW o \in Object, NEW r \in CastState,
           OnlyOf(r, k, p), r.player[p] = o,
           \A x \in Object : x # o => r.obj[x] = k.obj[x],
           LET e == r.obj[o]
               old == k.obj[o]
           IN /\ e.refs = Cardinality(UsersBut(k, p, o)) + 1 + (IF World(r, o) THEN 1 ELSE 0)
              /\ e.status \in {"loaded", "placed"}
              /\ ~ r.spectator[p] => e.owner = p /\ ~ Back(k, p)
              /\ e.owner = p => ~ r.spectator[p] \/ e.status # "placed"
              /\ e.broadcast = old.broadcast \/ old.spectators = {}
              /\ o \in k.cleaned => e.status = old.status
              /\ o \in k.liveCasts => e.owner = old.owner /\ e.broadcast = old.broadcast
              /\ p \in e.spectators => r.spectator[p] /\ (e.broadcast \/ r.spy[p]) /\ ~ Back(k, p)
              /\ e.spectators \ {p} = old.spectators
              /\ \/ e.owner = old.owner /\ old.status = "placed"
                 \/ e.owner = p /\ (old.owner = None \/ UsersBut(k, p, o) = {})
    PROVE  AllBut(r, p)
  <1>1. PICK e : e = r.obj[o]
    OBVIOUS
  <1>2. PICK old : old = k.obj[o]
    OBVIOUS
  <1>3. /\ e.refs = Cardinality(UsersBut(k, p, o)) + 1 + (IF World(r, o) THEN 1 ELSE 0)
        /\ e.status \in {"loaded", "placed"}
        /\ ~ r.spectator[p] => e.owner = p /\ ~ Back(k, p)
        /\ e.owner = p => ~ r.spectator[p] \/ e.status # "placed"
        /\ e.broadcast = old.broadcast \/ old.spectators = {}
        /\ o \in k.cleaned => e.status = old.status
        /\ o \in k.liveCasts => e.owner = old.owner /\ e.broadcast = old.broadcast
        /\ p \in e.spectators => r.spectator[p] /\ (e.broadcast \/ r.spy[p]) /\ ~ Back(k, p)
        /\ e.spectators \ {p} = old.spectators
        /\ \/ e.owner = old.owner /\ old.status = "placed"
           \/ e.owner = p /\ (old.owner = None \/ UsersBut(k, p, o) = {})
    BY <1>1, <1>2
  <1>4. Core(k, p) /\ ExactBut(k, p) /\ k \in CastState
    BY DEF Without, Core
  <1>5. \A q \in Client \ {p} : r.player[q] = k.player[q]
    BY DEF OnlyOf
  <1>6. \A x : UsersBut(r, p, x) = UsersBut(k, p, x)
    BY <1>5 DEF UsersBut
  <1>7. Exact(r)
    <2> SUFFICES ASSUME NEW x \in Object
                 PROVE  Counts(r, x, Users(r, x))
      BY DEF Exact
    <2>1. CASE x = o
      <3>1. Cardinality(Users(r, o)) = Cardinality(UsersBut(k, p, o)) + 1
        BY <1>6, UsersOf
      <3>2. Cardinality(UsersBut(k, p, o)) \in Nat
        BY UsersFinite
      <3> QED
        BY <1>1, <1>3, <2>1, <3>1, <3>2 DEF Counts
    <2>2. CASE x # o
      <3>1. Users(r, x) = UsersBut(k, p, x)
        BY <1>6, <2>2, UsersOf
      <3>2. Counts(k, x, UsersBut(k, p, x))
        BY <1>4 DEF ExactBut
      <3>3. r.obj[x] = k.obj[x] /\ r.cleaned = k.cleaned
        BY <2>2 DEF OnlyOf
      <3> QED
        BY <3>1, <3>2, <3>3 DEF Counts, World
    <2> QED
      BY <2>1, <2>2
  <1>8. \A q : (Back(r, q) <=> Back(k, q)) /\ (OnceQueued(r, q) <=> OnceQueued(k, q))
    BY SameQueue DEF OnlyOf
  <1>9. o # None
    BY NoneIsNone
  <1>10. ASSUME NEW q \in Client
         PROVE  Fresh(r, q) /\ Waits(r, q) /\ Owns(r, q) /\ Sent(r, q) /\ (q = p \/ Watches(r, q))
    <2>1. CASE q = p
      <3>1. Fresh(r, p) /\ Waits(r, p)
        BY <1>4 DEF Core, Fresh, Waits, OnlyOf
      <3>2. Owns(r, p)
        BY <1>1, <1>3 DEF Owns, Plays
      <3>3. Sent(r, p)
        BY <1>3, <1>4, <1>8 DEF Core, Sent
      <3> QED
        BY <2>1, <3>1, <3>2, <3>3
    <2>2. CASE q # p
      <3>1. ClientAgrees(k, q)
        BY <1>4, <2>2 DEF Core
      <3>2. /\ r.conn = k.conn /\ r.eventConnect = k.eventConnect
            /\ r.player[q] = k.player[q] /\ r.spectator[q] = k.spectator[q]
            /\ q \in r.stranded <=> q \in k.stranded
        BY <2>2 DEF OnlyOf
      <3>3. Fresh(r, q) /\ Waits(r, q) /\ Sent(r, q)
        BY <1>8, <3>1, <3>2 DEF ClientAgrees, Fresh, Waits, Sent
      <3>4. k.player[q] = None \/ k.player[q] \in Object
        BY <1>4 DEF CastState
      <3>5. k.player[q] = o => q \in UsersBut(k, p, o)
        BY <2>2 DEF UsersBut
      <3>6. Owns(r, q)
        <4> SUFFICES ASSUME Plays(k, q)
                     PROVE  r.obj[k.player[q]].owner = q
          BY <3>2 DEF Owns, Plays
        <4>1. k.obj[k.player[q]].owner = q
          BY <3>1 DEF ClientAgrees, Owns
        <4>2. CASE k.player[q] # o
          BY <3>4, <4>1, <4>2 DEF Plays
        <4>3. CASE k.player[q] = o
          <5>1. old.owner = q /\ q # None
            BY <1>2, <4>1, <4>3, NoneIsNone
          <5> QED
            BY <1>1, <1>3, <3>5, <4>3, <5>1
        <4> QED
          BY <4>2, <4>3
      <3>7. Watches(r, q)
        <4> SUFFICES ASSUME k.spectator[q], k.player[q] # None, k.conn[q] = "open", q \notin k.stranded
                     PROVE  q \in r.obj[k.player[q]].spectators \/ Back(k, q)
          BY <1>8, <3>2 DEF Watches
        <4>1. q \in k.obj[k.player[q]].spectators \/ Back(k, q)
          BY <3>1 DEF ClientAgrees, Watches
        <4>2. CASE k.player[q] # o
          BY <3>4, <4>1, <4>2
        <4>3. CASE k.player[q] = o
          BY <1>1, <1>2, <1>3, <4>1, <4>3
        <4> QED
          BY <4>2, <4>3
      <3> QED
        BY <3>3, <3>6, <3>7
    <2> QED
      BY <2>1, <2>2
  <1>11. ASSUME NEW x \in Object
         PROVE  ObjectAgrees(r, x)
    <2>1. /\ ObjectAgrees(k, x)
          /\ k.obj[x].status = "placed" \/ x \in k.liveCasts => k.obj[x].owner # p
      BY <1>4 DEF Core
    <2>2. /\ r.liveCasts = k.liveCasts /\ r.cleaned = k.cleaned
          /\ \A q \in Client \ {p} : r.player[q] = k.player[q] /\ r.spectator[q] = k.spectator[q]
      BY DEF OnlyOf
    <2>3. k.obj[x].owner \in Client \cup {None}
      BY <1>4 DEF CastState, Entry
    <2>4. CASE x # o
      <3>1. r.obj[x] = k.obj[x]
        BY <2>4
      <3> QED
        BY <2>1, <2>2, <2>3, <3>1 DEF ObjectAgrees, Owned
    <2>5. CASE x = o
      <3>1. o \in k.cleaned => e.status \in {"removed", "deleted"}
        BY <1>2, <1>3, <2>1, <2>5 DEF ObjectAgrees
      <3>2. o \in k.liveCasts => e.owner # None /\ e.broadcast
        BY <1>2, <1>3, <2>1, <2>5 DEF ObjectAgrees
      <3>3. e.status = "placed" \/ o \in k.liveCasts => Owned(r, o)
        <4> SUFFICES ASSUME e.status = "placed" \/ o \in k.liveCasts, e.owner # None
                     PROVE  r.player[e.owner] = o /\ ~r.spectator[e.owner]
          BY <1>1 DEF Owned
        <4>1. CASE e.owner = p
          <5>1. ~ (o \in k.liveCasts)
            BY <1>2, <1>3, <2>1, <2>5, <4>1
          <5> QED
            BY <1>3, <4>1, <5>1
        <4>2. CASE e.owner # p
          <5>1. e.owner = old.owner /\ old.status = "placed"
            BY <1>3, <4>2
          <5>2. k.player[e.owner] = o /\ ~k.spectator[e.owner]
            BY <1>2, <2>1, <2>5, <5>1 DEF ObjectAgrees, Owned
          <5>3. e.owner \in Client \ {p}
            BY <1>2, <2>3, <2>5, <4>2, <5>1
          <5> QED
            BY <2>2, <5>2, <5>3
        <4> QED
          BY <4>1, <4>2
      <3> QED
        BY <1>1, <2>2, <2>5, <3>1, <3>2, <3>3 DEF ObjectAgrees
    <2> QED
      BY <2>4, <2>5
  <1>12. ASSUME NEW q \in Client, NEW x \in Object
         PROVE  Listed(r, q, x)
    <2>1. CASE q = p
      <3>1. p \notin k.obj[x].spectators
        BY <1>4 DEF Core
      <3>2. CASE x # o
        <4>1. r.obj[x] = k.obj[x]
          BY <3>2
        <4> QED
          BY <2>1, <3>1, <4>1 DEF Listed
      <3>3. CASE x = o
        BY <1>1, <1>3, <1>8, <2>1, <3>3 DEF Listed
      <3> QED
        BY <3>2, <3>3
    <2>2. CASE q # p
      <3>1. Listed(k, q, x)
        BY <1>4, <2>2 DEF Core
      <3>2. r.player[q] = k.player[q] /\ r.spectator[q] = k.spectator[q] /\ r.spy[q] = k.spy[q]
        BY <2>2 DEF OnlyOf
      <3>3. CASE x # o
        <4>1. r.obj[x] = k.obj[x]
          BY <3>3
        <4> QED
          BY <1>8, <3>1, <3>2, <4>1 DEF Listed
      <3>4. CASE x = o
        <4>1. q \in e.spectators => q \in old.spectators /\ e.broadcast = old.broadcast
          BY <1>3, <2>2
        <4> QED
          BY <1>1, <1>2, <1>8, <3>1, <3>2, <3>4, <4>1 DEF Listed
      <3> QED
        BY <3>3, <3>4
    <2> QED
      BY <2>1, <2>2
  <1>13. r.strayed = {}
    BY <1>4 DEF OnlyOf, Core
  <1> QED
    BY <1>7, <1>10, <1>11, <1>12, <1>13 DEF AllBut

(***************************************************************************)
(* The client p gets the player o, which becomes e.                        *)
(***************************************************************************)
Given(k, p, o, e) == [k EXCEPT !.player[p] = o, !.obj[o] = e]
Elsewhere(r, k) ==
    /\ r.conn = k.conn /\ r.spectator = k.spectator /\ r.spy = k.spy /\ r.home = k.home
    /\ r.eventConnect = k.eventConnect /\ r.liveCasts = k.liveCasts /\ r.cleaned = k.cleaned
    /\ r.tasks = k.tasks /\ r.odd = k.odd /\ r.strayed = k.strayed /\ r.stranded = k.stranded

LEMMA GivenEffect ==
    ASSUME NEW k \in CastState, NEW p \in Client, NEW o \in Object, NEW e \in Entry
    PROVE  LET r == Given(k, p, o, e)
           IN /\ r \in CastState /\ Elsewhere(r, k)
              /\ r.player[p] = o /\ r.obj[o] = e
              /\ \A q \in Client : q # p => r.player[q] = k.player[q]
              /\ \A x \in Object : x # o => r.obj[x] = k.obj[x]
  <1>1. PICK P : P = [k.player EXCEPT ![p] = o]
    OBVIOUS
  <1>2. PICK O : O = [k.obj EXCEPT ![o] = e]
    OBVIOUS
  <1>3. PICK r : r = [k EXCEPT !.player = P, !.obj = O]
    OBVIOUS
  <1>4. r = Given(k, p, o, e)
    BY <1>1, <1>2, <1>3 DEF Given
  <1>5. P \in [Client -> Object \cup {None}] /\ O \in [Object -> Entry]
    BY <1>1, <1>2 DEF CastState
  <1>6. r \in CastState /\ Elsewhere(r, k) /\ r.player = P /\ r.obj = O
    BY <1>3, <1>5 DEF CastState, Elsewhere
  <1>7. /\ P[p] = o /\ O[o] = e
        /\ \A q \in Client : q # p => P[q] = k.player[q]
        /\ \A x \in Object : x # o => O[x] = k.obj[x]
    BY <1>1, <1>2 DEF CastState
  <1> QED
    BY <1>1, <1>2, <1>4, <1>6, <1>7

LEMMA CountedGiven ==
    ASSUME NEW k \in CastState, NEW p \in Client, NEW o \in Object, NEW e \in Entry,
           NEW j, j = CountRef(k, o, 1)
    PROVE  Given(j, p, o, e) = Given(k, p, o, e)
  <1>2. PICK d : d = Counted(k.obj[o], 1)
    OBVIOUS
  <1>3. j = [k EXCEPT !.obj = [k.obj EXCEPT ![o] = d]]
    BY <1>2 DEF CountRef
  <1>4. j.obj = [k.obj EXCEPT ![o] = d] /\ j.player = k.player
    BY <1>3 DEF CastState
  <1>5. [j.obj EXCEPT ![o] = e] = [k.obj EXCEPT ![o] = e]
    BY <1>4 DEF CastState
  <1>6. Given(j, p, o, e)
         = [j EXCEPT !.player = [k.player EXCEPT ![p] = o], !.obj = [k.obj EXCEPT ![o] = e]]
    BY <1>3, <1>4, <1>5 DEF CastState, Given
  <1>7. Given(k, p, o, e)
         = [k EXCEPT !.player = [k.player EXCEPT ![p] = o], !.obj = [k.obj EXCEPT ![o] = e]]
    BY DEF Given
  <1>8. PICK P : P = [k.player EXCEPT ![p] = o]
    OBVIOUS
  <1>9. PICK O : O = [k.obj EXCEPT ![o] = e]
    OBVIOUS
  <1>10. PICK D : D = [k.obj EXCEPT ![o] = d]
    OBVIOUS
  <1>11. [[k EXCEPT !.obj = D] EXCEPT !.player = P, !.obj = O] = [k EXCEPT !.player = P, !.obj = O]
    BY DEF CastState
  <1> QED
    BY <1>3, <1>6, <1>7, <1>8, <1>9, <1>10, <1>11

LEMMA AppearIs ==
    ASSUME NEW k \in CastState, NEW p \in Client, NEW o \in Object, k.obj[o].refs \in Nat
    PROVE  \E e \in Entry :
              /\ SendSpectatorAppear(k, p, o) = Given(k, p, o, e)
              /\ e.refs = k.obj[o].refs + 1 /\ e.status = k.obj[o].status /\ e.owner = k.obj[o].owner
              /\ e.broadcast = k.obj[o].broadcast /\ e.spectators = k.obj[o].spectators \cup {p}
  <1>1. PICK d : d = Counted(k.obj[o], 1)
    OBVIOUS
  <1>2. k.obj[o] \in Entry /\ k.obj[o].refs + 1 # 0 /\ 1 \in Int
    BY DEF CastState
  <1>3. /\ d \in Entry /\ d.refs = k.obj[o].refs + 1 /\ d.status = k.obj[o].status /\ d.owner = k.obj[o].owner
        /\ d.broadcast = k.obj[o].broadcast /\ d.spectators = k.obj[o].spectators
    <2>1. PICK x : x = k.obj[o]
      OBVIOUS
    <2>2. x \in Entry /\ x.refs + 1 # 0 /\ 1 \in Int /\ d = Counted(x, 1)
      BY <1>1, <1>2, <2>1
    <2>3. /\ d \in Entry /\ d.refs = x.refs + 1 /\ d.status = x.status /\ d.owner = x.owner
          /\ d.broadcast = x.broadcast /\ d.spectators = x.spectators
      BY <2>2, CountedParts
    <2> QED
      BY <2>1, <2>3
  <1>4. PICK S : S = d.spectators \cup {p}
    OBVIOUS
  <1>5. S \in SUBSET Client
    BY <1>3, <1>4 DEF Entry
  <1>6. PICK e : e = [d EXCEPT !.spectators = S]
    OBVIOUS
  <1>7. /\ e \in Entry /\ e.refs = d.refs /\ e.status = d.status /\ e.owner = d.owner
        /\ e.broadcast = d.broadcast /\ e.spectators = S
    BY <1>3, <1>5, <1>6 DEF Entry
  <1>8. PICK j : j = CountRef(k, o, 1)
    OBVIOUS
  <1>9. j \in CastState /\ j.obj[o] = d
    BY <1>1, <1>2, <1>8, CountRefEffect
  <1>10. [j EXCEPT !.player[p] = o, !.obj[o].spectators = @ \cup {p}] = [j EXCEPT !.player[p] = o, !.obj[o] = e]
    BY <1>4, <1>6, <1>9
  <1>11. SendSpectatorAppear(k, p, o) = Given(k, p, o, e)
    <2>1. SendSpectatorAppear(k, p, o) = [j EXCEPT !.player[p] = o, !.obj[o].spectators = @ \cup {p}]
      BY <1>8 DEF SendSpectatorAppear
    <2>2. Given(j, p, o, e) = Given(k, p, o, e)
      BY <1>7, <1>8, CountedGiven
    <2>3. Given(j, p, o, e) = [j EXCEPT !.player[p] = o, !.obj[o] = e]
      BY DEF Given
    <2> QED
      BY <1>10, <2>1, <2>2, <2>3
  <1> QED
    BY <1>3, <1>4, <1>7, <1>11

LEMMA ConnectIs ==
    ASSUME NEW k \in CastState, NEW p \in Client, NEW o \in Object, k.obj[o].refs \in Nat
    PROVE  \E e \in Entry :
              /\ ConnectTo(k, p, o) = Given(k, p, o, e)
              /\ e.refs = k.obj[o].refs + 1 /\ e.status = k.obj[o].status /\ e.owner = p
              /\ e.broadcast = k.obj[o].broadcast /\ e.spectators = k.obj[o].spectators
  <1>1. PICK d : d = Counted(k.obj[o], 1)
    OBVIOUS
  <1>2. k.obj[o] \in Entry /\ k.obj[o].refs + 1 # 0 /\ 1 \in Int
    BY DEF CastState
  <1>3. /\ d \in Entry /\ d.refs = k.obj[o].refs + 1 /\ d.status = k.obj[o].status
        /\ d.broadcast = k.obj[o].broadcast /\ d.spectators = k.obj[o].spectators
    BY <1>1, <1>2, CountedParts
  <1>6. PICK e : e = [d EXCEPT !.owner = p]
    OBVIOUS
  <1>7. /\ e \in Entry /\ e.refs = d.refs /\ e.status = d.status /\ e.owner = p
        /\ e.broadcast = d.broadcast /\ e.spectators = d.spectators
    BY <1>3, <1>6 DEF Entry
  <1>8. PICK j : j = CountRef(k, o, 1)
    OBVIOUS
  <1>9. j \in CastState /\ j.obj[o] = d
    BY <1>1, <1>2, <1>8, CountRefEffect
  <1>10. [j EXCEPT !.player[p] = o, !.obj[o].owner = p] = [j EXCEPT !.player[p] = o, !.obj[o] = e]
    BY <1>6, <1>9
  <1>11. ConnectTo(k, p, o) = Given(k, p, o, e)
    <2>1. ConnectTo(k, p, o) = [j EXCEPT !.player[p] = o, !.obj[o].owner = p]
      BY <1>8 DEF ConnectTo
    <2>2. Given(j, p, o, e) = Given(k, p, o, e)
      BY <1>7, <1>8, CountedGiven
    <2>3. Given(j, p, o, e) = [j EXCEPT !.player[p] = o, !.obj[o] = e]
      BY DEF Given
    <2> QED
      BY <1>10, <2>1, <2>2, <2>3
  <1> QED
    BY <1>3, <1>7, <1>11

\* An object that nobody has.
LEMMA FreeIs ==
    ASSUME NEW p \in Client, NEW k, Without(k, p), NEW o \in Object, k.obj[o].status = "none"
    PROVE  /\ UsersBut(k, p, o) = {} /\ Cardinality(UsersBut(k, p, o)) = 0
           /\ o \notin k.liveCasts /\ o \notin k.cleaned /\ k.obj[o].spectators = {}
  <1>1. Core(k, p) /\ ExactBut(k, p) /\ k \in CastState
    BY DEF Without, Core
  <1>2. k.obj[o] \in Entry
    BY <1>1 DEF CastState
  <1>3. Counts(k, o, UsersBut(k, p, o)) /\ ObjectAgrees(k, o)
        /\ (k.obj[o].status = "placed" \/ o \in k.liveCasts => k.obj[o].owner # p)
        /\ p \notin k.obj[o].spectators
    BY <1>1 DEF ExactBut, Core
  <1>4. Cardinality(UsersBut(k, p, o)) \in Nat
        /\ (Cardinality(UsersBut(k, p, o)) = 0 <=> UsersBut(k, p, o) = {})
    BY UsersFinite
  <1>5. ~ World(k, o)
    BY DEF World
  <1>6. Cardinality(UsersBut(k, p, o)) = 0
    BY <1>3, <1>4, <1>5 DEF Counts
  <1>7. \A q \in Client \ {p} : k.player[q] # o
    BY <1>4, <1>6 DEF UsersBut
  <1>8. o \notin k.cleaned
    BY <1>3 DEF ObjectAgrees
  <1>9. ASSUME o \in k.liveCasts PROVE FALSE
    <2>1. k.obj[o].owner # None /\ k.player[k.obj[o].owner] = o /\ k.obj[o].owner # p
      BY <1>3, <1>9 DEF ObjectAgrees, Owned
    <2>2. k.obj[o].owner \in Client \ {p}
      BY <1>2, <2>1 DEF Entry
    <2> QED
      BY <1>7, <2>1, <2>2
  <1>10. ASSUME NEW q \in k.obj[o].spectators PROVE FALSE
    <2>1. q \in Client \ {p}
      BY <1>2, <1>3 DEF Entry
    <2>2. k.player[q] = o
      BY <1>1, <2>1 DEF Core, Listed
    <2> QED
      BY <1>7, <2>1, <2>2
  <1> QED
    BY <1>4, <1>6, <1>8, <1>9, <1>10

LEMMA PlacedIs ==
    ASSUME NEW p \in Client, NEW k, Without(k, p), NEW o \in Object, k.obj[o].status = "placed"
    PROVE  /\ k.obj[o].refs = Cardinality(UsersBut(k, p, o)) + 1 /\ k.obj[o].refs \in Nat
           /\ Cardinality(UsersBut(k, p, o)) \in Nat
           /\ World(k, o) /\ o \notin k.cleaned /\ k.obj[o].owner # p /\ p \notin k.obj[o].spectators
  <1>1. Core(k, p) /\ ExactBut(k, p)
    BY DEF Without
  <1>2. Counts(k, o, UsersBut(k, p, o)) /\ ObjectAgrees(k, o)
        /\ (k.obj[o].status = "placed" \/ o \in k.liveCasts => k.obj[o].owner # p)
        /\ p \notin k.obj[o].spectators
    BY <1>1 DEF ExactBut, Core
  <1>3. Cardinality(UsersBut(k, p, o)) \in Nat
    BY UsersFinite
  <1>4. o \notin k.cleaned
    BY <1>2 DEF ObjectAgrees
  <1>5. World(k, o)
    BY <1>4 DEF World
  <1> QED
    BY <1>2, <1>3, <1>4, <1>5 DEF Counts

(***************************************************************************)
(* A watch begins.                                                         *)
(***************************************************************************)
LEMMA WatchGood ==
    ASSUME NEW p \in Client, NEW k, Without(k, p), NEW o \in Object, k.obj[o].status = "placed",
           ~ Back(k, p), NEW h \in CastState,
           h.obj = k.obj, h.player = k.player, OnlyOf(h, k, p), h.spectator[p], k.obj[o].broadcast \/ h.spy[p],
           NEW r, r.conn = h.conn /\ r.player = SendSpectatorAppear(h, p, o).player
                  /\ r.spectator = h.spectator /\ r.spy = h.spy /\ r.eventConnect = h.eventConnect
                  /\ r.obj = SendSpectatorAppear(h, p, o).obj
                  /\ r.liveCasts = h.liveCasts /\ r.cleaned = h.cleaned /\ r.tasks = h.tasks
                  /\ r.strayed = h.strayed /\ r.stranded \subseteq h.stranded
                  /\ h.stranded \subseteq r.stranded \cup {p},
           r \in CastState
    PROVE  Good(r)
  <1>1. /\ k.obj[o].refs = Cardinality(UsersBut(k, p, o)) + 1 /\ k.obj[o].refs \in Nat
        /\ Cardinality(UsersBut(k, p, o)) \in Nat
        /\ World(k, o) /\ o \notin k.cleaned /\ k.obj[o].owner # p /\ p \notin k.obj[o].spectators
    BY PlacedIs
  <1>2. PICK e \in Entry :
            /\ SendSpectatorAppear(h, p, o) = Given(h, p, o, e)
            /\ e.refs = k.obj[o].refs + 1 /\ e.status = k.obj[o].status /\ e.owner = k.obj[o].owner
            /\ e.broadcast = k.obj[o].broadcast /\ e.spectators = k.obj[o].spectators \cup {p}
    BY <1>1, AppearIs
  <1>3. PICK g : g = Given(h, p, o, e)
    OBVIOUS
  <1>4. /\ g.player[p] = o /\ g.obj[o] = e
        /\ \A q \in Client : q # p => g.player[q] = h.player[q]
        /\ \A x \in Object : x # o => g.obj[x] = h.obj[x]
    BY <1>2, <1>3, GivenEffect
  <1>5. r.player = g.player /\ r.obj = g.obj
    BY <1>2, <1>3
  <1>6. OnlyOf(r, k, p)
    <2>1. ASSUME NEW q \in Client \ {p}
          PROVE  /\ r.player[q] = k.player[q] /\ r.spectator[q] = k.spectator[q]
                 /\ r.spy[q] = k.spy[q]
                 /\ q \in r.stranded <=> q \in k.stranded
      BY <1>4, <1>5 DEF OnlyOf
    <2> QED
      BY <2>1 DEF OnlyOf
  <1>7. r.player[p] = o /\ r.obj[o] = e /\ \A x \in Object : x # o => r.obj[x] = k.obj[x]
    BY <1>4, <1>5
  <1>8. World(r, o)
    BY <1>1, <1>2, <1>7 DEF World, OnlyOf
  <1>9. AllBut(r, p)
    <2>1. e.refs = Cardinality(UsersBut(k, p, o)) + 1 + (IF World(r, o) THEN 1 ELSE 0)
      BY <1>1, <1>2, <1>8
    <2>2. /\ e.status \in {"loaded", "placed"}
          /\ e.owner # p /\ e.owner = k.obj[o].owner /\ e.broadcast = k.obj[o].broadcast
          /\ e.status = k.obj[o].status
          /\ e.spectators \ {p} = k.obj[o].spectators
      BY <1>1, <1>2
    <2>3. r.spectator[p] /\ (e.broadcast \/ r.spy[p])
      BY <1>2
    <2> QED
      BY <1>6, <1>7, <2>1, <2>2, <2>3, JoinNear
  <1>10. Watches(r, p)
    BY <1>2, <1>7 DEF Watches
  <1> QED
    BY <1>9, <1>10, NearGood

(***************************************************************************)
(* A client takes a player over that has no client.                        *)
(***************************************************************************)
LEMMA ConnectGood ==
    ASSUME NEW p \in Client, NEW k, Without(k, p), ~ k.spectator[p],
           NEW o \in Object, k.obj[o].status = "placed", k.obj[o].owner = None
    PROVE  Good(ConnectTo(k, p, o))
  <1>0. k \in CastState /\ Sent(k, p) /\ ObjectAgrees(k, o)
    BY DEF Without, Core
  <1>1. /\ k.obj[o].refs = Cardinality(UsersBut(k, p, o)) + 1 /\ k.obj[o].refs \in Nat
        /\ Cardinality(UsersBut(k, p, o)) \in Nat
        /\ World(k, o) /\ o \notin k.cleaned /\ p \notin k.obj[o].spectators
    BY PlacedIs
  <1>2. PICK e \in Entry :
            /\ ConnectTo(k, p, o) = Given(k, p, o, e)
            /\ e.refs = k.obj[o].refs + 1 /\ e.status = k.obj[o].status /\ e.owner = p
            /\ e.broadcast = k.obj[o].broadcast /\ e.spectators = k.obj[o].spectators
    BY <1>0, <1>1, ConnectIs
  <1>3. PICK r : r = Given(k, p, o, e)
    OBVIOUS
  <1>4. /\ r \in CastState /\ Elsewhere(r, k) /\ r.player[p] = o /\ r.obj[o] = e
        /\ \A q \in Client : q # p => r.player[q] = k.player[q]
        /\ \A x \in Object : x # o => r.obj[x] = k.obj[x]
    BY <1>0, <1>2, <1>3, GivenEffect
  <1>5. OnlyOf(r, k, p)
    BY <1>4 DEF OnlyOf, Elsewhere
  <1>6. World(r, o)
    BY <1>1, <1>2, <1>4 DEF World, Elsewhere
  <1>7. ~ Back(k, p) /\ o \notin k.liveCasts
    BY <1>0 DEF Sent, ObjectAgrees
  <1>8. AllBut(r, p)
    <2>1. e.refs = Cardinality(UsersBut(k, p, o)) + 1 + (IF World(r, o) THEN 1 ELSE 0)
      BY <1>1, <1>2, <1>6
    <2>2. /\ e.status \in {"loaded", "placed"} /\ e.owner = p /\ e.status = k.obj[o].status
          /\ e.broadcast = k.obj[o].broadcast /\ p \notin e.spectators
          /\ e.spectators \ {p} = k.obj[o].spectators
      BY <1>1, <1>2
    <2>3. ~ r.spectator[p]
      BY <1>4 DEF Elsewhere
    <2> QED
      BY <1>4, <1>5, <1>7, <2>1, <2>2, <2>3, JoinNear
  <1>9. Watches(r, p)
    BY <1>4 DEF Watches, Elsewhere
  <1> QED
    BY <1>2, <1>3, <1>8, <1>9, NearGood

(***************************************************************************)
(* A client gets a new player, which the world may have.                   *)
(***************************************************************************)
LEMMA NewNear ==
    ASSUME NEW p \in Client, NEW k, Without(k, p), NEW o \in Object, k.obj[o].status = "none",
           NEW r \in CastState, OnlyOf(r, k, p), r.player[p] = o,
           \A x \in Object : x # o => r.obj[x] = k.obj[x],
           r.obj[o].owner = p, r.obj[o].spectators = {},
           \/ r.obj[o].status = "loaded" /\ r.obj[o].refs = 1
           \/ r.obj[o].status = "placed" /\ r.obj[o].refs = 2 /\ ~ r.spectator[p],
           ~ r.spectator[p] => ~ Back(k, p)
    PROVE  AllBut(r, p) /\ (~ r.spectator[p] => Good(r))
  <1>1. /\ UsersBut(k, p, o) = {} /\ Cardinality(UsersBut(k, p, o)) = 0
        /\ o \notin k.liveCasts /\ o \notin k.cleaned /\ k.obj[o].spectators = {}
    BY FreeIs
  <1>2. PICK e : e = r.obj[o]
    OBVIOUS
  <1>3. World(r, o) <=> e.status = "placed"
    BY <1>1, <1>2 DEF World, OnlyOf
  <1>4. e.refs = 0 + 1 + (IF World(r, o) THEN 1 ELSE 0)
    BY <1>2, <1>3
  <1>5. /\ e.status \in {"loaded", "placed"}
        /\ e.owner = p /\ e.spectators = {} /\ (e.status = "placed" => ~ r.spectator[p])
    BY <1>2
  <1>6. AllBut(r, p)
    <2>1. e.spectators \ {p} = k.obj[o].spectators /\ p \notin e.spectators
      BY <1>1, <1>5
    <2>2. e.refs = Cardinality(UsersBut(k, p, o)) + 1 + (IF World(r, o) THEN 1 ELSE 0)
      BY <1>1, <1>4
    <2>3. r.obj[o] = e
      BY <1>2
    <2>4. /\ e.status \in {"loaded", "placed"}
          /\ ~ r.spectator[p] => e.owner = p /\ ~ Back(k, p)
          /\ e.owner = p => ~ r.spectator[p] \/ e.status # "placed"
          /\ p \notin e.spectators /\ e.owner = p
      BY <1>5
    <2>5. /\ e.broadcast = k.obj[o].broadcast \/ k.obj[o].spectators = {}
          /\ o \in k.cleaned => e.status = k.obj[o].status
          /\ o \in k.liveCasts => e.owner = k.obj[o].owner /\ e.broadcast = k.obj[o].broadcast
          /\ p \in e.spectators => r.spectator[p] /\ (e.broadcast \/ r.spy[p]) /\ ~ Back(k, p)
          /\ \/ e.owner = k.obj[o].owner /\ k.obj[o].status = "placed"
             \/ e.owner = p /\ (k.obj[o].owner = None \/ UsersBut(k, p, o) = {})
      BY <1>1, <2>4
    <2> QED
      BY <2>1, <2>2, <2>3, <2>4, <2>5, JoinNear
  <1>7. ~ r.spectator[p] => Watches(r, p)
    BY DEF Watches
  <1> QED
    BY <1>6, <1>7, NearGood

(***************************************************************************)
(* A client leaves.                                                        *)
(***************************************************************************)
LEMMA NobodyGood ==
    ASSUME NEW p \in Client, NEW k, Without(k, p), NEW r \in CastState, OnlyOf(r, k, p), r.player[p] = None,
           r.obj = k.obj, r.spectator[p] = k.spectator[p]
    PROVE  Good(r)
  <1>1. k \in CastState /\ k.strayed = {} /\ Core(k, p) /\ ExactBut(k, p)
    BY DEF Without, Core
  <1>2. \A q \in Client \ {p} : /\ r.player[q] = k.player[q] /\ r.spectator[q] = k.spectator[q]
                                /\ r.spy[q] = k.spy[q] /\ (q \in r.stranded <=> q \in k.stranded)
    BY DEF OnlyOf
  <1>3. \A q : (Back(r, q) <=> Back(k, q)) /\ (OnceQueued(r, q) <=> OnceQueued(k, q))
    BY SameQueue DEF OnlyOf
  <1>4. \A o \in Object : Users(r, o) = UsersBut(k, p, o)
    BY <1>2, NoneIsNone DEF Users, UsersBut
  <1>5. Exact(r)
    BY <1>1, <1>4 DEF Exact, ExactBut, Counts, World, OnlyOf
  <1>6. ASSUME NEW q \in Client
        PROVE  ClientAgrees(r, q)
    <2>1. CASE q = p
      BY <1>1, <1>3, <2>1 DEF Core, ClientAgrees, Fresh, Waits, Owns, Plays, Watches, Sent, OnlyOf
    <2>2. CASE q # p
      <3>1. ClientAgrees(k, q)
        BY <1>1, <2>2 DEF Core
      <3> QED
        BY <1>2, <1>3, <2>2, <3>1 DEF ClientAgrees, Fresh, Waits, Owns, Plays, Watches, Sent, OnlyOf
    <2> QED
      BY <2>1, <2>2
  <1>7. ASSUME NEW o \in Object
        PROVE  ObjectAgrees(r, o)
    <2>1. ObjectAgrees(k, o) /\ (k.obj[o].status = "placed" \/ o \in k.liveCasts => k.obj[o].owner # p)
      BY <1>1 DEF Core
    <2>2. k.obj[o].owner \in Client \cup {None}
      BY <1>1 DEF CastState, Entry
    <2> QED
      BY <1>2, <2>1, <2>2 DEF ObjectAgrees, Owned, OnlyOf
  <1>8. ASSUME NEW q \in Client, NEW o \in Object
        PROVE  Listed(r, q, o)
    <2>1. q = p => q \notin k.obj[o].spectators
      BY <1>1 DEF Core
    <2>2. q # p => Listed(k, q, o)
      BY <1>1 DEF Core
    <2> QED
      BY <1>2, <1>3, <2>1, <2>2 DEF Listed
  <1>9. r.strayed = {}
    BY <1>1 DEF OnlyOf
  <1> QED
    BY <1>5, <1>6, <1>7, <1>8, <1>9 DEF Good, Agree

\* A spectator who is on no list.
LEMMA SpectatorWithin ==
    ASSUME NEW p \in Client, NEW h, AllBut(h, p), h.spectator[p], h.player[p] \in Object,
           h.player[p] \in Object => p \notin h.obj[h.player[p]].spectators
    PROVE  Within(h, p)
  <1>1. /\ h \in CastState /\ Exact(h) /\ h.strayed = {}
        /\ Fresh(h, p) /\ Waits(h, p) /\ Sent(h, p)
    BY DEF AllBut
  <1>2. h.player[p] # None
    BY NoneIsNone
  <1>3. h.conn[p] # "new" /\ h.eventConnect[p] = None
    BY <1>1, <1>2 DEF Fresh, Waits
  <1>4. \A q \in Client \ {p} : ClientAgrees(h, q)
    BY DEF AllBut, ClientAgrees
  <1>5. ASSUME NEW o \in Object
        PROVE  /\ ObjectAgrees(h, o)
               /\ h.obj[o].status = "placed" \/ o \in h.liveCasts => h.obj[o].owner # p
               /\ p \notin h.obj[o].spectators
    <2>1. ObjectAgrees(h, o) /\ Listed(h, p, o)
      BY DEF AllBut
    <2>2. h.obj[o].status = "placed" \/ o \in h.liveCasts => h.obj[o].owner # p
      BY <2>1, NoneIsNone DEF ObjectAgrees, Owned
    <2>3. p \notin h.obj[o].spectators
      BY <2>1 DEF Listed
    <2> QED
      BY <2>1, <2>2, <2>3
  <1>6. \A q \in Client \ {p}, o \in Object : Listed(h, q, o)
    BY DEF AllBut
  <1> QED
    BY <1>1, <1>3, <1>4, <1>5, <1>6 DEF Within, Core

LEMMA RemoveNear ==
    ASSUME NEW p \in Client, NEW h, AllBut(h, p), NEW o \in Object
    PROVE  LET r == RemoveSpectator(h, o, p)
           IN /\ AllBut(r, p) /\ Elsewhere(r, h) /\ r.player = h.player
              /\ p \notin r.obj[o].spectators
              /\ \A x \in Object : /\ x # o => r.obj[x] = h.obj[x]
                                   /\ r.obj[x].status = h.obj[x].status /\ r.obj[x].owner = h.obj[x].owner
                                   /\ r.obj[x].broadcast = h.obj[x].broadcast /\ r.obj[x].refs = h.obj[x].refs
                                   /\ \A q \in Client : q # p => (q \in r.obj[x].spectators <=> q \in h.obj[x].spectators)
  <1>1. h \in CastState /\ Exact(h) /\ h.strayed = {}
    BY DEF AllBut
  <1>2. PICK S : S = h.obj[o].spectators \ {p}
    OBVIOUS
  <1>3. PICK e : e = [h.obj[o] EXCEPT !.spectators = S]
    OBVIOUS
  <1>4. h.obj[o] \in Entry
    BY <1>1 DEF CastState
  <1>5. S \in SUBSET Client
    BY <1>2, <1>4 DEF Entry
  <1>6. /\ e \in Entry /\ e.refs = h.obj[o].refs /\ e.status = h.obj[o].status /\ e.owner = h.obj[o].owner
        /\ e.broadcast = h.obj[o].broadcast /\ e.spectators = S
    BY <1>3, <1>4, <1>5 DEF Entry
  <1>7. PICK O : O = [h.obj EXCEPT ![o] = e]
    OBVIOUS
  <1>8. O \in [Object -> Entry] /\ O[o] = e /\ \A x \in Object : x # o => O[x] = h.obj[x]
    BY <1>1, <1>6, <1>7 DEF CastState
  <1>9. PICK r : r = [h EXCEPT !.obj = O]
    OBVIOUS
  <1>10. r = RemoveSpectator(h, o, p)
    BY <1>2, <1>3, <1>7, <1>9 DEF RemoveSpectator
  <1>11. r \in CastState /\ Elsewhere(r, h) /\ r.player = h.player /\ r.obj = O
    BY <1>1, <1>8, <1>9 DEF CastState, Elsewhere
  <1>12. \A x \in Object : /\ r.obj[x].status = h.obj[x].status /\ r.obj[x].owner = h.obj[x].owner
                           /\ r.obj[x].broadcast = h.obj[x].broadcast /\ r.obj[x].refs = h.obj[x].refs
                           /\ \A q \in Client : q # p => (q \in r.obj[x].spectators <=> q \in h.obj[x].spectators)
                           /\ \A q \in Client : q \in r.obj[x].spectators => q \in h.obj[x].spectators
    BY <1>2, <1>6, <1>8, <1>11
  <1>13. Exact(r)
    BY <1>1, <1>11, <1>12, SameCounts DEF Elsewhere
  <1>14. \A q : (Back(r, q) <=> Back(h, q)) /\ (OnceQueued(r, q) <=> OnceQueued(h, q))
    BY <1>11, SameQueue DEF Elsewhere
  <1>15. ASSUME NEW q \in Client
         PROVE  Fresh(r, q) /\ Waits(r, q) /\ Owns(r, q) /\ Sent(r, q) /\ (q = p \/ Watches(r, q))
    <2>1. Fresh(h, q) /\ Waits(h, q) /\ Owns(h, q) /\ Sent(h, q) /\ (q = p \/ Watches(h, q))
      BY DEF AllBut
    <2>2. h.player[q] = None \/ h.player[q] \in Object
      BY <1>1 DEF CastState
    <2> QED
      BY <1>11, <1>12, <1>14, <2>1, <2>2 DEF Fresh, Waits, Owns, Plays, Sent, Watches, Elsewhere
  <1>16. ASSUME NEW x \in Object
         PROVE  ObjectAgrees(r, x)
    BY <1>11, <1>12 DEF AllBut, ObjectAgrees, Owned, Elsewhere
  <1>17. ASSUME NEW q \in Client, NEW x \in Object
         PROVE  Listed(r, q, x)
    BY <1>11, <1>12, <1>14 DEF AllBut, Listed, Elsewhere
  <1>18. AllBut(r, p)
    BY <1>1, <1>11, <1>13, <1>15, <1>16, <1>17 DEF AllBut, Elsewhere
  <1>19. p \notin r.obj[o].spectators
    BY <1>2, <1>6, <1>8, <1>11
  <1> QED
    BY <1>8, <1>10, <1>11, <1>12, <1>18, <1>19

\* A player without its client.
LEMMA DisownedWithin ==
    ASSUME NEW p \in Client, NEW k, Good(k), NEW o \in Object, k.player[p] = o, ~ k.spectator[p], o \notin k.liveCasts
    PROVE  LET r == [k EXCEPT !.obj[o].owner = IF @ = p THEN None ELSE @]
           IN Within(r, p) /\ Elsewhere(r, k) /\ r.player = k.player
  <1>1. k \in CastState /\ Exact(k) /\ k.strayed = {} /\ Agree(k)
    BY DEF Good
  <1>2. ClientAgrees(k, p) /\ o # None
    BY <1>1, NoneIsNone DEF Agree
  <1>3. k.obj[o].owner = p
    BY <1>2 DEF ClientAgrees, Owns, Plays
  <1>4. PICK e : e = [k.obj[o] EXCEPT !.owner = None]
    OBVIOUS
  <1>5. k.obj[o] \in Entry
    BY <1>1 DEF CastState
  <1>6. /\ e \in Entry /\ e.refs = k.obj[o].refs /\ e.status = k.obj[o].status /\ e.owner = None
        /\ e.broadcast = k.obj[o].broadcast /\ e.spectators = k.obj[o].spectators
    BY <1>4, <1>5 DEF Entry
  <1>7. PICK O : O = [k.obj EXCEPT ![o] = e]
    OBVIOUS
  <1>8. O \in [Object -> Entry] /\ O[o] = e /\ \A x \in Object : x # o => O[x] = k.obj[x]
    BY <1>1, <1>6, <1>7 DEF CastState
  <1>9. PICK r : r = [k EXCEPT !.obj = O]
    OBVIOUS
  <1>10. r \in CastState /\ Elsewhere(r, k) /\ r.player = k.player /\ r.obj = O
    BY <1>1, <1>8, <1>9 DEF CastState, Elsewhere
  <1>11. \A x \in Object : /\ r.obj[x].status = k.obj[x].status
                           /\ r.obj[x].owner = (IF x = o THEN None ELSE k.obj[x].owner)
                           /\ r.obj[x].broadcast = k.obj[x].broadcast /\ r.obj[x].refs = k.obj[x].refs
                           /\ r.obj[x].spectators = k.obj[x].spectators
    <2> TAKE x \in Object
    <2>1. CASE x = o
      BY <1>6, <1>8, <1>10, <2>1
    <2>2. CASE x # o
      <3>1. r.obj[x] = k.obj[x]
        BY <1>8, <1>10, <2>2
      <3> QED
        BY <2>2, <3>1
    <2> QED
      BY <2>1, <2>2
  <1>12. Exact(r)
    <2>1. \A x \in Object : r.obj[x].status = k.obj[x].status /\ r.obj[x].refs = k.obj[x].refs
      BY <1>11
    <2>2. r.player = k.player /\ r.cleaned = k.cleaned
      BY <1>10 DEF Elsewhere
    <2> QED
      BY <1>1, <2>1, <2>2, SameCounts
  <1>13. \A q : (Back(r, q) <=> Back(k, q)) /\ (OnceQueued(r, q) <=> OnceQueued(k, q))
    BY <1>10, SameQueue DEF Elsewhere
  <1>14. ASSUME NEW q \in Client \ {p}
         PROVE  ClientAgrees(r, q)
    <2>1. ClientAgrees(k, q)
      BY <1>1 DEF Agree
    <2>2. k.player[q] = None \/ k.player[q] \in Object
      BY <1>1 DEF CastState
    <2>3. Fresh(r, q) /\ Waits(r, q) /\ Sent(r, q)
      BY <1>10, <1>13, <2>1 DEF ClientAgrees, Fresh, Waits, Sent, Elsewhere
    <2>4. Watches(r, q)
      BY <1>10, <1>11, <1>13, <2>1, <2>2 DEF ClientAgrees, Watches, Elsewhere
    <2>5. Owns(r, q)
      <3> SUFFICES ASSUME Plays(k, q)
                   PROVE  r.obj[k.player[q]].owner = q
        BY <1>10 DEF Owns, Plays, Elsewhere
      <3>1. k.obj[k.player[q]].owner = q /\ k.player[q] \in Object
        BY <2>1, <2>2 DEF ClientAgrees, Owns, Plays
      <3>2. k.player[q] # o
        BY <1>3, <3>1
      <3> QED
        BY <1>11, <3>1, <3>2
    <2> QED
      BY <2>3, <2>4, <2>5 DEF ClientAgrees
  <1>15. ASSUME NEW x \in Object
         PROVE  /\ ObjectAgrees(r, x)
                /\ r.obj[x].status = "placed" \/ x \in r.liveCasts => r.obj[x].owner # p
                /\ p \notin r.obj[x].spectators
    <2>1. ObjectAgrees(k, x) /\ Listed(k, p, x)
      BY <1>1 DEF Agree
    <2>2. p \notin r.obj[x].spectators
      BY <1>11, <2>1 DEF Listed
    <2>3. CASE x = o
      BY <1>10, <1>11, <2>1, <2>2, <2>3, NoneIsNone DEF ObjectAgrees, Owned, Elsewhere
    <2>4. CASE x # o
      <3>1. r.obj[x].owner = k.obj[x].owner
        BY <1>11, <2>4
      <3>2. ObjectAgrees(r, x)
        BY <1>10, <1>11, <2>1, <3>1 DEF ObjectAgrees, Owned, Elsewhere
      <3>3. r.obj[x].status = "placed" \/ x \in r.liveCasts => r.obj[x].owner # p
        BY <1>10, <2>4, <3>2, NoneIsNone DEF ObjectAgrees, Owned, Elsewhere
      <3> QED
        BY <2>2, <3>2, <3>3
    <2> QED
      BY <2>3, <2>4
  <1>16. ASSUME NEW q \in Client \ {p}, NEW x \in Object
         PROVE  Listed(r, q, x)
    BY <1>1, <1>10, <1>11, <1>13 DEF Agree, Listed, Elsewhere
  <1>17. r.strayed = {} /\ r.conn[p] # "new" /\ r.eventConnect[p] = None /\ Sent(r, p)
    BY <1>1, <1>2, <1>10, <1>13 DEF ClientAgrees, Fresh, Waits, Sent, Elsewhere
  <1>18. r = [k EXCEPT !.obj[o].owner = IF @ = p THEN None ELSE @]
    BY <1>3, <1>4, <1>7, <1>9
  <1>19. Within(r, p)
    BY <1>10, <1>12, <1>14, <1>15, <1>16, <1>17 DEF Within, Core
  <1> QED
    BY <1>10, <1>18, <1>19

(***************************************************************************)
(* Small changes.                                                          *)
(***************************************************************************)
\* Flags of a client that is on no list, and what the lists do not depend on.
LEMMA SameGood ==
    ASSUME NEW h, Good(h), NEW r \in CastState,
           r.conn = h.conn, r.player = h.player, r.spectator = h.spectator, r.eventConnect = h.eventConnect,
           r.obj = h.obj, r.liveCasts = h.liveCasts, r.cleaned = h.cleaned, r.tasks = h.tasks, r.strayed = h.strayed,
           h.stranded \subseteq r.stranded,
           \A q \in Client : h.spectator[q] => r.spy[q] = h.spy[q]
    PROVE  Good(r)
  <1>1. h \in CastState /\ Exact(h) /\ h.strayed = {} /\ Agree(h)
    BY DEF Good
  <1>2. Exact(r)
    BY <1>1, SameCounts
  <1>3. \A q : (Back(r, q) <=> Back(h, q)) /\ (OnceQueued(r, q) <=> OnceQueued(h, q))
    BY SameQueue
  <1>4. ASSUME NEW q \in Client
        PROVE  ClientAgrees(r, q)
    BY <1>1, <1>3 DEF Agree, ClientAgrees, Fresh, Waits, Owns, Plays, Watches, Sent
  <1>5. ASSUME NEW o \in Object
        PROVE  ObjectAgrees(r, o)
    BY <1>1 DEF Agree, ObjectAgrees, Owned
  <1>6. ASSUME NEW q \in Client, NEW o \in Object
        PROVE  Listed(r, q, o)
    BY <1>1, <1>3 DEF Agree, Listed
  <1> QED
    BY <1>1, <1>2, <1>4, <1>5, <1>6 DEF Good, Agree

\* A client that plays nothing connects, waits, or waits no longer.
LEMMA ClientGood ==
    ASSUME NEW h, Good(h), NEW p \in Client, NEW r \in CastState, h.player[p] = None, ~ h.spectator[p],
           r.conn[p] # "new", \A q \in Client \ {p} : r.conn[q] = h.conn[q] /\ r.eventConnect[q] = h.eventConnect[q],
           r.player = h.player, r.spectator = h.spectator, r.spy = h.spy, r.obj = h.obj,
           r.liveCasts = h.liveCasts, r.cleaned = h.cleaned, r.tasks = h.tasks, r.strayed = h.strayed,
           r.stranded = h.stranded
    PROVE  Good(r)
  <1>1. h \in CastState /\ Exact(h) /\ h.strayed = {} /\ Agree(h)
    BY DEF Good
  <1>2. Exact(r)
    BY <1>1, SameCounts
  <1>3. \A q : (Back(r, q) <=> Back(h, q)) /\ (OnceQueued(r, q) <=> OnceQueued(h, q))
    BY SameQueue
  <1>4. ASSUME NEW q \in Client
        PROVE  ClientAgrees(r, q)
    <2>1. ClientAgrees(h, q)
      BY <1>1 DEF Agree
    <2>2. CASE q = p
      BY <1>3, <2>1, <2>2 DEF ClientAgrees, Fresh, Waits, Owns, Plays, Watches, Sent
    <2>3. CASE q # p
      <3>1. r.conn[q] = h.conn[q] /\ r.eventConnect[q] = h.eventConnect[q]
        BY <2>3
      <3> QED
        BY <1>3, <2>1, <3>1 DEF ClientAgrees, Fresh, Waits, Owns, Plays, Watches, Sent
    <2> QED
      BY <2>2, <2>3
  <1>5. ASSUME NEW o \in Object
        PROVE  ObjectAgrees(r, o)
    BY <1>1 DEF Agree, ObjectAgrees, Owned
  <1>6. ASSUME NEW q \in Client, NEW o \in Object
        PROVE  Listed(r, q, o)
    BY <1>1, <1>3 DEF Agree, Listed
  <1> QED
    BY <1>1, <1>2, <1>4, <1>5, <1>6 DEF Good, Agree

(***************************************************************************)
(* Logouts.                                                                *)
(***************************************************************************)
LEMMA OwnedGood ==
    ASSUME NEW h, Good(h), NEW p \in Client, Plays(h, p)
    PROVE  h.player[p] \in Object /\ h.obj[h.player[p]].owner = p /\ Owned(h, h.player[p])
  <1>1. h \in CastState /\ Agree(h)
    BY DEF Good
  <1>2. h.player[p] \in Object
    BY <1>1 DEF CastState, Plays
  <1>3. h.obj[h.player[p]].owner = p
    BY <1>1 DEF Agree, ClientAgrees, Owns
  <1> QED
    BY <1>2, <1>3 DEF Owned, Plays

LEMMA LogoutGood ==
    ASSUME NEW h, Good(h), NEW p \in Client
    PROVE  Good(LogoutOf(h, p))
  <1>1. CASE h.spectator[p]
    <2>1. LogoutOf(h, p) = CloseOne(h, p)
      BY <1>1 DEF LogoutOf
    <2> QED
      BY <2>1, CloseGood
  <1>2. CASE ~ h.spectator[p] /\ h.player[p] = None
    BY <1>2 DEF LogoutOf
  <1>3. CASE Plays(h, p)
    <2>1. PICK o : o = h.player[p]
      OBVIOUS
    <2>2. o \in Object /\ Owned(h, o)
      BY <1>3, <2>1, OwnedGood
    <2>3. PICK a : a = Clear(h, o, TRUE)
      OBVIOUS
    <2>4. Good(a)
      <3>1. PICK b : b = TRUE
        OBVIOUS
      <3>2. b \in BOOLEAN
        BY <3>1, Zenon
      <3>3. Good(Clear(h, o, b))
        BY <2>2, <3>2, ClearGood
      <3> QED
        BY <2>3, <3>1, <3>3, Zenon
    <2>5. PICK k : k = CloseOne(a, p)
      OBVIOUS
    <2>6. Good(k)
      BY <2>4, <2>5, CloseGood
    <2>7. LogoutOf(h, p) = TakeOut(k, o)
      BY <1>3, <2>1, <2>3, <2>5 DEF LogoutOf, Plays
    <2> QED
      BY <2>2, <2>6, <2>7, TakeOutGood
  <1> QED
    BY <1>1, <1>2, <1>3 DEF Plays

LEMMA KickGood ==
    ASSUME NEW h, Good(h), NEW o \in Object
    PROVE  Good(KickOut(h, o))
  <1>1. CASE HasClient(h, o)
    <2>1. h.obj[o].owner \in Client
      BY <1>1 DEF Good, CastState, Entry, HasClient
    <2> QED
      BY <1>1, <2>1, LogoutGood DEF KickOut
  <1>2. CASE ~ HasClient(h, o)
    <2>1. KickOut(h, o) = TakeOut(h, o)
      BY <1>2 DEF KickOut
    <2> QED
      BY <2>1, TakeOutGood
  <1> QED
    BY <1>1, <1>2

(***************************************************************************)
(* The task that releases a protocol.                                      *)
(***************************************************************************)
LEMMA LeaveWithin ==
    ASSUME NEW h, Good(h), NEW p \in Client, h.player[p] # None
    PROVE  Within(Leave(h, p), p) /\ Leave(h, p).player = h.player
  <1>1. PICK o : o = h.player[p]
    OBVIOUS
  <1>2. h \in CastState /\ Agree(h)
    BY DEF Good
  <1>3. o \in Object
    BY <1>1, <1>2 DEF CastState
  <1>4. PICK ends : ends = (h.obj[o].broadcast \/ h.spy[p])
    OBVIOUS
  <1>5. CASE h.spectator[p]
    <2>1. Leave(h, p) = IF ends THEN RemoveSpectator(h, o, p) ELSE h
      BY <1>1, <1>4, <1>5 DEF Leave
    <2>2. AllBut(h, p) /\ Listed(h, p, o)
      BY <1>2, <1>3, NearGood DEF Agree
    <2>3. CASE ends
      <3>1. PICK r : r = RemoveSpectator(h, o, p)
        OBVIOUS
      <3>2. AllBut(r, p) /\ Elsewhere(r, h) /\ r.player = h.player /\ p \notin r.obj[o].spectators
        BY <1>3, <2>2, <3>1, RemoveNear
      <3>3. r.spectator[p] /\ r.player[p] = o
        BY <1>1, <1>5, <3>2 DEF Elsewhere
      <3>4. Within(r, p)
        BY <1>3, <3>2, <3>3, SpectatorWithin
      <3> QED
        BY <2>1, <2>3, <3>1, <3>2, <3>4
    <2>4. CASE ~ ends
      <3>1. p \notin h.obj[o].spectators
        BY <1>4, <2>2, <2>4 DEF Listed
      <3>2. Within(h, p)
        BY <1>1, <1>3, <1>5, <2>2, <3>1, SpectatorWithin
      <3> QED
        BY <2>1, <2>4, <3>2
    <2> QED
      BY <2>3, <2>4
  <1>6. CASE ~ h.spectator[p]
    <2>1. Plays(h, p)
      BY <1>6 DEF Plays
    <2>2. Owned(h, o)
      BY <1>1, <2>1, OwnedGood
    <2>3. PICK b : b = TRUE
      OBVIOUS
    <2>4. b \in BOOLEAN
      BY <2>3, Zenon
    <2>5. PICK k : k = IF ends THEN Clear(h, o, b) ELSE h
      OBVIOUS
    <2>6. Good(k) /\ k.player = h.player /\ k.spectator = h.spectator /\ o \notin k.liveCasts
      <3>1. CASE ends
        <4>1. k = Clear(h, o, b)
          BY <2>5, <3>1
        <4>2. Good(k) /\ OthersSame(k, h) /\ o \notin k.liveCasts
          BY <1>3, <2>2, <2>4, <4>1, ClearGood
        <4> QED
          BY <4>2 DEF OthersSame
      <3>2. CASE ~ ends
        <4>1. ObjectAgrees(h, o)
          BY <1>2, <1>3 DEF Agree
        <4> QED
          BY <1>4, <2>5, <3>2, <4>1 DEF ObjectAgrees
      <3> QED
        BY <3>1, <3>2
    <2>7. Leave(h, p) = [k EXCEPT !.obj[o].owner = IF @ = p THEN None ELSE @]
      <3>1. k = IF ends THEN Clear(h, o, TRUE) ELSE h
        BY <2>3, <2>5, Zenon
      <3> QED
        BY <1>1, <1>4, <1>6, <3>1 DEF Leave
    <2>8. PICK r : r = [k EXCEPT !.obj[o].owner = IF @ = p THEN None ELSE @]
      OBVIOUS
    <2>9. Within(r, p) /\ r.player = k.player
      BY <1>1, <1>3, <1>6, <2>6, <2>8, DisownedWithin
    <2> QED
      BY <2>6, <2>7, <2>8, <2>9
  <1> QED
    BY <1>5, <1>6

LEMMA ReleaseGood ==
    ASSUME NEW h, Good(h), NEW p \in Client
    PROVE  Good(ReleaseTask(h, p))
  <1>1. CASE h.player[p] = None
    BY <1>1 DEF ReleaseTask
  <1>2. CASE h.player[p] # None
    <2>1. PICK o : o = h.player[p]
      OBVIOUS
    <2>2. o \in Object
      BY <1>2, <2>1 DEF Good, CastState
    <2>3. PICK l : l = Leave(h, p)
      OBVIOUS
    <2>4. Within(l, p) /\ l.player[p] = o
      BY <1>2, <2>1, <2>3, LeaveWithin
    <2>5. l \in CastState
      BY <2>4 DEF Within, Core
    <2>6. PICK k : k = CountRef(l, o, -1)
      OBVIOUS
    <2>7. /\ Without(k, p) /\ OthersSame(k, l) /\ k.conn = l.conn /\ k.liveCasts = l.liveCasts
          /\ k.tasks = l.tasks
      BY <2>2, <2>4, <2>6, DropEffect
    <2>8. k \in CastState
      BY <2>7 DEF Without, Core
    <2>9. PICK P : P = [l.player EXCEPT ![p] = None]
      OBVIOUS
    <2>10. /\ P \in [Client -> Object \cup {None}] /\ P[p] = None
           /\ \A q \in Client \ {p} : P[q] = l.player[q]
      BY <2>5, <2>9 DEF CastState
    <2>11. PICK r : r = [k EXCEPT !.player = P]
      OBVIOUS
    <2>12. /\ r \in CastState /\ r.player = P /\ r.obj = k.obj /\ r.conn = k.conn /\ r.spectator = k.spectator
           /\ r.spy = k.spy /\ r.stranded = k.stranded /\ r.eventConnect = k.eventConnect /\ r.cleaned = k.cleaned
           /\ r.liveCasts = k.liveCasts /\ r.tasks = k.tasks /\ r.strayed = k.strayed
      BY <2>8, <2>10, <2>11 DEF CastState
    <2>13. OnlyOf(r, k, p)
      BY <2>7, <2>10, <2>12 DEF OnlyOf, OthersSame
    <2>14. Good(r)
      BY <2>7, <2>10, <2>12, <2>13, NobodyGood
    <2>15. ReleaseTask(h, p) = r
      <3>1. PICK d : d = Counted(l.obj[o], -1)
        OBVIOUS
      <3>2. PICK m : m = [l EXCEPT !.player = P]
        OBVIOUS
      <3>3. m.obj = l.obj /\ m = [l EXCEPT !.player[p] = None]
        BY <2>5, <2>9, <3>2 DEF CastState
      <3>4. ReleaseTask(h, p) = CountRef(m, o, -1)
        BY <1>2, <2>1, <2>3, <3>3 DEF ReleaseTask
      <3>5. PICK O : O = [l.obj EXCEPT ![o] = d]
        OBVIOUS
      <3>6. CountRef(m, o, -1) = [m EXCEPT !.obj = O]
        BY <3>1, <3>3, <3>5 DEF CountRef
      <3>7. k = [l EXCEPT !.obj = O]
        BY <2>6, <3>1, <3>5 DEF CountRef
      <3> QED
        BY <2>5, <2>11, <3>2, <3>4, <3>6, <3>7 DEF CastState
    <2> QED
      BY <2>14, <2>15
  <1> QED
    BY <1>1, <1>2

(***************************************************************************)
(* New players.                                                            *)
(***************************************************************************)
LEMMA NewIs ==
    ASSUME NEW h \in CastState, NEW p \in Client, NEW name \in Character \cup {None}, MayMake(h)
    PROVE  \E o \in Object, e \in Entry :
              /\ h.obj[o].status = "none" /\ NewObject(h, p, name) = Given(h, p, o, e)
              /\ e.status = "loaded" /\ e.refs = 1 /\ e.owner = p /\ e.spectators = {}
  <1>1. PICK o : o = CHOOSE i \in Object : h.obj[i].status = "none"
    OBVIOUS
  <1>2. o \in Object /\ h.obj[o].status = "none"
    BY <1>1 DEF MayMake
  <1>3. PICK z : z = NoPlayer
    OBVIOUS
  <1>4. z \in Entry /\ z.spectators = {}
    BY <1>3, NoPlayerParts
  <1>5. PICK e : e = [z EXCEPT !.name = name, !.status = "loaded", !.refs = 1, !.owner = p]
    OBVIOUS
  <1>6. e \in Entry /\ e.status = "loaded" /\ e.refs = 1 /\ e.owner = p /\ e.spectators = {}
    <2>1. DOMAIN z = {"name", "status", "refs", "owner", "broadcast", "spectators"}
      BY <1>4 DEF Entry
    <2>2. e.status = "loaded" /\ e.refs = 1 /\ e.owner = p /\ e.spectators = {}
      BY <1>4, <1>5, <2>1
    <2>3. PICK z1 : z1 = [z EXCEPT !.name = name, !.owner = p]
      OBVIOUS
    <2>4. z1 \in Entry
      BY <1>4, <2>3 DEF Entry
    <2>5. PICK n : n = 1
      OBVIOUS
    <2>6. n \in Int
      BY <2>5
    <2>7. PICK s : s = "loaded"
      OBVIOUS
    <2>8. s \in {"none", "loaded", "placed", "removed", "deleted"}
      BY <2>7
    <2>9. PICK z2 : z2 = [z1 EXCEPT !.status = s, !.refs = n]
      OBVIOUS
    <2>10. z2 \in Entry
      BY <2>4, <2>6, <2>8, <2>9 DEF Entry
    <2>11. e = z2
      BY <1>4, <1>5, <2>3, <2>5, <2>7, <2>9 DEF Entry
    <2>12. e \in Entry
      BY <2>10, <2>11
    <2> QED
      BY <2>2, <2>12
  <1>7. NewObject(h, p, name) = Given(h, p, o, e)
    BY <1>1, <1>3, <1>5, Zenon DEF NewObject, Given
  <1> QED
    BY <1>2, <1>6, <1>7

LEMMA PlaceIs ==
    ASSUME NEW m \in CastState, NEW o \in Object, m.obj[o].refs = 1
    PROVE  LET r == PlaceObject(m, o)
           IN /\ r \in CastState /\ OthersSame(r, m) /\ r.conn = m.conn /\ r.liveCasts = m.liveCasts
              /\ r.tasks = m.tasks
              /\ r.obj[o].refs = 2 /\ r.obj[o].status = "placed" /\ r.obj[o].owner = m.obj[o].owner
              /\ r.obj[o].spectators = m.obj[o].spectators
              /\ \A x \in Object : x # o => r.obj[x] = m.obj[x]
  <1>1. PICK k : k = CountRef(m, o, 1)
    OBVIOUS
  <1>2. m.obj[o] \in Entry /\ 1 \in Int
    BY DEF CastState
  <1>3. PICK d : d = Counted(m.obj[o], 1)
    OBVIOUS
  <1>4. /\ d \in Entry /\ d.refs = 2 /\ d.owner = m.obj[o].owner /\ d.spectators = m.obj[o].spectators
    <2>1. PICK x : x = m.obj[o]
      OBVIOUS
    <2>2. x \in Entry /\ x.refs + 1 # 0 /\ x.refs + 1 = 2 /\ d = Counted(x, 1)
      BY <1>2, <1>3, <2>1
    <2> QED
      BY <1>2, <2>1, <2>2, CountedParts
  <1>5. /\ k \in CastState /\ OthersSame(k, m) /\ k.conn = m.conn /\ k.liveCasts = m.liveCasts /\ k.tasks = m.tasks
        /\ k.obj[o] = d /\ \A x \in Object : x # o => k.obj[x] = m.obj[x]
    BY <1>1, <1>2, <1>3, CountRefEffect
  <1>6. PICK e : e = [d EXCEPT !.status = "placed"]
    OBVIOUS
  <1>7. /\ e \in Entry /\ e.refs = 2 /\ e.status = "placed" /\ e.owner = d.owner /\ e.spectators = d.spectators
    BY <1>4, <1>6 DEF Entry
  <1>8. PICK O : O = [k.obj EXCEPT ![o] = e]
    OBVIOUS
  <1>9. O \in [Object -> Entry] /\ O[o] = e /\ \A x \in Object : x # o => O[x] = k.obj[x]
    BY <1>5, <1>7, <1>8 DEF CastState
  <1>10. PICK r : r = [k EXCEPT !.obj = O]
    OBVIOUS
  <1>11. r = PlaceObject(m, o)
    BY <1>1, <1>5, <1>6, <1>8, <1>10 DEF PlaceObject
  <1>12. /\ r \in CastState /\ OthersSame(r, k) /\ r.conn = k.conn /\ r.liveCasts = k.liveCasts
         /\ r.tasks = k.tasks /\ r.obj = O
    BY <1>5, <1>9, <1>10 DEF CastState, OthersSame
  <1>13. OthersSame(r, m)
    BY <1>5, <1>12 DEF OthersSame
  <1> QED
    BY <1>4, <1>5, <1>7, <1>9, <1>11, <1>12, <1>13

LEMMA NoTwo ==
    ASSUME NEW h \in CastState, NEW m, NEW r, NEW p \in Client, OnlyOf(m, h, p),
           OthersSame(r, m), r.conn = m.conn, r.liveCasts = m.liveCasts, r.tasks = m.tasks
    PROVE  OnlyOf(r, h, p)
  BY DEF OnlyOf, OthersSame

LEMMA LoginNewGood ==
    ASSUME NEW h, Good(h), NEW p \in Client, h.player[p] = None, ~ h.spectator[p],
           h.conn[p] # "new", h.eventConnect[p] = None, NEW name \in Character, LoginNew(h, p, name)
    PROVE  Good(c')
  <1>1. h \in CastState /\ AllBut(h, p)
    BY NearGood DEF Good
  <1>2. Without(h, p)
    BY <1>1, NobodyWithout
  <1>3. ~ Back(h, p)
    BY <1>1 DEF AllBut, Sent
  <1>4. MayMake(h)
    BY DEF LoginNew
  <1>5. PICK o \in Object, e \in Entry :
           /\ h.obj[o].status = "none" /\ NewObject(h, p, name) = Given(h, p, o, e)
           /\ e.status = "loaded" /\ e.refs = 1 /\ e.owner = p /\ e.spectators = {}
    BY <1>1, <1>4, NewIs
  <1>6. PICK m : m = Given(h, p, o, e)
    OBVIOUS
  <1>7. /\ m \in CastState /\ Elsewhere(m, h) /\ m.player[p] = o /\ m.obj[o] = e
        /\ \A q \in Client : q # p => m.player[q] = h.player[q]
        /\ \A x \in Object : x # o => m.obj[x] = h.obj[x]
    BY <1>1, <1>5, <1>6, GivenEffect
  <1>8. OnlyOf(m, h, p) /\ ~ m.spectator[p]
    BY <1>7 DEF OnlyOf, Elsewhere
  <1>9. Good(m)
    BY <1>2, <1>3, <1>5, <1>7, <1>8, NewNear
  <1>10. PICK r : r = PlaceObject(m, o)
    OBVIOUS
  <1>11. /\ r \in CastState /\ OthersSame(r, m) /\ r.conn = m.conn /\ r.liveCasts = m.liveCasts
         /\ r.tasks = m.tasks
         /\ r.obj[o].refs = 2 /\ r.obj[o].status = "placed" /\ r.obj[o].owner = p
         /\ r.obj[o].spectators = {}
         /\ \A x \in Object : x # o => r.obj[x] = m.obj[x]
    BY <1>5, <1>7, <1>10, PlaceIs
  <1>12. Good(r)
    <2>1. OnlyOf(r, h, p)
      BY <1>1, <1>8, <1>11, NoTwo
    <2>2. r.player[p] = o /\ ~ r.spectator[p] /\ \A x \in Object : x # o => r.obj[x] = h.obj[x]
      BY <1>7, <1>8, <1>11 DEF OthersSame
    <2> QED
      BY <1>2, <1>3, <1>5, <1>11, <2>1, <2>2, NewNear
  <1>13. c' = CloseOne(m, p) \/ c' = PlaceObject(m, m.player[p])
    BY <1>5, <1>6 DEF LoginNew
  <1> QED
    BY <1>7, <1>9, <1>10, <1>12, <1>13, CloseGood

(***************************************************************************)
(* A telescope goes.                                                       *)
(***************************************************************************)
LEMMA OwnWithin ==
    ASSUME NEW h, Good(h), NEW p \in Client, NEW o \in Object, h.player[p] = o, ~ h.spectator[p],
           h.obj[o].status # "placed", o \notin h.liveCasts
    PROVE  Within(h, p)
  <1>1. h \in CastState /\ Exact(h) /\ h.strayed = {} /\ Agree(h)
    BY DEF Good
  <1>2. ClientAgrees(h, p) /\ o # None
    BY <1>1, NoneIsNone DEF Agree
  <1>3. h.conn[p] # "new" /\ h.eventConnect[p] = None /\ Sent(h, p)
    BY <1>2 DEF ClientAgrees, Fresh, Waits
  <1>4. ASSUME NEW x \in Object
        PROVE  /\ ObjectAgrees(h, x)
               /\ h.obj[x].status = "placed" \/ x \in h.liveCasts => h.obj[x].owner # p
               /\ p \notin h.obj[x].spectators
    <2>1. ObjectAgrees(h, x) /\ Listed(h, p, x)
      BY <1>1 DEF Agree
    <2>2. h.obj[x].status = "placed" \/ x \in h.liveCasts => h.obj[x].owner # p
      BY <2>1, NoneIsNone DEF ObjectAgrees, Owned
    <2>3. p \notin h.obj[x].spectators
      BY <2>1 DEF Listed
    <2> QED
      BY <2>1, <2>2, <2>3
  <1> QED
    BY <1>1, <1>3, <1>4 DEF Within, Core, Agree

LEMMA TelescopeGood ==
    ASSUME NEW h, Good(h), NEW p \in Client, NEW o \in Object, Plays(h, p), o # h.player[p],
           MayWatch(h, p, o)
    PROVE  Good(TelescopeStart(h, p, o))
  <1>1. h \in CastState /\ Agree(h)
    BY DEF Good
  <1>2. PICK own : own = h.player[p]
    OBVIOUS
  <1>3. own \in Object /\ Owned(h, own) /\ ~ h.spectator[p]
    BY <1>2, OwnedGood DEF Plays
  <1>4. ~ Back(h, p)
    BY <1>1, <1>3 DEF Agree, ClientAgrees, Sent
  <1>5. PICK a : a = Clear(h, own, TRUE)
    OBVIOUS
  <1>6. /\ Good(a) /\ OthersSame(a, h) /\ own \notin a.liveCasts
        /\ \A x \in Object : x # own => a.obj[x] = h.obj[x]
    <2>1. PICK b : b = TRUE
      OBVIOUS
    <2>2. b \in BOOLEAN
      BY <2>1, Zenon
    <2>3. PICK d : d = Clear(h, own, b)
      OBVIOUS
    <2>4. /\ Good(d) /\ OthersSame(d, h) /\ own \notin d.liveCasts
          /\ \A x \in Object : x # own => d.obj[x] = h.obj[x]
      <3>1. own \in Object /\ Owned(h, own)
        BY <1>3
      <3>2. Good(d) /\ OthersSame(d, h) /\ own \notin d.liveCasts
        BY <2>2, <2>3, <3>1, ClearGood
      <3>3. \A x \in Object : x # own => d.obj[x] = h.obj[x]
        BY <2>2, <2>3, <3>1, ClearGood
      <3> QED
        BY <3>2, <3>3
    <2>5. a = d
      BY <1>5, <2>1, <2>3, Zenon
    <2> QED
      BY <2>4, <2>5
  <1>7. PICK name : name = h.obj[own].name
    OBVIOUS
  <1>8. name \in Character \cup {None} /\ a \in CastState
    BY <1>1, <1>3, <1>6, <1>7 DEF CastState, Entry, Good
  <1>9. PICK H : H = [a.home EXCEPT ![p] = name]
    OBVIOUS
  <1>10. H \in [Client -> Character \cup {None}]
    BY <1>8, <1>9 DEF CastState
  <1>11. PICK a2 : a2 = [a EXCEPT !.home = H]
    OBVIOUS
  <1>12. /\ a2 \in CastState /\ a2.conn = a.conn /\ a2.player = a.player /\ a2.spectator = a.spectator
         /\ a2.eventConnect = a.eventConnect /\ a2.obj = a.obj /\ a2.liveCasts = a.liveCasts
         /\ a2.cleaned = a.cleaned /\ a2.tasks = a.tasks /\ a2.strayed = a.strayed
         /\ a2.stranded = a.stranded /\ a2.spy = a.spy
    BY <1>8, <1>10, <1>11 DEF CastState
  <1>13. Good(a2)
    BY <1>6, <1>12, SameGood
  <1>14. PICK l : l = TakeOut(a2, own)
    OBVIOUS
  <1>15. /\ Good(l) /\ OthersSame(l, a2) /\ l.liveCasts = a2.liveCasts
         /\ l.obj[own].status # "placed"
         /\ \A x \in Object : x # own => l.obj[x] = a2.obj[x]
    BY <1>3, <1>13, <1>14, TakeOutGood
  <1>16. /\ l.player[p] = own /\ ~ l.spectator[p] /\ own \notin l.liveCasts
         /\ l.spy = h.spy /\ l.obj[o] = h.obj[o]
    BY <1>2, <1>3, <1>6, <1>12, <1>15 DEF OthersSame
  <1>17. Within(l, p)
    BY <1>3, <1>15, <1>16, OwnWithin
  <1>18. PICK k : k = CountRef(l, own, -1)
    OBVIOUS
  <1>19. /\ Without(k, p) /\ OthersSame(k, l)
         /\ \A x \in Object : x # own => k.obj[x] = l.obj[x]
    BY <1>3, <1>16, <1>17, <1>18, DropEffect
  <1>20. k \in CastState /\ Sent(k, p)
    BY <1>19 DEF Without, Core
  <1>21. ~ k.spectator[p] /\ k.spy = h.spy /\ k.obj[o] = h.obj[o] /\ ~ Back(k, p)
    BY <1>2, <1>16, <1>19, <1>20 DEF OthersSame, Sent
  <1>22. PICK t : t = TRUE
    OBVIOUS
  <1>23. t \in BOOLEAN
    BY <1>22, Zenon
  <1>24. PICK S : S = [k.spectator EXCEPT ![p] = t]
    OBVIOUS
  <1>25. S \in [Client -> BOOLEAN] /\ S[p] = t /\ \A q \in Client \ {p} : S[q] = k.spectator[q]
    BY <1>20, <1>23, <1>24 DEF CastState
  <1>26. PICK g : g = [k EXCEPT !.spectator = S]
    OBVIOUS
  <1>27. /\ g \in CastState /\ g.spectator = S /\ g.obj = k.obj /\ g.player = k.player /\ g.conn = k.conn
         /\ g.eventConnect = k.eventConnect /\ g.cleaned = k.cleaned /\ g.liveCasts = k.liveCasts
         /\ g.tasks = k.tasks /\ g.strayed = k.strayed /\ g.spy = k.spy /\ g.stranded = k.stranded
    BY <1>20, <1>25, <1>26 DEF CastState
  <1>28. OnlyOf(g, k, p)
    BY <1>25, <1>27 DEF OnlyOf
  <1>29. PICK r : r = SendSpectatorAppear(g, p, o)
    OBVIOUS
  <1>30. k.obj[o].status = "placed" /\ (k.obj[o].broadcast \/ g.spy[p])
    BY <1>21, <1>27 DEF MayWatch, InTheWorld
  <1>31. r \in CastState /\ Elsewhere(r, g)
    <2>1. g.obj[o].refs \in Nat
      BY <1>19, <1>27, <1>30, PlacedIs
    <2>2. PICK e \in Entry : SendSpectatorAppear(g, p, o) = Given(g, p, o, e)
      BY <1>27, <2>1, AppearIs
    <2> QED
      BY <1>27, <1>29, <2>2, GivenEffect
  <1>32. g.spectator[p]
    BY <1>22, <1>25, <1>27
  <1>33. Good(r)
    BY <1>19, <1>21, <1>27, <1>28, <1>29, <1>30, <1>31, <1>32, WatchGood DEF Elsewhere
  <1>34. TelescopeStart(h, p, o) = r
    <2>1. [a EXCEPT !.home[p] = name] = a2
      BY <1>9, <1>11
    <2>2. TakeOut([Clear(h, own, TRUE) EXCEPT !.home[p] = h.obj[own].name], own) = l
      BY <1>5, <1>7, <1>14, <2>1, Zenon
    <2>3. [k EXCEPT !.spectator[p] = TRUE] = g
      BY <1>22, <1>24, <1>26, Zenon
    <2>4. SendSpectatorAppear([CountRef(l, own, -1) EXCEPT !.spectator[p] = TRUE], p, o) = r
      BY <1>18, <1>29, <2>3, Zenon
    <2> QED
      BY <1>2, <2>2, <2>4, Zenon DEF TelescopeStart
  <1> QED
    BY <1>33, <1>34

(***************************************************************************)
(* A telescope returns.                                                    *)
(***************************************************************************)
\* Disconnecting does not depend on what else p has.
AtHomeOf(k, p) == [k EXCEPT !.spectator[p] = FALSE, !.spy[p] = FALSE]
LEMMA CloseAtHome ==
    ASSUME NEW k \in CastState, NEW p \in Client
    PROVE  AtHomeOf(CloseOne(k, p), p) = CloseOne(AtHomeOf(k, p), p)
  <1>1. PICK f : f = FALSE
    OBVIOUS
  <1>2. PICK S : S = [k.spectator EXCEPT ![p] = f]
    OBVIOUS
  <1>3. PICK Y : Y = [k.spy EXCEPT ![p] = f]
    OBVIOUS
  <1>4. PICK open : open = {q \in {p} : k.conn[q] = "open"}
    OBVIOUS
  <1>5. PICK C : C = [q \in Client |-> IF q \in open THEN "closed" ELSE k.conn[q]]
    OBVIOUS
  <1>6. PICK batch : batch = {ATaskOf("release", q) : q \in open} \cup {ATaskOf("back", q) : q \in {}}
    OBVIOUS
  <1>7. PICK T : T = IF batch = {} THEN k.tasks ELSE Append(k.tasks, batch)
    OBVIOUS
  <1>9. PICK a : a = [k EXCEPT !.conn = C]
    OBVIOUS
  <1>10. CloseOne(k, p) = Queue(a, batch)
    BY <1>4, <1>5, <1>6, <1>9 DEF CloseOne, Dismiss
  <1>11. PICK b : b = [a EXCEPT !.tasks = T]
    OBVIOUS
  <1>12. Queue(a, batch) = b
    BY <1>7, <1>9, <1>11 DEF Queue, CastState
  <1>13. PICK g : g = [k EXCEPT !.spectator = S, !.spy = Y]
    OBVIOUS
  <1>14. g.conn = k.conn /\ g.tasks = k.tasks
    BY <1>13 DEF CastState
  <1>15. AtHomeOf(k, p) = g
    BY <1>1, <1>2, <1>3, <1>13, Zenon DEF AtHomeOf
  <1>16. PICK d : d = [g EXCEPT !.conn = C]
    OBVIOUS
  <1>17. CloseOne(g, p) = Queue(d, batch)
    BY <1>4, <1>5, <1>6, <1>14, <1>16 DEF CloseOne, Dismiss
  <1>18. PICK e : e = [d EXCEPT !.tasks = T]
    OBVIOUS
  <1>19. Queue(d, batch) = e
    BY <1>7, <1>13, <1>14, <1>16, <1>18 DEF Queue, CastState
  <1>20. b.spectator = k.spectator /\ b.spy = k.spy
    BY <1>9, <1>11 DEF CastState
  <1>21. AtHomeOf(b, p) = [b EXCEPT !.spectator = S, !.spy = Y]
    <2>1. [b EXCEPT !.spectator[p] = f, !.spy[p] = f] = [b EXCEPT !.spectator = S, !.spy = Y]
      BY <1>2, <1>3, <1>20
    <2> QED
      BY <1>1, <2>1, Zenon DEF AtHomeOf
  <1>22. [b EXCEPT !.spectator = S, !.spy = Y] = e
    BY <1>9, <1>11, <1>13, <1>16, <1>18 DEF CastState
  <1> QED
    BY <1>10, <1>12, <1>15, <1>17, <1>19, <1>21, <1>22

LEMMA AtHomeParts ==
    ASSUME NEW k \in CastState, NEW p \in Client
    PROVE  LET r == AtHomeOf(k, p)
           IN /\ r \in CastState /\ r.conn = k.conn /\ r.player = k.player /\ r.eventConnect = k.eventConnect
              /\ r.obj = k.obj /\ r.liveCasts = k.liveCasts /\ r.cleaned = k.cleaned /\ r.tasks = k.tasks
              /\ r.strayed = k.strayed /\ r.stranded = k.stranded /\ ~ r.spectator[p]
              /\ \A q \in Client \ {p} : r.spectator[q] = k.spectator[q] /\ r.spy[q] = k.spy[q]
  <1>1. PICK f : f = FALSE
    OBVIOUS
  <1>2. f \in BOOLEAN
    BY <1>1, Zenon
  <1>3. PICK S : S = [k.spectator EXCEPT ![p] = f]
    OBVIOUS
  <1>4. PICK Y : Y = [k.spy EXCEPT ![p] = f]
    OBVIOUS
  <1>5. /\ S \in [Client -> BOOLEAN] /\ Y \in [Client -> BOOLEAN] /\ S[p] = f
        /\ \A q \in Client \ {p} : S[q] = k.spectator[q] /\ Y[q] = k.spy[q]
    BY <1>2, <1>3, <1>4 DEF CastState
  <1>6. PICK g : g = [k EXCEPT !.spectator = S, !.spy = Y]
    OBVIOUS
  <1>7. /\ g \in CastState /\ g.conn = k.conn /\ g.player = k.player /\ g.eventConnect = k.eventConnect
        /\ g.obj = k.obj /\ g.liveCasts = k.liveCasts /\ g.cleaned = k.cleaned /\ g.tasks = k.tasks
        /\ g.strayed = k.strayed /\ g.stranded = k.stranded /\ g.spectator = S /\ g.spy = Y
    BY <1>5, <1>6 DEF CastState
  <1>8. AtHomeOf(k, p) = g
    BY <1>1, <1>3, <1>4, <1>6, Zenon DEF AtHomeOf
  <1>9. ~ g.spectator[p]
    BY <1>1, <1>5, <1>7
  <1> QED
    BY <1>5, <1>7, <1>8, <1>9

LEMMA ReturnsGood ==
    ASSUME NEW h, NEW p \in Client, AllBut(h, p), h.spectator[p], h.player[p] # None, ~ Back(h, p),
           \A x \in Object : p \notin h.obj[x].spectators, Returns(h, p)
    PROVE  Good(c')
  <1>1. h \in CastState
    BY DEF AllBut
  <1>2. PICK old : old = h.player[p]
    OBVIOUS
  <1>3. old \in Object
    BY <1>1, <1>2 DEF CastState
  <1>4. Within(h, p)
    BY <1>2, <1>3, SpectatorWithin
  <1>5. PICK k : k = CountRef(h, old, -1)
    OBVIOUS
  <1>6. /\ Without(k, p) /\ OthersSame(k, h) /\ k.conn = h.conn /\ k.liveCasts = h.liveCasts
        /\ k.tasks = h.tasks
        /\ h.obj[old].status \notin {"none", "deleted"}
        /\ \A x \in Object : x # old => k.obj[x] = h.obj[x]
    BY <1>2, <1>3, <1>4, <1>5, DropEffect
  <1>7. PICK name : name = h.home[p]
    OBVIOUS
  <1>8. name \in Character \cup {None} /\ MayMake(h)
    BY <1>1, <1>7 DEF CastState, Returns
  <1>9. PICK o \in Object, e \in Entry :
           /\ h.obj[o].status = "none" /\ NewObject(h, p, name) = Given(h, p, o, e)
           /\ e.status = "loaded" /\ e.refs = 1 /\ e.owner = p /\ e.spectators = {}
    BY <1>1, <1>8, NewIs
  <1>10. o # old
    BY <1>6, <1>9
  <1>11. PICK m : m = Given(h, p, o, e)
    OBVIOUS
  <1>12. /\ m \in CastState /\ Elsewhere(m, h) /\ m.player[p] = o /\ m.obj[o] = e
         /\ \A q \in Client : q # p => m.player[q] = h.player[q]
         /\ \A x \in Object : x # o => m.obj[x] = h.obj[x]
    BY <1>1, <1>9, <1>11, GivenEffect
  <1>13. PICK d : d = CountRef(m, old, -1)
    OBVIOUS
  <1>14. -1 \in Int
    OBVIOUS
  <1>15. /\ d \in CastState /\ OthersSame(d, m) /\ d.conn = m.conn /\ d.liveCasts = m.liveCasts
         /\ d.tasks = m.tasks /\ d.obj[old] = Counted(m.obj[old], -1)
         /\ \A x \in Object : x # old => d.obj[x] = m.obj[x]
    BY <1>3, <1>12, <1>13, <1>14, CountRefEffect
  <1>16. k.obj[old] = Counted(h.obj[old], -1)
    BY <1>1, <1>3, <1>5, <1>14, CountRefEffect
  <1>17. PICK H : H = [d.home EXCEPT ![p] = None]
    OBVIOUS
  <1>18. H \in [Client -> Character \cup {None}]
    BY <1>15, <1>17 DEF CastState
  <1>19. PICK made : made = [d EXCEPT !.home = H]
    OBVIOUS
  <1>20. /\ made \in CastState /\ made.conn = d.conn /\ made.player = d.player /\ made.spectator = d.spectator
         /\ made.spy = d.spy /\ made.eventConnect = d.eventConnect /\ made.obj = d.obj
         /\ made.liveCasts = d.liveCasts /\ made.cleaned = d.cleaned /\ made.tasks = d.tasks
         /\ made.strayed = d.strayed /\ made.stranded = d.stranded
    BY <1>15, <1>18, <1>19 DEF CastState
  <1>21. made = [CountRef(NewObject(h, p, h.home[p]), h.player[p], -1) EXCEPT !.home[p] = None]
    BY <1>2, <1>7, <1>9, <1>11, <1>13, <1>17, <1>19
  <1>22. /\ \A x \in Object : x # o => made.obj[x] = k.obj[x]
         /\ made.obj[o] = e /\ made.player[p] = o /\ made.spectator = h.spectator
    BY <1>3, <1>6, <1>10, <1>12, <1>15, <1>16, <1>20 DEF OthersSame, Elsewhere
  <1>23. OnlyOf(made, k, p)
    <2>1. /\ made.conn = k.conn /\ made.eventConnect = k.eventConnect /\ made.cleaned = k.cleaned
          /\ made.liveCasts = k.liveCasts /\ made.tasks = k.tasks /\ made.strayed = k.strayed
          /\ made.spectator = k.spectator /\ made.spy = k.spy /\ made.stranded = k.stranded
      BY <1>6, <1>12, <1>15, <1>20 DEF OthersSame, Elsewhere
    <2>2. \A q \in Client \ {p} : made.player[q] = k.player[q]
      BY <1>6, <1>12, <1>15, <1>20 DEF OthersSame
    <2> QED
      BY <2>1, <2>2 DEF OnlyOf
  <1>24. k.obj[o].status = "none" /\ ~ Back(k, p) /\ h.spectator[p]
    BY <1>6, <1>9, <1>10, SameQueue
  <1>25. AllBut(made, p)
    BY <1>6, <1>9, <1>20, <1>22, <1>23, <1>24, NewNear
  <1>26. PICK here : here = PlaceObject(made, o)
    OBVIOUS
  <1>27. /\ here \in CastState /\ OthersSame(here, made) /\ here.conn = made.conn /\ here.liveCasts = made.liveCasts
         /\ here.tasks = made.tasks
         /\ here.obj[o].refs = 2 /\ here.obj[o].status = "placed" /\ here.obj[o].owner = p
         /\ here.obj[o].spectators = {}
         /\ \A x \in Object : x # o => here.obj[x] = made.obj[x]
    BY <1>9, <1>20, <1>22, <1>26, PlaceIs
  <1>28. PICK r : r = AtHomeOf(here, p)
    OBVIOUS
  <1>29. /\ r \in CastState /\ r.conn = here.conn /\ r.player = here.player /\ r.eventConnect = here.eventConnect
         /\ r.obj = here.obj /\ r.liveCasts = here.liveCasts /\ r.cleaned = here.cleaned /\ r.tasks = here.tasks
         /\ r.strayed = here.strayed /\ r.stranded = here.stranded /\ ~ r.spectator[p]
         /\ \A q \in Client \ {p} : r.spectator[q] = here.spectator[q] /\ r.spy[q] = here.spy[q]
    BY <1>27, <1>28, AtHomeParts
  <1>30. Good(r)
    <2>1. OnlyOf(here, k, p)
      BY <1>6, <1>23, <1>27, NoTwo DEF Without, Core
    <2>2. OnlyOf(r, k, p)
      BY <1>29, <2>1 DEF OnlyOf
    <2>3. r.player[p] = o /\ \A x \in Object : x # o => r.obj[x] = k.obj[x]
      BY <1>22, <1>27, <1>29 DEF OthersSame
    <2>4. /\ r.obj[o].refs = 2 /\ r.obj[o].status = "placed" /\ r.obj[o].owner = p
          /\ r.obj[o].spectators = {}
      BY <1>27, <1>29
    <2> QED
      BY <1>6, <1>24, <1>29, <2>2, <2>3, <2>4, NewNear
  <1>31. KickOut(here, o) = CloseOne(here, p)
    <2>1. HasClient(here, o)
      BY <1>27, NoneIsNone DEF HasClient
    <2>2. here.spectator[p]
      BY <1>22, <1>27 DEF OthersSame
    <2> QED
      BY <1>27, <2>1, <2>2 DEF KickOut, LogoutOf
  <1>32. AtHomeOf(KickOut(here, o), p) = CloseOne(r, p)
    BY <1>27, <1>28, <1>31, CloseAtHome
  <1>33. \/ c' = CloseOne(made, p) \/ c' = AtHomeOf(here, p) \/ c' = AtHomeOf(KickOut(here, o), p)
    BY <1>21, <1>22, <1>26, Zenon DEF Returns, AtHomeOf
  <1> QED
    BY <1>25, <1>28, <1>30, <1>32, <1>33, CloseNear, CloseGood

(***************************************************************************)
(* What the invariant says of the properties.                              *)
(***************************************************************************)
CastsLiveOf(h) == \A o \in h.liveCasts : h.obj[o].status # "deleted" /\ h.obj[o].broadcast

LEMMA LiveOf ==
    ASSUME NEW h, Good(h)
    PROVE  CastsLiveOf(h)
  <1> SUFFICES ASSUME NEW o \in h.liveCasts
               PROVE  h.obj[o].status # "deleted" /\ h.obj[o].broadcast
    BY DEF CastsLiveOf
  <1>1. h \in CastState /\ Exact(h) /\ Agree(h)
    BY DEF Good
  <1>2. o \in Object
    BY <1>1 DEF CastState
  <1>3. ObjectAgrees(h, o)
    BY <1>1, <1>2 DEF Agree
  <1>4. h.obj[o].owner \in Client \cup {None}
    BY <1>1, <1>2 DEF CastState, Entry
  <1>5. h.obj[o].owner \in Users(h, o)
    BY <1>3, <1>4 DEF ObjectAgrees, Owned, Users
  <1>6. Cardinality(Users(h, o)) # 0 /\ Cardinality(Users(h, o)) \in Nat
    BY <1>5, UsersFinite
  <1>7. h.obj[o].refs # 0
    BY <1>1, <1>2, <1>6 DEF Exact, Counts
  <1> QED
    BY <1>1, <1>2, <1>3, <1>7 DEF Exact, Counts, ObjectAgrees

(***************************************************************************)
(* A script changes a cast.                                                *)
(***************************************************************************)
LEMMA SetGood ==
    ASSUME NEW k, Good(k), NEW o \in Object, k.obj[o].status = "placed", NEW b \in BOOLEAN,
           b \/ ~ k.obj[o].broadcast \/ (k.obj[o].spectators = {} /\ o \notin k.liveCasts)
    PROVE  LET set == [k EXCEPT !.obj[o].broadcast = b]
           IN Good(IF b THEN InsertCaster(set, o) ELSE set)
  <1>1. k \in CastState /\ Exact(k) /\ k.strayed = {} /\ Agree(k)
    BY DEF Good
  <1>2. ObjectAgrees(k, o) /\ Owned(k, o)
    BY <1>1 DEF Agree, ObjectAgrees
  <1>3. PICK e : e = [k.obj[o] EXCEPT !.broadcast = b]
    OBVIOUS
  <1>4. k.obj[o] \in Entry
    BY <1>1 DEF CastState
  <1>5. /\ e \in Entry /\ e.refs = k.obj[o].refs /\ e.status = k.obj[o].status /\ e.owner = k.obj[o].owner
        /\ e.broadcast = b /\ e.spectators = k.obj[o].spectators
    BY <1>3, <1>4 DEF Entry
  <1>6. PICK O : O = [k.obj EXCEPT ![o] = e]
    OBVIOUS
  <1>7. O \in [Object -> Entry] /\ O[o] = e /\ \A x \in Object : x # o => O[x] = k.obj[x]
    BY <1>1, <1>5, <1>6 DEF CastState
  <1>8. PICK set : set = [k EXCEPT !.obj = O]
    OBVIOUS
  <1>9. set = [k EXCEPT !.obj[o].broadcast = b]
    BY <1>3, <1>6, <1>8
  <1>10. set \in CastState /\ Elsewhere(set, k) /\ set.player = k.player /\ set.obj = O
    BY <1>1, <1>7, <1>8 DEF CastState, Elsewhere
  <1>11. PICK L : L = IF b /\ k.obj[o].owner # None THEN k.liveCasts \cup {o} ELSE k.liveCasts
    OBVIOUS
  <1>12. Caster(set, o) = IF k.obj[o].owner # None THEN {o} ELSE {}
    BY <1>2, <1>5, <1>7, <1>10 DEF Caster, HasClient, Owned
  <1>13. PICK r : r = [set EXCEPT !.liveCasts = L]
    OBVIOUS
  <1>14. r = IF b THEN InsertCaster(set, o) ELSE set
    <2>1. CASE b
      <3>1. set.liveCasts \cup Caster(set, o) = L
        BY <1>10, <1>11, <1>12, <2>1 DEF Elsewhere
      <3> QED
        BY <1>13, <2>1, <3>1 DEF InsertCaster
    <2>2. CASE ~ b
      <3>1. set = [set EXCEPT !.liveCasts = L]
        BY <1>10, <1>11, <2>2 DEF Elsewhere, CastState
      <3> QED
        BY <1>13, <2>2, <3>1
    <2> QED
      BY <2>1, <2>2
  <1>15. L \in SUBSET Object
    BY <1>1, <1>11 DEF CastState
  <1>16. /\ r \in CastState /\ r.conn = k.conn /\ r.player = k.player /\ r.spectator = k.spectator /\ r.spy = k.spy
         /\ r.eventConnect = k.eventConnect /\ r.cleaned = k.cleaned /\ r.tasks = k.tasks
         /\ r.strayed = k.strayed /\ r.stranded = k.stranded /\ r.obj = O /\ r.liveCasts = L
    BY <1>10, <1>13, <1>15 DEF CastState, Elsewhere
  <1>17. \A x \in Object : /\ r.obj[x].status = k.obj[x].status /\ r.obj[x].owner = k.obj[x].owner
                           /\ r.obj[x].refs = k.obj[x].refs /\ r.obj[x].spectators = k.obj[x].spectators
                           /\ x # o => r.obj[x].broadcast = k.obj[x].broadcast
    BY <1>5, <1>7, <1>16
  <1>18. r.obj[o].broadcast <=> b
    BY <1>5, <1>7, <1>16
  <1>19. Exact(r)
    BY <1>1, <1>16, <1>17, SameCounts
  <1>20. \A q : (Back(r, q) <=> Back(k, q)) /\ (OnceQueued(r, q) <=> OnceQueued(k, q))
    BY <1>16, SameQueue
  <1>21. ASSUME NEW q \in Client
         PROVE  ClientAgrees(r, q)
    <2>1. ClientAgrees(k, q)
      BY <1>1 DEF Agree
    <2>2. k.player[q] = None \/ k.player[q] \in Object
      BY <1>1 DEF CastState
    <2> QED
      BY <1>16, <1>17, <1>20, <2>1, <2>2 DEF ClientAgrees, Fresh, Waits, Owns, Plays, Watches, Sent
  <1>22. ASSUME NEW x \in Object
         PROVE  ObjectAgrees(r, x)
    <2>1. ObjectAgrees(k, x)
      BY <1>1 DEF Agree
    <2>2. CASE x # o
      <3>1. x \in L <=> x \in k.liveCasts
        BY <1>11, <2>2
      <3> QED
        BY <1>16, <1>17, <2>1, <2>2, <3>1 DEF ObjectAgrees, Owned
    <2>3. CASE x = o
      <3>1. Owned(r, o)
        BY <1>2, <1>16, <1>17 DEF Owned
      <3>2. o \in L => k.obj[o].owner # None /\ b
        BY <1>2, <1>11 DEF ObjectAgrees
      <3>3. o \in k.cleaned => k.obj[o].status \in {"removed", "deleted"}
        BY <1>2 DEF ObjectAgrees
      <3> QED
        BY <1>16, <1>17, <1>18, <2>3, <3>1, <3>2, <3>3 DEF ObjectAgrees
    <2> QED
      BY <2>2, <2>3
  <1>23. ASSUME NEW q \in Client, NEW x \in Object
         PROVE  Listed(r, q, x)
    <2>1. Listed(k, q, x)
      BY <1>1 DEF Agree
    <2>2. q \in k.obj[x].spectators /\ k.obj[x].broadcast => r.obj[x].broadcast
      BY <1>17, <1>18
    <2> QED
      BY <1>16, <1>17, <1>20, <2>1, <2>2 DEF Listed
  <1>24. Good(r)
    BY <1>1, <1>16, <1>19, <1>21, <1>22, <1>23 DEF Good, Agree
  <1> QED
    BY <1>9, <1>14, <1>24

LEMMA SetCastGood ==
    ASSUME Good(c), NEW o \in Object, NEW broadcast \in BOOLEAN, NEW password \in BOOLEAN,
           SetCast(o, broadcast, password)
    PROVE  Good(c')
  <1>1. PICK f : f = FALSE
    OBVIOUS
  <1>2. f \in BOOLEAN /\ ~ f
    BY <1>1, Zenon
  <1>3. PICK clears : clears = (password \/ (~broadcast /\ c.obj[o].broadcast))
    OBVIOUS
  <1>4. PICK cleared : cleared = IF clears THEN Clear(c, o, f) ELSE c
    OBVIOUS
  <1>5. c.obj[o].status = "placed"
    BY DEF SetCast, InTheWorld
  <1>6. Owned(c, o) /\ ObjectAgrees(c, o)
    BY <1>5 DEF Good, Agree, ObjectAgrees
  <1>7. /\ Good(cleared) /\ cleared.obj[o].status = "placed"
        /\ broadcast \/ ~ cleared.obj[o].broadcast \/ (cleared.obj[o].spectators = {} /\ o \notin cleared.liveCasts)
    <2>1. CASE clears
      <3>1. PICK k : k = Clear(c, o, f)
        OBVIOUS
      <3>2. Good(k) /\ o \notin k.liveCasts /\ k.obj[o].spectators = {} /\ k.obj[o].status = c.obj[o].status
        BY <1>2, <1>6, <3>1, ClearGood
      <3> QED
        BY <1>4, <1>5, <2>1, <3>1, <3>2
    <2>2. CASE ~ clears
      BY <1>3, <1>4, <1>5, <2>2
    <2> QED
      BY <2>1, <2>2
  <1>8. cleared = IF password \/ (~broadcast /\ c.obj[o].broadcast) THEN Clear(c, o, FALSE) ELSE c
    BY <1>1, <1>3, <1>4, Zenon
  <1>9. PICK kicked \in SUBSET {p \in cleared.obj[o].spectators : ~c.spy[p]} :
            LET set == [Dismiss(cleared, kicked, {}) EXCEPT !.obj[o].broadcast = broadcast]
            IN c' = IF broadcast THEN InsertCaster(set, o) ELSE set
    BY <1>8, Zenon DEF SetCast
  <1>10. kicked \in SUBSET Client
    <2>1. cleared.obj[o].spectators \in SUBSET Client
      BY <1>7 DEF Good, CastState, Entry
    <2> QED
      BY <1>9, <2>1
  <1>11. PICK k : k = Dismiss(cleared, kicked, {})
    OBVIOUS
  <1>12. Good(k) /\ k.obj = cleared.obj /\ k.liveCasts = cleared.liveCasts
    BY <1>7, <1>10, <1>11, DismissGood
  <1>13. PICK set : set = [k EXCEPT !.obj[o].broadcast = broadcast]
    OBVIOUS
  <1>14. Good(IF broadcast THEN InsertCaster(set, o) ELSE set)
    BY <1>7, <1>12, <1>13, SetGood
  <1> QED
    BY <1>9, <1>11, <1>13, <1>14, Zenon

WatchersOf(h) ==
    \A p \in Client \ h.strayed :
        /\ \A o \in Object : p \in h.obj[o].spectators => h.spectator[p] /\ h.player[p] = o
        /\ h.spectator[p] /\ h.player[p] # None /\ h.conn[p] = "open" /\ p \notin h.stranded =>
             p \in h.obj[h.player[p]].spectators \/ Back(h, p)
AgreesOf(h) == Exact(h) /\ CastsLiveOf(h) /\ WatchersOf(h)

LEMMA GoodAgrees ==
    ASSUME NEW h, Good(h)
    PROVE  AgreesOf(h)
  <1>1. Exact(h) /\ Agree(h)
    BY DEF Good
  <1>2. WatchersOf(h)
    BY <1>1 DEF WatchersOf, Agree, ClientAgrees, Watches, Listed
  <1> QED
    BY <1>1, <1>2, LiveOf DEF AgreesOf

LEMMA AgreesIs == AgreesOf(c) <=> CastsAgree
  <1>1. Exact(c) <=> CastRefsExact
    BY DEF Exact, Counts, World, Users, CastRefsExact
  <1>2. CastsLiveOf(c) <=> CastsAreLive
    BY DEF CastsLiveOf, CastsAreLive
  <1>3. WatchersOf(c) <=> WatchersAgree
    BY DEF WatchersOf, WatchersAgree, Back
  <1> QED
    BY <1>1, <1>2, <1>3 DEF AgreesOf, CastsAgree

(***************************************************************************)
(* A spectator goes to another cast.                                       *)
(***************************************************************************)
LEMMA NavigationEffect ==
    ASSUME NEW h, Good(h), NEW p \in Client, NEW o \in Object, h.player[p] \in InTheWorld(h), o # h.player[p],
           MayWatch(h, p, o), ~ h.spectator[p] \/ Back(h, p)
    PROVE  LET r == CastNavigation(h, p, o)
           IN r \in CastState /\ r.strayed = {p} /\ AgreesOf(r)
  <1>1. PICK old : old = h.player[p]
    OBVIOUS
  <1>2. /\ old \in Object /\ h.obj[old].status = "placed" /\ h.obj[o].status = "placed" /\ o # old
        /\ h \in CastState /\ Exact(h) /\ Agree(h) /\ h.strayed = {} /\ AllBut(h, p)
    BY <1>1, NearGood DEF InTheWorld, MayWatch, Good
  <1>3. PICK a : a = RemoveSpectator(h, old, p)
    OBVIOUS
  <1>4. /\ AllBut(a, p) /\ Elsewhere(a, h) /\ a.player = h.player
        /\ \A x \in Object : /\ a.obj[x].status = h.obj[x].status /\ a.obj[x].owner = h.obj[x].owner
                             /\ a.obj[x].broadcast = h.obj[x].broadcast /\ a.obj[x].refs = h.obj[x].refs
                             /\ \A q \in Client : q # p => (q \in a.obj[x].spectators <=> q \in h.obj[x].spectators)
    BY <1>2, <1>3, RemoveNear
  <1>5. a \in CastState /\ Exact(a) /\ -1 \in Int
    BY <1>4 DEF AllBut
  <1>6. \A x \in Object : /\ Counts(h, x, Users(h, x))
                          /\ Cardinality(Users(h, x)) \in Nat
    BY <1>2, UsersFinite DEF Exact
  <1>7. \A x \in Object : h.obj[x].status = "placed" => World(h, x)
    BY <1>2 DEF Agree, ObjectAgrees, World
  <1>8. /\ Cardinality(Users(h, old)) = Cardinality(UsersBut(h, p, old)) + 1
        /\ Cardinality(UsersBut(h, p, old)) \in Nat
        /\ Users(h, o) = UsersBut(h, p, o)
    BY <1>1, <1>2, UsersOf, UsersFinite
  <1>9. a.obj[old].refs + -1 # 0 /\ a.obj[old].refs \in Nat
    BY <1>2, <1>4, <1>6, <1>7, <1>8 DEF Counts
  <1>10. PICK k : k = CountRef(a, old, -1)
    OBVIOUS
  <1>11. /\ k \in CastState /\ OthersSame(k, a) /\ k.conn = a.conn /\ k.liveCasts = a.liveCasts
         /\ k.tasks = a.tasks /\ k.obj[old] = Counted(a.obj[old], -1)
         /\ \A x \in Object : x # old => k.obj[x] = a.obj[x]
    BY <1>2, <1>5, <1>10, CountRefEffect
  <1>12. /\ k.obj[old].refs = a.obj[old].refs + -1 /\ k.obj[old].status = a.obj[old].status
         /\ k.obj[old].broadcast = a.obj[old].broadcast /\ k.obj[old].spectators = a.obj[old].spectators
    <2>1. PICK x : x = a.obj[old]
      OBVIOUS
    <2>2. x \in Entry
      BY <1>2, <1>5, <2>1 DEF CastState
    <2> QED
      BY <1>5, <1>9, <1>11, <2>1, <2>2, CountedParts
  <1>13. k.obj[o].refs \in Nat
    BY <1>2, <1>4, <1>6, <1>11 DEF Counts
  <1>14. PICK e \in Entry :
            /\ SendSpectatorAppear(k, p, o) = Given(k, p, o, e)
            /\ e.refs = k.obj[o].refs + 1 /\ e.status = k.obj[o].status /\ e.owner = k.obj[o].owner
            /\ e.broadcast = k.obj[o].broadcast /\ e.spectators = k.obj[o].spectators \cup {p}
    BY <1>11, <1>13, AppearIs
  <1>15. PICK g : g = Given(k, p, o, e)
    OBVIOUS
  <1>16. /\ g \in CastState /\ Elsewhere(g, k) /\ g.player[p] = o /\ g.obj[o] = e
         /\ \A q \in Client : q # p => g.player[q] = k.player[q]
         /\ \A x \in Object : x # o => g.obj[x] = k.obj[x]
    BY <1>11, <1>14, <1>15, GivenEffect
  <1>17. PICK r : r = [g EXCEPT !.strayed = {p}, !.stranded = g.stranded \ {p}]
    OBVIOUS
  <1>18. /\ r \in CastState /\ r.strayed = {p} /\ r.stranded = g.stranded \ {p} /\ r.conn = g.conn
         /\ r.player = g.player /\ r.spectator = g.spectator /\ r.obj = g.obj /\ r.liveCasts = g.liveCasts
         /\ r.cleaned = g.cleaned /\ r.tasks = g.tasks
    BY <1>16, <1>17 DEF CastState
  <1>19. r = CastNavigation(h, p, o)
    <2>1. g.strayed = {}
      BY <1>2, <1>4, <1>11, <1>16 DEF Elsewhere, OthersSame
    <2>2. SendSpectatorAppear(CountRef(RemoveSpectator(h, h.player[p], p), h.player[p], -1), p, o) = g
      BY <1>1, <1>3, <1>10, <1>14, <1>15
    <2>3. [g EXCEPT !.strayed = @ \cup {p}, !.stranded = @ \ {p}] = r
      <3>1. g.strayed \cup {p} = {p}
        BY <2>1
      <3> QED
        BY <1>17, <3>1
    <2>4. CastNavigation(h, p, o)
           = [g EXCEPT !.strayed = IF ~ h.spectator[p] \/ Back(h, p) THEN @ \cup {p} ELSE @, !.stranded = @ \ {p}]
      BY <2>2 DEF CastNavigation, Back
    <2> QED
      BY <2>3, <2>4
  <1>20. /\ r.conn = h.conn /\ r.spectator = h.spectator /\ r.liveCasts = h.liveCasts /\ r.cleaned = h.cleaned
         /\ r.tasks = h.tasks /\ r.stranded = h.stranded \ {p}
         /\ r.player[p] = o /\ \A q \in Client : q # p => r.player[q] = h.player[q]
    BY <1>4, <1>11, <1>16, <1>18 DEF Elsewhere, OthersSame
  <1>21. \A x \in Object :
            /\ r.obj[x].status = h.obj[x].status /\ r.obj[x].broadcast = h.obj[x].broadcast
            /\ \A q \in Client : q # p => (q \in r.obj[x].spectators <=> q \in h.obj[x].spectators)
            /\ x # o /\ x # old => r.obj[x].refs = h.obj[x].refs
    <2> TAKE x \in Object
    <2>1. CASE x = o
      BY <1>2, <1>4, <1>11, <1>14, <1>16, <1>18, <2>1
    <2>2. CASE x = old
      BY <1>2, <1>4, <1>12, <1>16, <1>18, <2>2
    <2>3. CASE x # o /\ x # old
      <3>1. r.obj[x] = a.obj[x]
        BY <1>11, <1>16, <1>18, <2>3
      <3> QED
        BY <1>4, <2>3, <3>1
    <2> QED
      BY <2>1, <2>2, <2>3
  <1>22. r.obj[o].refs = h.obj[o].refs + 1 /\ r.obj[old].refs = h.obj[old].refs + -1
    BY <1>2, <1>4, <1>11, <1>12, <1>14, <1>16, <1>18
  <1>23. \A x : UsersBut(r, p, x) = UsersBut(h, p, x)
    BY <1>20 DEF UsersBut
  <1>24. Exact(r)
    <2> SUFFICES ASSUME NEW x \in Object
                 PROVE  Counts(r, x, Users(r, x))
      BY DEF Exact
    <2>1. (World(r, x) <=> World(h, x)) /\ r.obj[x].status = h.obj[x].status /\ Counts(h, x, Users(h, x))
      BY <1>6, <1>20, <1>21 DEF World
    <2>2. CASE x = o
      <3>1. Cardinality(Users(r, o)) = Cardinality(Users(h, o)) + 1
        BY <1>8, <1>20, <1>23, UsersOf
      <3>2. Cardinality(Users(h, o)) \in Nat
        BY <1>6
      <3> QED
        BY <1>2, <1>22, <2>1, <2>2, <3>1, <3>2 DEF Counts
    <2>3. CASE x = old
      <3>1. Users(r, old) = UsersBut(h, p, old)
        BY <1>2, <1>20, <1>23, UsersOf
      <3>2. World(h, old)
        BY <1>2, <1>7
      <3>3. /\ h.obj[old].refs = Cardinality(UsersBut(h, p, old)) + 1 + 1
            /\ r.obj[old].refs = Cardinality(UsersBut(h, p, old)) + 1
        BY <1>8, <1>22, <2>1, <2>3, <3>2 DEF Counts
      <3> QED
        BY <1>2, <1>8, <2>1, <2>3, <3>1, <3>2, <3>3 DEF Counts
    <2>4. CASE x # o /\ x # old
      <3>1. Users(r, x) = Users(h, x)
        BY <1>1, <1>20, <1>23, <2>4, UsersOf
      <3> QED
        BY <1>21, <2>1, <2>4, <3>1 DEF Counts
    <2> QED
      BY <2>2, <2>3, <2>4
  <1>25. CastsLiveOf(r)
    <2>1. CastsLiveOf(h) /\ h.liveCasts \subseteq Object
      BY <1>2, LiveOf DEF CastState
    <2> QED
      BY <1>20, <1>21, <2>1 DEF CastsLiveOf
  <1>26. WatchersOf(r)
    <2> SUFFICES ASSUME NEW q \in Client \ {p}
                 PROVE  /\ \A x \in Object : q \in r.obj[x].spectators => r.spectator[q] /\ r.player[q] = x
                        /\ r.spectator[q] /\ r.player[q] # None /\ r.conn[q] = "open" /\ q \notin r.stranded =>
                             q \in r.obj[r.player[q]].spectators \/ Back(r, q)
      BY <1>18 DEF WatchersOf
    <2>1. WatchersOf(h)
      BY GoodAgrees DEF AgreesOf
    <2>2. h.player[q] = None \/ h.player[q] \in Object
      BY <1>2 DEF CastState
    <2>3. Back(r, q) <=> Back(h, q)
      BY <1>20, SameQueue
    <2> QED
      BY <1>2, <1>20, <1>21, <2>1, <2>2, <2>3 DEF WatchersOf
  <1> QED
    BY <1>18, <1>19, <1>24, <1>25, <1>26 DEF AgreesOf

LEMMA NavigationGood ==
    ASSUME NEW h, Good(h), NEW p \in Client, NEW o \in Object, h.player[p] \in InTheWorld(h), o # h.player[p],
           MayWatch(h, p, o), h.spectator[p], ~ Back(h, p)
    PROVE  Good(CastNavigation(h, p, o))
  <1>1. PICK old : old = h.player[p]
    OBVIOUS
  <1>2. /\ old \in Object /\ h.obj[o].status = "placed" /\ (h.obj[o].broadcast \/ h.spy[p]) /\ o # old
        /\ h.strayed = {} /\ AllBut(h, p)
    BY <1>1, NearGood DEF InTheWorld, MayWatch, Good
  <1>3. PICK a : a = RemoveSpectator(h, old, p)
    OBVIOUS
  <1>4. /\ AllBut(a, p) /\ Elsewhere(a, h) /\ a.player = h.player /\ p \notin a.obj[old].spectators
        /\ \A x \in Object : x # old => a.obj[x] = h.obj[x]
    BY <1>2, <1>3, RemoveNear
  <1>5. a.spectator[p] /\ a.player[p] = old /\ ~ Back(a, p) /\ a.strayed = {}
    BY <1>1, <1>2, <1>4, SameQueue DEF Elsewhere
  <1>6. Within(a, p)
    BY <1>2, <1>4, <1>5, SpectatorWithin
  <1>7. PICK k : k = CountRef(a, old, -1)
    OBVIOUS
  <1>8. /\ Without(k, p) /\ OthersSame(k, a) /\ k.tasks = a.tasks
        /\ \A x \in Object : x # old => k.obj[x] = a.obj[x]
    BY <1>2, <1>5, <1>6, <1>7, DropEffect
  <1>9. /\ k \in CastState /\ k.obj[o] = h.obj[o] /\ k.spectator[p] /\ k.spy = h.spy /\ ~ Back(k, p)
        /\ OnlyOf(k, k, p) /\ k.strayed = {}
    BY <1>2, <1>4, <1>5, <1>8, SameQueue DEF Without, Core, OthersSame, Elsewhere, OnlyOf
  <1>10. k.obj[o].refs \in Nat
    BY <1>2, <1>8, <1>9, PlacedIs
  <1>11. PICK g : g = SendSpectatorAppear(k, p, o)
    OBVIOUS
  <1>12. g \in CastState /\ Elsewhere(g, k)
    <2>1. PICK e \in Entry : SendSpectatorAppear(k, p, o) = Given(k, p, o, e)
      BY <1>9, <1>10, AppearIs
    <2> QED
      BY <1>9, <1>11, <2>1, GivenEffect
  <1>13. PICK r : r = [g EXCEPT !.stranded = g.stranded \ {p}]
    OBVIOUS
  <1>14. /\ r \in CastState /\ r.strayed = g.strayed /\ r.stranded = g.stranded \ {p} /\ r.conn = g.conn
         /\ r.player = g.player /\ r.spectator = g.spectator /\ r.obj = g.obj /\ r.liveCasts = g.liveCasts
         /\ r.cleaned = g.cleaned /\ r.tasks = g.tasks /\ r.spy = g.spy /\ r.eventConnect = g.eventConnect
    BY <1>12, <1>13 DEF CastState
  <1>15. r = CastNavigation(h, p, o)
    <2>1. SendSpectatorAppear(CountRef(RemoveSpectator(h, h.player[p], p), h.player[p], -1), p, o) = g
      BY <1>1, <1>3, <1>7, <1>11
    <2>2. CastNavigation(h, p, o)
           = [g EXCEPT !.strayed = IF ~ h.spectator[p] \/ Back(h, p) THEN @ \cup {p} ELSE @, !.stranded = @ \ {p}]
      BY <2>1 DEF CastNavigation, Back
    <2>3. [g EXCEPT !.strayed = @, !.stranded = @ \ {p}] = r
      BY <1>12, <1>13 DEF CastState
    <2> QED
      BY <2>2, <2>3
  <1>16. /\ r.conn = k.conn /\ r.spectator = k.spectator /\ r.spy = k.spy /\ r.eventConnect = k.eventConnect
         /\ r.liveCasts = k.liveCasts /\ r.cleaned = k.cleaned /\ r.tasks = k.tasks /\ r.strayed = k.strayed
         /\ r.stranded \subseteq k.stranded /\ k.stranded \subseteq r.stranded \cup {p}
         /\ r.player = SendSpectatorAppear(k, p, o).player /\ r.obj = SendSpectatorAppear(k, p, o).obj
    BY <1>11, <1>12, <1>14 DEF Elsewhere
  <1>17. k.obj[o].status = "placed" /\ (k.obj[o].broadcast \/ k.spy[p])
    BY <1>2, <1>9
  <1>18. Good(r)
    BY <1>8, <1>9, <1>14, <1>16, <1>17, WatchGood
  <1> QED
    BY <1>15, <1>18

(***************************************************************************)
(* The world lets go of those who were removed.                            *)
(***************************************************************************)
LEMMA CleanupGood ==
    ASSUME Good(c), CleanupRound
    PROVE  Good(c')
  <1>1. c \in CastState /\ Exact(c) /\ c.strayed = {} /\ Agree(c)
    BY DEF Good
  <1>2. PICK gone : gone = {o \in Object : c.obj[o].status = "removed"} \ c.cleaned
    OBVIOUS
  <1>3. PICK O : O = [o \in Object |-> IF o \in gone THEN Counted(c.obj[o], -1) ELSE c.obj[o]]
    OBVIOUS
  <1>4. PICK L : L = c.cleaned \cup gone
    OBVIOUS
  <1>5. PICK r : r = [c EXCEPT !.cleaned = L, !.obj = O]
    OBVIOUS
  <1>6. c' = r
    BY <1>2, <1>3, <1>4, <1>5 DEF CleanupRound
  <1>7. \A o \in Object : c.obj[o] \in Entry
    BY <1>1 DEF CastState
  <1>8. -1 \in Int /\ \A o \in Object : Counted(c.obj[o], -1) \in Entry
    BY <1>7, CountedParts
  <1>9. O \in [Object -> Entry] /\ L \in SUBSET Object
    BY <1>1, <1>2, <1>3, <1>4, <1>7, <1>8 DEF CastState
  <1>10. /\ r \in CastState /\ r.obj = O /\ r.cleaned = L /\ r.conn = c.conn /\ r.player = c.player
         /\ r.spectator = c.spectator /\ r.spy = c.spy /\ r.eventConnect = c.eventConnect
         /\ r.liveCasts = c.liveCasts /\ r.tasks = c.tasks /\ r.strayed = c.strayed /\ r.stranded = c.stranded
    BY <1>1, <1>5, <1>9 DEF CastState
  <1>11. \A o \in Object : o \notin gone => r.obj[o] = c.obj[o] /\ (o \in L <=> o \in c.cleaned)
    BY <1>3, <1>4, <1>10
  <1>12. \A o \in gone : /\ o \in Object /\ c.obj[o].status = "removed" /\ o \notin c.cleaned /\ o \in L
                         /\ r.obj[o] = Counted(c.obj[o], -1)
    BY <1>2, <1>3, <1>4, <1>10
  <1>13. \A o \in Object : Users(r, o) = Users(c, o)
    BY <1>10 DEF Users
  <1>14. ASSUME NEW o \in gone
         PROVE  /\ Cardinality(Users(c, o)) \in Nat
                /\ c.obj[o].refs = Cardinality(Users(c, o)) + 1
    <2>1. World(c, o)
      BY <1>12 DEF World
    <2> QED
      BY <1>1, <1>12, <2>1, UsersFinite DEF Exact, Counts
  \* Deleted with the last reference, or all but the counter as before.
  <1>15. ASSUME NEW o \in gone
         PROVE  \/ r.obj[o] = Gone /\ Users(c, o) = {}
                \/ /\ Users(c, o) # {} /\ r.obj[o].refs = c.obj[o].refs + -1 /\ r.obj[o].status = "removed"
                   /\ r.obj[o].owner = c.obj[o].owner /\ r.obj[o].broadcast = c.obj[o].broadcast
                   /\ r.obj[o].spectators = c.obj[o].spectators
    <2>1. Cardinality(Users(c, o)) = 0 <=> Users(c, o) = {}
      BY UsersFinite
    <2>2. PICK x : x = c.obj[o]
      OBVIOUS
    <2>3. x \in Entry /\ r.obj[o] = Counted(x, -1) /\ x.refs = Cardinality(Users(c, o)) + 1 /\ x.status = "removed"
      BY <1>7, <1>12, <1>14, <2>2
    <2>4. CASE Users(c, o) = {}
      <3>1. x.refs + -1 = 0
        BY <2>1, <2>3, <2>4
      <3> QED
        BY <1>8, <2>3, <2>4, <3>1, CountedParts
    <2>5. CASE Users(c, o) # {}
      <3>1. x.refs + -1 # 0
        BY <1>14, <2>1, <2>3, <2>5
      <3> QED
        BY <1>8, <2>2, <2>3, <2>5, <3>1, CountedParts
    <2> QED
      BY <2>4, <2>5
  <1>16. Exact(r)
    <2> SUFFICES ASSUME NEW o \in Object
                 PROVE  Counts(r, o, Users(c, o))
      BY <1>13 DEF Exact
    <2>1. Counts(c, o, Users(c, o))
      BY <1>1 DEF Exact
    <2>2. CASE o \notin gone
      BY <1>10, <1>11, <2>1, <2>2 DEF Counts, World
    <2>3. CASE o \in gone
      <3>1. ~ World(r, o)
        BY <1>10, <1>12, <2>3 DEF World
      <3>2. CASE r.obj[o] = Gone /\ Users(c, o) = {}
        <4>1. Cardinality(Users(c, o)) = 0
          BY <3>2, UsersFinite
        <4> QED
          BY <3>1, <3>2, <4>1, GoneParts DEF Counts
      <3>3. CASE Users(c, o) # {} /\ r.obj[o].refs = c.obj[o].refs + -1 /\ r.obj[o].status = "removed"
        <4>1. Cardinality(Users(c, o)) # 0
          BY <3>3, UsersFinite
        <4> QED
          BY <1>14, <2>3, <3>1, <3>3, <4>1 DEF Counts
      <3> QED
        BY <1>15, <2>3, <3>2, <3>3
    <2> QED
      BY <2>2, <2>3
  <1>17. \A q : (Back(r, q) <=> Back(c, q)) /\ (OnceQueued(r, q) <=> OnceQueued(c, q))
    BY <1>10, SameQueue
  <1>18. \A o \in Object : Users(c, o) # {} =>
            /\ r.obj[o].owner = c.obj[o].owner /\ r.obj[o].broadcast = c.obj[o].broadcast
            /\ r.obj[o].spectators = c.obj[o].spectators
    BY <1>11, <1>15
  <1>19. ASSUME NEW q \in Client
         PROVE  ClientAgrees(r, q)
    <2>1. ClientAgrees(c, q)
      BY <1>1 DEF Agree
    <2>2. c.player[q] = None \/ (c.player[q] \in Object /\ Users(c, c.player[q]) # {})
      BY <1>1 DEF CastState, Users
    <2> QED
      BY <1>10, <1>17, <1>18, <2>1, <2>2 DEF ClientAgrees, Fresh, Waits, Owns, Plays, Watches, Sent
  <1>20. ASSUME NEW o \in Object
         PROVE  ObjectAgrees(r, o)
    <2>1. ObjectAgrees(c, o)
      BY <1>1 DEF Agree
    <2>2. CASE o \notin gone
      BY <1>10, <1>11, <2>1, <2>2 DEF ObjectAgrees, Owned
    <2>3. CASE o \in gone
      <3>1. r.obj[o].status \in {"removed", "deleted"}
        BY <1>15, <2>3, GoneParts
      <3>2. o \in c.liveCasts => Users(c, o) # {}
        <4> SUFFICES ASSUME o \in c.liveCasts
                     PROVE  c.obj[o].owner \in Users(c, o)
          OBVIOUS
        <4>1. c.obj[o].owner \in Client \cup {None}
          BY <1>7 DEF Entry
        <4> QED
          BY <2>1, <4>1 DEF ObjectAgrees, Owned, Users
      <3> QED
        BY <1>10, <1>18, <2>1, <3>1, <3>2 DEF ObjectAgrees, Owned
    <2> QED
      BY <2>2, <2>3
  <1>21. ASSUME NEW q \in Client, NEW o \in Object
         PROVE  Listed(r, q, o)
    <2>1. Listed(c, q, o)
      BY <1>1 DEF Agree
    <2>2. CASE o \notin gone
      BY <1>10, <1>11, <1>17, <2>1, <2>2 DEF Listed
    <2>3. CASE o \in gone
      BY <1>10, <1>15, <1>17, <2>1, <2>3, GoneParts DEF Listed
    <2> QED
      BY <2>2, <2>3
  <1> QED
    BY <1>1, <1>6, <1>10, <1>16, <1>19, <1>20, <1>21 DEF Good, Agree

(***************************************************************************)
(* Logins and watches.                                                     *)
(***************************************************************************)
\* A client that has just connected.
Opened(p) == [c EXCEPT !.conn[p] = "open"]
LEMMA OpenedGood ==
    ASSUME Good(c), NEW p \in Client, c.conn[p] = "new"
    PROVE  LET h == Opened(p)
           IN /\ Good(h) /\ h.player[p] = None /\ ~ h.spectator[p] /\ h.eventConnect[p] = None
              /\ h.conn[p] = "open" /\ h.obj = c.obj /\ h.spy = c.spy
  <1>1. c \in CastState /\ ClientAgrees(c, p)
    BY DEF Good, Agree
  <1>2. c.player[p] = None /\ ~ c.spectator[p] /\ c.eventConnect[p] = None
    BY <1>1 DEF ClientAgrees, Fresh
  <1>3. PICK C : C = [c.conn EXCEPT ![p] = "open"]
    OBVIOUS
  <1>4. C \in [Client -> {"new", "open", "closed"}] /\ C[p] = "open" /\ \A q \in Client \ {p} : C[q] = c.conn[q]
    BY <1>1, <1>3 DEF CastState
  <1>5. PICK h : h = [c EXCEPT !.conn = C]
    OBVIOUS
  <1>6. h = Opened(p)
    BY <1>3, <1>5 DEF Opened
  <1>7. /\ h \in CastState /\ h.conn = C /\ h.player = c.player /\ h.spectator = c.spectator /\ h.spy = c.spy
        /\ h.eventConnect = c.eventConnect /\ h.obj = c.obj /\ h.liveCasts = c.liveCasts /\ h.cleaned = c.cleaned
        /\ h.tasks = c.tasks /\ h.strayed = c.strayed /\ h.stranded = c.stranded
    BY <1>1, <1>4, <1>5 DEF CastState
  <1>8. h.conn[p] # "new" /\ \A q \in Client \ {p} : h.conn[q] = c.conn[q]
    BY <1>4, <1>7
  <1>9. Good(h)
    BY <1>2, <1>7, <1>8, ClientGood
  <1> QED
    BY <1>2, <1>4, <1>6, <1>7, <1>9

LEMMA WaitingGood ==
    ASSUME NEW h, Good(h), NEW p \in Client, h.player[p] = None, ~ h.spectator[p], h.conn[p] # "new",
           NEW e \in Object \cup {None}
    PROVE  LET r == [h EXCEPT !.eventConnect[p] = e]
           IN /\ Good(r) /\ r.eventConnect[p] = e /\ r.player = h.player /\ r.spectator = h.spectator
              /\ r.conn = h.conn /\ r.obj = h.obj
  <1>1. h \in CastState
    BY DEF Good
  <1>2. PICK E : E = [h.eventConnect EXCEPT ![p] = e]
    OBVIOUS
  <1>3. E \in [Client -> Object \cup {None}] /\ E[p] = e /\ \A q \in Client \ {p} : E[q] = h.eventConnect[q]
    BY <1>1, <1>2 DEF CastState
  <1>4. PICK r : r = [h EXCEPT !.eventConnect = E]
    OBVIOUS
  <1>5. /\ r \in CastState /\ r.conn = h.conn /\ r.player = h.player /\ r.spectator = h.spectator /\ r.spy = h.spy
        /\ r.eventConnect = E /\ r.obj = h.obj /\ r.liveCasts = h.liveCasts /\ r.cleaned = h.cleaned
        /\ r.tasks = h.tasks /\ r.strayed = h.strayed /\ r.stranded = h.stranded
    BY <1>1, <1>3, <1>4 DEF CastState
  <1>6. Good(r)
    BY <1>3, <1>5, ClientGood
  <1> QED
    BY <1>2, <1>3, <1>4, <1>5, <1>6

LEMMA LoginOtherGood ==
    ASSUME NEW h, Good(h), NEW p \in Client, h.player[p] = None, ~ h.spectator[p], h.conn[p] = "open",
           h.eventConnect[p] = None, NEW o \in InTheWorld(h), LoginOther(h, p, o)
    PROVE  Good(c')
  <1>1. o \in Object /\ h.obj[o].status = "placed" /\ h \in CastState
    BY DEF InTheWorld, Good
  <1>2. CASE HasClient(h, o)
    <2>1. PICK q : q = h.obj[o].owner
      OBVIOUS
    <2>2. q \in Client
      BY <1>1, <1>2, <2>1 DEF HasClient, CastState, Entry
    <2>3. PICK a : a = CloseOne(h, q)
      OBVIOUS
    <2>4. Good(a) /\ OthersSame(a, h) /\ a.conn = ClosedIn(h, {q})
      <3>1. {q} \in SUBSET Client /\ {} \in SUBSET Client
        BY <2>2
      <3>2. a.conn = ClosedIn(h, {q})
        BY <1>1, <2>3, <3>1, DismissEffect DEF CloseOne
      <3> QED
        BY <2>2, <2>3, <3>2, CloseGood
    <2>5. a.player[p] = None /\ ~ a.spectator[p] /\ a.conn[p] # "new"
      BY <2>4 DEF OthersSame, ClosedIn
    <2>6. Good([a EXCEPT !.eventConnect[p] = o])
      BY <1>1, <2>4, <2>5, WaitingGood
    <2> QED
      BY <1>2, <2>1, <2>3, <2>6 DEF LoginOther
  <1>3. CASE ~ HasClient(h, o)
    <2>1. AllBut(h, p)
      BY NearGood
    <2>2. Without(h, p)
      BY <2>1, NobodyWithout
    <2>3. h.obj[o].owner = None
      BY <1>3 DEF HasClient
    <2>4. Good(ConnectTo(h, p, o))
      BY <1>1, <2>2, <2>3, ConnectGood
    <2> QED
      BY <1>3, <2>4 DEF LoginOther
  <1> QED
    BY <1>2, <1>3

LEMMA LoginAsGood ==
    ASSUME Good(c), NEW p \in Client, NEW name \in Character, LoginAs(p, name)
    PROVE  Good(c')
  <1>1. PICK h : h = Opened(p)
    OBVIOUS
  <1>2. /\ Good(h) /\ h.player[p] = None /\ ~ h.spectator[p] /\ h.eventConnect[p] = None
        /\ h.conn[p] = "open" /\ h.obj = c.obj
    BY <1>1, OpenedGood DEF LoginAs
  <1>3. LoginNew(h, p, name) \/ \E o \in InTheWorld(c) : LoginOther(h, p, o)
    BY <1>1 DEF LoginAs, Opened
  <1>4. InTheWorld(h) = InTheWorld(c)
    BY <1>2 DEF InTheWorld
  <1> QED
    BY <1>2, <1>3, <1>4, LoginNewGood, LoginOtherGood

LEMMA ConnectLateGood ==
    ASSUME Good(c), NEW p \in Client, ConnectLate(p)
    PROVE  Good(c')
  <1>1. PICK o : o = c.eventConnect[p]
    OBVIOUS
  <1>2. o # None /\ c \in CastState /\ ClientAgrees(c, p)
    BY <1>1 DEF ConnectLate, Good, Agree
  <1>3. o \in Object /\ c.player[p] = None /\ ~ c.spectator[p] /\ c.conn[p] # "new"
    BY <1>1, <1>2 DEF ClientAgrees, Waits, CastState
  <1>4. PICK h : h = [c EXCEPT !.eventConnect[p] = None]
    OBVIOUS
  <1>5. /\ Good(h) /\ h.eventConnect[p] = None /\ h.player = c.player /\ h.spectator = c.spectator
        /\ h.conn = c.conn /\ h.obj = c.obj
    BY <1>3, <1>4, WaitingGood
  <1>6. CASE c' = CloseOne(h, p)
    BY <1>5, <1>6, CloseGood
  <1>7. CASE c' = h
    BY <1>5, <1>7
  <1>8. CASE c' = ConnectTo(h, p, o) /\ o \in InTheWorld(c) /\ ~ HasClient(c, o)
    <2>1. Without(h, p)
      BY <1>3, <1>5, NearGood, NobodyWithout
    <2>2. h.obj[o].status = "placed" /\ h.obj[o].owner = None
      BY <1>5, <1>8 DEF InTheWorld, HasClient
    <2> QED
      BY <1>3, <1>5, <1>8, <2>1, <2>2, ConnectGood
  <1> QED
    BY <1>1, <1>4, <1>6, <1>7, <1>8 DEF ConnectLate

LEMMA SpectatorLoginGood ==
    ASSUME Good(c), NEW p \in Client, NEW o \in Object, SpectatorLogin(p, o)
    PROVE  Good(c')
  <1>1. PICK h : h = Opened(p)
    OBVIOUS
  <1>2. /\ Good(h) /\ h.player[p] = None /\ ~ h.spectator[p] /\ h.eventConnect[p] = None
        /\ h.conn[p] = "open" /\ h.obj = c.obj
    BY <1>1, OpenedGood DEF SpectatorLogin
  <1>3. CASE c' = CloseOne(h, p)
    BY <1>2, <1>3, CloseGood
  <1>4. CASE MayWatch(h, p, o) /\ c' = SendSpectatorAppear([h EXCEPT !.spectator[p] = TRUE], p, o)
    <2>1. AllBut(h, p)
      BY <1>2, NearGood
    <2>2. Without(h, p)
      BY <1>2, <2>1, NobodyWithout
    <2>3. h \in CastState /\ ~ Back(h, p)
      BY <1>2, <2>1 DEF AllBut, Sent
    <2>4. PICK t : t = TRUE
      OBVIOUS
    <2>5. t \in BOOLEAN
      BY <2>4, Zenon
    <2>6. PICK S : S = [h.spectator EXCEPT ![p] = t]
      OBVIOUS
    <2>7. S \in [Client -> BOOLEAN] /\ S[p] = t /\ \A q \in Client \ {p} : S[q] = h.spectator[q]
      BY <2>3, <2>5, <2>6 DEF CastState
    <2>8. PICK g : g = [h EXCEPT !.spectator = S]
      OBVIOUS
    <2>9. /\ g \in CastState /\ g.spectator = S /\ g.obj = h.obj /\ g.player = h.player /\ g.conn = h.conn
          /\ g.eventConnect = h.eventConnect /\ g.cleaned = h.cleaned /\ g.liveCasts = h.liveCasts
          /\ g.tasks = h.tasks /\ g.strayed = h.strayed /\ g.spy = h.spy /\ g.stranded = h.stranded
      BY <2>3, <2>7, <2>8 DEF CastState
    <2>10. OnlyOf(g, h, p)
      BY <2>7, <2>9 DEF OnlyOf
    <2>11. h.obj[o].status = "placed" /\ (h.obj[o].broadcast \/ g.spy[p])
      BY <1>4, <2>9 DEF MayWatch, InTheWorld
    <2>12. PICK r : r = SendSpectatorAppear(g, p, o)
      OBVIOUS
    <2>13. r \in CastState /\ Elsewhere(r, g)
      <3>1. g.obj[o].refs \in Nat
        BY <2>2, <2>9, <2>11, PlacedIs
      <3>2. PICK e \in Entry : SendSpectatorAppear(g, p, o) = Given(g, p, o, e)
        BY <2>9, <3>1, AppearIs
      <3> QED
        BY <2>9, <2>12, <3>2, GivenEffect
    <2>14. g.spectator[p]
      BY <2>4, <2>7, <2>9
    <2>15. Good(r)
      BY <2>2, <2>3, <2>9, <2>10, <2>11, <2>12, <2>13, <2>14, WatchGood DEF Elsewhere
    <2>16. c' = r
      <3>1. [h EXCEPT !.spectator[p] = TRUE] = g
        BY <2>4, <2>6, <2>8, Zenon
      <3> QED
        BY <1>4, <2>12, <3>1, Zenon
    <2> QED
      BY <2>15, <2>16
  <1> QED
    BY <1>1, <1>3, <1>4 DEF SpectatorLogin, Opened

LEMMA OddGood ==
    ASSUME NEW h, Good(h), NEW n \in Int
    PROVE  Good([h EXCEPT !.odd = n])
  <1>1. PICK r : r = [h EXCEPT !.odd = n]
    OBVIOUS
  <1>2. /\ r \in CastState /\ r.conn = h.conn /\ r.player = h.player /\ r.spectator = h.spectator
        /\ r.eventConnect = h.eventConnect /\ r.obj = h.obj /\ r.liveCasts = h.liveCasts
        /\ r.cleaned = h.cleaned /\ r.tasks = h.tasks /\ r.strayed = h.strayed
        /\ r.stranded = h.stranded /\ r.spy = h.spy
    BY <1>1 DEF Good, CastState
  <1> QED
    BY <1>1, <1>2, SameGood

LEMMA TelescopeGoGood ==
    ASSUME Good(c), NEW p \in Client, NEW o \in Object, NEW adminSpy \in BOOLEAN, TelescopeGo(p, o, adminSpy)
    PROVE  Good(c')
  <1>1. c \in CastState /\ Plays(c, p) /\ o \in InTheWorld(c) \ {c.player[p]}
    BY DEF TelescopeGo, Good
  <1>2. PICK Y : Y = [c.spy EXCEPT ![p] = adminSpy]
    OBVIOUS
  <1>3. PICK n : n = IF adminSpy THEN c.odd + 1 ELSE c.odd
    OBVIOUS
  <1>4. Y \in [Client -> BOOLEAN] /\ n \in Int /\ \A q \in Client \ {p} : Y[q] = c.spy[q]
    BY <1>1, <1>2, <1>3 DEF CastState
  <1>5. PICK h : h = [c EXCEPT !.spy = Y, !.odd = n]
    OBVIOUS
  <1>6. h = [c EXCEPT !.spy[p] = adminSpy, !.odd = IF adminSpy THEN @ + 1 ELSE @]
    BY <1>2, <1>3, <1>5
  <1>7. /\ h \in CastState /\ h.conn = c.conn /\ h.player = c.player /\ h.spectator = c.spectator
        /\ h.eventConnect = c.eventConnect /\ h.obj = c.obj /\ h.liveCasts = c.liveCasts
        /\ h.cleaned = c.cleaned /\ h.tasks = c.tasks /\ h.strayed = c.strayed
        /\ h.stranded = c.stranded /\ h.spy = Y
    BY <1>1, <1>4, <1>5 DEF CastState
  <1>8. ~ c.spectator[p]
    BY <1>1 DEF Plays
  <1>9. Good(h)
    BY <1>4, <1>7, <1>8, SameGood
  <1>10. c' = h \/ (MayWatch(h, p, o) /\ c' = TelescopeStart(h, p, o))
    BY <1>6 DEF TelescopeGo
  <1>11. Plays(h, p) /\ o # h.player[p]
    BY <1>1, <1>7 DEF Plays
  <1> QED
    BY <1>9, <1>10, <1>11, TelescopeGood

(***************************************************************************)
(* The tasks.                                                              *)
(***************************************************************************)
LEMMA TakenGood ==
    ASSUME Good(c), c.tasks # <<>>, NEW t \in Head(c.tasks), NEW h,
           LET rest == Head(c.tasks) \ {t}
           IN h = [c EXCEPT !.tasks = IF rest = {} THEN Tail(@) ELSE [@ EXCEPT ![1] = rest]]
    PROVE  /\ t \in Task
           /\ t.op # "back" => Good(h)
           /\ t.op = "back" => /\ AllBut(h, t.by) /\ h.spectator[t.by] /\ ~ Back(h, t.by)
                               /\ \A x \in Object : t.by \notin h.obj[x].spectators
  <1>1. c \in CastState /\ Exact(c) /\ c.strayed = {} /\ Agree(c)
    BY DEF Good
  <1>2. PICK s : s = Taken(c.tasks, t)
    OBVIOUS
  <1>3. PICK r : r = [c EXCEPT !.tasks = s]
    OBVIOUS
  <1>4. r = h
    BY <1>2, <1>3 DEF Taken
  <1>5. /\ r \in CastState /\ t \in Task
        /\ \A p \in Client :
              /\ OnceQueued(c, p) => OnceQueued(r, p)
              /\ Back(r, p) => Back(c, p)
              /\ OnceQueued(c, p) /\ t = ATaskOf("back", p) => Back(c, p) /\ ~ Back(r, p)
              /\ t # ATaskOf("back", p) => (Back(r, p) <=> Back(c, p))
    BY <1>1, <1>2, <1>3, TakenEffect
  <1>6. /\ r.conn = c.conn /\ r.player = c.player /\ r.spectator = c.spectator /\ r.spy = c.spy
        /\ r.eventConnect = c.eventConnect /\ r.obj = c.obj /\ r.liveCasts = c.liveCasts
        /\ r.cleaned = c.cleaned /\ r.strayed = c.strayed /\ r.stranded = c.stranded
    BY <1>1, <1>3 DEF CastState
  <1>7. Exact(r)
    BY <1>1, <1>6, SameCounts
  <1>8. PICK p : p = t.by
    OBVIOUS
  <1>9. p \in Client /\ (t.op = "back" => t = ATaskOf("back", p)) /\ (t.op # "back" => \A q : t # ATaskOf("back", q))
    BY <1>5, <1>8 DEF Task, ATaskOf
  <1>10. \A q \in Client : q # p => t # ATaskOf("back", q)
    BY <1>8 DEF ATaskOf
  <1>11. \A q \in Client : OnceQueued(c, q) /\ ClientAgrees(c, q)
    BY <1>1 DEF Agree, ClientAgrees, Sent
  <1>12. ASSUME NEW q \in Client
         PROVE  /\ Fresh(r, q) /\ Waits(r, q) /\ Owns(r, q) /\ Sent(r, q)
                /\ (Back(r, q) <=> Back(c, q)) => Watches(r, q)
    <2>1. Fresh(r, q) /\ Waits(r, q) /\ Owns(r, q)
      BY <1>6, <1>11 DEF ClientAgrees, Fresh, Waits, Owns, Plays
    <2>2. Sent(r, q)
      BY <1>5, <1>6, <1>11 DEF ClientAgrees, Sent
    <2>3. (Back(r, q) <=> Back(c, q)) => Watches(r, q)
      BY <1>6, <1>11 DEF ClientAgrees, Watches
    <2> QED
      BY <2>1, <2>2, <2>3
  <1>13. ASSUME NEW o \in Object
         PROVE  ObjectAgrees(r, o)
    BY <1>1, <1>6 DEF Agree, ObjectAgrees, Owned
  <1>14. ASSUME NEW q \in Client, NEW o \in Object
         PROVE  Listed(r, q, o)
    BY <1>1, <1>5, <1>6 DEF Agree, Listed
  <1>15. AllBut(r, p)
    BY <1>1, <1>5, <1>6, <1>7, <1>10, <1>12, <1>13, <1>14 DEF AllBut
  <1>16. CASE t.op = "back"
    <2>1. Back(c, p) /\ ~ Back(r, p)
      BY <1>5, <1>9, <1>11, <1>16
    <2>2. r.spectator[p]
      BY <1>6, <1>9, <1>11, <2>1 DEF ClientAgrees, Sent
    <2>3. \A x \in Object : p \notin r.obj[x].spectators
      BY <1>1, <1>6, <1>9, <2>1 DEF Agree, Listed
    <2> QED
      BY <1>4, <1>5, <1>8, <1>15, <1>16, <2>1, <2>2, <2>3
  <1>17. CASE t.op # "back"
    <2>1. Watches(r, p)
      BY <1>5, <1>9, <1>12, <1>17
    <2> QED
      BY <1>4, <1>5, <1>9, <1>15, <1>17, <2>1, NearGood
  <1> QED
    BY <1>16, <1>17

LEMMA StrandedGood ==
    ASSUME NEW p \in Client, NEW h, AllBut(h, p)
    PROVE  Good([h EXCEPT !.stranded = @ \cup {p}])
  <1>1. h \in CastState /\ Exact(h) /\ h.strayed = {}
    BY DEF AllBut
  <1>2. PICK S : S = h.stranded \cup {p}
    OBVIOUS
  <1>3. S \in SUBSET Client /\ p \in S /\ \A q : q \in h.stranded => q \in S
    BY <1>1, <1>2 DEF CastState
  <1>4. PICK r : r = [h EXCEPT !.stranded = S]
    OBVIOUS
  <1>5. /\ r \in CastState /\ r.conn = h.conn /\ r.player = h.player /\ r.spectator = h.spectator
        /\ r.eventConnect = h.eventConnect /\ r.obj = h.obj /\ r.liveCasts = h.liveCasts
        /\ r.cleaned = h.cleaned /\ r.tasks = h.tasks /\ r.strayed = h.strayed
        /\ r.stranded = S /\ r.spy = h.spy
    BY <1>1, <1>3, <1>4 DEF CastState
  <1>6. Exact(r)
    BY <1>1, <1>5, SameCounts
  <1>7. \A q : (Back(r, q) <=> Back(h, q)) /\ (OnceQueued(r, q) <=> OnceQueued(h, q))
    BY <1>5, SameQueue
  <1>8. ASSUME NEW q \in Client
        PROVE  ClientAgrees(r, q)
    <2>1. Fresh(h, q) /\ Waits(h, q) /\ Owns(h, q) /\ Sent(h, q) /\ (q = p \/ Watches(h, q))
      BY DEF AllBut
    <2> QED
      BY <1>3, <1>5, <1>7, <2>1 DEF ClientAgrees, Fresh, Waits, Owns, Plays, Watches, Sent
  <1>9. ASSUME NEW o \in Object
        PROVE  ObjectAgrees(r, o)
    BY <1>5 DEF AllBut, ObjectAgrees, Owned
  <1>10. ASSUME NEW q \in Client, NEW o \in Object
         PROVE  Listed(r, q, o)
    BY <1>5, <1>7 DEF AllBut, Listed
  <1>11. Good(r)
    BY <1>1, <1>5, <1>6, <1>8, <1>9, <1>10 DEF Good, Agree
  <1> QED
    BY <1>2, <1>4, <1>11

LEMMA NavigateStep ==
    ASSUME NEW h, Good(h), NEW p \in Client, Navigate(h, p)
    PROVE  c' \in CastState /\ AgreesOf(c') /\ (c'.strayed = {} => Good(c'))
  <1>1. CASE c' = h
    BY <1>1, GoodAgrees DEF Good
  <1>2. CASE c' # h
    <2>1. PICK o \in h.liveCasts : /\ MayWatch(h, p, o) /\ o # h.player[p] /\ h.player[p] \in InTheWorld(h)
                                   /\ c' = CastNavigation(h, p, o)
      BY <1>2 DEF Navigate
    <2>2. o \in Object
      BY DEF Good, CastState
    <2>3. CASE h.spectator[p] /\ ~ Back(h, p)
      <3>1. Good(c')
        BY <2>1, <2>2, <2>3, NavigationGood
      <3> QED
        BY <3>1, GoodAgrees DEF Good
    <2>4. CASE ~ h.spectator[p] \/ Back(h, p)
      <3>1. PICK r : r = CastNavigation(h, p, o)
        OBVIOUS
      <3>2. r \in CastState /\ r.strayed = {p} /\ AgreesOf(r)
        BY <2>1, <2>2, <2>4, <3>1, NavigationEffect
      <3> QED
        BY <2>1, <3>1, <3>2
    <2> QED
      BY <2>3, <2>4
  <1> QED
    BY <1>1, <1>2

(***************************************************************************)
(* The invariant.                                                          *)
(***************************************************************************)
CastInv == c \in CastState /\ AgreesOf(c) /\ (c.strayed = {} => Good(c))

LEMMA GoodIsEnough ==
    ASSUME Good(c')
    PROVE  CastInv'
  <1>1. AgreesOf(c')
    BY GoodAgrees
  <1> QED
    BY <1>1 DEF CastInv, Good

LEMMA RunTaskStep ==
    ASSUME Good(c), RunTask
    PROVE  CastInv'
  <1>1. PICK t \in Head(c.tasks) :
           LET rest == Head(c.tasks) \ {t}
               h == [c EXCEPT !.tasks = IF rest = {} THEN Tail(@) ELSE [@ EXCEPT ![1] = rest]]
           IN \/ t.op = "release" /\ c' = ReleaseTask(h, t.by)
              \/ t.op = "navigate" /\ Navigate(h, t.by)
              \/ t.op = "back" /\ TelescopeBack(h, t.by)
    BY DEF RunTask
  <1>2. PICK h : LET rest == Head(c.tasks) \ {t}
                 IN h = [c EXCEPT !.tasks = IF rest = {} THEN Tail(@) ELSE [@ EXCEPT ![1] = rest]]
    OBVIOUS
  <1>3. \/ t.op = "release" /\ c' = ReleaseTask(h, t.by)
        \/ t.op = "navigate" /\ Navigate(h, t.by)
        \/ t.op = "back" /\ TelescopeBack(h, t.by)
    BY <1>1, <1>2
  <1>4. c.tasks # <<>>
    BY DEF RunTask
  <1>5. /\ t \in Task
        /\ t.op # "back" => Good(h)
        /\ t.op = "back" => /\ AllBut(h, t.by) /\ h.spectator[t.by] /\ ~ Back(h, t.by)
                            /\ \A x \in Object : t.by \notin h.obj[x].spectators
    BY <1>1, <1>2, <1>4, TakenGood
  <1>6. PICK p : p = t.by
    OBVIOUS
  <1>7. p \in Client
    BY <1>5, <1>6 DEF Task
  <1>8. CASE t.op = "release" /\ c' = ReleaseTask(h, t.by)
    <2>1. Good(h)
      BY <1>5, <1>8
    <2>2. Good(c')
      BY <1>6, <1>7, <1>8, <2>1, ReleaseGood
    <2> QED
      BY <2>2, GoodIsEnough
  <1>9. CASE t.op = "navigate" /\ Navigate(h, t.by)
    <2>1. Good(h)
      BY <1>5, <1>9
    <2> QED
      BY <1>6, <1>7, <1>9, <2>1, NavigateStep DEF CastInv
  <1>10. CASE t.op = "back" /\ TelescopeBack(h, t.by)
    <2>1. /\ AllBut(h, p) /\ h.spectator[p] /\ ~ Back(h, p)
          /\ \A x \in Object : p \notin h.obj[x].spectators
      BY <1>5, <1>6, <1>10
    <2>2. CASE c' = [h EXCEPT !.stranded = @ \cup {p}]
      <3>1. Good(c')
        BY <1>7, <2>1, <2>2, StrandedGood
      <3> QED
        BY <3>1, GoodIsEnough
    <2>3. CASE h.player[p] = None /\ c' = h
      <3>1. Watches(h, p)
        BY <2>3 DEF Watches
      <3>2. Good(c')
        BY <1>7, <2>1, <2>3, <3>1, NearGood
      <3> QED
        BY <3>2, GoodIsEnough
    <2>4. CASE h.player[p] # None /\ Returns(h, p)
      <3>1. Good(c')
        BY <1>7, <2>1, <2>4, ReturnsGood
      <3> QED
        BY <3>1, GoodIsEnough
    <2> QED
      BY <1>6, <1>10, <2>2, <2>3, <2>4 DEF TelescopeBack
  <1> QED
    BY <1>3, <1>8, <1>9, <1>10

LEMMA ParseNavigationGood ==
    ASSUME Good(c), NEW p \in Client, ParseNavigation(p)
    PROVE  Good(c')
  <1>1. c \in CastState /\ Exact(c) /\ c.strayed = {} /\ Agree(c)
    BY DEF Good
  <1>2. PICK batch : batch = {ATaskOf("navigate", p)}
    OBVIOUS
  <1>3. batch \in SUBSET Task /\ \A q : ATaskOf("back", q) \notin batch
    BY <1>2 DEF Task, ATaskOf
  <1>4. PICK r : r = Queue(c, batch)
    OBVIOUS
  <1>5. /\ r \in CastState
        /\ \E s : r = [c EXCEPT !.tasks = s]
        /\ \A q \in Client : (Back(r, q) <=> Back(c, q)) /\ (OnceQueued(c, q) => OnceQueued(r, q))
    BY <1>1, <1>3, <1>4, QueueEffect
  <1>6. /\ r.conn = c.conn /\ r.player = c.player /\ r.spectator = c.spectator /\ r.spy = c.spy
        /\ r.eventConnect = c.eventConnect /\ r.obj = c.obj /\ r.liveCasts = c.liveCasts
        /\ r.cleaned = c.cleaned /\ r.strayed = c.strayed /\ r.stranded = c.stranded
    BY <1>1, <1>5 DEF CastState
  <1>7. Exact(r)
    BY <1>1, <1>6, SameCounts
  <1>8. ASSUME NEW q \in Client
        PROVE  ClientAgrees(r, q)
    BY <1>1, <1>5, <1>6 DEF Agree, ClientAgrees, Fresh, Waits, Owns, Plays, Watches, Sent
  <1>9. ASSUME NEW o \in Object
        PROVE  ObjectAgrees(r, o)
    BY <1>1, <1>6 DEF Agree, ObjectAgrees, Owned
  <1>10. ASSUME NEW q \in Client, NEW o \in Object
         PROVE  Listed(r, q, o)
    BY <1>1, <1>5, <1>6 DEF Agree, Listed
  <1>11. Good(r)
    BY <1>1, <1>5, <1>6, <1>7, <1>8, <1>9, <1>10 DEF Good, Agree
  <1> QED
    BY <1>2, <1>4, <1>11 DEF ParseNavigation

LEMMA HappensGood ==
    ASSUME Good(c), Happens
    PROVE  Good(c')
  <1>1. CASE CleanupRound
    BY <1>1, CleanupGood
  <1>2. ASSUME NEW p \in Client, CloseAny(p)
        PROVE  Good(c')
    BY <1>2, CloseGood DEF CloseAny
  <1>3. ASSUME NEW p \in Client, LogsOut(p)
        PROVE  Good(c')
    BY <1>3, LogoutGood DEF LogsOut
  <1>4. ASSUME NEW o \in Object, IsKicked(o)
        PROVE  Good(c')
    BY <1>4, KickGood DEF IsKicked
  <1>5. ASSUME NEW o \in Object, DiesThere(o)
        PROVE  Good(c')
    <2>1. PICK k : k = TakeOut(c, o)
      OBVIOUS
    <2>2. Good(k)
      BY <2>1, TakeOutGood
    <2>3. k.odd + 1 \in Int
      BY <2>2 DEF Good, CastState
    <2>4. c' = [k EXCEPT !.odd = k.odd + 1]
      BY <1>5, <2>1 DEF DiesThere
    <2> QED
      BY <2>2, <2>3, <2>4, OddGood
  <1> QED
    BY <1>1, <1>2, <1>3, <1>4, <1>5, ConnectLateGood, ParseNavigationGood, LoginAsGood,
       SpectatorLoginGood, TelescopeGoGood, SetCastGood DEF Happens

LEMMA InitCastInv == CastingInit => CastInv
  <1> SUFFICES ASSUME CastingInit
               PROVE  Good(c)
    BY GoodAgrees DEF CastInv, Good
  <1>1. PICK f : f = FALSE
    OBVIOUS
  <1>2. f \in BOOLEAN /\ ~ f
    BY <1>1, Zenon
  <1>3. PICK z : z = NoPlayer
    OBVIOUS
  <1>4. /\ z \in Entry /\ z.status = "none" /\ z.refs = 0 /\ z.owner = None /\ z.spectators = {}
    BY <1>3, NoPlayerParts
  <1>5. c = [conn |-> [p \in Client |-> "new"],
             player |-> [p \in Client |-> None],
             spectator |-> [p \in Client |-> f],
             spy |-> [p \in Client |-> f],
             home |-> [p \in Client |-> None],
             eventConnect |-> [p \in Client |-> None],
             obj |-> [o \in Object |-> z],
             liveCasts |-> {}, cleaned |-> {}, tasks |-> <<>>, odd |-> 0, strayed |-> {}, stranded |-> {}]
    BY <1>1, <1>3, Zenon DEF CastingInit
  <1>6. <<>> \in Seq(SUBSET Task)
    OBVIOUS
  <1>7. c \in CastState
    BY <1>2, <1>4, <1>5, <1>6 DEF CastState
  <1>8. /\ \A p \in Client : /\ c.conn[p] = "new" /\ c.player[p] = None /\ ~ c.spectator[p]
                             /\ c.eventConnect[p] = None
        /\ \A o \in Object : c.obj[o] = z
        /\ c.liveCasts = {} /\ c.cleaned = {} /\ c.tasks = <<>> /\ c.strayed = {}
    BY <1>2, <1>5
  <1>9. Exact(c)
    <2> SUFFICES ASSUME NEW o \in Object
                 PROVE  Counts(c, o, Users(c, o))
      BY DEF Exact
    <2>1. Users(c, o) = {}
      BY <1>8, NoneIsNone DEF Users
    <2>2. Cardinality(Users(c, o)) = 0
      BY <2>1, UsersFinite
    <2> QED
      BY <1>4, <1>8, <2>2 DEF Counts, World
  <1>10. \A p \in Client : ~ Back(c, p) /\ OnceQueued(c, p)
    <2>1. DOMAIN c.tasks = {}
      BY <1>8
    <2> QED
      BY <2>1 DEF Back, IsQueued, OnceQueued
  <1>11. \A p \in Client : ClientAgrees(c, p)
    BY <1>8, <1>10 DEF ClientAgrees, Fresh, Waits, Owns, Plays, Watches, Sent
  <1>12. \A o \in Object : ObjectAgrees(c, o)
    BY <1>4, <1>8 DEF ObjectAgrees, Owned
  <1>13. \A p \in Client, o \in Object : Listed(c, p, o)
    BY <1>4, <1>8 DEF Listed
  <1> QED
    BY <1>7, <1>8, <1>9, <1>11, <1>12, <1>13 DEF Good, Agree

LEMMA NextCastInv == CastInv /\ [CastingNext]_c => CastInv'
  <1> SUFFICES ASSUME CastInv, [CastingNext]_c
               PROVE  CastInv'
    OBVIOUS
  <1>1. CASE UNCHANGED c
    BY <1>1 DEF CastInv
  <1>2. CASE CastingNext
    <2>1. Good(c)
      BY <1>2 DEF CastingNext, CastInv
    <2>2. CASE RunTask
      BY <2>1, <2>2, RunTaskStep
    <2>3. CASE Happens
      BY <2>1, <2>3, HappensGood, GoodIsEnough
    <2> QED
      BY <1>2, <2>2, <2>3 DEF CastingNext
  <1> QED
    BY <1>1, <1>2

LEMMA CastInvHolds == CastingSpec => []CastInv
  BY InitCastInv, NextCastInv, PTL DEF CastingSpec

(***************************************************************************)
(* Players that are watched, the protocols that watch and the list of      *)
(* casts fit together.                                                     *)
(***************************************************************************)
THEOREM CastsCorrect == CastingSpec => []CastsAgree
  <1>1. CastInv => CastsAgree
    BY AgreesIs DEF CastInv
  <1> QED
    BY <1>1, CastInvHolds, PTL
=============================================================================
