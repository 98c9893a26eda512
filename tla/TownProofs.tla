----------------------------- MODULE TownProofs -----------------------------
(***************************************************************************)
(* Houses, chat and the saving of both, for any players, houses, parties,  *)
(* guilds and channels: the owners, lists and beds of houses agree with    *)
(* the people inside, the users of channels with the windows of the        *)
(* clients, and the database has each record as it was at one time, and    *)
(* not older than a save has reported, unless a save has lost its          *)
(* transaction or a failure that nobody looks at.  And the market, for any *)
(* traders and offers: it moves gold and goods and makes and loses none.   *)
(*                                                                         *)
(* Houses and channels change many books in one call, so their invariants  *)
(* are of the books b as one record.  Each function of the code has a      *)
(* lemma that says what it changes (...Effect) and one that says it keeps  *)
(* the invariant (...Agrees); the actions only combine them.               *)
(***************************************************************************)
EXTENDS Accounts, FiniteSetTheorems, SequenceTheorems, WellFoundedInduction, TLAPS

(***************************************************************************)
(* The inductive invariant, of the books b, so that each function of the   *)
(* code can be shown to keep it.  While a house changes hands two parts of *)
(* it wait: that of the houses in S to be clean, and that of the players   *)
(* in P to own one house.                                                  *)
(***************************************************************************)
Document == [from : Player, to : Player]

EstateType ==
    [owner : [House -> Player \cup {None}],
     list : [House -> [ListId -> SUBSET Player]],
     online : SUBSET Player,
     at : [Player -> House \cup {"outside"}],
     sleeper : [House -> Player \cup {None}],
     map : [Player -> House \cup {None}],
     kicks : SUBSET Player,
     doc : [House -> Document \cup {None}],
     out : SUBSET Player,
     late : SUBSET Player]

AllInvited(b) == \A p \in b.online : b.at[p] \in House => IsInvited(b, b.at[p], p) \/ p \in b.kicks
BedsMatch(b) ==
    /\ \A p \in Player, h \in House : b.map[p] = h <=> b.sleeper[h] = p
    /\ \A h \in House : b.sleeper[h] # None => b.sleeper[h] \notin b.online \/ b.sleeper[h] \in b.kicks
CleanBut(b, S) ==
    \A h \in House \ S : b.owner[h] = None => b.list[h] = NoLists /\ b.sleeper[h] \in b.out \cup {None}
OneEachBut(b, P) ==
    \A h, k \in House : b.owner[h] = b.owner[k] /\ b.owner[h] # None => h = k \/ b.owner[h] \in b.late \cup P

AgreesBut(b, S, P) ==
    b \in EstateType /\ AllInvited(b) /\ BedsMatch(b) /\ CleanBut(b, S) /\ OneEachBut(b, P)
HousesInv == AgreesBut(Estate, {}, {})

-----------------------------------------------------------------------------
(***************************************************************************)
(* What each function of the code keeps.                                   *)
(***************************************************************************)
SameEstate(b, d) == d.owner = b.owner /\ d.list = b.list
SameBeds(b, d) == d.sleeper = b.sleeper /\ d.map = b.map /\ d.out = b.out
SameDeals(b, d) == d.doc = b.doc /\ d.late = b.late

LEMMA ToEntryEffect ==
    ASSUME NEW b \in EstateType, NEW ps
    PROVE  LET d == ToEntry(b, ps)
           IN /\ d \in EstateType /\ SameEstate(b, d) /\ SameBeds(b, d) /\ SameDeals(b, d)
              /\ d.online = b.online /\ d.kicks = b.kicks
              /\ \A p \in Player : d.at[p] = IF p \in ps THEN "outside" ELSE b.at[p]
  <1> DEFINE f == [p \in Player |-> IF p \in ps THEN "outside" ELSE b.at[p]]
  <1>1. f \in [Player -> House \cup {"outside"}]
    BY DEF EstateType
  <1>2. ToEntry(b, ps) = [b EXCEPT !.at = f]
    BY DEF ToEntry
  <1>3. \A p \in Player : f[p] = IF p \in ps THEN "outside" ELSE b.at[p]
    OBVIOUS
  <1> HIDE DEF f
  <1> QED
    BY <1>1, <1>2, <1>3 DEF EstateType, SameEstate, SameBeds, SameDeals

\* Sending people out is always right.
LEMMA ToEntryAgrees ==
    ASSUME NEW b, NEW S, NEW P, AgreesBut(b, S, P), NEW ps
    PROVE  AgreesBut(ToEntry(b, ps), S, P)
  <1>1. PICK d : d = ToEntry(b, ps)
    OBVIOUS
  <1>2. /\ b \in EstateType /\ d \in EstateType /\ SameEstate(b, d) /\ SameBeds(b, d) /\ SameDeals(b, d)
        /\ d.online = b.online /\ d.kicks = b.kicks
        /\ \A p \in Player : d.at[p] = IF p \in ps THEN "outside" ELSE b.at[p]
    BY <1>1, ToEntryEffect DEF AgreesBut
  <1>3. AllInvited(d)
    <2> SUFFICES ASSUME NEW p \in d.online, d.at[p] \in House
                 PROVE  IsInvited(d, d.at[p], p) \/ p \in d.kicks
      BY DEF AllInvited
    <2>1. p \in Player /\ p \in b.online
      BY <1>2 DEF EstateType
    <2>2. d.at[p] = b.at[p]
      BY <1>2, <2>1, HousesAssumption
    <2>3. IsInvited(b, b.at[p], p) \/ p \in b.kicks
      BY <2>1, <2>2 DEF AgreesBut, AllInvited
    <2> QED
      BY <1>2, <2>2, <2>3 DEF IsInvited, GetHouseAccessLevel, SameEstate
  <1>4. BedsMatch(d) /\ CleanBut(d, S) /\ OneEachBut(d, P)
    BY <1>2 DEF AgreesBut, BedsMatch, CleanBut, OneEachBut, SameEstate, SameBeds, SameDeals
  <1> QED
    BY <1>1, <1>2, <1>3, <1>4 DEF AgreesBut

(***************************************************************************)
(* A list changes, and those inside who are not invited any more go.       *)
(***************************************************************************)
LEMMA SetAccessListEffect ==
    ASSUME NEW b \in EstateType, NEW h \in House, NEW l \in ListId, NEW ps \in SUBSET Player
    PROVE  LET d == SetAccessList(b, h, l, ps)
           IN /\ d \in EstateType /\ SameBeds(b, d) /\ SameDeals(b, d)
              /\ d.owner = b.owner /\ d.online = b.online /\ d.kicks = b.kicks
              /\ \A k \in House : k # h => d.list[k] = b.list[k]
              /\ d.list[h][l] = ps
              /\ \A m \in ListId : m # l => d.list[h][m] = b.list[h][m]
              /\ \A p \in Player : d.at[p] \in {b.at[p], "outside"}
              /\ \A p \in b.online : d.at[p] = h => IsInvited(d, h, p)
  <1> DEFINE s == [b EXCEPT !.list[h][l] = ps]
             gone == {p \in Inside(s, h) : ~IsInvited(s, h, p)}
             d == SetAccessList(b, h, l, ps)
  <1>1. d = ToEntry(s, gone)
    BY DEF SetAccessList
  <1>2. /\ s \in EstateType /\ SameBeds(b, s) /\ SameDeals(b, s)
        /\ s.owner = b.owner /\ s.online = b.online /\ s.kicks = b.kicks /\ s.at = b.at
        /\ \A k \in House : k # h => s.list[k] = b.list[k]
        /\ s.list[h][l] = ps
        /\ \A m \in ListId : m # l => s.list[h][m] = b.list[h][m]
    BY DEF EstateType, SameBeds, SameDeals
  <1>3. \A p \in s.online : s.at[p] = h /\ p \notin gone => IsInvited(s, h, p)
    BY DEF Inside
  <1> HIDE DEF s, gone, d
  <1>4. /\ d \in EstateType /\ SameEstate(s, d) /\ SameBeds(s, d) /\ SameDeals(s, d)
        /\ d.online = s.online /\ d.kicks = s.kicks
        /\ \A p \in Player : d.at[p] = IF p \in gone THEN "outside" ELSE s.at[p]
    BY <1>1, <1>2, ToEntryEffect
  <1>5. ASSUME NEW p \in b.online, d.at[p] = h
        PROVE  IsInvited(d, h, p)
    <2>1. p \in Player /\ p \in s.online
      BY <1>2 DEF EstateType
    <2>2. p \notin gone /\ s.at[p] = h
      BY <1>4, <1>5, <2>1, HousesAssumption
    <2> QED
      BY <1>3, <1>4, <2>1, <2>2 DEF IsInvited, GetHouseAccessLevel, SameEstate
  <1>6. d.list = s.list /\ d.owner = s.owner
    BY <1>4 DEF SameEstate
  <1>7. SameBeds(b, d) /\ SameDeals(b, d)
    BY <1>2, <1>4 DEF SameBeds, SameDeals
  <1> QED
    BY <1>2, <1>4, <1>5, <1>6, <1>7 DEF d

LEMMA SetAccessListAgrees ==
    ASSUME NEW b, NEW S, NEW P, AgreesBut(b, S, P),
           NEW h \in House, NEW l \in ListId, NEW ps \in SUBSET Player,
           b.owner[h] # None \/ h \in S
    PROVE  AgreesBut(SetAccessList(b, h, l, ps), S, P)
  <1>1. PICK d : d = SetAccessList(b, h, l, ps)
    OBVIOUS
  <1>2. /\ b \in EstateType /\ d \in EstateType /\ SameBeds(b, d) /\ SameDeals(b, d)
        /\ d.owner = b.owner /\ d.online = b.online /\ d.kicks = b.kicks
        /\ \A k \in House : k # h => d.list[k] = b.list[k]
        /\ \A p \in Player : d.at[p] \in {b.at[p], "outside"}
        /\ \A p \in b.online : d.at[p] = h => IsInvited(d, h, p)
    BY <1>1, SetAccessListEffect DEF AgreesBut
  <1>3. AllInvited(d)
    <2> SUFFICES ASSUME NEW p \in d.online, d.at[p] \in House, d.at[p] # h
                 PROVE  IsInvited(d, d.at[p], p) \/ p \in d.kicks
      BY <1>2 DEF AllInvited
    <2>1. p \in Player /\ p \in b.online
      BY <1>2 DEF EstateType
    <2>2. d.at[p] = b.at[p]
      BY <1>2, <2>1, HousesAssumption
    <2>3. IsInvited(b, b.at[p], p) \/ p \in b.kicks
      BY <2>1, <2>2 DEF AgreesBut, AllInvited
    <2> QED
      BY <1>2, <2>2, <2>3 DEF IsInvited, GetHouseAccessLevel
  <1>4. BedsMatch(d) /\ CleanBut(d, S) /\ OneEachBut(d, P)
    BY <1>2 DEF AgreesBut, BedsMatch, CleanBut, OneEachBut, SameBeds, SameDeals
  <1> QED
    BY <1>1, <1>2, <1>3, <1>4 DEF AgreesBut

(***************************************************************************)
(* Who wakes leaves bed and map at once.                                   *)
(***************************************************************************)
LEMMA WakeUpEffect ==
    ASSUME NEW b \in EstateType, NEW h \in House, b.sleeper[h] # None
    PROVE  LET d == WakeUp(b, h)
           IN /\ d \in EstateType /\ SameEstate(b, d) /\ SameDeals(b, d)
              /\ d.online = b.online /\ d.kicks = b.kicks /\ d.at = b.at
              /\ d.sleeper[h] = None /\ d.out = b.out \ {b.sleeper[h]}
              /\ \A p \in Player : d.map[p] = IF p = b.sleeper[h] THEN None ELSE b.map[p]
              /\ \A k \in House : k # h => d.sleeper[k] = b.sleeper[k]
  <1> DEFINE f == [p \in Player |-> IF p = b.sleeper[h] THEN None ELSE b.map[p]]
  <1>1. f \in [Player -> House \cup {None}]
    BY DEF EstateType
  <1>2. \A p \in Player : f[p] = IF p = b.sleeper[h] THEN None ELSE b.map[p]
    OBVIOUS
  <1>3. PICK d : d = WakeUp(b, h)
    OBVIOUS
  <1>4. d = [b EXCEPT !.sleeper[h] = None, !.out = @ \ {b.sleeper[h]}, !.map = f]
    BY <1>3 DEF WakeUp
  <1>5. b.sleeper[h] \in Player
    BY DEF EstateType
  <1> HIDE DEF f
  <1>6. /\ d \in EstateType /\ SameEstate(b, d) /\ SameDeals(b, d)
        /\ d.online = b.online /\ d.kicks = b.kicks /\ d.at = b.at
        /\ d.sleeper[h] = None /\ d.out = b.out \ {b.sleeper[h]} /\ d.map = f
        /\ \A k \in House : k # h => d.sleeper[k] = b.sleeper[k]
    BY <1>1, <1>4, <1>5 DEF EstateType, SameEstate, SameDeals
  <1> QED
    BY <1>2, <1>3, <1>6

\* The sleeper may be in the game by now.
LEMMA WakeUpAgrees ==
    ASSUME NEW b \in EstateType, NEW h \in House, b.sleeper[h] # None,
           AllInvited(b), CleanBut(b, {}), OneEachBut(b, {}),
           \A p \in Player, k \in House : b.map[p] = k <=> b.sleeper[k] = p,
           \A k \in House : b.sleeper[k] # None =>
               k = h \/ b.sleeper[k] \notin b.online \/ b.sleeper[k] \in b.kicks
    PROVE  AgreesBut(WakeUp(b, h), {}, {})
  <1>1. PICK d : d = WakeUp(b, h)
    OBVIOUS
  <1>2. /\ d \in EstateType /\ SameEstate(b, d) /\ SameDeals(b, d)
        /\ d.online = b.online /\ d.kicks = b.kicks /\ d.at = b.at
        /\ d.sleeper[h] = None /\ d.out = b.out \ {b.sleeper[h]}
        /\ \A p \in Player : d.map[p] = IF p = b.sleeper[h] THEN None ELSE b.map[p]
        /\ \A k \in House : k # h => d.sleeper[k] = b.sleeper[k]
    BY <1>1, WakeUpEffect
  <1>3. b.sleeper[h] \in Player
    BY DEF EstateType
  <1>4. \A k \in House : k # h => b.sleeper[k] # b.sleeper[h]
    BY <1>3
  <1>5. BedsMatch(d)
    BY <1>2, <1>3, <1>4, HousesAssumption DEF BedsMatch
  <1>6. CleanBut(d, {}) /\ OneEachBut(d, {})
    BY <1>2, <1>4 DEF CleanBut, OneEachBut, SameEstate, SameDeals
  <1>7. AllInvited(d)
    BY <1>2 DEF AllInvited, IsInvited, GetHouseAccessLevel, SameEstate
  <1> QED
    BY <1>1, <1>2, <1>5, <1>6, <1>7 DEF AgreesBut

NobodyIn(b, h) == \A p \in b.online : b.at[p] # h

\* The house that loses its owner is empty, so nobody is inside uninvited.
LEMMA DisownAgrees ==
    ASSUME NEW b, AgreesBut(b, {}, {}), NEW h \in House, NobodyIn(b, h)
    PROVE  LET d == [b EXCEPT !.owner[h] = None]
           IN /\ AgreesBut(d, {h}, {}) /\ SameBeds(b, d) /\ SameDeals(b, d)
              /\ d.owner = [b.owner EXCEPT ![h] = None]
  <1>1. PICK d : d = [b EXCEPT !.owner[h] = None]
    OBVIOUS
  <1>2. b \in EstateType
    BY DEF AgreesBut
  <1>3. /\ d \in EstateType /\ SameBeds(b, d) /\ SameDeals(b, d)
        /\ d.owner = [b.owner EXCEPT ![h] = None] /\ d.list = b.list
        /\ d.online = b.online /\ d.kicks = b.kicks /\ d.at = b.at
        /\ d.owner[h] = None /\ \A k \in House : k # h => d.owner[k] = b.owner[k]
    BY <1>1, <1>2 DEF EstateType, SameBeds, SameDeals
  <1>4. AllInvited(d)
    BY <1>2, <1>3 DEF AgreesBut, AllInvited, NobodyIn, IsInvited, GetHouseAccessLevel
  <1>5. BedsMatch(d) /\ CleanBut(d, {h}) /\ OneEachBut(d, {})
    BY <1>3 DEF AgreesBut, BedsMatch, CleanBut, OneEachBut, SameBeds, SameDeals
  <1> QED
    BY <1>1, <1>3, <1>4, <1>5 DEF AgreesBut

LEMMA VacateAgrees ==
    ASSUME NEW b, AgreesBut(b, {}, {}), NEW h \in House
    PROVE  LET d == Vacate(b, h)
           IN /\ AgreesBut(d, {}, {}) /\ SameDeals(b, d)
              /\ d.owner = [b.owner EXCEPT ![h] = None]
              /\ NobodyIn(d, h) /\ d.list[h] = NoLists
  <1> DEFINE kicked == ToEntry(b, Inside(b, h))
             woken == IF kicked.sleeper[h] # None THEN WakeUp(kicked, h) ELSE kicked
             left == [woken EXCEPT !.owner[h] = None]
             one == SetAccessList(left, h, "subowner", {})
             two == SetAccessList(one, h, "guest", {})
  <1>1. Vacate(b, h) = two
    BY DEF Vacate
  <1>2. /\ AgreesBut(kicked, {}, {}) /\ NobodyIn(kicked, h)
        /\ kicked.owner = b.owner /\ SameDeals(b, kicked)
    <2>1. b \in EstateType /\ b.online \subseteq Player
      BY DEF AgreesBut, EstateType
    <2>2. \A p \in b.online : p \in Inside(b, h) <=> b.at[p] = h
      BY DEF Inside
    <2> QED
      BY <2>1, <2>2, ToEntryAgrees, ToEntryEffect, HousesAssumption DEF NobodyIn, SameEstate
  <1> HIDE DEF kicked
  <1>3. /\ AgreesBut(woken, {}, {}) /\ NobodyIn(woken, h) /\ woken.sleeper[h] = None
        /\ woken.owner = b.owner /\ SameDeals(b, woken)
    <2>1. kicked \in EstateType
      BY <1>2 DEF AgreesBut
    <2>2. kicked.sleeper[h] # None => AgreesBut(WakeUp(kicked, h), {}, {})
      BY <1>2, <2>1, WakeUpAgrees DEF AgreesBut, BedsMatch
    <2> QED
      BY <1>2, <2>1, <2>2, WakeUpEffect DEF NobodyIn, SameEstate, SameDeals
  <1> HIDE DEF woken
  <1>4. /\ AgreesBut(left, {h}, {}) /\ left.sleeper[h] = None
        /\ left.owner = [b.owner EXCEPT ![h] = None] /\ SameDeals(b, left)
    <2>1. /\ AgreesBut(left, {h}, {}) /\ SameBeds(woken, left) /\ SameDeals(woken, left)
          /\ left.owner = [woken.owner EXCEPT ![h] = None]
      BY <1>3, DisownAgrees
    <2> HIDE DEF left
    <2> QED
      BY <1>3, <2>1 DEF SameBeds, SameDeals
  <1>5. left.online = woken.online /\ left.at = woken.at
    BY <1>3 DEF AgreesBut, EstateType
  <1>6. NobodyIn(left, h) /\ left \in EstateType
    BY <1>3, <1>4, <1>5 DEF NobodyIn, AgreesBut
  <1> HIDE DEF left
  <1>7. {"guest", "subowner"} = ListId /\ {} \in SUBSET Player
    BY DEF ListId
  <1>8. /\ AgreesBut(one, {h}, {}) /\ one.sleeper[h] = None /\ one.list[h]["subowner"] = {}
        /\ one.owner = [b.owner EXCEPT ![h] = None] /\ SameDeals(b, one) /\ NobodyIn(one, h)
    <2>1. AgreesBut(one, {h}, {})
      BY <1>4, <1>7, SetAccessListAgrees
    <2>2. /\ SameBeds(left, one) /\ SameDeals(left, one) /\ one.owner = left.owner
          /\ one.online = left.online /\ one.list[h]["subowner"] = {}
          /\ \A p \in Player : one.at[p] \in {left.at[p], "outside"}
      BY <1>6, <1>7, SetAccessListEffect
    <2>3. NobodyIn(one, h)
      BY <1>6, <2>2, HousesAssumption DEF NobodyIn, EstateType
    <2> QED
      BY <1>4, <2>1, <2>2, <2>3 DEF SameBeds, SameDeals
  <1> HIDE DEF one
  <1>9. /\ AgreesBut(two, {h}, {}) /\ two.sleeper[h] = None
        /\ two.list[h]["subowner"] = {} /\ two.list[h]["guest"] = {}
        /\ two.owner = [b.owner EXCEPT ![h] = None] /\ SameDeals(b, two) /\ NobodyIn(two, h)
    <2>0. one \in EstateType
      BY <1>8 DEF AgreesBut
    <2>1. AgreesBut(two, {h}, {})
      BY <1>7, <1>8, SetAccessListAgrees
    <2>2. /\ SameBeds(one, two) /\ SameDeals(one, two) /\ two.owner = one.owner
          /\ two.online = one.online /\ two.list[h]["guest"] = {}
          /\ two.list[h]["subowner"] = one.list[h]["subowner"]
          /\ \A p \in Player : two.at[p] \in {one.at[p], "outside"}
      BY <2>0, <1>7, SetAccessListEffect
    <2>3. NobodyIn(two, h)
      BY <1>8, <2>0, <2>2, HousesAssumption DEF NobodyIn, EstateType
    <2> QED
      BY <1>8, <2>1, <2>2, <2>3 DEF SameBeds, SameDeals
  <1> HIDE DEF two
  <1>10. two.list[h] = NoLists
    <2>1. two.list[h] \in [ListId -> SUBSET Player]
      BY <1>9 DEF AgreesBut, EstateType
    <2> QED
      BY <1>7, <1>9, <2>1 DEF NoLists
  <1>11. AgreesBut(two, {}, {})
    BY <1>9, <1>10 DEF AgreesBut, CleanBut
  <1> QED
    BY <1>1, <1>9, <1>10, <1>11

(***************************************************************************)
(* A house gets an owner.                                                  *)
(***************************************************************************)
LEMMA OwnAgrees ==
    ASSUME NEW b, AgreesBut(b, {}, {}), NEW h \in House, b.owner[h] = None, NEW p \in Player
    PROVE  LET d == [b EXCEPT !.owner[h] = p]
           IN AgreesBut(d, {}, IF Owns(b, p) THEN {p} ELSE {}) /\ SameDeals(b, d)
  <1>1. PICK d : d = [b EXCEPT !.owner[h] = p]
    OBVIOUS
  <1>2. b \in EstateType
    BY DEF AgreesBut
  <1>3. /\ d \in EstateType /\ SameBeds(b, d) /\ SameDeals(b, d) /\ d.list = b.list
        /\ d.online = b.online /\ d.kicks = b.kicks /\ d.at = b.at
        /\ d.owner[h] = p /\ \A k \in House : k # h => d.owner[k] = b.owner[k]
    BY <1>1, <1>2 DEF EstateType, SameBeds, SameDeals
  <1>4. b.list[h] = NoLists
    BY DEF AgreesBut, CleanBut
  <1>5. AllInvited(d)
    <2> SUFFICES ASSUME NEW q \in d.online, d.at[q] \in House
                 PROVE  IsInvited(d, d.at[q], q) \/ q \in d.kicks
      BY DEF AllInvited
    <2>1. IsInvited(b, b.at[q], q) \/ q \in b.kicks
      BY <1>3 DEF AgreesBut, AllInvited
    <2>2. b.at[q] = h => ~IsInvited(b, h, q)
      <3>1. q # None
        BY <1>2, <1>3, HousesAssumption DEF EstateType
      <3> QED
        BY <1>4, <3>1 DEF IsInvited, GetHouseAccessLevel, NoLists, ListId
    <2> QED
      BY <1>3, <2>1, <2>2 DEF IsInvited, GetHouseAccessLevel
  <1>6. BedsMatch(d) /\ CleanBut(d, {})
    BY <1>3, HousesAssumption DEF AgreesBut, BedsMatch, CleanBut, SameBeds
  <1>7. OneEachBut(d, IF Owns(b, p) THEN {p} ELSE {})
    BY <1>3 DEF AgreesBut, OneEachBut, SameDeals, Owns
  <1> QED
    BY <1>1, <1>3, <1>5, <1>6, <1>7 DEF AgreesBut

LEMMA SetOwnerAgrees ==
    ASSUME NEW b, AgreesBut(b, {}, {}), NEW h \in House, NEW p \in Player \cup {None}
    PROVE  /\ AgreesBut(SetOwner(b, h, p), {}, IF p # None /\ Owns(b, p) THEN {p} ELSE {})
           /\ SameDeals(b, SetOwner(b, h, p))
  <1> DEFINE vacated == IF b.owner[h] # None THEN Vacate(b, h) ELSE b
  <1>1. ASSUME NEW P
        PROVE  AgreesBut(b, {}, {}) => AgreesBut(b, {}, P)
    BY DEF AgreesBut, OneEachBut
  <1>2. CASE b.owner[h] = p
    BY <1>1, <1>2 DEF SetOwner, SameDeals
  <1>3. CASE b.owner[h] # p
    <2>2. AgreesBut(vacated, {}, {}) /\ SameDeals(b, vacated) /\ vacated.owner[h] = None
      <3>1. h \in DOMAIN b.owner
        BY DEF AgreesBut, EstateType
      <3> QED
        BY <3>1, VacateAgrees DEF SameDeals
    <2>3. p # None => (Owns(vacated, p) => Owns(b, p))
      <3>1. b.owner \in [House -> Player \cup {None}]
        BY DEF AgreesBut, EstateType
      <3>2. vacated.owner = [b.owner EXCEPT ![h] = None] \/ vacated.owner = b.owner
        BY VacateAgrees
      <3> HIDE DEF vacated
      <3> QED
        BY <3>1, <3>2 DEF Owns
    <2>4. SetOwner(b, h, p) = [vacated EXCEPT !.owner[h] = p]
      BY <1>3 DEF SetOwner
    <2> HIDE DEF vacated
    <2>5. CASE p = None
      <3>1. [vacated EXCEPT !.owner[h] = p] = vacated
        BY <2>2, <2>5 DEF AgreesBut, EstateType
      <3> QED
        BY <1>1, <2>2, <2>4, <2>5, <3>1
    <2>6. CASE p # None
      <3>1. /\ AgreesBut([vacated EXCEPT !.owner[h] = p], {}, IF Owns(vacated, p) THEN {p} ELSE {})
            /\ SameDeals(vacated, [vacated EXCEPT !.owner[h] = p])
        BY <2>2, <2>6, OwnAgrees
      <3> QED
        BY <2>2, <2>3, <2>4, <2>6, <3>1 DEF AgreesBut, OneEachBut, SameDeals
    <2> QED
      BY <2>5, <2>6
  <1> QED
    BY <1>2, <1>3

\* A document that is no longer true is the one way to a second house.
LEMMA ExecuteTransferAgrees ==
    ASSUME NEW b, AgreesBut(b, {}, {}), NEW h \in House, b.doc[h] # None
    PROVE  AgreesBut(ExecuteTransfer(b, h), {}, {})
  <1> DEFINE to == b.doc[h].to
             stale == b.owner[h] # b.doc[h].from \/ Owns(b, to)
             s == SetOwner(b, h, to)
             d == [s EXCEPT !.doc[h] = None, !.late = IF stale THEN @ \cup {to} ELSE @]
  <1>1. to \in Player /\ to # None
    BY HousesAssumption DEF AgreesBut, EstateType, Document
  <1>2. ExecuteTransfer(b, h) = d
    BY DEF ExecuteTransfer
  <1>3. AgreesBut(s, {}, IF Owns(b, to) THEN {to} ELSE {}) /\ SameDeals(b, s)
    BY <1>1, SetOwnerAgrees
  <1>4. Owns(b, to) => stale
    OBVIOUS
  <1> HIDE DEF to, stale, s
  <1>5. s \in EstateType
    BY <1>3 DEF AgreesBut
  <1>6. /\ d \in EstateType /\ SameEstate(s, d) /\ SameBeds(s, d)
        /\ d.online = s.online /\ d.kicks = s.kicks /\ d.at = s.at
        /\ d.late = IF stale THEN s.late \cup {to} ELSE s.late
    BY <1>1, <1>5 DEF EstateType, SameEstate, SameBeds
  <1> HIDE DEF d
  <1>7. AllInvited(d) /\ BedsMatch(d) /\ CleanBut(d, {})
    BY <1>3, <1>6 DEF AgreesBut, AllInvited, BedsMatch, CleanBut, IsInvited, GetHouseAccessLevel,
                      SameEstate, SameBeds
  <1>8. OneEachBut(d, {})
    BY <1>3, <1>4, <1>6 DEF AgreesBut, OneEachBut, SameEstate
  <1> QED
    BY <1>2, <1>6, <1>7, <1>8 DEF AgreesBut

LEMMA LogOutAgrees ==
    ASSUME NEW b, AgreesBut(b, {}, {}), NEW p \in Player
    PROVE  AgreesBut(LogOut(b, p), {}, {})
  <1> DEFINE f == [h \in House |-> IF b.doc[h] # None /\ p \in {b.doc[h].from, b.doc[h].to}
                                   THEN None ELSE b.doc[h]]
             d == [b EXCEPT !.doc = f, !.online = b.online \ {p}, !.kicks = b.kicks \ {p}]
  <1>1. b \in EstateType
    BY DEF AgreesBut
  <1>2. f \in [House -> Document \cup {None}]
    BY <1>1 DEF EstateType
  <1>3. LogOut(b, p) = d
    BY <1>1 DEF LogOut, EstateType
  <1> HIDE DEF f
  <1>4. /\ d \in EstateType /\ SameEstate(b, d) /\ SameBeds(b, d) /\ d.at = b.at /\ d.late = b.late
        /\ d.online = b.online \ {p} /\ d.kicks = b.kicks \ {p}
    BY <1>1, <1>2 DEF EstateType, SameEstate, SameBeds
  <1> HIDE DEF d
  <1> QED
    BY <1>3, <1>4 DEF AgreesBut, AllInvited, BedsMatch, CleanBut, OneEachBut, IsInvited,
                      GetHouseAccessLevel, SameEstate, SameBeds

\* Who logs in wakes up: nobody is awake in a bed.
LEMMA LogInAgrees ==
    ASSUME NEW b, AgreesBut(b, {}, {}), NEW p \in Player, p \notin b.online
    PROVE  AgreesBut(LogIn(b, p), {}, {})
  <1> DEFINE to == IF b.at[p] \in House /\ ~IsInvited(b, b.at[p], p) THEN "outside" ELSE b.at[p]
             d == [b EXCEPT !.online = @ \cup {p}, !.at[p] = to]
             e == LogIn(b, p)
  <1>1. b \in EstateType
    BY DEF AgreesBut
  <1>2. to \in House \cup {"outside"} /\ (to \in House => to = b.at[p] /\ IsInvited(b, to, p))
    BY <1>1, HousesAssumption DEF EstateType
  <1>3. LogIn(b, p) = IF b.map[p] # None THEN WakeUp(d, b.map[p]) ELSE d
    BY DEF LogIn
  <1> HIDE DEF to
  <1>4. /\ d \in EstateType /\ SameEstate(b, d) /\ SameBeds(b, d) /\ SameDeals(b, d)
        /\ d.online = b.online \cup {p} /\ d.kicks = b.kicks
        /\ d.at[p] = to /\ \A q \in Player : q # p => d.at[q] = b.at[q]
    BY <1>1, <1>2 DEF EstateType, SameEstate, SameBeds, SameDeals
  <1> HIDE DEF d, e
  <1>5. AllInvited(d)
    <2> SUFFICES ASSUME NEW q \in d.online, d.at[q] \in House
                 PROVE  IsInvited(d, d.at[q], q) \/ q \in d.kicks
      BY DEF AllInvited
    <2>1. CASE q = p
      BY <1>2, <1>4, <2>1 DEF IsInvited, GetHouseAccessLevel, SameEstate
    <2>2. CASE q # p
      <3>1. q \in b.online /\ d.at[q] = b.at[q]
        BY <1>1, <1>4, <2>2 DEF EstateType
      <3>2. IsInvited(b, b.at[q], q) \/ q \in b.kicks
        BY <3>1 DEF AgreesBut, AllInvited
      <3> QED
        BY <1>4, <3>1, <3>2 DEF IsInvited, GetHouseAccessLevel, SameEstate
    <2> QED
      BY <2>1, <2>2
  <1>6. CleanBut(d, {}) /\ OneEachBut(d, {})
    BY <1>4 DEF AgreesBut, CleanBut, OneEachBut, SameEstate, SameBeds, SameDeals
  <1>7. /\ \A q \in Player, h \in House : d.map[q] = h <=> d.sleeper[h] = q
        /\ \A h \in House : d.sleeper[h] # None => d.sleeper[h] = p \/ d.sleeper[h] \notin d.online \/ d.sleeper[h] \in d.kicks
    BY <1>4 DEF AgreesBut, BedsMatch, SameBeds
  <1>8. d.map[p] = b.map[p] /\ b.map[p] \in House \cup {None}
    BY <1>1, <1>4 DEF EstateType, SameBeds
  <1>9. CASE b.map[p] = None
    <2>1. \A h \in House : d.sleeper[h] # p
      BY <1>7, <1>8, <1>9, HousesAssumption
    <2>2. BedsMatch(d)
      BY <1>7, <2>1 DEF BedsMatch
    <2> QED
      BY <1>3, <1>4, <1>5, <1>6, <1>9, <2>2 DEF AgreesBut
  <1>10. CASE b.map[p] # None
    <2> DEFINE h == b.map[p]
    <2>1. h \in House /\ d.sleeper[h] = p /\ \A k \in House : d.sleeper[k] = p => k = h
      BY <1>7, <1>8, <1>10
    <2>2. LogIn(b, p) = WakeUp(d, h)
      BY <1>3, <1>10
    <2> HIDE DEF h
    <2> QED
      BY <1>4, <1>5, <1>6, <1>7, <2>1, <2>2, WakeUpAgrees, HousesAssumption
  <1> QED
    BY <1>9, <1>10

LEMMA SleepAgrees ==
    ASSUME NEW b, AgreesBut(b, {}, {}), NEW h \in House, b.sleeper[h] = None,
           NEW p \in b.online, p \notin b.kicks
    PROVE  AgreesBut(Sleep(b, h, p), {}, {})
  <1> DEFINE out == IF IsInvited(b, h, p) THEN b.out ELSE b.out \cup {p}
             d == [b EXCEPT !.sleeper[h] = p, !.map[p] = h, !.at[p] = h, !.kicks = b.kicks \cup {p}, !.out = out]
  <1>1. b \in EstateType /\ p \in Player /\ p # None /\ out \in SUBSET Player
    BY HousesAssumption DEF AgreesBut, EstateType
  <1>2. Sleep(b, h, p) = d
    BY <1>1 DEF Sleep, EstateType
  <1>3. IsInvited(b, h, p) \/ p \in out
    OBVIOUS
  <1>4. b.out \subseteq out
    OBVIOUS
  <1> HIDE DEF out
  <1>5. /\ d \in EstateType /\ SameEstate(b, d) /\ SameDeals(b, d) /\ d.online = b.online
        /\ d.kicks = b.kicks \cup {p} /\ d.out = out
        /\ d.sleeper[h] = p /\ \A k \in House : k # h => d.sleeper[k] = b.sleeper[k]
        /\ d.map[p] = h /\ \A q \in Player : q # p => d.map[q] = b.map[q]
        /\ d.at[p] = h /\ \A q \in Player : q # p => d.at[q] = b.at[q]
    BY <1>1 DEF EstateType, SameEstate, SameDeals
  <1> HIDE DEF d
  <1>6. \A k \in House : b.sleeper[k] # p
    BY <1>1 DEF AgreesBut, BedsMatch
  <1>7. \A q \in Player : q # p => b.map[q] # h
    BY <1>1, HousesAssumption DEF AgreesBut, BedsMatch
  <1>8. BedsMatch(d)
    BY <1>1, <1>5, <1>6, <1>7 DEF AgreesBut, BedsMatch
  <1>9. AllInvited(d)
    BY <1>1, <1>5 DEF AgreesBut, AllInvited, IsInvited, GetHouseAccessLevel, SameEstate, EstateType
  <1>10. CleanBut(d, {})
    <2>1. b.owner[h] = None => ~IsInvited(b, h, p)
      BY <1>1 DEF AgreesBut, CleanBut, IsInvited, GetHouseAccessLevel, NoLists, ListId
    <2> QED
      BY <1>3, <1>4, <1>5, <2>1 DEF AgreesBut, CleanBut, SameEstate
  <1>11. OneEachBut(d, {})
    BY <1>5 DEF AgreesBut, OneEachBut, SameEstate, SameDeals
  <1> QED
    BY <1>2, <1>5, <1>8, <1>9, <1>10, <1>11 DEF AgreesBut

-----------------------------------------------------------------------------
(***************************************************************************)
(* The invariant holds at the start and every step keeps it.               *)
(***************************************************************************)
LEMMA EnactInv == ASSUME NEW d, AgreesBut(d, {}, {}), Enact(d) PROVE HousesInv'
  <1>1. d \in EstateType
    BY DEF AgreesBut
  <1>2. Estate' = d
    BY <1>1 DEF Enact, Estate, EstateType
  <1> QED
    BY <1>2 DEF HousesInv

LEMMA HousesInitInv == HousesInit => HousesInv
  <1> SUFFICES ASSUME HousesInit PROVE HousesInv
    OBVIOUS
  <1>1. /\ Estate \in EstateType /\ Estate.kicks = {}
        /\ \A h \in House : Estate.owner[h] = None /\ Estate.list[h] = NoLists /\ Estate.sleeper[h] = None
        /\ \A p \in Player : Estate.at[p] = "outside" /\ Estate.map[p] = None
    BY DEF HousesInit, Estate, EstateType, NoLists
  <1>2. AllInvited(Estate)
    BY <1>1, HousesAssumption DEF AllInvited, EstateType
  <1>3. BedsMatch(Estate) /\ CleanBut(Estate, {}) /\ OneEachBut(Estate, {})
    BY <1>1, HousesAssumption DEF BedsMatch, CleanBut, OneEachBut
  <1> QED
    BY <1>1, <1>2, <1>3 DEF HousesInv, AgreesBut

LEMMA HousesStepInv == ASSUME HousesInv, [HousesNext]_housesVars PROVE HousesInv'
  <1>1. AgreesBut(Estate, {}, {}) /\ Estate \in EstateType /\ online \subseteq Player
    BY DEF HousesInv, AgreesBut, EstateType, Estate
  <1>2. /\ Estate.online = online /\ Estate.at = whereIs /\ Estate.owner = owner /\ Estate.kicks = kicks
        /\ Estate.sleeper = sleeper /\ Estate.doc = transferItem /\ Estate.list = lists
    BY DEF Estate
  <1>3. ASSUME NEW p \in Player, PlayerLeaves(p) \/ PlayerLogsOut(p) \/ PlayerLogsIn(p) \/ KickSleeper(p)
        PROVE  HousesInv'
    <2>1. CASE PlayerLeaves(p)
      <3>1. [Estate EXCEPT !.at[p] = "outside"] = ToEntry(Estate, {p})
        BY <1>1 DEF ToEntry, EstateType
      <3> QED
        BY <1>1, <2>1, <3>1, ToEntryAgrees, EnactInv DEF PlayerLeaves
    <2> QED
      BY <1>1, <1>2, <1>3, <2>1, LogOutAgrees, LogInAgrees, EnactInv
         DEF PlayerLogsOut, PlayerLogsIn, KickSleeper
  <1>4. ASSUME NEW p \in Player, NEW h \in House, BuyHouse(p, h) \/ LeaveHouse(p, h)
        PROVE  HousesInv'
    BY <1>1, <1>2, <1>4, SetOwnerAgrees, EnactInv DEF BuyHouse, LeaveHouse
  <1>5. ASSUME NEW b, AgreesBut(b, {}, {}), NEW d \in EstateType,
               SameEstate(b, d), SameBeds(b, d), d.late = b.late,
               d.online = b.online, d.kicks = b.kicks, d.at = b.at
        PROVE  AgreesBut(d, {}, {})
    BY <1>5 DEF AgreesBut, AllInvited, BedsMatch, CleanBut, OneEachBut, IsInvited, GetHouseAccessLevel,
                SameEstate, SameBeds
  <1>6. ASSUME NEW p \in Player, NEW t \in Player, NEW h \in House, StartTrade(p, t, h)
        PROVE  HousesInv'
    <2>1. PICK d : d = [Estate EXCEPT !.doc[h] = [from |-> p, to |-> t]]
      OBVIOUS
    <2>2. d \in EstateType /\ SameEstate(Estate, d) /\ SameBeds(Estate, d) /\ d.late = Estate.late
          /\ d.online = Estate.online /\ d.kicks = Estate.kicks /\ d.at = Estate.at
      BY <1>1, <2>1 DEF EstateType, Document, SameEstate, SameBeds
    <2> QED
      BY <1>1, <1>5, <1>6, <2>1, <2>2, EnactInv DEF StartTrade
  <1>7. ASSUME NEW h \in House, AcceptTrade(h) \/ CloseTrade(h)
        PROVE  HousesInv'
    <2>1. CASE AcceptTrade(h)
      BY <1>1, <1>2, <2>1, ExecuteTransferAgrees, EnactInv DEF AcceptTrade
    <2>2. CASE CloseTrade(h)
      <3>1. PICK d : d = ResetTransferItem(Estate, h)
        OBVIOUS
      <3>2. d \in EstateType /\ SameEstate(Estate, d) /\ SameBeds(Estate, d) /\ d.late = Estate.late
            /\ d.online = Estate.online /\ d.kicks = Estate.kicks /\ d.at = Estate.at
        BY <1>1, <3>1 DEF ResetTransferItem, EstateType, SameEstate, SameBeds
      <3> QED
        BY <1>1, <1>5, <2>2, <3>1, <3>2, EnactInv DEF CloseTrade
    <2> QED
      BY <1>7, <2>1, <2>2
  <1>8. ASSUME NEW p \in Player, NEW h \in House, PlayerEnters(p, h)
        PROVE  HousesInv'
    <2>1. PICK d : d = [Estate EXCEPT !.at[p] = h]
      OBVIOUS
    <2>2. /\ d \in EstateType /\ SameEstate(Estate, d) /\ SameBeds(Estate, d) /\ SameDeals(Estate, d)
          /\ d.online = Estate.online /\ d.kicks = Estate.kicks
          /\ d.at[p] = h /\ \A q \in Player : q # p => d.at[q] = Estate.at[q]
      BY <1>1, <2>1 DEF EstateType, SameEstate, SameBeds, SameDeals
    <2>3. AllInvited(d)
      BY <1>1, <1>8, <2>2 DEF AgreesBut, AllInvited, PlayerEnters, IsInvited, GetHouseAccessLevel,
                              SameEstate, EstateType
    <2>4. BedsMatch(d) /\ CleanBut(d, {}) /\ OneEachBut(d, {})
      BY <1>1, <2>2 DEF AgreesBut, BedsMatch, CleanBut, OneEachBut, SameEstate, SameBeds, SameDeals
    <2>5. AgreesBut(d, {}, {})
      BY <2>2, <2>3, <2>4 DEF AgreesBut
    <2> QED
      BY <1>8, <2>1, <2>5, EnactInv DEF PlayerEnters
  <1>9. ASSUME NEW p \in Player, NEW h \in House, UseBed(p, h)
        PROVE  HousesInv'
    BY <1>1, <1>2, <1>9, SleepAgrees, EnactInv DEF UseBed
  <1>10. ASSUME NEW p, NEW t, NEW h, KickGuest(p, t, h)
        PROVE  HousesInv'
    BY <1>1, <1>10, ToEntryAgrees, EnactInv DEF KickGuest
  <1>11. ASSUME NEW p \in Player, NEW h \in House, NEW l \in ListId, NEW ps \in SUBSET Player,
                PlayerUpdateHouseWindow(p, h, l, ps)
        PROVE  HousesInv'
    <2>1. GetHouseAccessLevel(Estate, h, p) # 0
      BY <1>11 DEF PlayerUpdateHouseWindow, CanEditAccessList
    <2>2. Estate.owner[h] # None
      BY <1>1, <2>1, HousesAssumption DEF AgreesBut, CleanBut, GetHouseAccessLevel, NoLists, ListId
    <2> QED
      BY <1>1, <1>11, <2>2, SetAccessListAgrees, EnactInv DEF PlayerUpdateHouseWindow
  <1>12. CASE UNCHANGED housesVars
    BY <1>12 DEF housesVars, HousesInv, Estate
  <1> QED
    BY <1>3, <1>4, <1>6, <1>7, <1>8, <1>9, <1>10, <1>11, <1>12, HousesAssumption DEF HousesNext

(***************************************************************************)
(* Owners, lists, beds and the people in houses agree, however visits,     *)
(* sales, edits, naps and logins follow each other.                        *)
(***************************************************************************)
THEOREM HousesCorrect == HousesSpec => []HousesAgree
  <1>1. HousesInv /\ [HousesNext]_housesVars => HousesInv'
    BY HousesStepInv
  <1>2. HousesInv => HousesAgree
    <2> SUFFICES ASSUME HousesInv PROVE HousesAgree
      OBVIOUS
    <2>1. InsideAreInvited
      BY DEF HousesInv, AgreesBut, AllInvited, InsideAreInvited, Estate
    <2>2. SleepersAgree
      BY DEF HousesInv, AgreesBut, BedsMatch, SleepersAgree, Estate
    <2>3. VacatedIsClean
      BY DEF HousesInv, AgreesBut, CleanBut, VacatedIsClean, Estate
    <2>4. OneHouseEach
      BY DEF HousesInv, AgreesBut, OneEachBut, OneHouseEach, Estate
    <2> QED
      BY <2>1, <2>2, <2>3, <2>4 DEF HousesAgree
  <1> QED
    BY <1>1, <1>2, HousesInitInv, PTL DEF HousesSpec

-----------------------------------------------------------------------------
(***************************************************************************)
(* Chat.                                                                   *)
(***************************************************************************)

(***************************************************************************)
(* The inductive invariant, of the books b.                                *)
(***************************************************************************)
Channel == [owner : Player \cup {None}, invites : SUBSET Player, users : SUBSET Player]
Channels ==
    [public : SUBSET Player, party : [Address -> SUBSET Player], guild : [GuildId -> SUBSET Player],
     private : [PrivateId -> Channel]]
RoomsType ==
    [in : SUBSET Player, client : SUBSET Player,
     party : [Player -> Address \cup {None}], guild : [Player -> GuildId \cup {None}],
     members : [GuildId -> SUBSET Player],
     ch : Channels, win : [Player -> SUBSET (Kind \cup PrivateId)],
     apart : SUBSET Player, kept : SUBSET (GuildId \X Player)]

\* Whether player p listens anywhere.
ListensNowhere(ch, p) ==
    /\ p \notin ch.public
    /\ \A x \in Address : p \notin ch.party[x]
    /\ \A i \in GuildId : p \notin ch.guild[i]
    /\ \A n \in PrivateId : p \notin ch.private[n].users /\ p \notin ch.private[n].invites
UsersInGame(b) == \A p \in Player \ b.in : ListensNowhere(b.ch, p)

GuildsAgree(b) ==
    \A i \in GuildId, p \in Player :
        /\ b.guild[p] = i => p \in b.members[i]
        /\ p \in b.members[i] => p \in b.in /\ (b.guild[p] = i \/ <<i, p>> \in b.kept)

\* A player has at most one private channel.
Owned(ch) ==
    /\ \A n \in PrivateId :
          IF ch.private[n].owner = None THEN ch.private[n] = NoChannel
          ELSE /\ ch.private[n].owner \in ch.private[n].users
               /\ ch.private[n].users \subseteq {ch.private[n].owner} \cup ch.private[n].invites
    /\ \A n, m \in PrivateId : ch.private[n].owner = ch.private[m].owner /\ ch.private[n].owner # None => n = m

\* Who has no client has no windows.
Clients(b) == b.client \subseteq b.in /\ \A p \in Player \ b.client : b.win[p] = {}

HeardBy(b, p) ==
    /\ "public" \in b.win[p] <=> p \in b.ch.public
    /\ "party" \in b.win[p] <=> \E x \in Address : p \in b.ch.party[x]
    /\ "guild" \in b.win[p] <=> \E i \in GuildId : p \in b.ch.guild[i]
    /\ \A n \in PrivateId : n \in b.win[p] <=> p \in b.ch.private[n].users
    /\ \A x \in Address : p \in b.ch.party[x] => b.party[p] = x
    /\ \A i \in GuildId : p \in b.ch.guild[i] => b.guild[p] = i
Heard(b) == \A p \in b.client \ b.apart : HeardBy(b, p)

RoomsAgree(b) ==
    b \in RoomsType /\ UsersInGame(b) /\ GuildsAgree(b) /\ Owned(b.ch) /\ Clients(b) /\ Heard(b)
ChatInv == RoomsAgree(Rooms)

-----------------------------------------------------------------------------
(***************************************************************************)
(* What each function of the code does.                                    *)
(***************************************************************************)
SamePeople(b, d) == d.in = b.in /\ d.client = b.client
SameGuilds(b, d) == d.guild = b.guild /\ d.members = b.members /\ d.kept = b.kept

LEMMA LeavePartyEffect ==
    ASSUME NEW b \in RoomsType, NEW p \in Player
    PROVE  LET d == LeaveParty(b, p)
           IN /\ d \in RoomsType /\ SamePeople(b, d) /\ SameGuilds(b, d) /\ d.ch = b.ch
              /\ d.party[p] = None /\ d.win[p] = b.win[p] \ {"party"}
              /\ \A q \in Player : q # p => d.party[q] = b.party[q] /\ d.win[q] = b.win[q]
              /\ b.apart \subseteq d.apart /\ \A q \in Player : q # p => (q \in d.apart => q \in b.apart)
              /\ b.party[p] # None /\ p \in b.ch.party[b.party[p]] => p \in d.apart
  <1> DEFINE e == [b EXCEPT !.party[p] = None]
             f == [q \in Player |-> IF q \in {p} THEN e.win[q] \ {"party"} ELSE e.win[q]]
             h == [e EXCEPT !.win = f]
             listens == b.party[p] # None /\ p \in b.ch.party[b.party[p]]
             d == LeaveParty(b, p)
  <1>1. /\ e \in RoomsType /\ SamePeople(b, e) /\ SameGuilds(b, e) /\ e.ch = b.ch
        /\ e.win = b.win /\ e.apart = b.apart /\ e.party[p] = None
        /\ \A q \in Player : q # p => e.party[q] = b.party[q]
    BY DEF RoomsType, SamePeople, SameGuilds
  <1>2. RemoveUserFromChannel(e, p, "party") = e
    BY <1>1 DEF RemoveUserFromChannel, Found
  <1>3. SendClosePrivate(e, p, "party") = h
    BY <1>2 DEF SendClosePrivate, Hide
  <1>4. d = IF listens THEN [h EXCEPT !.apart = @ \cup {p}] ELSE h
    BY <1>3 DEF LeaveParty
  <1> HIDE DEF e
  <1>5. /\ f \in [Player -> SUBSET (Kind \cup PrivateId)]
        /\ f[p] = e.win[p] \ {"party"} /\ \A q \in Player : q # p => f[q] = e.win[q]
    BY <1>1 DEF RoomsType
  <1> HIDE DEF f, listens
  <1>6. /\ h \in RoomsType /\ SamePeople(e, h) /\ SameGuilds(e, h) /\ h.ch = e.ch
        /\ h.win = f /\ h.apart = e.apart /\ h.party = e.party
    BY <1>1, <1>5 DEF RoomsType, SamePeople, SameGuilds
  <1> HIDE DEF h, d
  <1>7. /\ d \in RoomsType /\ SamePeople(h, d) /\ SameGuilds(h, d) /\ d.ch = h.ch
        /\ d.win = h.win /\ d.party = h.party
        /\ d.apart = IF listens THEN h.apart \cup {p} ELSE h.apart
    BY <1>4, <1>6 DEF RoomsType, SamePeople, SameGuilds
  <1>8. SamePeople(b, d) /\ SameGuilds(b, d)
    BY <1>1, <1>6, <1>7 DEF SamePeople, SameGuilds
  <1> QED
    BY <1>1, <1>5, <1>6, <1>7, <1>8 DEF d, listens

\* He is told to close the channel of his party and stays in it.
LEMMA LeavePartyAgrees ==
    ASSUME NEW b, RoomsAgree(b), NEW p \in Player
    PROVE  RoomsAgree(LeaveParty(b, p))
  <1>1. PICK d : d = LeaveParty(b, p)
    OBVIOUS
  <1>2. b \in RoomsType
    BY DEF RoomsAgree
  <1>3. /\ d \in RoomsType /\ SamePeople(b, d) /\ SameGuilds(b, d) /\ d.ch = b.ch
        /\ d.party[p] = None /\ d.win[p] = b.win[p] \ {"party"}
        /\ \A q \in Player : q # p => d.party[q] = b.party[q] /\ d.win[q] = b.win[q]
        /\ b.apart \subseteq d.apart /\ \A q \in Player : q # p => (q \in d.apart => q \in b.apart)
        /\ b.party[p] # None /\ p \in b.ch.party[b.party[p]] => p \in d.apart
    BY <1>1, <1>2, LeavePartyEffect
  <1>4. UsersInGame(d) /\ GuildsAgree(d) /\ Owned(d.ch) /\ Clients(d)
    BY <1>3 DEF RoomsAgree, UsersInGame, GuildsAgree, Clients, SamePeople, SameGuilds
  <1>5. Heard(d)
    <2> SUFFICES ASSUME NEW q \in d.client \ d.apart
                 PROVE  HeardBy(d, q)
      BY DEF Heard
    <2>1. q \in Player /\ HeardBy(b, q)
      BY <1>3 DEF RoomsAgree, Heard, SamePeople, RoomsType
    <2>2. CASE q # p
      BY <1>3, <2>1, <2>2 DEF HeardBy, SameGuilds
    <2>3. CASE q = p
      <3>1. \A x \in Address : p \notin b.ch.party[x]
        BY <1>3, <2>1, <2>3, ChatAssumption DEF HeardBy
      <3>2. "public" \in d.win[p] <=> p \in d.ch.public
        BY <1>3, <2>1, <2>3 DEF HeardBy
      <3>3. \A n \in PrivateId : n \in d.win[p] <=> p \in d.ch.private[n].users
        BY <1>3, <2>1, <2>3, ChatAssumption DEF HeardBy
      <3>4. "guild" \in d.win[p] <=> \E i \in GuildId : p \in d.ch.guild[i]
        BY <1>3, <2>1, <2>3 DEF HeardBy
      <3> QED
        BY <1>3, <2>1, <2>3, <3>1, <3>2, <3>3, <3>4 DEF HeardBy, SameGuilds
    <2> QED
      BY <2>2, <2>3
  <1> QED
    BY <1>1, <1>3, <1>4, <1>5 DEF RoomsAgree

(***************************************************************************)
(* Windows and private channels.                                           *)
(***************************************************************************)
SameChannels(b, d) == d.ch = b.ch /\ d.party = b.party

LEMMA HideEffect ==
    ASSUME NEW b \in RoomsType, NEW ps, NEW c
    PROVE  LET d == Hide(b, ps, c)
           IN /\ d \in RoomsType /\ SamePeople(b, d) /\ SameGuilds(b, d) /\ SameChannels(b, d)
              /\ d.apart = b.apart
              /\ \A q \in Player : d.win[q] = IF q \in ps THEN b.win[q] \ {c} ELSE b.win[q]
  <1> DEFINE f == [q \in Player |-> IF q \in ps THEN b.win[q] \ {c} ELSE b.win[q]]
  <1>1. f \in [Player -> SUBSET (Kind \cup PrivateId)]
    BY DEF RoomsType
  <1>2. \A q \in Player : f[q] = IF q \in ps THEN b.win[q] \ {c} ELSE b.win[q]
    OBVIOUS
  <1>3. Hide(b, ps, c) = [b EXCEPT !.win = f]
    BY DEF Hide
  <1> HIDE DEF f
  <1> QED
    BY <1>1, <1>2, <1>3 DEF RoomsType, SamePeople, SameGuilds, SameChannels

OtherChannels(b, d, n) ==
    /\ d.ch.public = b.ch.public /\ d.ch.party = b.ch.party /\ d.ch.guild = b.ch.guild
    /\ d.party = b.party /\ d.apart = b.apart
    /\ \A m \in PrivateId : m # n => d.ch.private[m] = b.ch.private[m]

LEMMA PrivateEffect ==
    ASSUME NEW b \in RoomsType, NEW n \in PrivateId, NEW x \in Channel
    PROVE  LET d == [b EXCEPT !.ch.private[n] = x]
           IN /\ d \in RoomsType /\ SamePeople(b, d) /\ SameGuilds(b, d) /\ OtherChannels(b, d, n)
              /\ d.win = b.win /\ d.ch.private[n] = x
  <1>1. PICK ch : ch = [b.ch EXCEPT !.private[n] = x]
    OBVIOUS
  <1>2. /\ ch \in Channels /\ ch.public = b.ch.public /\ ch.party = b.ch.party /\ ch.guild = b.ch.guild
        /\ ch.private[n] = x /\ \A m \in PrivateId : m # n => ch.private[m] = b.ch.private[m]
    BY <1>1 DEF RoomsType, Channels
  <1>3. [b EXCEPT !.ch.private[n] = x] = [b EXCEPT !.ch = ch]
    BY <1>1
  <1> QED
    BY <1>2, <1>3 DEF RoomsType, SamePeople, SameGuilds, OtherChannels

LEMMA NoChannelType == NoChannel \in Channel
  BY DEF NoChannel, Channel

LEMMA DeletePrivateEffect ==
    ASSUME NEW b \in RoomsType, NEW n \in PrivateId
    PROVE  LET d == DeletePrivate(b, n)
           IN /\ d \in RoomsType /\ SamePeople(b, d) /\ SameGuilds(b, d) /\ OtherChannels(b, d, n)
              /\ d.ch.private[n] = NoChannel
              /\ \A q \in Player : d.win[q] = IF q \in b.ch.private[n].users THEN b.win[q] \ {n} ELSE b.win[q]
  <1>1. PICK h : h = Hide(b, b.ch.private[n].users, n)
    OBVIOUS
  <1>2. /\ h \in RoomsType /\ SamePeople(b, h) /\ SameGuilds(b, h) /\ SameChannels(b, h) /\ h.apart = b.apart
        /\ \A q \in Player : h.win[q] = IF q \in b.ch.private[n].users THEN b.win[q] \ {n} ELSE b.win[q]
    <2>1. PICK us : us = b.ch.private[n].users
      OBVIOUS
    <2>2. h = Hide(b, us, n)
      BY <1>1, <2>1
    <2>3. h \in RoomsType /\ SamePeople(b, h) /\ SameGuilds(b, h) /\ SameChannels(b, h) /\ h.apart = b.apart
      BY <2>2, HideEffect
    <2>4. \A q \in Player : h.win[q] = IF q \in us THEN b.win[q] \ {n} ELSE b.win[q]
      <3>1. PICK f : f = [q \in Player |-> IF q \in us THEN b.win[q] \ {n} ELSE b.win[q]]
        OBVIOUS
      <3>2. h = [b EXCEPT !.win = f]
        BY <2>2, <3>1 DEF Hide
      <3>3. h.win = f
        BY <3>2 DEF RoomsType
      <3>4. \A q \in Player : f[q] = IF q \in us THEN b.win[q] \ {n} ELSE b.win[q]
        BY <3>1
      <3> QED
        BY <3>3, <3>4
    <2> QED
      BY <2>1, <2>3, <2>4
  <1>3. PICK d : d = [h EXCEPT !.ch.private[n] = NoChannel]
    OBVIOUS
  <1>4. /\ d \in RoomsType /\ SamePeople(h, d) /\ SameGuilds(h, d) /\ OtherChannels(h, d, n)
        /\ d.win = h.win /\ d.ch.private[n] = NoChannel
    BY <1>2, <1>3, NoChannelType, PrivateEffect
  <1>5. DeletePrivate(b, n) = d
    BY <1>1, <1>3 DEF DeletePrivate
  <1> QED
    BY <1>2, <1>4, <1>5 DEF SamePeople, SameGuilds, SameChannels, OtherChannels

(***************************************************************************)
(* A player who leaves the game, or gets a new client, leaves every        *)
(* channel, and his own is closed.                                         *)
(***************************************************************************)
LEMMA LeftEffect ==
    ASSUME NEW b \in RoomsType, NEW p \in Player, NEW d, d = LeaveChannels(b, p)
    PROVE  /\ d \in RoomsType /\ SamePeople(b, d) /\ SameGuilds(b, d) /\ d.party = b.party /\ d.win = b.win
           /\ d.apart = b.apart \ {p} /\ ListensNowhere(d.ch, p)
           /\ d.ch.public = b.ch.public \ {p}
           /\ \A x \in Address : d.ch.party[x] = b.ch.party[x] \ {p}
           /\ \A i \in GuildId : d.ch.guild[i] = b.ch.guild[i] \ {p}
           /\ \A n \in PrivateId : /\ d.ch.private[n].owner = b.ch.private[n].owner
                                   /\ d.ch.private[n].users = b.ch.private[n].users \ {p}
                                   /\ d.ch.private[n].invites = b.ch.private[n].invites \ {p}
  <1> DEFINE party == [x \in Address |-> b.ch.party[x] \ {p}]
             guild == [i \in GuildId |-> b.ch.guild[i] \ {p}]
             private == [n \in PrivateId |->
                            [b.ch.private[n] EXCEPT !.users = b.ch.private[n].users \ {p},
                                                    !.invites = b.ch.private[n].invites \ {p}]]
             ch == [public |-> b.ch.public \ {p}, party |-> party, guild |-> guild, private |-> private]
  <1>1. b.ch \in Channels /\ b.ch.public \in SUBSET Player
    BY DEF RoomsType, Channels
  <1>2. party \in [Address -> SUBSET Player] /\ \A x \in Address : party[x] = b.ch.party[x] \ {p}
    BY <1>1 DEF Channels
  <1>3. guild \in [GuildId -> SUBSET Player] /\ \A i \in GuildId : guild[i] = b.ch.guild[i] \ {p}
    BY <1>1 DEF Channels
  <1>4. /\ private \in [PrivateId -> Channel]
        /\ \A n \in PrivateId : /\ private[n].owner = b.ch.private[n].owner
                                /\ private[n].users = b.ch.private[n].users \ {p}
                                /\ private[n].invites = b.ch.private[n].invites \ {p}
    BY <1>1 DEF Channels, Channel
  <1>5. d = [b EXCEPT !.ch = ch, !.apart = b.apart \ {p}]
    BY Zenon DEF LeaveChannels, ChannelsWithout
  <1> HIDE DEF party, guild, private
  <1>6. /\ ch \in Channels /\ ch.public = b.ch.public \ {p} /\ ch.party = party /\ ch.guild = guild
        /\ ch.private = private
    BY <1>1, <1>2, <1>3, <1>4 DEF Channels
  <1> HIDE DEF ch
  <1>7. /\ d \in RoomsType /\ SamePeople(b, d) /\ SameGuilds(b, d) /\ d.party = b.party /\ d.win = b.win
        /\ d.apart = b.apart \ {p} /\ d.ch = ch
    BY <1>5, <1>6 DEF RoomsType, SamePeople, SameGuilds
  <1>8. ListensNowhere(ch, p)
    BY <1>2, <1>3, <1>4, <1>6 DEF ListensNowhere
  <1> QED
    BY <1>2, <1>3, <1>4, <1>6, <1>7, <1>8

LEMMA RemoveFromAllEffect ==
    ASSUME NEW b \in RoomsType, Owned(b.ch), NEW p \in Player
    PROVE  LET d == RemoveUserFromAllChannels(b, p)
           IN /\ d \in RoomsType /\ SamePeople(b, d) /\ SameGuilds(b, d) /\ d.party = b.party
              /\ d.apart = b.apart \ {p} /\ ListensNowhere(d.ch, p)
              /\ d.ch.public = b.ch.public \ {p}
              /\ \A x \in Address : d.ch.party[x] = b.ch.party[x] \ {p}
              /\ \A i \in GuildId : d.ch.guild[i] = b.ch.guild[i] \ {p}
              /\ \A n \in PrivateId :
                    IF b.ch.private[n].owner = p
                    THEN /\ d.ch.private[n] = NoChannel
                         /\ \A q \in Player : n \in d.win[q] <=> n \in b.win[q] /\ (q = p \/ q \notin b.ch.private[n].users)
                    ELSE /\ d.ch.private[n].owner = b.ch.private[n].owner
                         /\ d.ch.private[n].users = b.ch.private[n].users \ {p}
                         /\ d.ch.private[n].invites = b.ch.private[n].invites \ {p}
                         /\ \A q \in Player : n \in d.win[q] <=> n \in b.win[q]
              /\ \A q \in Player, c \in Kind : c \in d.win[q] <=> c \in b.win[q]
              /\ \A q \in Player : b.win[q] = {} => d.win[q] = {}
  <1>1. PICK l : l = LeaveChannels(b, p)
    OBVIOUS
  <1>2. /\ l \in RoomsType /\ SamePeople(b, l) /\ SameGuilds(b, l) /\ l.party = b.party /\ l.win = b.win
        /\ l.apart = b.apart \ {p} /\ ListensNowhere(l.ch, p)
        /\ l.ch.public = b.ch.public \ {p}
        /\ \A x \in Address : l.ch.party[x] = b.ch.party[x] \ {p}
        /\ \A i \in GuildId : l.ch.guild[i] = b.ch.guild[i] \ {p}
        /\ \A n \in PrivateId : /\ l.ch.private[n].owner = b.ch.private[n].owner
                                /\ l.ch.private[n].users = b.ch.private[n].users \ {p}
                                /\ l.ch.private[n].invites = b.ch.private[n].invites \ {p}
    BY <1>1, LeftEffect
  <1>3. PICK own : own = {n \in PrivateId : l.ch.private[n].owner = p}
    OBVIOUS
  <1>4. GetPrivateChannel(l, p) = own
    BY <1>3 DEF GetPrivateChannel
  <1>5. RemoveUserFromAllChannels(b, p) = IF own = {} THEN l ELSE DeletePrivate(l, CHOOSE n \in own : TRUE)
    BY <1>1, <1>4 DEF RemoveUserFromAllChannels
  <1>6. CASE own = {}
    BY <1>2, <1>3, <1>5, <1>6
  <1>7. CASE own # {}
    <2>1. PICK m \in own : m = CHOOSE n \in own : TRUE
      BY <1>7
    <2>2. /\ m \in PrivateId /\ b.ch.private[m].owner = p
          /\ \A n \in PrivateId : b.ch.private[n].owner = p => n = m
      <3>1. \A n \in PrivateId : n \in own <=> b.ch.private[n].owner = p
        BY <1>2, <1>3
      <3>2. p # None /\ m \in PrivateId
        BY <1>3, <2>1, ChatAssumption
      <3> QED
        BY <2>1, <3>1, <3>2 DEF Owned
    <2>3. PICK d : d = DeletePrivate(l, m)
      OBVIOUS
    <2> l \in RoomsType /\ m \in PrivateId
      BY <1>2, <2>2
    <2>4. /\ d \in RoomsType /\ SamePeople(l, d) /\ SameGuilds(l, d) /\ OtherChannels(l, d, m)
          /\ d.ch.private[m] = NoChannel
          /\ \A q \in Player : d.win[q] = IF q \in l.ch.private[m].users THEN l.win[q] \ {m} ELSE l.win[q]
      BY <2>3, DeletePrivateEffect
    <2>5. RemoveUserFromAllChannels(b, p) = d
      BY <1>5, <1>7, <2>1, <2>3
    <2>6. ListensNowhere(d.ch, p)
      BY <1>2, <2>4 DEF ListensNowhere, OtherChannels, NoChannel
    <2>7. SamePeople(b, d) /\ SameGuilds(b, d) /\ d.party = b.party /\ d.apart = b.apart \ {p}
      BY <1>2, <2>4 DEF SamePeople, SameGuilds, OtherChannels
    <2>8. \A q \in Player, c \in Kind : c \in d.win[q] <=> c \in b.win[q]
      <3>1. m \notin Kind
        BY ChatAssumption DEF Kind
      <3>2. \A q \in Player : d.win[q] = b.win[q] \/ d.win[q] = b.win[q] \ {m}
        BY <1>2, <2>4
      <3> QED
        BY <3>1, <3>2
    <2>9. /\ \A q \in Player : m \in d.win[q] <=> m \in b.win[q] /\ (q = p \/ q \notin b.ch.private[m].users)
          /\ \A q \in Player, n \in PrivateId : n # m => (n \in d.win[q] <=> n \in b.win[q])
      <3>1. l.ch.private[m].users = b.ch.private[m].users \ {p} /\ l.win = b.win
        BY <1>2
      <3> QED
        BY <2>4, <3>1
    <2>10. \A n \in PrivateId :
             IF b.ch.private[n].owner = p
             THEN /\ d.ch.private[n] = NoChannel
                  /\ \A q \in Player : n \in d.win[q] <=> n \in b.win[q] /\ (q = p \/ q \notin b.ch.private[n].users)
             ELSE /\ d.ch.private[n].owner = b.ch.private[n].owner
                  /\ d.ch.private[n].users = b.ch.private[n].users \ {p}
                  /\ d.ch.private[n].invites = b.ch.private[n].invites \ {p}
                  /\ \A q \in Player : n \in d.win[q] <=> n \in b.win[q]
      BY <1>2, <2>2, <2>4, <2>9 DEF OtherChannels
    <2>11. \A q \in Player : b.win[q] = {} => d.win[q] = {}
      BY <1>2, <2>4
    <2>12. /\ d.ch.public = b.ch.public \ {p}
           /\ \A x \in Address : d.ch.party[x] = b.ch.party[x] \ {p}
           /\ \A i \in GuildId : d.ch.guild[i] = b.ch.guild[i] \ {p}
      BY <1>2, <2>4 DEF OtherChannels
    <2> QED
      BY <2>4, <2>5, <2>6, <2>7, <2>8, <2>10, <2>11, <2>12
  <1> QED
    BY <1>6, <1>7

\* What another player hears and sees stays as it is.
SameView(b, d, q) ==
    /\ d.party[q] = b.party[q] /\ d.guild[q] = b.guild[q]
    /\ \A c \in Kind \cup PrivateId : c \in d.win[q] <=> c \in b.win[q]
    /\ q \in d.ch.public <=> q \in b.ch.public
    /\ \A x \in Address : q \in d.ch.party[x] <=> q \in b.ch.party[x]
    /\ \A i \in GuildId : q \in d.ch.guild[i] <=> q \in b.ch.guild[i]
    /\ \A n \in PrivateId : q \in d.ch.private[n].users <=> q \in b.ch.private[n].users

LEMMA SameViewHeard ==
    ASSUME NEW b, NEW d, NEW q, HeardBy(b, q), SameView(b, d, q)
    PROVE  HeardBy(d, q)
  BY DEF HeardBy, SameView, Kind

\* The invariant but for what player p hears, who listens nowhere.
OthersAgree(b, p) ==
    /\ b \in RoomsType /\ UsersInGame(b) /\ GuildsAgree(b) /\ Owned(b.ch) /\ Clients(b)
    /\ \A q \in b.client \ b.apart : q # p => HeardBy(b, q)
    /\ ListensNowhere(b.ch, p)

LEMMA RemoveFromAllAgrees ==
    ASSUME NEW b, RoomsAgree(b), NEW p \in Player
    PROVE  LET d == RemoveUserFromAllChannels(b, p)
           IN /\ OthersAgree(d, p) /\ SamePeople(b, d) /\ d.party = b.party
              /\ b.win[p] = {} => d.win[p] = {}
  <1>1. PICK d : d = RemoveUserFromAllChannels(b, p)
    OBVIOUS
  <1>2. b \in RoomsType /\ Owned(b.ch)
    BY DEF RoomsAgree
  <1>3. /\ d \in RoomsType /\ SamePeople(b, d) /\ SameGuilds(b, d) /\ d.party = b.party
        /\ d.apart = b.apart \ {p} /\ ListensNowhere(d.ch, p)
        /\ d.ch.public = b.ch.public \ {p}
        /\ \A x \in Address : d.ch.party[x] = b.ch.party[x] \ {p}
        /\ \A i \in GuildId : d.ch.guild[i] = b.ch.guild[i] \ {p}
        /\ \A q \in Player, c \in Kind : c \in d.win[q] <=> c \in b.win[q]
        /\ \A q \in Player : b.win[q] = {} => d.win[q] = {}
    BY <1>1, <1>2, RemoveFromAllEffect
  <1>4. \A n \in PrivateId :
           IF b.ch.private[n].owner = p
           THEN /\ d.ch.private[n] = NoChannel
                /\ \A q \in Player : n \in d.win[q] <=> n \in b.win[q] /\ (q = p \/ q \notin b.ch.private[n].users)
           ELSE /\ d.ch.private[n].owner = b.ch.private[n].owner
                /\ d.ch.private[n].users = b.ch.private[n].users \ {p}
                /\ d.ch.private[n].invites = b.ch.private[n].invites \ {p}
                /\ \A q \in Player : n \in d.win[q] <=> n \in b.win[q]
    BY <1>1, <1>2, RemoveFromAllEffect
  <1>5. UsersInGame(d)
    <2> SUFFICES ASSUME NEW q \in Player, q \notin d.in
                 PROVE  ListensNowhere(d.ch, q)
      BY DEF UsersInGame
    <2>1. ListensNowhere(b.ch, q)
      BY <1>3 DEF RoomsAgree, UsersInGame, SamePeople
    <2>2. \A n \in PrivateId : q \notin d.ch.private[n].users /\ q \notin d.ch.private[n].invites
      BY <1>4, <2>1 DEF ListensNowhere, NoChannel
    <2> QED
      BY <1>3, <2>1, <2>2 DEF ListensNowhere
  <1>6. GuildsAgree(d) /\ Clients(d)
    BY <1>3 DEF RoomsAgree, GuildsAgree, Clients, SamePeople, SameGuilds
  <1>7. Owned(d.ch)
    <2>1. \A n \in PrivateId :
             /\ b.ch.private[n].owner = p => d.ch.private[n] = NoChannel /\ d.ch.private[n].owner = None
             /\ b.ch.private[n].owner = None => d.ch.private[n] = NoChannel
      <3>1. NoChannel.owner = None /\ NoChannel.users = {} /\ NoChannel.invites = {}
        BY DEF NoChannel
      <3>2. ASSUME NEW n \in PrivateId, b.ch.private[n].owner = None
            PROVE  d.ch.private[n] = NoChannel
        <4>1. b.ch.private[n].owner # p /\ b.ch.private[n] = NoChannel
          BY <1>2, <3>2, ChatAssumption DEF Owned
        <4>2. PICK c \in Channel : c = d.ch.private[n]
          BY <1>3 DEF RoomsType, Channels
        <4>3. c.owner = None /\ c.users = {} /\ c.invites = {}
          <5>1. /\ c.owner = b.ch.private[n].owner
                /\ c.users = b.ch.private[n].users \ {p} /\ c.invites = b.ch.private[n].invites \ {p}
            BY <1>4, <4>1, <4>2
          <5> QED
            BY <3>1, <4>1, <5>1
        <4> QED
          BY <4>2, <4>3 DEF NoChannel, Channel
      <3>3. \A n \in PrivateId : b.ch.private[n].owner = p => d.ch.private[n] = NoChannel
        BY <1>4
      <3> QED
        BY <3>1, <3>2, <3>3
    <2>2. \A n \in PrivateId : d.ch.private[n].owner # None =>
              /\ d.ch.private[n].owner = b.ch.private[n].owner /\ b.ch.private[n].owner # p
              /\ d.ch.private[n].users = b.ch.private[n].users \ {p}
              /\ d.ch.private[n].invites = b.ch.private[n].invites \ {p}
      BY <1>4, <2>1
    <2>3. \A n \in PrivateId : d.ch.private[n].owner = None => d.ch.private[n] = NoChannel
      BY <1>4, <2>1
    <2> QED
      BY <1>2, <2>2, <2>3 DEF Owned
  <1>8. ASSUME NEW q \in d.client \ d.apart, q # p
        PROVE  HeardBy(d, q)
    <2>1. q \in Player /\ HeardBy(b, q)
      BY <1>2, <1>3, <1>8 DEF RoomsAgree, Heard, SamePeople, RoomsType
    <2>2. \A n \in PrivateId : n \in d.win[q] <=> q \in d.ch.private[n].users
      BY <1>4, <1>8, <2>1 DEF HeardBy, NoChannel
    <2> QED
      BY <1>3, <1>8, <2>1, <2>2 DEF HeardBy, SameGuilds, Kind
  <1> QED
    BY <1>1, <1>3, <1>5, <1>6, <1>7, <1>8 DEF OthersAgree

\* A player without client gets one, with no windows.
LEMMA TakeClientAgrees ==
    ASSUME NEW b, RoomsAgree(b), NEW p \in Player, p \in b.in \ b.client
    PROVE  RoomsAgree([RemoveUserFromAllChannels(b, p) EXCEPT !.client = @ \cup {p}])
  <1>1. PICK l : l = RemoveUserFromAllChannels(b, p)
    OBVIOUS
  <1>2. OthersAgree(l, p) /\ l.in = b.in /\ l.client = b.client /\ l.win[p] = {}
    BY <1>1, RemoveFromAllAgrees DEF SamePeople, RoomsAgree, Clients
  <1>3. PICK d : d = [l EXCEPT !.client = @ \cup {p}]
    OBVIOUS
  <1>4. /\ d \in RoomsType /\ d.in = l.in /\ d.client = l.client \cup {p} /\ SameGuilds(l, d)
        /\ SameChannels(l, d) /\ d.win = l.win /\ d.apart = l.apart
    BY <1>2, <1>3 DEF OthersAgree, RoomsType, SameGuilds, SameChannels
  <1>5. UsersInGame(d) /\ GuildsAgree(d) /\ Owned(d.ch) /\ Clients(d)
    BY <1>2, <1>4 DEF OthersAgree, UsersInGame, GuildsAgree, Clients, SameGuilds, SameChannels
  <1>6. HeardBy(d, p)
    BY <1>2, <1>4 DEF OthersAgree, ListensNowhere, HeardBy, SameChannels
  <1>7. \A q \in d.client \ d.apart : HeardBy(d, q)
    <2> SUFFICES ASSUME NEW q \in l.client \ l.apart, q # p PROVE HeardBy(d, q)
      BY <1>4, <1>6
    <2>1. HeardBy(l, q) /\ SameView(l, d, q)
      BY <1>2, <1>4 DEF OthersAgree, SameView, SameChannels, SameGuilds
    <2> QED
      BY <2>1, SameViewHeard
  <1> QED
    BY <1>1, <1>3, <1>4, <1>5, <1>7 DEF RoomsAgree, Heard

\* Player::onRemoveCreature: nobody keeps a pointer to him.
Gone(b, p) ==
    LET member == IF b.guild[p] = None THEN b ELSE RemoveMember(b, b.guild[p], p)
    IN [member EXCEPT !.in = @ \ {p}, !.client = @ \ {p}, !.guild[p] = None, !.win[p] = {},
                      !.members = [i \in GuildId |-> IF <<i, p>> \in b.kept THEN @[i] \ {p} ELSE @[i]],
                      !.kept = {k \in @ : k[2] # p}]

LEMMA GoneEffect ==
    ASSUME NEW b \in RoomsType, NEW p \in Player, b.party[p] = None
    PROVE  LET d == Gone(b, p)
           IN /\ d \in RoomsType /\ SameChannels(b, d) /\ d.apart = b.apart
              /\ d.in = b.in \ {p} /\ d.client = b.client \ {p}
              /\ d.guild[p] = None /\ d.win[p] = {}
              /\ \A q \in Player : q # p => d.guild[q] = b.guild[q] /\ d.win[q] = b.win[q]
              /\ \A i \in GuildId, q \in Player : q # p => (q \in d.members[i] <=> q \in b.members[i])
              /\ \A i \in GuildId : p \in d.members[i] => p \in b.members[i] /\ <<i, p>> \notin b.kept /\ b.guild[p] # i
              /\ \A i \in GuildId, q \in Player : q # p => (<<i, q>> \in d.kept <=> <<i, q>> \in b.kept)
  <1> DEFINE m == IF b.guild[p] = None THEN b.members
                  ELSE [b.members EXCEPT ![b.guild[p]] = @ \ {p}]
             ms == [i \in GuildId |-> IF <<i, p>> \in b.kept THEN m[i] \ {p} ELSE m[i]]
             ks == {k \in b.kept : k[2] # p}
  <1>1. /\ m \in [GuildId -> SUBSET Player]
        /\ \A i \in GuildId : m[i] = IF b.guild[p] = i THEN b.members[i] \ {p} ELSE b.members[i]
    BY ChatAssumption DEF RoomsType
  <1>2. /\ ms \in [GuildId -> SUBSET Player]
        /\ \A i \in GuildId : ms[i] = IF <<i, p>> \in b.kept THEN m[i] \ {p} ELSE m[i]
    BY <1>1
  <1>3. ks \in SUBSET (GuildId \X Player) /\ \A i \in GuildId, q \in Player : <<i, q>> \in ks <=> <<i, q>> \in b.kept /\ q # p
    BY DEF RoomsType
  <1>4. PICK d : d = Gone(b, p)
    OBVIOUS
  <1>5. d = [b EXCEPT !.in = b.in \ {p}, !.client = b.client \ {p}, !.guild[p] = None, !.win[p] = {},
                      !.members = ms, !.kept = ks]
    <2>1. CASE b.guild[p] = None
      BY <1>4, <2>1 DEF Gone, RoomsType
    <2>2. CASE b.guild[p] # None
      <3>1. PICK r : r = RemoveMember(b, b.guild[p], p)
        OBVIOUS
      <3>2. /\ r = [b EXCEPT !.members = m] /\ r.members = m
            /\ r.in = b.in /\ r.client = b.client /\ r.guild = b.guild /\ r.win = b.win /\ r.kept = b.kept
        BY <2>2, <3>1 DEF RemoveMember, RoomsType
      <3>3. d = [r EXCEPT !.in = r.in \ {p}, !.client = r.client \ {p}, !.guild[p] = None, !.win[p] = {},
                          !.members = [i \in GuildId |-> IF <<i, p>> \in b.kept THEN r.members[i] \ {p} ELSE r.members[i]],
                          !.kept = {k \in r.kept : k[2] # p}]
        BY <1>4, <2>2, <3>1, Zenon DEF Gone
      <3>4. d = [r EXCEPT !.in = b.in \ {p}, !.client = b.client \ {p}, !.guild[p] = None, !.win[p] = {},
                          !.members = ms, !.kept = ks]
        BY <3>2, <3>3
      <3> HIDE DEF m, ms, ks
      <3> QED
        BY <3>2, <3>4 DEF RoomsType
    <2> QED
      BY <2>1, <2>2
  <1> HIDE DEF m, ms, ks
  <1>6. /\ d \in RoomsType /\ SameChannels(b, d) /\ d.apart = b.apart
        /\ d.in = b.in \ {p} /\ d.client = b.client \ {p}
        /\ d.guild[p] = None /\ d.win[p] = {} /\ d.members = ms /\ d.kept = ks
        /\ \A q \in Player : q # p => d.guild[q] = b.guild[q] /\ d.win[q] = b.win[q]
    BY <1>2, <1>3, <1>5 DEF RoomsType, SameChannels
  <1>7. /\ \A i \in GuildId, q \in Player : q # p => (q \in ms[i] <=> q \in b.members[i])
        /\ \A i \in GuildId : p \in ms[i] => p \in b.members[i] /\ <<i, p>> \notin b.kept /\ b.guild[p] # i
    BY <1>1, <1>2
  <1> QED
    BY <1>3, <1>4, <1>6, <1>7

LEMMA GoneAgrees ==
    ASSUME NEW b, NEW p \in Player, OthersAgree(b, p), b.party[p] = None
    PROVE  RoomsAgree(Gone(b, p))
  <1>1. PICK d : d = Gone(b, p)
    OBVIOUS
  <1>2. b \in RoomsType
    BY DEF OthersAgree
  <1>3. /\ d \in RoomsType /\ SameChannels(b, d) /\ d.apart = b.apart
        /\ d.in = b.in \ {p} /\ d.client = b.client \ {p}
        /\ d.guild[p] = None /\ d.win[p] = {}
        /\ \A q \in Player : q # p => d.guild[q] = b.guild[q] /\ d.win[q] = b.win[q]
        /\ \A i \in GuildId, q \in Player : q # p => (q \in d.members[i] <=> q \in b.members[i])
        /\ \A i \in GuildId : p \in d.members[i] => p \in b.members[i] /\ <<i, p>> \notin b.kept /\ b.guild[p] # i
        /\ \A i \in GuildId, q \in Player : q # p => (<<i, q>> \in d.kept <=> <<i, q>> \in b.kept)
    BY <1>1, <1>2, GoneEffect
  <1>4. UsersInGame(d)
    BY <1>3 DEF OthersAgree, UsersInGame, SameChannels
  <1>5. \A i \in GuildId : p \notin d.members[i]
    BY <1>3 DEF OthersAgree, GuildsAgree
  <1>6. GuildsAgree(d)
    <2> SUFFICES ASSUME NEW i \in GuildId, NEW q \in Player
                 PROVE  /\ d.guild[q] = i => q \in d.members[i]
                        /\ q \in d.members[i] => q \in d.in /\ (d.guild[q] = i \/ <<i, q>> \in d.kept)
      BY DEF GuildsAgree
    <2>1. CASE q = p
      BY <1>3, <1>5, <2>1, ChatAssumption
    <2>2. CASE q # p
      BY <1>3, <2>2 DEF OthersAgree, GuildsAgree
    <2> QED
      BY <2>1, <2>2
  <1>7. Owned(d.ch) /\ Clients(d)
    BY <1>3 DEF OthersAgree, Clients, SameChannels
  <1>8. Heard(d)
    <2> SUFFICES ASSUME NEW q \in d.client \ d.apart PROVE HeardBy(d, q)
      BY DEF Heard
    <2>1. q \in Player /\ q # p /\ HeardBy(b, q)
      BY <1>2, <1>3 DEF OthersAgree, RoomsType
    <2>2. SameView(b, d, q)
      BY <1>3, <2>1 DEF SameView, SameChannels
    <2> QED
      BY <2>1, <2>2, SameViewHeard
  <1> QED
    BY <1>1, <1>3, <1>4, <1>6, <1>7, <1>8 DEF RoomsAgree

(***************************************************************************)
(* Player::setGuild.                                                       *)
(***************************************************************************)
OtherMembers(b, d, p) ==
    /\ \A q \in Player : q # p => d.guild[q] = b.guild[q]
    /\ \A i \in GuildId, q \in Player : q # p =>
          /\ q \in d.members[i] <=> q \in b.members[i]
          /\ <<i, q>> \in d.kept <=> <<i, q>> \in b.kept
MemberAgrees(d, p) ==
    \A i \in GuildId :
        /\ d.guild[p] = i => p \in d.members[i]
        /\ p \in d.members[i] => p \in d.in /\ (d.guild[p] = i \/ <<i, p>> \in d.kept)

LEMMA SetGuildEffect ==
    ASSUME NEW b \in RoomsType, GuildsAgree(b), NEW p \in Player, p \in b.in, NEW i \in GuildId \cup {None},
           b.guild[p] # i
    PROVE  LET d == SetGuild(b, p, i)
           IN /\ d \in RoomsType /\ SamePeople(b, d) /\ SameChannels(b, d) /\ d.win = b.win
              /\ OtherMembers(b, d, p) /\ MemberAgrees(d, p)
              /\ b.apart \subseteq d.apart /\ d.apart \subseteq b.apart \cup {p}
              /\ p \notin d.apart => b.guild[p] = None \/ (p \notin b.ch.guild[b.guild[p]] /\ "guild" \notin b.win[p])
  <1> DEFINE old == b.guild[p]
             listens == old # None /\ (p \in b.ch.guild[old] \/ "guild" \in b.win[p])
             apart == IF listens THEN b.apart \cup {p} ELSE b.apart
             a == [b EXCEPT !.apart = IF listens THEN @ \cup {p} ELSE @]
  <1>1. PICK d : d = SetGuild(b, p, i)
    OBVIOUS
  <1>2. old \in GuildId \cup {None} /\ i # old /\ (p \notin apart => ~listens) /\ apart \subseteq b.apart \cup {p}
        /\ b.apart \subseteq apart /\ apart \in SUBSET Player
    BY DEF RoomsType
  <1>3. /\ a \in RoomsType /\ SamePeople(b, a) /\ SameGuilds(b, a) /\ SameChannels(b, a)
        /\ a.win = b.win /\ a.apart = apart
    <2> HIDE DEF listens
    <2> QED
      BY <1>2 DEF RoomsType, SamePeople, SameGuilds, SameChannels
  <1>4. CASE i \in RanklessGuild
    <2> DEFINE marked == IF old = None THEN b.kept ELSE b.kept \cup {<<old, p>>}
    <2>1. d = [a EXCEPT !.guild[p] = None, !.kept = IF old = None THEN a.kept ELSE a.kept \cup {<<old, p>>}]
      BY <1>1, <1>2, <1>4 DEF SetGuild
    <2>2. marked \in SUBSET (GuildId \X Player)
      BY <1>2 DEF RoomsType
    <2> HIDE DEF a, old
    <2>3. d = [a EXCEPT !.guild[p] = None, !.kept = marked]
      BY <1>3, <2>1 DEF SameGuilds
    <2>4. \A j \in GuildId, q \in Player : <<j, q>> \in marked <=> <<j, q>> \in b.kept \/ (j = old /\ q = p)
      BY <1>2, ChatAssumption
    <2> HIDE DEF marked
    <2>5. /\ d \in RoomsType /\ SamePeople(a, d) /\ SameChannels(a, d) /\ d.win = a.win /\ d.apart = a.apart
          /\ d.guild[p] = None /\ \A q \in Player : q # p => d.guild[q] = a.guild[q]
          /\ d.members = a.members /\ d.kept = marked
      BY <1>3, <2>2, <2>3 DEF RoomsType, SamePeople, SameChannels
    <2>6. OtherMembers(b, d, p)
      BY <1>3, <2>4, <2>5 DEF OtherMembers, SameGuilds
    <2>7. MemberAgrees(d, p)
      BY <1>3, <2>4, <2>5, ChatAssumption DEF MemberAgrees, GuildsAgree, SameGuilds, SamePeople, old
    <2> QED
      BY <1>1, <1>2, <1>3, <2>5, <2>6, <2>7 DEF SamePeople, SameChannels, old
  <1>5. CASE i \notin RanklessGuild
    <2> DEFINE ms == [j \in GuildId |-> (b.members[j] \cup (IF j = i THEN {p} ELSE {})) \ (IF j = old THEN {p} ELSE {})]
    <2>1. ms \in [GuildId -> SUBSET Player]
      BY DEF RoomsType
    <2>2. \A j \in GuildId : /\ \A q \in Player : q # p => (q \in ms[j] <=> q \in b.members[j])
                             /\ p \in ms[j] <=> j # old /\ (j = i \/ p \in b.members[j])
      BY <1>2
    <2>3. d = [a EXCEPT !.members = ms, !.guild[p] = i, !.kept = b.kept \ {<<i, p>>}]
      <3> DEFINE joined == IF i = None THEN a ELSE [a EXCEPT !.members[i] = @ \cup {p}]
                 left == IF old = None THEN joined ELSE RemoveMember(joined, old, p)
      <3>1. d = [left EXCEPT !.guild[p] = i, !.kept = @ \ {<<i, p>>}]
        BY <1>1, <1>2, <1>5 DEF SetGuild
      <3> HIDE DEF a, old
      <3>2. joined = [a EXCEPT !.members = joined.members] /\ joined \in RoomsType
            /\ \A j \in GuildId : joined.members[j] = b.members[j] \cup (IF j = i THEN {p} ELSE {})
        BY <1>3, ChatAssumption DEF RoomsType, SameGuilds
      <3> HIDE DEF joined
      <3>3. left = [joined EXCEPT !.members = left.members] /\ left \in RoomsType
            /\ \A j \in GuildId : left.members[j] = joined.members[j] \ (IF j = old THEN {p} ELSE {})
        <4>1. CASE old = None
          BY <3>2, <4>1, ChatAssumption DEF RoomsType
        <4>2. CASE old # None
          <5>1. left = [joined EXCEPT !.members[old] = joined.members[old] \ {p}]
            BY <4>2 DEF RemoveMember
          <5> HIDE DEF left
          <5> QED
            BY <1>2, <3>2, <4>2, <5>1 DEF RoomsType
        <4> QED
          BY <4>1, <4>2
      <3> HIDE DEF left
      <3>4. left.members = ms
        BY <2>1, <3>2, <3>3 DEF RoomsType
      <3>5. left = [a EXCEPT !.members = ms] /\ left.kept = b.kept
        BY <1>3, <3>2, <3>3, <3>4 DEF RoomsType, SameGuilds
      <3> HIDE DEF ms
      <3> QED
        BY <1>3, <3>1, <3>5 DEF RoomsType
    <2>4. /\ \A j \in GuildId, q \in Player : q # p => (<<j, q>> \in b.kept \ {<<i, p>>} <=> <<j, q>> \in b.kept)
          /\ \A j \in GuildId : <<j, p>> \in b.kept \ {<<i, p>>} <=> <<j, p>> \in b.kept /\ j # i
      OBVIOUS
    <2> HIDE DEF a, old, ms
    <2>5. /\ d \in RoomsType /\ SamePeople(a, d) /\ SameChannels(a, d) /\ d.win = a.win /\ d.apart = a.apart
          /\ d.guild[p] = i /\ \A q \in Player : q # p => d.guild[q] = a.guild[q]
          /\ d.members = ms /\ d.kept = b.kept \ {<<i, p>>}
      BY <1>3, <2>1, <2>3 DEF RoomsType, SamePeople, SameChannels
    <2>6. OtherMembers(b, d, p)
      BY <1>3, <2>2, <2>4, <2>5 DEF OtherMembers, SameGuilds
    <2>7. MemberAgrees(d, p)
      BY <1>2, <1>3, <2>2, <2>4, <2>5 DEF MemberAgrees, GuildsAgree, SamePeople, old
    <2> QED
      BY <1>1, <1>2, <1>3, <2>5, <2>6, <2>7 DEF SamePeople, SameChannels, old
  <1> QED
    BY <1>4, <1>5

LEMMA SetGuildAgrees ==
    ASSUME NEW b, RoomsAgree(b), NEW p \in Player, p \in b.in, NEW i \in GuildId \cup {None}
    PROVE  RoomsAgree(SetGuild(b, p, i))
  <1>1. PICK d : d = SetGuild(b, p, i)
    OBVIOUS
  <1>2. CASE b.guild[p] = i
    BY <1>2 DEF SetGuild
  <1>3. CASE b.guild[p] # i
    <2>1. b \in RoomsType /\ GuildsAgree(b)
      BY DEF RoomsAgree
    <2>2. /\ d \in RoomsType /\ SamePeople(b, d) /\ SameChannels(b, d) /\ d.win = b.win
          /\ OtherMembers(b, d, p) /\ MemberAgrees(d, p)
          /\ b.apart \subseteq d.apart /\ d.apart \subseteq b.apart \cup {p}
          /\ p \notin d.apart => b.guild[p] = None \/ (p \notin b.ch.guild[b.guild[p]] /\ "guild" \notin b.win[p])
      BY <1>1, <1>3, <2>1, SetGuildEffect
    <2>3. GuildsAgree(d)
      <3> SUFFICES ASSUME NEW j \in GuildId, NEW q \in Player, q # p
                   PROVE  /\ d.guild[q] = j => q \in d.members[j]
                          /\ q \in d.members[j] => q \in d.in /\ (d.guild[q] = j \/ <<j, q>> \in d.kept)
        BY <2>2 DEF GuildsAgree, MemberAgrees
      <3> QED
        BY <2>1, <2>2 DEF GuildsAgree, OtherMembers, SamePeople
    <2>4. UsersInGame(d) /\ Owned(d.ch) /\ Clients(d)
      BY <2>2 DEF RoomsAgree, UsersInGame, Clients, SamePeople, SameChannels
    <2>5. Heard(d)
      <3> SUFFICES ASSUME NEW q \in d.client \ d.apart PROVE HeardBy(d, q)
        BY DEF Heard
      <3>1. q \in Player /\ HeardBy(b, q)
        BY <2>1, <2>2 DEF RoomsAgree, Heard, SamePeople, RoomsType
      <3>2. CASE q # p
        BY <2>2, <3>1, <3>2, SameViewHeard DEF SameView, SameChannels, OtherMembers
      <3>3. CASE q = p
        <4>1. \A j \in GuildId : p \notin b.ch.guild[j]
          BY <2>2, <3>1, <3>3, ChatAssumption DEF HeardBy
        <4> QED
          BY <2>2, <3>1, <3>3, <4>1 DEF HeardBy, SameChannels
      <3> QED
        BY <3>2, <3>3
    <2> QED
      BY <1>1, <2>2, <2>3, <2>4, <2>5 DEF RoomsAgree
  <1> QED
    BY <1>2, <1>3
(***************************************************************************)
(* A client opens and closes the channels it names.                        *)
(***************************************************************************)
ChannelNames == Kind \cup PrivateId

UsersSet(b, d, p, c, us) ==
    /\ d.ch.public = IF c = "public" THEN us ELSE b.ch.public
    /\ \A x \in Address : d.ch.party[x] = IF c = "party" /\ x = b.party[p] THEN us ELSE b.ch.party[x]
    /\ \A i \in GuildId : d.ch.guild[i] = IF c = "guild" /\ i = b.guild[p] THEN us ELSE b.ch.guild[i]
    /\ \A n \in PrivateId : /\ d.ch.private[n].owner = b.ch.private[n].owner
                            /\ d.ch.private[n].invites = b.ch.private[n].invites
                            /\ d.ch.private[n].users = IF c = n THEN us ELSE b.ch.private[n].users

LEMMA SetUsersEffect ==
    ASSUME NEW b \in RoomsType, NEW p \in Player, NEW c \in ChannelNames, Found(b, p, c), NEW us \in SUBSET Player
    PROVE  LET d == SetUsers(b, p, c, us)
           IN /\ d \in RoomsType /\ SamePeople(b, d) /\ SameGuilds(b, d) /\ d.party = b.party
              /\ d.win = b.win /\ d.apart = b.apart /\ UsersSet(b, d, p, c, us)
  <1>1. PICK d : d = SetUsers(b, p, c, us)
    OBVIOUS
  <1>2. ASSUME NEW ch \in Channels, d = [b EXCEPT !.ch = ch]
        PROVE  /\ d \in RoomsType /\ SamePeople(b, d) /\ SameGuilds(b, d) /\ d.party = b.party
               /\ d.win = b.win /\ d.apart = b.apart /\ d.ch = ch
    BY <1>2 DEF RoomsType, SamePeople, SameGuilds
  <1>3. \A n \in PrivateId : n # "public" /\ n # "party" /\ n # "guild"
    BY ChatAssumption
  <1>4. CASE c = "public"
    <2>1. PICK ch : ch = [b.ch EXCEPT !.public = us]
      OBVIOUS
    <2>2. /\ ch \in Channels /\ ch.public = us /\ ch.party = b.ch.party /\ ch.guild = b.ch.guild
          /\ ch.private = b.ch.private
      BY <2>1 DEF RoomsType, Channels
    <2>3. d = [b EXCEPT !.ch = ch]
      BY <1>1, <1>4, <2>1 DEF SetUsers
    <2> QED
      BY <1>1, <1>2, <1>3, <1>4, <2>2, <2>3 DEF UsersSet
  <1>5. CASE c = "party"
    <2>1. PICK ch : ch = [b.ch EXCEPT !.party[b.party[p]] = us]
      OBVIOUS
    <2>2. b.party[p] \in Address
      BY <1>5 DEF Found, RoomsType
    <2>3. /\ ch \in Channels /\ ch.public = b.ch.public /\ ch.guild = b.ch.guild
          /\ ch.private = b.ch.private
          /\ \A x \in Address : ch.party[x] = IF x = b.party[p] THEN us ELSE b.ch.party[x]
      BY <2>1, <2>2 DEF RoomsType, Channels
    <2>4. d = [b EXCEPT !.ch = ch]
      BY <1>1, <1>5, <2>1 DEF SetUsers
    <2> QED
      BY <1>1, <1>2, <1>3, <1>5, <2>3, <2>4 DEF UsersSet
  <1>6. CASE c = "guild"
    <2>1. PICK ch : ch = [b.ch EXCEPT !.guild[b.guild[p]] = us]
      OBVIOUS
    <2>2. b.guild[p] \in GuildId
      BY <1>6 DEF Found, RoomsType
    <2>3. /\ ch \in Channels /\ ch.public = b.ch.public /\ ch.party = b.ch.party
          /\ ch.private = b.ch.private
          /\ \A i \in GuildId : ch.guild[i] = IF i = b.guild[p] THEN us ELSE b.ch.guild[i]
      BY <2>1, <2>2 DEF RoomsType, Channels
    <2>4. d = [b EXCEPT !.ch = ch]
      BY <1>1, <1>6, <2>1 DEF SetUsers
    <2> QED
      BY <1>1, <1>2, <1>3, <1>6, <2>3, <2>4 DEF UsersSet
  <1>7. CASE c \in PrivateId
    <2>1. PICK x : x = [b.ch.private[c] EXCEPT !.users = us]
      OBVIOUS
    <2>2. b.ch.private[c] \in Channel
      BY <1>7 DEF RoomsType, Channels
    <2>3. /\ x \in Channel /\ x.owner = b.ch.private[c].owner /\ x.invites = b.ch.private[c].invites
          /\ x.users = us
      BY <2>1, <2>2 DEF Channel
    <2>4. d = [b EXCEPT !.ch.private[c].users = us]
      BY <1>1, <1>3, <1>7 DEF SetUsers
    <2>5. d = [b EXCEPT !.ch.private[c] = x]
      BY <2>1, <2>4
    <2>6. /\ d \in RoomsType /\ SamePeople(b, d) /\ SameGuilds(b, d) /\ OtherChannels(b, d, c)
          /\ d.win = b.win /\ d.ch.private[c] = x
      BY <1>7, <2>3, <2>5, PrivateEffect
    <2> QED
      BY <1>1, <1>3, <1>7, <2>3, <2>6 DEF UsersSet, OtherChannels
  <1> QED
    BY <1>4, <1>5, <1>6, <1>7 DEF ChannelNames, Kind

LEMMA UsersType ==
    ASSUME NEW b \in RoomsType, NEW p \in Player, NEW c \in ChannelNames
    PROVE  Users(b, p, c) \in SUBSET Player
  BY DEF Users, RoomsType, Channels, Channel, ChannelNames, Kind

\* Of a client whose windows agree, the channel is found for each window.
LEMMA HeardFound ==
    ASSUME NEW b, RoomsAgree(b), NEW p \in Player, HeardBy(b, p), NEW c \in ChannelNames, c \in b.win[p]
    PROVE  Found(b, p, c) /\ p \in Users(b, p, c)
  <1>1. CASE c = "public"
    BY <1>1 DEF Found, Users, HeardBy
  <1>2. CASE c = "party"
    BY <1>2, ChatAssumption DEF Found, Users, HeardBy
  <1>3. CASE c = "guild"
    BY <1>3, ChatAssumption DEF Found, Users, HeardBy
  <1>4. CASE c \in PrivateId
    <2>1. c # "public" /\ c # "party" /\ c # "guild" /\ p \in b.ch.private[c].users
      BY <1>4, ChatAssumption DEF HeardBy
    <2>2. b.ch.private[c].owner # None
      BY <1>4, <2>1 DEF RoomsAgree, Owned, NoChannel
    <2>3. p \in {b.ch.private[c].owner} \cup b.ch.private[c].invites
      BY <1>4, <2>1, <2>2 DEF RoomsAgree, Owned
    <2> QED
      BY <2>1, <2>2, <2>3 DEF Found, Users, MayListen
  <1> QED
    BY <1>1, <1>2, <1>3, <1>4 DEF ChannelNames, Kind

LEMMA OpenAgrees ==
    ASSUME NEW b, RoomsAgree(b), NEW p \in b.client, NEW c \in ChannelNames, Found(b, p, c)
    PROVE  RoomsAgree(Show(SetUsers(b, p, c, Users(b, p, c) \cup {p}), p, c))
  <1>1. p \in Player /\ b \in RoomsType /\ p \in b.in
    BY DEF RoomsAgree, RoomsType, Clients
  <1>2. PICK us : us = Users(b, p, c) \cup {p}
    OBVIOUS
  <1>3. us \in SUBSET Player
    BY <1>1, <1>2, UsersType
  <1>4. PICK e : e = SetUsers(b, p, c, us)
    OBVIOUS
  <1>5. /\ e \in RoomsType /\ SamePeople(b, e) /\ SameGuilds(b, e) /\ e.party = b.party
        /\ e.win = b.win /\ e.apart = b.apart /\ UsersSet(b, e, p, c, us)
    BY <1>1, <1>3, <1>4, SetUsersEffect
  <1>6. PICK d : d = Show(e, p, c)
    OBVIOUS
  <1>7. d = [e EXCEPT !.win[p] = e.win[p] \cup {c}]
    BY <1>5, <1>6 DEF Show, SamePeople
  <1>8. /\ d \in RoomsType /\ SamePeople(b, d) /\ SameGuilds(b, d) /\ d.party = b.party
        /\ d.apart = b.apart /\ d.ch = e.ch
        /\ d.win[p] = b.win[p] \cup {c} /\ \A q \in Player : q # p => d.win[q] = b.win[q]
    BY <1>1, <1>5, <1>7 DEF RoomsType, SamePeople, SameGuilds, ChannelNames
  <1>9. UsersSet(b, d, p, c, us)
    BY <1>5, <1>8 DEF UsersSet
  <1>10. /\ c = "public" => us = b.ch.public \cup {p}
         /\ \A x \in Address : c = "party" /\ x = b.party[p] => us = b.ch.party[x] \cup {p}
         /\ \A i \in GuildId : c = "guild" /\ i = b.guild[p] => us = b.ch.guild[i] \cup {p}
         /\ c \in PrivateId => us = b.ch.private[c].users \cup {p} /\ MayListen(b, c, p)
    BY <1>2, ChatAssumption DEF Users, Found
  <1>11. \A q \in Player : q # p =>
            /\ q \in d.ch.public <=> q \in b.ch.public
            /\ \A x \in Address : q \in d.ch.party[x] <=> q \in b.ch.party[x]
            /\ \A i \in GuildId : q \in d.ch.guild[i] <=> q \in b.ch.guild[i]
            /\ \A n \in PrivateId : q \in d.ch.private[n].users <=> q \in b.ch.private[n].users
    BY <1>9, <1>10 DEF UsersSet
  <1>12. UsersInGame(d) /\ GuildsAgree(d) /\ Clients(d)
    <2>1. UsersInGame(d)
      <3> SUFFICES ASSUME NEW q \in Player, q \notin b.in PROVE ListensNowhere(d.ch, q)
        BY <1>8 DEF UsersInGame, SamePeople
      <3>1. q # p /\ ListensNowhere(b.ch, q)
        BY <1>1 DEF RoomsAgree, UsersInGame
      <3> QED
        BY <1>9, <1>11, <3>1 DEF ListensNowhere, UsersSet
    <2> QED
      BY <1>8, <2>1 DEF RoomsAgree, GuildsAgree, Clients, SamePeople, SameGuilds
  <1>13. Owned(d.ch)
    <2>1. \A n \in PrivateId : n # c => d.ch.private[n] = b.ch.private[n]
      <3> SUFFICES ASSUME NEW n \in PrivateId, n # c PROVE d.ch.private[n] = b.ch.private[n]
        OBVIOUS
      <3>1. d.ch.private[n] \in Channel /\ b.ch.private[n] \in Channel
        BY <1>1, <1>8 DEF RoomsType, Channels
      <3> QED
        BY <1>9, <3>1 DEF UsersSet, Channel
    <2>2. \A n \in PrivateId : d.ch.private[n].owner = b.ch.private[n].owner
      BY <1>9 DEF UsersSet
    <2>3. ASSUME NEW n \in PrivateId
          PROVE  IF d.ch.private[n].owner = None THEN d.ch.private[n] = NoChannel
                 ELSE /\ d.ch.private[n].owner \in d.ch.private[n].users
                      /\ d.ch.private[n].users \subseteq {d.ch.private[n].owner} \cup d.ch.private[n].invites
      <3>1. CASE n # c
        BY <2>1, <3>1 DEF RoomsAgree, Owned
      <3>2. CASE n = c
        <4>1. /\ d.ch.private[n].owner = b.ch.private[n].owner
              /\ d.ch.private[n].invites = b.ch.private[n].invites
              /\ d.ch.private[n].users = b.ch.private[n].users \cup {p}
              /\ b.ch.private[n].owner # None /\ p \in {b.ch.private[n].owner} \cup b.ch.private[n].invites
          BY <1>9, <1>10, <3>2 DEF UsersSet, MayListen
        <4> QED
          BY <4>1 DEF RoomsAgree, Owned
      <3> QED
        BY <3>1, <3>2
    <2> QED
      BY <2>2, <2>3 DEF RoomsAgree, Owned
  <1>14. Heard(d)
    <2> SUFFICES ASSUME NEW q \in d.client \ d.apart PROVE HeardBy(d, q)
      BY DEF Heard
    <2>1. q \in Player /\ HeardBy(b, q)
      BY <1>8 DEF RoomsAgree, Heard, SamePeople, RoomsType
    <2>2. CASE q # p
      <3>1. SameView(b, d, q)
        BY <1>8, <1>11, <2>1, <2>2 DEF SameView, SameGuilds
      <3> QED
        BY <2>1, <3>1, SameViewHeard
    <2>3. CASE q = p
      <3>1. "public" \in d.win[p] <=> p \in d.ch.public
        BY <1>8, <1>9, <1>10, <2>1, <2>3 DEF HeardBy, UsersSet
      <3>2. /\ "party" \in d.win[p] <=> \E x \in Address : p \in d.ch.party[x]
            /\ \A x \in Address : p \in d.ch.party[x] => d.party[p] = x
        <4>1. CASE c = "party"
          <5>1. b.party[p] \in Address
            BY <1>1, <4>1 DEF Found, RoomsType
          <5> QED
            BY <1>8, <1>9, <1>10, <2>1, <2>3, <4>1, <5>1 DEF HeardBy, UsersSet
        <4>2. CASE c # "party"
          BY <1>8, <1>9, <2>1, <2>3, <4>2 DEF HeardBy, UsersSet
        <4> QED
          BY <4>1, <4>2
      <3>3. /\ "guild" \in d.win[p] <=> \E i \in GuildId : p \in d.ch.guild[i]
            /\ \A i \in GuildId : p \in d.ch.guild[i] => d.guild[p] = i
        <4>1. CASE c = "guild"
          <5>1. b.guild[p] \in GuildId
            BY <1>1, <4>1 DEF Found, RoomsType
          <5> QED
            BY <1>8, <1>9, <1>10, <2>1, <2>3, <4>1, <5>1 DEF HeardBy, UsersSet, SameGuilds
        <4>2. CASE c # "guild"
          BY <1>8, <1>9, <2>1, <2>3, <4>2 DEF HeardBy, UsersSet, SameGuilds
        <4> QED
          BY <4>1, <4>2
      <3>4. \A n \in PrivateId : n \in d.win[p] <=> p \in d.ch.private[n].users
        BY <1>8, <1>9, <1>10, <2>1, <2>3 DEF HeardBy, UsersSet
      <3> QED
        BY <2>3, <3>1, <3>2, <3>3, <3>4 DEF HeardBy
    <2> QED
      BY <2>2, <2>3
  <1> QED
    BY <1>2, <1>4, <1>6, <1>8, <1>12, <1>13, <1>14 DEF RoomsAgree
\* The client has closed window c: its player may still listen.
LEMMA CloseAgrees ==
    ASSUME NEW b, RoomsAgree(b), NEW p \in b.client, NEW c \in ChannelNames, c \in b.win[p]
    PROVE  RoomsAgree(RemoveUserFromChannel(Hide(b, {p}, c), p, c))
  <1>1. p \in Player /\ b \in RoomsType /\ p \in b.in
    BY DEF RoomsAgree, RoomsType, Clients
  <1>a. PICK ps : ps = {p}
    OBVIOUS
  <1>b. PICK h : h = Hide(b, ps, c)
    OBVIOUS
  <1>2. h = Hide(b, {p}, c)
    BY <1>a, <1>b
  <1>c. /\ h \in RoomsType /\ SamePeople(b, h) /\ SameGuilds(b, h) /\ SameChannels(b, h)
        /\ h.apart = b.apart
        /\ \A q \in Player : h.win[q] = IF q \in ps THEN b.win[q] \ {c} ELSE b.win[q]
    BY <1>1, <1>b, HideEffect
  <1>3. /\ h \in RoomsType /\ SamePeople(b, h) /\ SameGuilds(b, h) /\ h.ch = b.ch /\ h.party = b.party
        /\ h.apart = b.apart
        /\ h.win[p] = b.win[p] \ {c} /\ \A q \in Player : q # p => h.win[q] = b.win[q]
    BY <1>1, <1>a, <1>c DEF SameChannels
  <1>4. Found(h, p, c) <=> Found(b, p, c)
    BY <1>3 DEF Found, MayListen, SameGuilds
  <1>5. Users(h, p, c) = Users(b, p, c)
    BY <1>3 DEF Users, SameGuilds
  <1>6. UsersInGame(h) /\ GuildsAgree(h) /\ Owned(h.ch) /\ Clients(h)
    BY <1>1, <1>3 DEF RoomsAgree, UsersInGame, GuildsAgree, Clients, SamePeople, SameGuilds
  <1>7. \A q \in h.client \ h.apart : q # p => HeardBy(h, q)
    <2> SUFFICES ASSUME NEW q \in h.client \ h.apart, q # p PROVE HeardBy(h, q)
      OBVIOUS
    <2>1. q \in Player /\ HeardBy(b, q)
      BY <1>3 DEF RoomsAgree, Heard, SamePeople, RoomsType
    <2>2. SameView(b, h, q)
      BY <1>3, <2>1 DEF SameView, SameGuilds
    <2> QED
      BY <2>1, <2>2, SameViewHeard
  <1>8. p \notin b.apart => HeardBy(b, p) /\ Found(b, p, c) /\ p \in Users(b, p, c)
    BY <1>1, HeardFound DEF RoomsAgree, Heard
  <1>9. CASE ~Found(b, p, c) \/ p \notin Users(b, p, c)
    <2>1. RemoveUserFromChannel(h, p, c) = h
      BY <1>4, <1>5, <1>9 DEF RemoveUserFromChannel
    <2>2. Heard(h)
      BY <1>3, <1>7, <1>8, <1>9 DEF Heard
    <2> QED
      BY <1>2, <1>3, <1>6, <2>1, <2>2 DEF RoomsAgree
  <1>10. CASE Found(b, p, c) /\ p \in Users(b, p, c)
    <2>1. PICK us : us = Users(b, p, c) \ {p}
      OBVIOUS
    <2>2. us \in SUBSET Player
      BY <1>1, <2>1, UsersType
    <2>3. PICK e : e = SetUsers(h, p, c, us)
      OBVIOUS
    <2>4. /\ e \in RoomsType /\ SamePeople(h, e) /\ SameGuilds(h, e) /\ e.party = h.party
          /\ e.win = h.win /\ e.apart = h.apart /\ UsersSet(h, e, p, c, us)
      BY <1>1, <1>3, <1>4, <1>10, <2>2, <2>3, SetUsersEffect
    <2>5. RemoveUserFromChannel(h, p, c) =
             IF c \in PrivateId /\ h.ch.private[c].owner = p THEN DeletePrivate(e, c) ELSE e
      BY <1>4, <1>5, <1>10, <2>1, <2>3 DEF RemoveUserFromChannel
    <2>6. /\ c = "public" => us = b.ch.public \ {p}
          /\ \A x \in Address : c = "party" /\ x = b.party[p] => us = b.ch.party[x] \ {p}
          /\ \A i \in GuildId : c = "guild" /\ i = b.guild[p] => us = b.ch.guild[i] \ {p}
          /\ c \in PrivateId => us = b.ch.private[c].users \ {p} /\ MayListen(b, c, p)
      BY <1>10, <2>1, ChatAssumption DEF Users, Found
    <2>7. \A q \in Player : q # p =>
             /\ q \in e.ch.public <=> q \in b.ch.public
             /\ \A x \in Address : q \in e.ch.party[x] <=> q \in b.ch.party[x]
             /\ \A i \in GuildId : q \in e.ch.guild[i] <=> q \in b.ch.guild[i]
             /\ \A n \in PrivateId : q \in e.ch.private[n].users <=> q \in b.ch.private[n].users
      <3>1. /\ e.ch.public = IF c = "public" THEN us ELSE b.ch.public
            /\ \A x \in Address : e.ch.party[x] = IF c = "party" /\ x = b.party[p] THEN us ELSE b.ch.party[x]
            /\ \A i \in GuildId : e.ch.guild[i] = IF c = "guild" /\ i = b.guild[p] THEN us ELSE b.ch.guild[i]
            /\ \A n \in PrivateId : e.ch.private[n].users = IF c = n THEN us ELSE b.ch.private[n].users
        BY <1>3, <2>4 DEF UsersSet, SameGuilds
      <3> QED
        BY <2>6, <3>1
    <2>8. UsersInGame(e)
      <3> SUFFICES ASSUME NEW q \in Player, q \notin b.in PROVE ListensNowhere(e.ch, q)
        BY <1>3, <2>4 DEF UsersInGame, SamePeople
      <3>1. q # p /\ ListensNowhere(b.ch, q)
        BY <1>1 DEF RoomsAgree, UsersInGame
      <3> QED
        BY <1>3, <2>4, <2>7, <3>1 DEF ListensNowhere, UsersSet
    <2>9. GuildsAgree(e) /\ Clients(e)
      BY <1>6, <2>4 DEF GuildsAgree, Clients, SamePeople, SameGuilds
    <2>10. ASSUME NEW q \in e.client \ e.apart PROVE HeardBy(e, q)
      <3>1. q \in Player
        BY <2>4 DEF RoomsType
      <3>2. CASE q # p
        <4>1. HeardBy(h, q)
          BY <1>7, <2>4, <2>10, <3>2 DEF SamePeople
        <4>2. SameView(h, e, q)
          BY <1>3, <2>4, <2>7, <3>1, <3>2 DEF SameView, SameGuilds
        <4> QED
          BY <4>1, <4>2, SameViewHeard
      <3>3. CASE q = p
        <4>1. HeardBy(b, p)
          BY <1>3, <1>8, <2>4, <2>10, <3>3
        <4>2. "public" \in e.win[p] <=> p \in e.ch.public
          BY <1>3, <2>4, <2>6, <4>1 DEF HeardBy, UsersSet
        <4>3. /\ "party" \in e.win[p] <=> \E x \in Address : p \in e.ch.party[x]
              /\ \A x \in Address : p \in e.ch.party[x] => e.party[p] = x
          BY <1>3, <2>4, <2>6, <4>1 DEF HeardBy, UsersSet
        <4>4. /\ "guild" \in e.win[p] <=> \E i \in GuildId : p \in e.ch.guild[i]
              /\ \A i \in GuildId : p \in e.ch.guild[i] => e.guild[p] = i
          BY <1>3, <2>4, <2>6, <4>1 DEF HeardBy, UsersSet, SameGuilds
        <4>5. \A n \in PrivateId : n \in e.win[p] <=> p \in e.ch.private[n].users
          BY <1>3, <2>4, <2>6, <4>1 DEF HeardBy, UsersSet
        <4> QED
          BY <3>3, <4>2, <4>3, <4>4, <4>5 DEF HeardBy
      <3> QED
        BY <3>2, <3>3
    <2>11. \A n \in PrivateId : n # c => e.ch.private[n] = b.ch.private[n]
      <3> SUFFICES ASSUME NEW n \in PrivateId, n # c PROVE e.ch.private[n] = b.ch.private[n]
        OBVIOUS
      <3>1. e.ch.private[n] \in Channel /\ b.ch.private[n] \in Channel
        BY <1>1, <2>4 DEF RoomsType, Channels
      <3> QED
        BY <1>3, <2>4, <3>1 DEF UsersSet, Channel
    <2>12. CASE c \notin PrivateId
      <3>1. Owned(e.ch)
        BY <2>11, <2>12 DEF RoomsAgree, Owned
      <3> QED
        BY <1>2, <2>4, <2>5, <2>8, <2>9, <2>10, <2>12, <3>1 DEF RoomsAgree, Heard
    <2>13. CASE c \in PrivateId /\ b.ch.private[c].owner # p
      <3>1. /\ e.ch.private[c].owner = b.ch.private[c].owner
            /\ e.ch.private[c].invites = b.ch.private[c].invites
            /\ e.ch.private[c].users = b.ch.private[c].users \ {p} /\ b.ch.private[c].owner # None
        BY <1>3, <2>4, <2>6, <2>13 DEF UsersSet, MayListen
      <3>2. Owned(e.ch)
        BY <2>11, <2>13, <3>1 DEF RoomsAgree, Owned
      <3> QED
        BY <1>2, <1>3, <2>4, <2>5, <2>8, <2>9, <2>10, <2>13, <3>2 DEF RoomsAgree, Heard
    <2>14. CASE c \in PrivateId /\ b.ch.private[c].owner = p
      <3>1. PICK d : d = DeletePrivate(e, c)
        OBVIOUS
      <3>2. /\ d \in RoomsType /\ SamePeople(e, d) /\ SameGuilds(e, d) /\ OtherChannels(e, d, c)
            /\ d.ch.private[c] = NoChannel
            /\ \A q \in Player : d.win[q] = IF q \in e.ch.private[c].users THEN e.win[q] \ {c} ELSE e.win[q]
        BY <2>4, <2>14, <3>1, DeletePrivateEffect
      <3>3. NoChannel.owner = None /\ NoChannel.users = {} /\ NoChannel.invites = {}
        BY DEF NoChannel
      <3>4. Owned(d.ch)
        BY <2>11, <3>2, <3>3 DEF RoomsAgree, Owned, OtherChannels
      <3>5. UsersInGame(d)
        BY <2>8, <3>2, <3>3 DEF UsersInGame, ListensNowhere, OtherChannels, SamePeople
      <3>6. GuildsAgree(d) /\ Clients(d)
        BY <2>9, <3>2 DEF GuildsAgree, Clients, SamePeople, SameGuilds
      <3>7. ASSUME NEW q \in d.client \ d.apart PROVE HeardBy(d, q)
        <4>1. q \in Player /\ HeardBy(e, q)
          BY <2>10, <3>2 DEF RoomsType, SamePeople, OtherChannels
        <4>2. \A k \in ChannelNames : k # c => (k \in d.win[q] <=> k \in e.win[q])
          BY <3>2, <4>1
        <4>3. c \notin d.win[q]
          BY <2>14, <3>2, <4>1 DEF HeardBy
        <4>4. c \notin Kind
          BY <2>14, ChatAssumption DEF Kind
        <4>5. \A n \in PrivateId : n \in d.win[q] <=> q \in d.ch.private[n].users
          BY <2>14, <3>2, <3>3, <4>1, <4>2, <4>3 DEF HeardBy, OtherChannels, ChannelNames
        <4> QED
          BY <3>2, <4>1, <4>2, <4>4, <4>5 DEF HeardBy, OtherChannels, SameGuilds, ChannelNames, Kind
      <3>8. RemoveUserFromChannel(h, p, c) = d
        BY <1>3, <2>5, <2>14, <3>1
      <3> QED
        BY <1>2, <3>2, <3>4, <3>5, <3>6, <3>7, <3>8 DEF RoomsAgree, Heard
    <2> QED
      BY <2>12, <2>13, <2>14
  <1> QED
    BY <1>9, <1>10

\* The script of the channel does not know him any more: he listens and sees no window.
LEMMA RefusedAgrees ==
    ASSUME NEW b, RoomsAgree(b), NEW p \in b.client, NEW c \in ChannelNames
    PROVE  RoomsAgree([Hide(b, {p}, c) EXCEPT !.apart = @ \cup {p}])
  <1>1. p \in Player /\ b \in RoomsType
    BY DEF RoomsAgree, RoomsType, Clients
  <1>a. PICK ps : ps = {p}
    OBVIOUS
  <1>b. PICK h : h = Hide(b, ps, c)
    OBVIOUS
  <1>2. h = Hide(b, {p}, c)
    BY <1>a, <1>b
  <1>3. /\ h \in RoomsType /\ SamePeople(b, h) /\ SameGuilds(b, h) /\ SameChannels(b, h)
        /\ h.apart = b.apart
        /\ \A q \in Player : h.win[q] = IF q \in ps THEN b.win[q] \ {c} ELSE b.win[q]
    BY <1>1, <1>b, HideEffect DEF Hide
  <1>4. PICK d : d = [h EXCEPT !.apart = @ \cup {p}]
    OBVIOUS
  <1>5. /\ d \in RoomsType /\ SamePeople(b, d) /\ SameGuilds(b, d) /\ SameChannels(b, d)
        /\ d.apart = b.apart \cup {p}
        /\ \A q \in Player : d.win[q] = IF q \in ps THEN b.win[q] \ {c} ELSE b.win[q]
    BY <1>1, <1>3, <1>4 DEF RoomsType, SamePeople, SameGuilds, SameChannels
  <1>6. UsersInGame(d) /\ GuildsAgree(d) /\ Owned(d.ch) /\ Clients(d)
    BY <1>5 DEF RoomsAgree, UsersInGame, GuildsAgree, Clients, SamePeople, SameGuilds, SameChannels
  <1>7. Heard(d)
    <2> SUFFICES ASSUME NEW q \in d.client \ d.apart PROVE HeardBy(d, q)
      BY DEF Heard
    <2>1. q \in Player /\ q # p /\ q \notin ps /\ HeardBy(b, q)
      BY <1>a, <1>5 DEF RoomsAgree, Heard, SamePeople, RoomsType
    <2>2. SameView(b, d, q)
      BY <1>5, <2>1 DEF SameView, SameGuilds, SameChannels
    <2> QED
      BY <2>1, <2>2, SameViewHeard
  <1> QED
    BY <1>2, <1>4, <1>5, <1>6, <1>7 DEF RoomsAgree
(***************************************************************************)
(* Private channels: created, and others invited and excluded.             *)
(***************************************************************************)
LEMMA CreateAgrees ==
    ASSUME NEW b, RoomsAgree(b), NEW p \in b.client, NEW n \in PrivateId, b.ch.private[n].owner = None,
           GetPrivateChannel(b, p) = {}
    PROVE  RoomsAgree(Show([b EXCEPT !.ch.private[n] = [owner |-> p, invites |-> {}, users |-> {p}]], p, n))
  <1>1. p \in Player /\ b \in RoomsType /\ p \in b.in /\ p # None
    BY ChatAssumption DEF RoomsAgree, RoomsType, Clients
  <1>2. PICK x : x = [owner |-> p, invites |-> {}, users |-> {p}]
    OBVIOUS
  <1>3. x \in Channel /\ x.owner = p /\ x.invites = {} /\ x.users = {p}
    BY <1>1, <1>2 DEF Channel
  <1>4. PICK e : e = [b EXCEPT !.ch.private[n] = x]
    OBVIOUS
  <1>5. /\ e \in RoomsType /\ SamePeople(b, e) /\ SameGuilds(b, e) /\ OtherChannels(b, e, n)
        /\ e.win = b.win /\ e.ch.private[n] = x
    BY <1>1, <1>3, <1>4, PrivateEffect
  <1>6. PICK d : d = Show(e, p, n)
    OBVIOUS
  <1>7. d = [e EXCEPT !.win[p] = e.win[p] \cup {n}]
    BY <1>5, <1>6 DEF Show, SamePeople
  <1>8. /\ d \in RoomsType /\ SamePeople(b, d) /\ SameGuilds(b, d) /\ OtherChannels(b, d, n)
        /\ d.ch.private[n] = x
        /\ d.win[p] = b.win[p] \cup {n} /\ \A q \in Player : q # p => d.win[q] = b.win[q]
    BY <1>1, <1>5, <1>7 DEF RoomsType, SamePeople, SameGuilds, OtherChannels
  <1>9. b.ch.private[n].users = {} /\ b.ch.private[n].invites = {}
    BY DEF RoomsAgree, Owned, NoChannel
  <1>10. UsersInGame(d)
    BY <1>1, <1>3, <1>8 DEF RoomsAgree, UsersInGame, ListensNowhere, SamePeople, OtherChannels
  <1>11. GuildsAgree(d) /\ Clients(d)
    BY <1>8 DEF RoomsAgree, GuildsAgree, Clients, SamePeople, SameGuilds
  <1>12. Owned(d.ch)
    <2>1. \A m \in PrivateId : b.ch.private[m].owner # p
      BY DEF GetPrivateChannel
    <2> QED
      BY <1>1, <1>3, <1>8, <2>1 DEF RoomsAgree, Owned, OtherChannels
  <1>13. Heard(d)
    <2> SUFFICES ASSUME NEW q \in d.client \ d.apart PROVE HeardBy(d, q)
      BY DEF Heard
    <2>1. q \in Player /\ HeardBy(b, q)
      BY <1>8 DEF RoomsAgree, Heard, SamePeople, OtherChannels, RoomsType
    <2>2. n \notin Kind
      BY ChatAssumption DEF Kind
    <2>3. \A m \in PrivateId : m \in d.win[q] <=> q \in d.ch.private[m].users
      BY <1>3, <1>8, <1>9, <2>1 DEF HeardBy, OtherChannels
    <2>4. \A c \in Kind : c \in d.win[q] <=> c \in b.win[q]
      BY <1>8, <2>1, <2>2
    <2> QED
      BY <1>8, <2>1, <2>3, <2>4 DEF HeardBy, OtherChannels, SameGuilds, Kind
  <1> QED
    BY <1>2, <1>4, <1>6, <1>8, <1>10, <1>11, <1>12, <1>13 DEF RoomsAgree

LEMMA InviteAgrees ==
    ASSUME NEW b, RoomsAgree(b), NEW n \in PrivateId, b.ch.private[n].owner # None, NEW q \in b.in
    PROVE  RoomsAgree([b EXCEPT !.ch.private[n].invites = @ \cup {q}])
  <1>1. b \in RoomsType /\ q \in Player /\ b.ch.private[n] \in Channel
    BY DEF RoomsAgree, RoomsType, Channels
  <1>2. PICK x : x = [b.ch.private[n] EXCEPT !.invites = @ \cup {q}]
    OBVIOUS
  <1>3. /\ x \in Channel /\ x.owner = b.ch.private[n].owner /\ x.users = b.ch.private[n].users
        /\ x.invites = b.ch.private[n].invites \cup {q}
    BY <1>1, <1>2 DEF Channel
  <1>4. PICK d : d = [b EXCEPT !.ch.private[n] = x]
    OBVIOUS
  <1>5. /\ d \in RoomsType /\ SamePeople(b, d) /\ SameGuilds(b, d) /\ OtherChannels(b, d, n)
        /\ d.win = b.win /\ d.ch.private[n] = x
    BY <1>1, <1>3, <1>4, PrivateEffect
  <1>6. [b EXCEPT !.ch.private[n].invites = @ \cup {q}] = d
    BY <1>2, <1>4
  <1>7. UsersInGame(d)
    BY <1>3, <1>5 DEF RoomsAgree, UsersInGame, ListensNowhere, SamePeople, OtherChannels
  <1>8. GuildsAgree(d) /\ Clients(d)
    BY <1>5 DEF RoomsAgree, GuildsAgree, Clients, SamePeople, SameGuilds
  <1>9. Owned(d.ch)
    BY <1>3, <1>5 DEF RoomsAgree, Owned, OtherChannels
  <1>10. Heard(d)
    BY <1>3, <1>5 DEF RoomsAgree, Heard, HeardBy, OtherChannels, SamePeople, SameGuilds
  <1> QED
    BY <1>5, <1>6, <1>7, <1>8, <1>9, <1>10 DEF RoomsAgree

LEMMA ExcludeAgrees ==
    ASSUME NEW b, RoomsAgree(b), NEW n \in PrivateId, NEW q \in Player, q # b.ch.private[n].owner,
           b.ch.private[n].owner # None
    PROVE  LET left == [owner |-> b.ch.private[n].owner, invites |-> b.ch.private[n].invites \ {q},
                        users |-> b.ch.private[n].users \ {q}]
           IN RoomsAgree(Hide([b EXCEPT !.ch.private[n] = left], {q}, n))
  <1>1. b \in RoomsType /\ b.ch.private[n] \in Channel
    BY DEF RoomsAgree, RoomsType, Channels
  <1>2. PICK x : x = [owner |-> b.ch.private[n].owner, invites |-> b.ch.private[n].invites \ {q},
                    users |-> b.ch.private[n].users \ {q}]
    OBVIOUS
  <1>3. /\ x \in Channel /\ x.owner = b.ch.private[n].owner /\ x.users = b.ch.private[n].users \ {q}
        /\ x.invites = b.ch.private[n].invites \ {q}
    BY <1>1, <1>2 DEF Channel
  <1>4. PICK e : e = [b EXCEPT !.ch.private[n] = x]
    OBVIOUS
  <1>5. /\ e \in RoomsType /\ SamePeople(b, e) /\ SameGuilds(b, e) /\ OtherChannels(b, e, n)
        /\ e.win = b.win /\ e.ch.private[n] = x
    BY <1>1, <1>3, <1>4, PrivateEffect
  <1>7. PICK ps : ps = {q}
    OBVIOUS
  <1>8. PICK d : d = Hide(e, ps, n)
    OBVIOUS
  <1>9. /\ d \in RoomsType /\ SamePeople(e, d) /\ SameGuilds(e, d) /\ SameChannels(e, d) /\ d.apart = e.apart
        /\ \A p \in Player : d.win[p] = IF p \in ps THEN e.win[p] \ {n} ELSE e.win[p]
    BY <1>5, <1>8, HideEffect, Z3 DEF Hide
  <1>10. /\ d.ch = e.ch /\ SamePeople(b, d) /\ SameGuilds(b, d) /\ OtherChannels(b, d, n)
         /\ d.ch.private[n] = x
         /\ d.win[q] = b.win[q] \ {n} /\ \A p \in Player : p # q => d.win[p] = b.win[p]
    BY <1>5, <1>7, <1>9 DEF SamePeople, SameGuilds, SameChannels, OtherChannels
  <1>11. UsersInGame(d)
    BY <1>3, <1>10 DEF RoomsAgree, UsersInGame, ListensNowhere, SamePeople, OtherChannels
  <1>12. GuildsAgree(d) /\ Clients(d)
    <2>1. \A p \in Player : b.win[p] = {} => d.win[p] = {}
      BY <1>10
    <2> QED
      BY <1>10, <2>1 DEF RoomsAgree, GuildsAgree, Clients, SamePeople, SameGuilds
  <1>13. Owned(d.ch)
    BY <1>3, <1>10 DEF RoomsAgree, Owned, OtherChannels
  <1>14. Heard(d)
    <2> SUFFICES ASSUME NEW p \in d.client \ d.apart PROVE HeardBy(d, p)
      BY DEF Heard
    <2>1. p \in Player /\ HeardBy(b, p)
      BY <1>9, <1>10 DEF RoomsAgree, Heard, SamePeople, OtherChannels, RoomsType
    <2>2. n \notin Kind
      BY ChatAssumption DEF Kind
    <2>3. \A m \in PrivateId : m \in d.win[p] <=> p \in d.ch.private[m].users
      BY <1>3, <1>10, <2>1 DEF HeardBy, OtherChannels
    <2>4. \A c \in Kind : c \in d.win[p] <=> c \in b.win[p]
      BY <1>10, <2>1, <2>2
    <2> QED
      BY <1>10, <2>1, <2>3, <2>4 DEF HeardBy, OtherChannels, SameGuilds, Kind
  <1>15. Hide(e, {q}, n) = d
    BY <1>7, <1>8
  <1> QED
    BY <1>2, <1>4, <1>9, <1>11, <1>12, <1>13, <1>14, <1>15 DEF RoomsAgree
(***************************************************************************)
(* Players come and go, and their clients.                                 *)
(***************************************************************************)
LEMMA LeaveGameAgrees ==
    ASSUME NEW b, RoomsAgree(b), NEW p \in Player
    PROVE  RoomsAgree(Gone(RemoveUserFromAllChannels(LeaveParty(b, p), p), p))
  <1>1. PICK l : l = LeaveParty(b, p)
    OBVIOUS
  <1>2. b \in RoomsType
    BY DEF RoomsAgree
  <1>3. RoomsAgree(l) /\ l.party[p] = None
    BY <1>1, <1>2, LeavePartyAgrees, LeavePartyEffect
  <1>4. PICK r : r = RemoveUserFromAllChannels(l, p)
    OBVIOUS
  <1>5. OthersAgree(r, p) /\ r.party[p] = None
    BY <1>3, <1>4, RemoveFromAllAgrees
  <1> QED
    BY <1>1, <1>4, <1>5, GoneAgrees

LEMMA EnterGameAgrees ==
    ASSUME NEW b, RoomsAgree(b), NEW p \in Player, p \notin b.in, NEW i \in GuildId \cup {None}
    PROVE  LET placed == [b EXCEPT !.in = @ \cup {p}, !.client = @ \cup {p}, !.guild[p] = i]
           IN RoomsAgree(IF i = None THEN placed ELSE [placed EXCEPT !.members[i] = @ \cup {p}])
  <1>1. PICK e : e = [b EXCEPT !.in = b.in \cup {p}, !.client = b.client \cup {p}, !.guild[p] = i]
    OBVIOUS
  <1>2. b \in RoomsType
    BY DEF RoomsAgree
  <1>3. /\ e \in RoomsType /\ SameChannels(b, e) /\ e.win = b.win /\ e.apart = b.apart
        /\ e.in = b.in \cup {p} /\ e.client = b.client \cup {p} /\ e.members = b.members /\ e.kept = b.kept
        /\ e.guild[p] = i /\ \A q \in Player : q # p => e.guild[q] = b.guild[q]
    BY <1>1, <1>2 DEF RoomsType, SameChannels
  <1>4. PICK d : d = IF i = None THEN e ELSE [e EXCEPT !.members[i] = e.members[i] \cup {p}]
    OBVIOUS
  <1>5. /\ d \in RoomsType /\ SameChannels(e, d) /\ d.win = e.win /\ d.apart = e.apart
        /\ d.in = e.in /\ d.client = e.client /\ d.kept = e.kept /\ d.guild = e.guild
        /\ \A j \in GuildId : d.members[j] = IF j = i THEN e.members[j] \cup {p} ELSE e.members[j]
    <2>1. CASE i = None
      BY <1>3, <1>4, <2>1, ChatAssumption DEF SameChannels
    <2>2. CASE i # None
      BY <1>3, <1>4, <2>2 DEF RoomsType, SameChannels
    <2> QED
      BY <2>1, <2>2
  <1>6. /\ SameChannels(b, d) /\ d.win = b.win /\ d.apart = b.apart
        /\ d.in = b.in \cup {p} /\ d.client = b.client \cup {p} /\ d.kept = b.kept
        /\ d.guild[p] = i /\ \A q \in Player : q # p => d.guild[q] = b.guild[q]
        /\ \A j \in GuildId : d.members[j] = IF j = i THEN b.members[j] \cup {p} ELSE b.members[j]
    BY <1>3, <1>5 DEF SameChannels
  <1>7. p \notin b.client /\ b.win[p] = {} /\ ListensNowhere(b.ch, p)
    BY DEF RoomsAgree, Clients, UsersInGame
  <1>8. UsersInGame(d) /\ Owned(d.ch)
    BY <1>6 DEF RoomsAgree, UsersInGame, SameChannels
  <1>9. GuildsAgree(d)
    <2> SUFFICES ASSUME NEW j \in GuildId, NEW q \in Player
                 PROVE  /\ d.guild[q] = j => q \in d.members[j]
                        /\ q \in d.members[j] => q \in d.in /\ (d.guild[q] = j \/ <<j, q>> \in d.kept)
      BY DEF GuildsAgree
    <2>1. /\ b.guild[q] = j => q \in b.members[j]
          /\ q \in b.members[j] => q \in b.in /\ (b.guild[q] = j \/ <<j, q>> \in b.kept)
      BY DEF RoomsAgree, GuildsAgree
    <2>2. CASE q = p
      BY <1>6, <2>1, <2>2
    <2>3. CASE q # p
      <3>1. d.guild[q] = b.guild[q] /\ d.kept = b.kept /\ (q \in b.in => q \in d.in)
        BY <1>6, <2>3
      <3>2. d.members[j] = b.members[j] \/ d.members[j] = b.members[j] \cup {p}
        BY <1>6
      <3> QED
        BY <2>1, <2>3, <3>1, <3>2
    <2> QED
      BY <2>2, <2>3
  <1>10. Clients(d)
    BY <1>6 DEF RoomsAgree, Clients
  <1>11. Heard(d)
    <2> SUFFICES ASSUME NEW q \in d.client \ d.apart PROVE HeardBy(d, q)
      BY DEF Heard
    <2>1. CASE q = p
      BY <1>6, <1>7, <2>1 DEF HeardBy, ListensNowhere, SameChannels
    <2>2. CASE q # p
      <3>1. q \in Player /\ HeardBy(b, q)
        BY <1>2, <1>6, <2>2 DEF RoomsAgree, Heard, RoomsType
      <3> QED
        BY <1>6, <2>2, <3>1, SameViewHeard DEF SameView, SameChannels
    <2> QED
      BY <2>1, <2>2
  <1>12. RoomsAgree(d)
    BY <1>5, <1>8, <1>9, <1>10, <1>11 DEF RoomsAgree
  <1> QED
    BY <1>1, <1>4, <1>12, Zenon

LEMMA LoseClientAgrees ==
    ASSUME NEW b, RoomsAgree(b), NEW p \in b.client
    PROVE  RoomsAgree([b EXCEPT !.client = @ \ {p}, !.win[p] = {}])
  <1>1. PICK d : d = [b EXCEPT !.client = @ \ {p}, !.win[p] = {}]
    OBVIOUS
  <1>2. p \in Player /\ b \in RoomsType
    BY DEF RoomsAgree, RoomsType
  <1>3. /\ d \in RoomsType /\ SameGuilds(b, d) /\ SameChannels(b, d) /\ d.in = b.in /\ d.apart = b.apart
        /\ d.client = b.client \ {p}
        /\ d.win[p] = {} /\ \A q \in Player : q # p => d.win[q] = b.win[q]
    BY <1>1, <1>2 DEF RoomsType, SameGuilds, SameChannels
  <1>4. UsersInGame(d) /\ GuildsAgree(d) /\ Owned(d.ch) /\ Clients(d)
    BY <1>3 DEF RoomsAgree, UsersInGame, GuildsAgree, Clients, SameGuilds, SameChannels
  <1>5. Heard(d)
    <2> SUFFICES ASSUME NEW q \in d.client \ d.apart PROVE HeardBy(d, q)
      BY DEF Heard
    <2>1. q \in Player /\ q # p /\ HeardBy(b, q)
      BY <1>2, <1>3 DEF RoomsAgree, Heard, RoomsType
    <2> QED
      BY <1>3, <2>1, SameViewHeard DEF SameView, SameChannels, SameGuilds
  <1> QED
    BY <1>1, <1>3, <1>4, <1>5 DEF RoomsAgree

LEMMA JoinPartyAgrees ==
    ASSUME NEW b, RoomsAgree(b), NEW p \in Player, NEW x \in Address, b.party[p] = None
    PROVE  RoomsAgree([b EXCEPT !.party[p] = x])
  <1>1. PICK d : d = [b EXCEPT !.party[p] = x]
    OBVIOUS
  <1>2. /\ d \in RoomsType /\ SamePeople(b, d) /\ SameGuilds(b, d) /\ d.ch = b.ch /\ d.win = b.win
        /\ d.apart = b.apart
        /\ d.party[p] = x /\ \A q \in Player : q # p => d.party[q] = b.party[q]
    BY <1>1 DEF RoomsAgree, RoomsType, SamePeople, SameGuilds
  <1>3. UsersInGame(d) /\ GuildsAgree(d) /\ Owned(d.ch) /\ Clients(d)
    BY <1>2 DEF RoomsAgree, UsersInGame, GuildsAgree, Clients, SamePeople, SameGuilds
  <1>4. Heard(d)
    <2> SUFFICES ASSUME NEW q \in d.client \ d.apart PROVE HeardBy(d, q)
      BY DEF Heard
    <2>1. q \in Player /\ HeardBy(b, q)
      BY <1>2 DEF RoomsAgree, Heard, SamePeople, RoomsType
    <2>2. CASE q # p
      BY <1>2, <2>1, <2>2, SameViewHeard DEF SameView, SameGuilds
    <2>3. CASE q = p
      BY <1>2, <2>1, <2>3, ChatAssumption DEF HeardBy, SameGuilds
    <2> QED
      BY <2>2, <2>3
  <1> QED
    BY <1>1, <1>2, <1>3, <1>4 DEF RoomsAgree

LEMMA ReloadAgrees ==
    ASSUME NEW b, RoomsAgree(b)
    PROVE  RoomsAgree([b EXCEPT !.ch.public = {}, !.apart = @ \cup {p \in Player : "public" \in b.win[p]}])
  <1>1. PICK ch : ch = [b.ch EXCEPT !.public = {}]
    OBVIOUS
  <1>2. PICK apart : apart = b.apart \cup {p \in Player : "public" \in b.win[p]}
    OBVIOUS
  <1>3. PICK d : d = [b EXCEPT !.ch = ch, !.apart = apart]
    OBVIOUS
  <1>4. [b EXCEPT !.ch.public = {}, !.apart = @ \cup {p \in Player : "public" \in b.win[p]}] = d
    BY <1>1, <1>2, <1>3 DEF RoomsAgree, RoomsType
  <1>5. /\ ch \in Channels /\ ch.public = {} /\ ch.party = b.ch.party /\ ch.guild = b.ch.guild
        /\ ch.private = b.ch.private
    BY <1>1 DEF RoomsAgree, RoomsType, Channels
  <1>6. /\ d \in RoomsType /\ SamePeople(b, d) /\ SameGuilds(b, d) /\ d.party = b.party /\ d.win = b.win
        /\ d.ch = ch /\ d.apart = apart
    BY <1>2, <1>3, <1>5 DEF RoomsAgree, RoomsType, SamePeople, SameGuilds
  <1>7. UsersInGame(d) /\ GuildsAgree(d) /\ Owned(d.ch) /\ Clients(d)
    BY <1>5, <1>6 DEF RoomsAgree, UsersInGame, ListensNowhere, GuildsAgree, Owned, Clients, SamePeople, SameGuilds
  <1>8. Heard(d)
    <2> SUFFICES ASSUME NEW q \in d.client \ d.apart PROVE HeardBy(d, q)
      BY DEF Heard
    <2>1. q \in Player /\ "public" \notin b.win[q] /\ HeardBy(b, q)
      BY <1>2, <1>6 DEF RoomsAgree, Heard, SamePeople, RoomsType
    <2> QED
      BY <1>5, <1>6, <2>1 DEF HeardBy, SameGuilds
  <1> QED
    BY <1>4, <1>6, <1>7, <1>8 DEF RoomsAgree

-----------------------------------------------------------------------------
(***************************************************************************)
(* The steps.                                                              *)
(***************************************************************************)
LEMMA RoomsAre ==
    /\ Rooms.in = inGame /\ Rooms.client = client /\ Rooms.party = partyAt /\ Rooms.guild = guildOf
    /\ Rooms.members = membersOnline /\ Rooms.ch = channels /\ Rooms.win = windows
    /\ Rooms.apart = estranged /\ Rooms.kept = kept
  BY DEF Rooms

LEMMA SettleInv ==
    ASSUME NEW d, RoomsAgree(d), Settle(d)
    PROVE  ChatInv'
  <1>1. Rooms' = d
    BY DEF Settle, Rooms, RoomsAgree, RoomsType
  <1> QED
    BY <1>1 DEF ChatInv

LEMMA ChatInitInv == ChatInit => ChatInv
  <1> SUFFICES ASSUME ChatInit PROVE ChatInv
    OBVIOUS
  <1>1. Rooms \in RoomsType
    BY NoChannelType DEF ChatInit, Rooms, RoomsType, Channels
  <1>2. UsersInGame(Rooms) /\ GuildsAgree(Rooms) /\ Clients(Rooms) /\ Heard(Rooms)
    BY ChatAssumption DEF ChatInit, Rooms, UsersInGame, ListensNowhere, NoChannel, GuildsAgree, Clients, Heard
  <1>3. Owned(Rooms.ch)
    BY DEF ChatInit, Rooms, Owned, NoChannel
  <1> QED
    BY <1>1, <1>2, <1>3 DEF ChatInv, RoomsAgree

LEMMA ChatNextInv == ChatInv /\ [ChatNext]_chatVars => ChatInv'
  <1> SUFFICES ASSUME ChatInv, [ChatNext]_chatVars
               PROVE  ChatInv'
    OBVIOUS
  <1> USE DEF ChatInv
  <1>1. CASE UNCHANGED chatVars
    BY <1>1 DEF chatVars, Rooms
  <1>2. CASE Reload
    BY <1>2, ReloadAgrees, RoomsAre, SettleInv DEF Reload
  <1>3. ASSUME NEW p \in Player, EnterGame(p) PROVE ChatInv'
    <2>1. PICK i \in GuildId \cup {None} :
             LET placed == [Rooms EXCEPT !.in = @ \cup {p}, !.client = @ \cup {p}, !.guild[p] = i]
             IN Settle(IF i = None THEN placed ELSE [placed EXCEPT !.members[i] = @ \cup {p}])
      BY <1>3 DEF EnterGame
    <2>2. p \notin Rooms.in
      BY <1>3, RoomsAre DEF EnterGame
    <2> QED
      BY <2>1, <2>2, EnterGameAgrees, SettleInv, Zenon
  <1>4. ASSUME NEW p \in Player, LeaveGame(p) PROVE ChatInv'
    <2>1. Settle(Gone(RemoveUserFromAllChannels(LeaveParty(Rooms, p), p), p))
      BY <1>4, Zenon DEF LeaveGame, Gone
    <2> QED
      BY <2>1, LeaveGameAgrees, SettleInv
  <1>5. ASSUME NEW p \in Player, LoseClient(p) PROVE ChatInv'
    BY <1>5, LoseClientAgrees, RoomsAre, SettleInv DEF LoseClient
  <1>6. ASSUME NEW p \in Player, TakeClient(p) PROVE ChatInv'
    BY <1>6, TakeClientAgrees, RoomsAre, SettleInv DEF TakeClient
  <1>7. ASSUME NEW p \in Player, PlayerCreatePrivateChannel(p) PROVE ChatInv'
    <2>1. PICK n \in PrivateId :
             /\ channels.private[n].owner = None /\ p \in client /\ GetPrivateChannel(Rooms, p) = {}
             /\ Settle(Show([Rooms EXCEPT !.ch.private[n] = [owner |-> p, invites |-> {}, users |-> {p}]], p, n))
      <3> DEFINE free == {n \in PrivateId : channels.private[n].owner = None}
                 n == CHOOSE n \in free : TRUE
      <3>1. free # {} /\ p \in client /\ GetPrivateChannel(Rooms, p) = {}
            /\ Settle(Show([Rooms EXCEPT !.ch.private[n] = [owner |-> p, invites |-> {}, users |-> {p}]], p, n))
        BY <1>7, Zenon DEF PlayerCreatePrivateChannel
      <3>2. n \in free
        BY <3>1
      <3> QED
        BY <3>1, <3>2
    <2> QED
      BY <2>1, CreateAgrees, RoomsAre, SettleInv
  <1>8. ASSUME NEW p \in Player, NEW q \in Player, PlayerChannelInvite(p, q) PROVE ChatInv'
    <2>1. PICK n \in PrivateId :
             /\ Rooms.ch.private[n].owner = p /\ q \in inGame
             /\ Settle([Rooms EXCEPT !.ch.private[n].invites = @ \cup {q}])
      BY <1>8 DEF PlayerChannelInvite, GetPrivateChannel
    <2>2. p # None
      BY ChatAssumption
    <2> QED
      BY <2>1, <2>2, InviteAgrees, RoomsAre, SettleInv
  <1>9. ASSUME NEW p \in Player, NEW q \in Player, PlayerChannelExclude(p, q) PROVE ChatInv'
    <2>1. PICK n \in PrivateId :
             /\ Rooms.ch.private[n].owner = p /\ q # p
             /\ LET left == [owner |-> p, invites |-> channels.private[n].invites \ {q},
                             users |-> channels.private[n].users \ {q}]
                IN Settle(Hide([Rooms EXCEPT !.ch.private[n] = left], {q}, n))
      BY <1>9 DEF PlayerChannelExclude, GetPrivateChannel
    <2>2. p # None
      BY ChatAssumption
    <2>3. LET left == [owner |-> Rooms.ch.private[n].owner, invites |-> Rooms.ch.private[n].invites \ {q},
                       users |-> Rooms.ch.private[n].users \ {q}]
          IN Settle(Hide([Rooms EXCEPT !.ch.private[n] = left], {q}, n))
      BY <2>1, RoomsAre
    <2> QED
      BY <2>1, <2>2, <2>3, ExcludeAgrees, SettleInv
  <1>10. ASSUME NEW p \in Player, NEW c \in Kind \cup PrivateId, PlayerOpenChannel(p, c) PROVE ChatInv'
    BY <1>10, OpenAgrees, RoomsAre, SettleInv DEF PlayerOpenChannel, ChannelNames
  <1>11. ASSUME NEW p \in Player, NEW c \in Kind \cup PrivateId, PlayerCloseChannel(p, c) PROVE ChatInv'
    <2>1. p \in Rooms.client /\ c \in ChannelNames /\ c \in Rooms.win[p]
      BY <1>11, RoomsAre DEF PlayerCloseChannel, ChannelNames
    <2>2. CASE Settle(RemoveUserFromChannel(Hide(Rooms, {p}, c), p, c))
      BY <2>1, <2>2, CloseAgrees, SettleInv
    <2>3. CASE Settle([Hide(Rooms, {p}, c) EXCEPT !.apart = @ \cup {p}])
      BY <2>1, <2>3, RefusedAgrees, SettleInv
    <2> QED
      BY <1>11, <2>2, <2>3 DEF PlayerCloseChannel
  <1>12. ASSUME NEW p \in Player, NEW x \in Address, JoinParty(p, x) PROVE ChatInv'
    BY <1>12, JoinPartyAgrees, RoomsAre, SettleInv DEF JoinParty
  <1>13. ASSUME NEW p \in Player, PlayerLeaveParty(p) PROVE ChatInv'
    BY <1>13, LeavePartyAgrees, SettleInv DEF PlayerLeaveParty
  <1>14. ASSUME NEW p \in Player, PlayerSetGuild(p) PROVE ChatInv'
    BY <1>14, SetGuildAgrees, RoomsAre, SettleInv DEF PlayerSetGuild
  <1> QED
    BY <1>1, <1>2, <1>3, <1>4, <1>5, <1>6, <1>7, <1>8, <1>9, <1>10, <1>11, <1>12, <1>13, <1>14 DEF ChatNext

LEMMA ChatInvAgrees == ChatInv => ChannelsAgree
  <1> SUFFICES ASSUME ChatInv PROVE ChannelsAgree
    OBVIOUS
  <1>1. /\ Rooms \in RoomsType /\ UsersInGame(Rooms) /\ GuildsAgree(Rooms) /\ Owned(Rooms.ch)
        /\ Clients(Rooms) /\ Heard(Rooms)
    BY DEF ChatInv, RoomsAgree
  <1>2. ListenersAreThere
    <2>1. ASSUME NEW q \in Listeners
          PROVE  q \in Player /\ ~ListensNowhere(channels, q)
      <3>1. channels \in Channels
        BY <1>1, RoomsAre DEF RoomsType
      <3>2. CASE q \in channels.public
        BY <3>1, <3>2 DEF Channels, ListensNowhere
      <3>3. CASE q \in UNION {channels.party[x] : x \in Address}
        <4>1. PICK x \in Address : q \in channels.party[x]
          BY <3>3
        <4> QED
          BY <3>1, <4>1 DEF Channels, ListensNowhere
      <3>4. CASE q \in UNION {channels.guild[i] : i \in GuildId}
        <4>1. PICK i \in GuildId : q \in channels.guild[i]
          BY <3>4
        <4> QED
          BY <3>1, <4>1 DEF Channels, ListensNowhere
      <3>5. CASE q \in UNION {channels.private[n].users \cup channels.private[n].invites : n \in PrivateId}
        <4>1. PICK n \in PrivateId : q \in channels.private[n].users \cup channels.private[n].invites
          BY <3>5
        <4> QED
          BY <3>1, <4>1 DEF Channels, Channel, ListensNowhere
      <3> QED
        <4> DEFINE party == UNION {channels.party[x] : x \in Address}
                   guild == UNION {channels.guild[i] : i \in GuildId}
                   private == UNION {channels.private[n].users \cup channels.private[n].invites : n \in PrivateId}
        <4>1. Listeners = channels.public \cup party \cup guild \cup private
          BY DEF Listeners
        <4>2. /\ q \in party => q \in Player /\ ~ListensNowhere(channels, q)
              /\ q \in guild => q \in Player /\ ~ListensNowhere(channels, q)
              /\ q \in private => q \in Player /\ ~ListensNowhere(channels, q)
          BY <3>3, <3>4, <3>5
        <4> HIDE DEF party, guild, private
        <4> QED
          BY <3>2, <4>1, <4>2
    <2> QED
      BY <1>1, <2>1, RoomsAre DEF ListenersAreThere, UsersInGame, GuildsAgree
  <1>3. OwnersListen
    BY <1>1, RoomsAre DEF OwnersListen, Owned
  <1>4. WindowsAreHeard
    <2> SUFFICES ASSUME NEW p \in client \ estranged
                 PROVE  /\ \A c \in Kind \cup PrivateId : c \in windows[p] <=> p \in Users(Rooms, p, c)
                        /\ \A x \in Address : p \in channels.party[x] => partyAt[p] = x
                        /\ \A i \in GuildId : p \in channels.guild[i] => guildOf[p] = i
      BY DEF WindowsAreHeard
    <2>1. HeardBy(Rooms, p) /\ p \in Player
      BY <1>1, RoomsAre DEF Heard, RoomsType
    <2>2. Rooms.party[p] \in Address \cup {None} /\ Rooms.guild[p] \in GuildId \cup {None}
      BY <1>1, <2>1 DEF RoomsType
    <2>3. ASSUME NEW c \in Kind \cup PrivateId
          PROVE  c \in Rooms.win[p] <=> p \in Users(Rooms, p, c)
      <3>1. CASE c = "public"
        BY <2>1, <3>1 DEF HeardBy, Users
      <3>2. CASE c = "party"
        BY <2>1, <2>2, <3>2, ChatAssumption DEF HeardBy, Users
      <3>3. CASE c = "guild"
        BY <2>1, <2>2, <3>3, ChatAssumption DEF HeardBy, Users
      <3>4. CASE c \in PrivateId
        BY <2>1, <3>4, ChatAssumption DEF HeardBy, Users
      <3> QED
        BY <3>1, <3>2, <3>3, <3>4 DEF Kind
    <2> QED
      BY <2>1, <2>3, RoomsAre DEF HeardBy
  <1> QED
    BY <1>2, <1>3, <1>4 DEF ChannelsAgree

\* Channels and guilds point at players in the game only, the owner of a private channel
\* listens to it and only he and those invited, and the windows of a client are the
\* channels its player listens to (unless they came apart), for any number of players.
THEOREM ChannelsCorrect == ChatSpec => []ChannelsAgree
  <1>1. ChatInit => ChatInv
    BY ChatInitInv
  <1>2. ChatInv /\ [ChatNext]_chatVars => ChatInv'
    BY ChatNextInv
  <1>3. ChatInv => ChannelsAgree
    BY ChatInvAgrees
  <1> QED
    BY <1>1, <1>2, <1>3, PTL DEF ChatSpec

-----------------------------------------------------------------------------
(***************************************************************************)
(* Types.                                                                  *)
(***************************************************************************)
Job == Record \X (1 .. Tries)

LEMMA StartOnType == ASSUME NEW queue \in Seq(Job) PROVE StartOn(queue) = None \/ StartOn(queue) \in Saver
  <1>1. CASE queue = <<>>
    BY <1>1 DEF StartOn
  <1>2. CASE queue # <<>>
    <2>1. Head(queue) \in Job /\ Tail(queue) \in Seq(Job)
      BY <1>2, HeadTailProperties
    <2>2. 0 \in 0 .. Statements + 1
      BY StorageAssumption DEF Statements
    <2> QED
      BY <1>2, <2>1, <2>2 DEF StartOn, Saver, Job
  <1> QED
    BY <1>1, <1>2

LEMMA AfterFailureType == ASSUME NEW s \in Saver PROVE AfterFailure(s) = None \/ AfterFailure(s) \in Saver
  <1>1. s.queue \in Seq(Job)
    BY DEF Saver, Job
  <1>2. CASE s.tries > 1
    <2>1. 0 \in 0 .. Statements + 1 /\ s.tries - 1 \in 1 .. Tries
      BY <1>2, StorageAssumption DEF Statements, Saver
    <2> QED
      BY <1>2, <2>1 DEF AfterFailure, Saver
  <1>3. CASE ~ (s.tries > 1)
    BY <1>1, <1>3, StartOnType DEF AfterFailure
  <1> QED
    BY <1>2, <1>3

(***************************************************************************)
(* The list of records that saveGameState goes through.                    *)
(***************************************************************************)
LEMMA SaveOrder ==
    ASSUME NEW order \in SetToSeqs(Player)
    PROVE  [i \in DOMAIN order |-> <<order[i], 1>>] \o <<<<"info", Tries>>, <<"items", Tries>>>> \in Seq(Job)
  <1>1. Cardinality(Player) \in Nat
    BY StorageAssumption, FS_CardinalityType
  <1>2. order \in [1 .. Cardinality(Player) -> Player]
    BY DEF SetToSeqs
  <1>3. 1 \in 1 .. Tries /\ Tries \in 1 .. Tries
    BY StorageAssumption
  <1>4. [i \in DOMAIN order |-> <<order[i], 1>>] \in [1 .. Cardinality(Player) -> Job]
    BY <1>2, <1>3 DEF Job, Record
  <1>5. [i \in DOMAIN order |-> <<order[i], 1>>] \in Seq(Job)
    BY <1>1, <1>4, SeqDef
  <1>6. <<<<"info", Tries>>, <<"items", Tries>>>> \in Seq(Job)
    BY <1>3 DEF Job, Record
  <1> QED
    BY <1>5, <1>6, ConcatProperties

-----------------------------------------------------------------------------
(***************************************************************************)
(* The inductive invariant.  A transaction belongs to the save that is     *)
(* under way and holds what its statements so far have written; a save     *)
(* that is past its BEGIN has one, unless it has lost it; and whatever is  *)
(* stored or reported is no newer than memory, from which it was taken.    *)
(* SavesAreWhole alone is not inductive: a commit stores what the          *)
(* statements have written, whatever that is.                              *)
(***************************************************************************)
Whole(r) == \E v \in Version : v >= reported[r] /\ stored[r] = [t \in Table |-> v]
TransactionAgrees ==
    open # None =>
        /\ saver # None /\ saver.record = open.record /\ saver.next >= 1
        /\ \A t \in Table :
              open.record \notin torn /\ 2 * t - 1 < saver.next => open.tables[t] = memory[open.record]
SaveHasTransaction ==
    saver # None /\ saver.next >= 1 /\ saver.record \notin torn => open # None
ReportedIsPast == \A r \in Record \ torn : reported[r] <= memory[r]

StorageInv ==
    StorageTypeOK /\ TransactionAgrees /\ SaveHasTransaction /\ ReportedIsPast
    /\ \A r \in Record \ torn : Whole(r)

LEMMA Sizes ==
    /\ 1 \in Table /\ Table \subseteq Nat /\ 0 \in Version /\ Version \subseteq Nat
    /\ Statements \in Nat \ {0} /\ \A t \in Table : 2 * t - 1 < Statements + 1
    /\ {1, 2} \subseteq 0 .. Statements + 1
    /\ \A n \in 1 .. Statements : n + 1 \in 0 .. Statements + 1
  BY StorageAssumption DEF Statements, Table, Version

\* The statements for a table come one after the other, the value last.
LEMMA Writing ==
    ASSUME NEW n \in 1 .. Statements
    PROVE  /\ TableOf(n) \in Table
           /\ \A t \in Table : /\ 2 * t - 1 = n => TableOf(n) = t /\ n % 2 # 0
                               /\ 2 * t - 1 < n => TableOf(n) # t
                               /\ 2 * t - 1 < n + 1 => 2 * t - 1 = n \/ 2 * t - 1 < n
  BY StorageAssumption DEF Statements, TableOf, Table

LEMMA NextStatement ==
    ASSUME NEW s \in Saver, NEW n \in 0 .. Statements + 1
    PROVE  LET u == [s EXCEPT !.next = n] IN u \in Saver /\ u # None /\ u.record = s.record /\ u.next = n
  <1>1. [s EXCEPT !.next = n] \in Saver
    BY DEF Saver
  <1> QED
    BY <1>1, NullAssumption DEF Saver

(***************************************************************************)
(* The steps, one lemma for each.  Most change one part of the invariant.  *)
(***************************************************************************)
LEMMA ChangeInv == ASSUME StorageInv, NEW r \in Record, Change(r) PROVE StorageInv'
  <1>1. saver = None /\ open = None
    BY DEF Change, StorageInv, TransactionAgrees
  <1>2. /\ memory[r] \in Version /\ memory[r] + 1 \in Version
        /\ memory' = [memory EXCEPT ![r] = memory[r] + 1] /\ memory \in [Record -> Version]
    BY StorageAssumption DEF Change, StorageInv, StorageTypeOK, Version
  <1>3. StorageTypeOK'
    BY <1>2 DEF StorageInv, StorageTypeOK, Change
  <1>4. ReportedIsPast'
    <2>1. reported' = reported /\ torn' = torn /\ \A q \in Record : reported[q] \in Nat /\ memory[q] \in Nat
      BY <1>2, Sizes DEF StorageInv, StorageTypeOK, Change
    <2>2. \A q \in Record : memory'[q] = memory[q] \/ memory'[q] = memory[q] + 1
      BY <1>2
    <2> QED
      BY <2>1, <2>2 DEF StorageInv, ReportedIsPast
  <1> QED
    BY <1>1, <1>3, <1>4 DEF StorageInv, TransactionAgrees, SaveHasTransaction, Whole, Change

\* No save is under way, or a new one begins.
LEMMA IdleInv ==
    ASSUME StorageInv, open' = None, saver' = None \/ (saver' \in Saver /\ saver'.next = 0),
           UNCHANGED <<memory, stored, reported>>, torn \subseteq torn', torn' \subseteq Record,
           mishaps' \in [errors : 0 .. MaxErrors, losses : 0 .. MaxLosses]
    PROVE  StorageInv'
  <1>1. StorageTypeOK'
    BY DEF StorageInv, StorageTypeOK
  <1>2. TransactionAgrees' /\ SaveHasTransaction'
    BY DEF TransactionAgrees, SaveHasTransaction
  <1> QED
    BY <1>1, <1>2 DEF StorageInv, ReportedIsPast, Whole

LEMMA BeginsAt0 ==
    /\ \A queue \in Seq(Job) : StartOn(queue) # None => StartOn(queue).next = 0
    /\ \A s \in Saver : AfterFailure(s) # None => AfterFailure(s).next = 0
  <1>1. \A queue : StartOn(queue) # None => StartOn(queue).next = 0
    BY DEF StartOn
  <1>2. ASSUME NEW s \in Saver, s.tries > 1
        PROVE  AfterFailure(s).next = 0
    BY <1>2 DEF AfterFailure, Saver
  <1>3. ASSUME NEW s \in Saver, ~ (s.tries > 1), AfterFailure(s) # None
        PROVE  AfterFailure(s).next = 0
    BY <1>1, <1>3 DEF AfterFailure
  <1> QED
    BY <1>1, <1>2, <1>3

LEMMA BeginsIdle ==
    ASSUME StorageInv, saver = None
    PROVE  open = None
  BY DEF StorageInv, TransactionAgrees

LEMMA LogOutSavedInv == ASSUME StorageInv, NEW p \in Player, LogOutSaved(p) PROVE StorageInv'
  <1>1. <<<<p, Tries>>>> \in Seq(Job)
    BY StorageAssumption DEF Job, Record
  <1>2. saver' = None \/ (saver' \in Saver /\ saver'.next = 0)
    BY <1>1, StartOnType, BeginsAt0 DEF LogOutSaved
  <1>3. open' = None
    BY BeginsIdle DEF LogOutSaved
  <1> QED
    BY <1>2, <1>3, IdleInv DEF LogOutSaved, StorageInv, StorageTypeOK

LEMMA SaveGameStateInv == StorageInv /\ SaveGameState => StorageInv'
  <1> SUFFICES ASSUME StorageInv, SaveGameState
               PROVE  StorageInv'
    OBVIOUS
  <1>1. PICK order \in SetToSeqs(Player) :
            saver' = StartOn([i \in DOMAIN order |-> <<order[i], 1>>] \o <<<<"info", Tries>>, <<"items", Tries>>>>)
    BY DEF SaveGameState
  <1>2. saver' = None \/ (saver' \in Saver /\ saver'.next = 0)
    BY <1>1, SaveOrder, StartOnType, BeginsAt0
  <1>3. open' = None
    BY BeginsIdle DEF SaveGameState
  <1> QED
    BY <1>2, <1>3, IdleInv DEF SaveGameState, StorageInv, StorageTypeOK

\* In this program a transaction is never open when the next one begins.
LEMMA BeginTransactionInv == StorageInv /\ BeginTransaction => StorageInv'
  <1> SUFFICES ASSUME StorageInv, BeginTransaction
               PROVE  StorageInv'
    OBVIOUS
  <1>1. saver \in Saver /\ saver.next = 0 /\ saver # None
    BY DEF BeginTransaction, StorageInv, StorageTypeOK
  <1>2. open = None
    BY <1>1 DEF StorageInv, TransactionAgrees
  <1>3. /\ stored' = stored /\ open' = [record |-> saver.record, tables |-> stored[saver.record]]
        /\ saver' = [saver EXCEPT !.next = 1]
    BY <1>2 DEF BeginTransaction
  <1>4. saver'.record = saver.record /\ saver'.next = 1 /\ saver' \in Saver
    BY <1>1, <1>3, Sizes, NextStatement
  <1>5. open' \in Transaction /\ open'.record = saver.record
    BY <1>1, <1>3 DEF Saver, Transaction, StorageInv, StorageTypeOK
  <1>6. open' # None /\ saver' # None
    BY <1>4, <1>5, NullAssumption
  <1>7. StorageTypeOK'
    BY <1>3, <1>4, <1>5 DEF StorageInv, StorageTypeOK, BeginTransaction
  <1>8. TransactionAgrees' /\ SaveHasTransaction'
    <2>1. \A t \in Table : ~ (2 * t - 1 < 1)
      BY Sizes DEF Table
    <2> QED
      BY <1>4, <1>5, <1>6, <2>1 DEF TransactionAgrees, SaveHasTransaction
  <1> QED
    BY <1>3, <1>7, <1>8 DEF StorageInv, ReportedIsPast, Whole, BeginTransaction

LEMMA ExecuteQueryInv == StorageInv /\ ExecuteQuery => StorageInv'
  <1> SUFFICES ASSUME StorageInv, ExecuteQuery
               PROVE  StorageInv'
    OBVIOUS
  <1> DEFINE r == saver.record
             n == saver.next
             t == TableOf(n)
             v == Written(n, memory[r])
  <1>1. /\ saver # None /\ saver \in Saver /\ n \in 1 .. Statements /\ r \in Record /\ t \in Table
        /\ saver' = [saver EXCEPT !.next = n + 1]
    BY Writing DEF ExecuteQuery, StorageInv, StorageTypeOK, Saver
  <1>2. saver'.record = r /\ saver'.next = n + 1 /\ saver' \in Saver
    <2>1. n + 1 \in 0 .. Statements + 1
      BY <1>1, Sizes
    <2> QED
      BY <1>1, <2>1, NextStatement
  <1>3. v \in Version \cup {Empty} /\ (n % 2 # 0 => v = memory[r])
    BY <1>1 DEF Written, StorageInv, StorageTypeOK
  <1>4. saver' # None
    BY <1>2, NullAssumption
  <1>5. CASE open = None
    <2>1. open' = None /\ stored' = [stored EXCEPT ![r][t] = v] /\ r \in torn
      BY <1>1, <1>5 DEF ExecuteQuery, StorageInv, SaveHasTransaction
    <2>2. stored' \in [Record -> Contents] /\ \A q \in Record : q # r => stored'[q] = stored[q]
      BY <1>1, <1>3, <2>1 DEF StorageInv, StorageTypeOK, Contents
    <2>3. StorageTypeOK'
      BY <1>2, <2>1, <2>2 DEF StorageInv, StorageTypeOK, ExecuteQuery
    <2>4. TransactionAgrees' /\ SaveHasTransaction'
      BY <1>2, <2>1 DEF TransactionAgrees, SaveHasTransaction, ExecuteQuery
    <2> QED
      BY <2>1, <2>2, <2>3, <2>4 DEF StorageInv, ReportedIsPast, Whole, ExecuteQuery
  <1>6. CASE open # None
    <2>1. /\ open \in Transaction /\ open.record = r
          /\ stored' = stored /\ open' = [open EXCEPT !.tables[t] = v]
      BY <1>1, <1>6 DEF ExecuteQuery, StorageInv, StorageTypeOK, TransactionAgrees
    <2>2. /\ open' \in Transaction /\ open'.record = r /\ open'.tables[t] = v
          /\ \A u \in Table : u # t => open'.tables[u] = open.tables[u]
      BY <1>1, <1>3, <2>1 DEF Transaction, Contents
    <2>3. open' # None
      BY <2>2, NullAssumption
    <2>4. StorageTypeOK'
      BY <1>2, <2>1, <2>2 DEF StorageInv, StorageTypeOK, ExecuteQuery
    <2>5. ASSUME NEW u \in Table, r \notin torn, 2 * u - 1 < n + 1
          PROVE  open'.tables[u] = memory[r]
      <3>1. CASE 2 * u - 1 = n
        BY <1>1, <1>3, <2>2, <3>1, Writing
      <3>2. CASE 2 * u - 1 < n
        BY <1>1, <1>6, <2>1, <2>2, <2>5, <3>2, Writing DEF StorageInv, TransactionAgrees
      <3> QED
        BY <1>1, <2>5, <3>1, <3>2, Writing
    <2>6. TransactionAgrees' /\ SaveHasTransaction'
      <3>1. torn' = torn /\ memory' = memory /\ n + 1 >= 1
        BY <1>1 DEF ExecuteQuery
      <3> HIDE DEF r, n
      <3> QED
        BY <1>2, <1>4, <2>2, <2>3, <2>5, <3>1 DEF TransactionAgrees, SaveHasTransaction
    <2> QED
      BY <2>1, <2>4, <2>6 DEF StorageInv, ReportedIsPast, Whole, ExecuteQuery
  <1> QED
    BY <1>5, <1>6

LEMMA QueryFailsInv == StorageInv /\ QueryFails => StorageInv'
  <1> SUFFICES ASSUME StorageInv, QueryFails
               PROVE  StorageInv'
    OBVIOUS
  <1>1. saver \in Saver
    BY DEF QueryFails, StorageInv, StorageTypeOK
  <1>2. saver' = None \/ (saver' \in Saver /\ saver'.next = 0)
    BY <1>1, AfterFailureType, BeginsAt0 DEF QueryFails
  <1>3. mishaps' \in [errors : 0 .. MaxErrors, losses : 0 .. MaxLosses]
    BY StorageAssumption DEF QueryFails, StorageInv, StorageTypeOK
  <1> QED
    BY <1>2, <1>3, IdleInv DEF QueryFails, StorageInv, StorageTypeOK

LEMMA UncheckedQueryFailsInv == StorageInv /\ UncheckedQueryFails => StorageInv'
  <1> SUFFICES ASSUME StorageInv, UncheckedQueryFails
               PROVE  StorageInv'
    OBVIOUS
  <1>1. /\ saver \in Saver /\ saver # None /\ saver.record = "info" /\ saver.next = 1
        /\ saver' = [saver EXCEPT !.next = 2] /\ torn' = torn \cup {"info"}
    BY DEF UncheckedQueryFails, Unchecked, StorageInv, StorageTypeOK, Saver
  <1>2. saver' \in Saver /\ saver'.record = "info" /\ saver'.next = 2
    BY <1>1, Sizes, NextStatement
  <1>3. saver' # None
    BY <1>2, NullAssumption
  <1>4. mishaps' \in [errors : 0 .. MaxErrors, losses : 0 .. MaxLosses]
    BY StorageAssumption DEF UncheckedQueryFails, StorageInv, StorageTypeOK
  <1>5. StorageTypeOK'
    BY <1>1, <1>2, <1>4 DEF StorageInv, StorageTypeOK, UncheckedQueryFails, Record
  <1>6. TransactionAgrees' /\ SaveHasTransaction'
    BY <1>1, <1>2, <1>3 DEF StorageInv, TransactionAgrees, SaveHasTransaction, UncheckedQueryFails
  <1> QED
    BY <1>1, <1>5, <1>6 DEF StorageInv, ReportedIsPast, Whole, UncheckedQueryFails

LEMMA LoseConnectionInv == StorageInv /\ LoseConnection => StorageInv'
  <1> SUFFICES ASSUME StorageInv, LoseConnection
               PROVE  StorageInv'
    OBVIOUS
  <1>1. mishaps' \in [errors : 0 .. MaxErrors, losses : 0 .. MaxLosses]
    BY StorageAssumption DEF LoseConnection, StorageInv, StorageTypeOK
  <1>2. /\ open' = None /\ torn' = IF open = None THEN torn ELSE torn \cup {open.record}
        /\ torn \subseteq torn' /\ open # None => open.record \in Record
    BY DEF LoseConnection, StorageInv, StorageTypeOK, Transaction
  <1>3. StorageTypeOK'
    BY <1>1, <1>2 DEF StorageInv, StorageTypeOK, LoseConnection
  <1>4. TransactionAgrees' /\ SaveHasTransaction'
    BY <1>2 DEF StorageInv, TransactionAgrees, SaveHasTransaction, LoseConnection
  <1> QED
    BY <1>2, <1>3, <1>4 DEF StorageInv, ReportedIsPast, Whole, LoseConnection

(***************************************************************************)
(* What the commit of a save that has its transaction makes of the record: *)
(* all tables as they are in memory.                                       *)
(***************************************************************************)
Committed == IF open = None THEN stored ELSE [stored EXCEPT ![saver.record] = open.tables]

LEMMA CommitStores ==
    ASSUME StorageInv, saver # None, saver.next = Statements + 1
    PROVE  /\ Committed \in [Record -> Contents] /\ saver.record \in Record
           /\ \A q \in Record : q # saver.record => Committed[q] = stored[q]
           /\ saver.record \notin torn => Committed[saver.record] = [t \in Table |-> memory[saver.record]]
  <1> DEFINE r == saver.record
  <1>0. r \in Record /\ stored \in [Record -> Contents]
    BY DEF StorageInv, StorageTypeOK, Saver
  <1>1. r \in Record /\ stored \in [Record -> Contents] /\ saver.next >= 1
    <2>1. Statements \in Nat
      BY Sizes
    <2> QED
      BY <1>0, <2>1
  <1>2. CASE open = None
    BY <1>1, <1>2 DEF Committed, StorageInv, SaveHasTransaction
  <1>3. CASE open # None
    <2>1. open.tables \in Contents /\ open.record = r
      BY <1>3 DEF StorageInv, StorageTypeOK, Transaction, TransactionAgrees
    <2>2. Committed = [stored EXCEPT ![r] = open.tables]
      BY <1>3 DEF Committed
    <2>3. ASSUME r \notin torn
          PROVE  open.tables = [t \in Table |-> memory[r]]
      <3>1. \A t \in Table : open.tables[t] = memory[r]
        BY <1>3, <2>1, <2>3, Sizes DEF StorageInv, TransactionAgrees
      <3>2. open.tables = [t \in Table |-> open.tables[t]]
        BY <2>1 DEF Contents
      <3> QED
        BY <3>1, <3>2
    <2> HIDE DEF r
    <2> QED
      BY <1>1, <2>1, <2>2, <2>3 DEF r
  <1> QED
    BY <1>2, <1>3

LEMMA CommitInv == StorageInv /\ Commit => StorageInv'
  <1> SUFFICES ASSUME StorageInv, Commit
               PROVE  StorageInv'
    OBVIOUS
  <1> DEFINE r == saver.record
  <1>1. /\ saver # None /\ saver \in Saver /\ r \in Record /\ saver.queue \in Seq(Job)
        /\ saver.next = Statements + 1 /\ stored' = Committed
        /\ reported' = [reported EXCEPT ![r] = memory[r]] /\ open' = None
        /\ saver' = StartOn(saver.queue)
    BY DEF Commit, Committed, StorageInv, StorageTypeOK, Saver, Job
  <1>2. saver' = None \/ (saver' \in Saver /\ saver'.next = 0)
    BY <1>1, StartOnType, BeginsAt0
  <1>3. stored' \in [Record -> Contents] /\ reported' \in [Record -> Version]
    BY <1>1, CommitStores DEF StorageInv, StorageTypeOK
  <1>4. StorageTypeOK'
    BY <1>1, <1>2, <1>3 DEF StorageInv, StorageTypeOK, Commit
  <1>5. TransactionAgrees' /\ SaveHasTransaction'
    BY <1>1, <1>2 DEF TransactionAgrees, SaveHasTransaction
  <1>6. memory[r] \in Version /\ memory[r] >= memory[r]
    <2>1. memory[r] \in Version
      BY <1>1 DEF StorageInv, StorageTypeOK
    <2> QED
      BY <2>1 DEF Version
  <1>7. ASSUME NEW q \in Record \ torn
        PROVE  Whole(q)' /\ reported'[q] <= memory'[q]
    <2>1. memory' = memory
      BY DEF Commit
    <2>2. CASE q = r
      <3>1. stored'[q] = [t \in Table |-> memory[r]] /\ reported'[q] = memory[r]
        BY <1>1, <1>7, <2>2, CommitStores DEF StorageInv, StorageTypeOK
      <3> QED
        BY <1>6, <2>1, <2>2, <3>1 DEF Whole
    <2>3. CASE q # r
      <3>1. stored'[q] = stored[q] /\ reported'[q] = reported[q]
        BY <1>1, <2>3, CommitStores DEF StorageInv, StorageTypeOK
      <3> QED
        BY <1>7, <2>1, <3>1 DEF Whole, StorageInv, ReportedIsPast
    <2> QED
      BY <2>2, <2>3
  <1>8. torn' = torn
    BY DEF Commit
  <1> QED
    BY <1>4, <1>5, <1>7, <1>8 DEF StorageInv, ReportedIsPast

LEMMA CommitFailsInv == StorageInv /\ CommitFails => StorageInv'
  <1> SUFFICES ASSUME StorageInv, CommitFails
               PROVE  StorageInv'
    OBVIOUS
  <1> DEFINE r == saver.record
  <1>1. /\ saver # None /\ saver \in Saver /\ r \in Record
        /\ saver.next = Statements + 1 /\ stored' \in {stored, Committed}
        /\ UNCHANGED <<memory, reported, torn>> /\ open' = None
        /\ saver' = AfterFailure(saver)
    BY DEF CommitFails, Committed, StorageInv, StorageTypeOK, Saver
  <1>2. saver' = None \/ (saver' \in Saver /\ saver'.next = 0)
    BY <1>1, AfterFailureType, BeginsAt0
  <1>3. mishaps' \in [errors : 0 .. MaxErrors, losses : 0 .. MaxLosses]
    BY StorageAssumption DEF CommitFails, StorageInv, StorageTypeOK
  <1>4. stored' \in [Record -> Contents]
    BY <1>1, CommitStores DEF StorageInv, StorageTypeOK
  <1>5. StorageTypeOK'
    BY <1>1, <1>2, <1>3, <1>4 DEF StorageInv, StorageTypeOK
  <1>6. TransactionAgrees' /\ SaveHasTransaction'
    BY <1>1, <1>2 DEF TransactionAgrees, SaveHasTransaction
  <1>7. ASSUME NEW q \in Record \ torn
        PROVE  Whole(q)'
    <2>1. CASE stored'[q] = stored[q]
      BY <1>1, <1>7, <2>1 DEF Whole, StorageInv
    <2>2. CASE stored'[q] # stored[q]
      <3>1. q = r /\ stored'[q] = [t \in Table |-> memory[r]]
        BY <1>1, <1>7, <2>2, CommitStores
      <3>2. memory[r] \in Version /\ reported[r] \in Version /\ reported[r] <= memory[r]
        BY <1>1, <1>7, <3>1 DEF StorageInv, StorageTypeOK, ReportedIsPast
      <3>3. memory[r] >= reported'[q]
        BY <1>1, <3>1, <3>2, Sizes
      <3> QED
        BY <3>1, <3>2, <3>3 DEF Whole
    <2> QED
      BY <2>1, <2>2
  <1> QED
    BY <1>1, <1>5, <1>6, <1>7 DEF StorageInv, ReportedIsPast

LEMMA CrashInv == StorageInv /\ Crash => StorageInv'
  <1> SUFFICES ASSUME StorageInv, Crash
               PROVE  StorageInv'
    OBVIOUS
  <1>1. /\ open' = None /\ saver' = None /\ UNCHANGED <<stored, reported, mishaps, torn>>
        /\ memory' = [q \in Record |-> IF stored[q][1] = Empty THEN 0 ELSE stored[q][1]]
    BY DEF Crash
  <1>2. \A q \in Record : stored[q][1] \in Version \cup {Empty}
    BY Sizes DEF StorageInv, StorageTypeOK, Contents
  <1>3. StorageTypeOK'
    BY <1>1, <1>2, Sizes DEF StorageInv, StorageTypeOK
  <1>4. ASSUME NEW q \in Record \ torn
        PROVE  reported[q] <= memory'[q]
    <2>1. PICK v \in Version : v >= reported[q] /\ stored[q] = [t \in Table |-> v]
      BY DEF StorageInv, Whole
    <2>2. stored[q][1] = v /\ v # Empty
      BY <2>1, Sizes DEF Empty
    <2>3. reported[q] \in Version /\ memory'[q] = v
      BY <1>1, <2>2 DEF StorageInv, StorageTypeOK
    <2> QED
      BY <2>1, <2>3, Sizes
  <1>5. TransactionAgrees' /\ SaveHasTransaction'
    BY <1>1 DEF TransactionAgrees, SaveHasTransaction
  <1> QED
    BY <1>1, <1>3, <1>4, <1>5 DEF StorageInv, ReportedIsPast, Whole

-----------------------------------------------------------------------------
LEMMA InitInv == StorageInit => StorageInv
  <1> SUFFICES ASSUME StorageInit
               PROVE  StorageInv
    OBVIOUS
  <1>1. StorageTypeOK
    BY Sizes, StorageAssumption DEF StorageInit, StorageTypeOK, Contents
  <1>2. \A r \in Record : reported[r] = 0 /\ memory[r] = 0 /\ stored[r] = [t \in Table |-> 0] /\ 0 >= 0
    BY DEF StorageInit
  <1> QED
    BY <1>1, <1>2, Sizes
       DEF StorageInit, StorageInv, TransactionAgrees, SaveHasTransaction, ReportedIsPast, Whole

LEMMA NextInv == StorageInv /\ [StorageNext]_storageVars => StorageInv'
  <1>1. StorageInv /\ UNCHANGED storageVars => StorageInv'
    BY DEF storageVars, StorageInv, StorageTypeOK, TransactionAgrees, SaveHasTransaction,
       ReportedIsPast, Whole
  <1> QED
    BY <1>1, ChangeInv, LogOutSavedInv, SaveGameStateInv, BeginTransactionInv, ExecuteQueryInv,
       QueryFailsInv, UncheckedQueryFailsInv, CommitInv, CommitFailsInv, LoseConnectionInv, CrashInv
       DEF StorageNext

(***************************************************************************)
(* Whatever fails, is tried again or crashes, every variable keeps its     *)
(* type.                                                                   *)
(***************************************************************************)
THEOREM TypeCorrect == StorageSpec => []StorageTypeOK
  <1>1. StorageInv => StorageTypeOK
    BY DEF StorageInv
  <1> QED
    BY <1>1, InitInv, NextInv, PTL DEF StorageSpec

(***************************************************************************)
(* Saves are whole: each record that no save went on with without its      *)
(* transaction is stored as it was at one time, and not before the last    *)
(* save that was reported; after every crash, failed statement, lost       *)
(* connection and commit of unknown outcome, for players of any number     *)
(* with records of any number of tables.                                   *)
(***************************************************************************)
THEOREM SavesAreWholeCorrect == StorageSpec => []SavesAreWhole
  <1>1. StorageInv => SavesAreWhole
    BY DEF StorageInv, SavesAreWhole, Whole
  <1> QED
    BY <1>1, InitInv, NextInv, PTL DEF StorageSpec

-----------------------------------------------------------------------------
(***************************************************************************)
(* Loops over a finite set: the function that takes one element away at a  *)
(* time exists, and what is said after every part of it is said at its     *)
(* end.  The market's totals and the settlement of offers are such loops.  *)
(***************************************************************************)
Pick(T) == CHOOSE x \in T : TRUE
LEMMA PickIn ==
    ASSUME NEW T, T # {}
    PROVE  Pick(T) \in T
  BY DEF Pick

LEMMA LeastOf ==
    ASSUME NEW S, S \subseteq Nat, NEW n \in S, NEW R, R = {p \in Nat \X Nat : p[1] < p[2]},
           \A k \in S : ~ (<<k, n>> \in R)
    PROVE  \A k \in S : n <= k
  <1> SUFFICES ASSUME NEW k \in S
               PROVE  n <= k
    OBVIOUS
  <1>1. PICK p \in Nat \X Nat : p = <<k, n>>
    OBVIOUS
  <1>2. p[1] = k /\ p[2] = n
    BY <1>1
  <1>3. p \notin R
    BY <1>1
  <1>4. ~ (k < n)
    BY <1>2, <1>3
  <1> QED
    BY <1>4

LEMMA LeastNat ==
    ASSUME NEW S, S \subseteq Nat, S # {}
    PROVE  \E n \in S : \A k \in S : n <= k
  <1>1. PICK R : R = OpToRel(<, Nat)
    OBVIOUS
  <1>2. IsWellFoundedOn(R, Nat)
    BY <1>1, NatLessThanWellFounded, Zenon
  <1>3. PICK n \in S : \A k \in S : ~ (<<k, n>> \in R)
    BY <1>2, WFMin, Zenon
  <1>4. R = {p \in Nat \X Nat : p[1] < p[2]}
    BY <1>1, Zenon DEF OpToRel
  <1>5. \A k \in S : n <= k
    BY <1>3, <1>4, LeastOf, Zenon
  <1> QED
    BY <1>5, Zenon

Small(M, n) == {T \in SUBSET M : Cardinality(T) <= n}

LEMMA SmallFacts ==
    ASSUME NEW M, IsFiniteSet(M)
    PROVE  /\ \A T \in SUBSET M : IsFiniteSet(T) /\ Cardinality(T) \in Nat
           /\ Small(M, 0) = {{}}
           /\ \A n \in Nat : \A T \in Small(M, n + 1) : T # {} => T \ {Pick(T)} \in Small(M, n)
           /\ \A n \in Nat : Small(M, n) \subseteq Small(M, n + 1)
           /\ Small(M, Cardinality(M)) = SUBSET M
  <1>1. \A T \in SUBSET M : IsFiniteSet(T) /\ Cardinality(T) \in Nat /\ Cardinality(T) <= Cardinality(M)
    BY FS_Subset, FS_CardinalityType
  <1>2. Small(M, 0) = {{}}
    BY <1>1, FS_EmptySet DEF Small
  <1>3. ASSUME NEW n \in Nat, NEW T \in Small(M, n + 1), T # {}
        PROVE  T \ {Pick(T)} \in Small(M, n)
    <2>1. T \in SUBSET M /\ Cardinality(T) <= n + 1
      BY DEF Small
    <2>2. Cardinality(T \ {Pick(T)}) = Cardinality(T) - 1
      BY <1>1, <1>3, <2>1, PickIn, FS_RemoveElement
    <2> QED
      BY <1>1, <2>1, <2>2 DEF Small
  <1>4. \A n \in Nat : Small(M, n) \subseteq Small(M, n + 1)
    BY <1>1 DEF Small
  <1>5. Small(M, Cardinality(M)) = SUBSET M
    BY <1>1 DEF Small
  <1> QED
    BY <1>1, <1>2, <1>3, <1>4, <1>5

LoopBy(M, b, F, it) == [T \in SUBSET M |-> IF T = {} THEN b ELSE F[<<Pick(T), it[T \ {Pick(T)}]>>]]

\* The function that a loop defines, which takes one element away at a time, exists;
\* F says what the loop does with an element.
LEMMA LoopExists ==
    ASSUME NEW M, IsFiniteSet(M), NEW b, NEW F
    PROVE  \E it : it = LoopBy(M, b, F, it)
  <1> DEFINE Next(it, D) == [T \in D |-> IF T = {} THEN b ELSE F[<<Pick(T), it[T \ {Pick(T)}]>>]]
             Bad == {n \in Nat : ~ \E it : it = Next(it, Small(M, n))}
  <1>1. 0 \notin Bad
    <2>1. PICK it : it = [T \in {{}} |-> b]
      OBVIOUS
    <2>2. it = [T \in {{}} |-> IF T = {} THEN b ELSE F[<<Pick(T), it[T \ {Pick(T)}]>>]]
      BY <2>1
    <2> QED
      BY <2>2, SmallFacts
  <1>2. ASSUME NEW n \in Nat, n \notin Bad
        PROVE  n + 1 \notin Bad
    <2>1. PICK it : it = Next(it, Small(M, n))
      BY <1>2
    <2>2. PICK h : h = Next(it, Small(M, n + 1))
      OBVIOUS
    <2>3. ASSUME NEW T \in Small(M, n + 1), T # {}
          PROVE  h[T \ {Pick(T)}] = it[T \ {Pick(T)}]
      <3>1. PICK U : U = T \ {Pick(T)}
        OBVIOUS
      <3>2. U \in Small(M, n) /\ U \in Small(M, n + 1)
        BY <2>3, <3>1, SmallFacts
      <3>3. h[U] = IF U = {} THEN b ELSE F[<<Pick(U), it[U \ {Pick(U)}]>>]
        BY <2>2, <3>2
      <3>4. it[U] = IF U = {} THEN b ELSE F[<<Pick(U), it[U \ {Pick(U)}]>>]
        BY <2>1, <3>2
      <3> QED
        BY <3>1, <3>3, <3>4
    <2>4. h = [T \in Small(M, n + 1) |-> IF T = {} THEN b ELSE F[<<Pick(T), h[T \ {Pick(T)}]>>]]
      BY <2>2, <2>3
    <2> QED
      BY <2>4
  <1>3. Bad = {}
    <2> SUFFICES ASSUME Bad # {}
                 PROVE  FALSE
      OBVIOUS
    <2>1. PICK n \in Bad : \A k \in Bad : n <= k
      <3> HIDE DEF Bad
      <3>1. Bad \subseteq Nat
        BY DEF Bad
      <3> QED
        BY <3>1, LeastNat
    <2>2. n \in Nat /\ n # 0
      BY <1>1
    <2>3. n - 1 \in Nat /\ n - 1 \notin Bad
      <3> HIDE DEF Bad
      <3> QED
        BY <2>1, <2>2
    <2>4. n - 1 + 1 \notin Bad
      <3> HIDE DEF Bad
      <3> QED
        BY <1>2, <2>3
    <2> QED
      <3> HIDE DEF Bad
      <3> QED
        BY <2>1, <2>2, <2>4
  <1>4. Cardinality(M) \in Nat
    BY FS_CardinalityType
  <1>5. PICK it : it = Next(it, Small(M, Cardinality(M)))
    BY <1>3, <1>4
  <1>6. Next(it, Small(M, Cardinality(M))) = LoopBy(M, b, F, it)
    BY SmallFacts DEF LoopBy
  <1> QED
    BY <1>5, <1>6

\* What is said of the books after every part of a loop is said after it; K[T] are
\* the books of which it is said when the loop is over with the elements of T.
LEMMA LoopEnds ==
    ASSUME NEW M, IsFiniteSet(M), NEW K, NEW h,
           h[{}] \in K[{}],
           \A T \in SUBSET M : T # {} /\ h[T \ {Pick(T)}] \in K[T \ {Pick(T)}] => h[T] \in K[T]
    PROVE  h[M] \in K[M]
  <1> DEFINE Bad == {n \in Nat : \E T \in SUBSET M : Cardinality(T) = n /\ h[T] \notin K[T]}
  <1>1. Bad = {}
    <2> SUFFICES ASSUME Bad # {}
                 PROVE  FALSE
      OBVIOUS
    <2>1. PICK n \in Bad : \A k \in Bad : n <= k
      <3> HIDE DEF Bad
      <3>1. Bad \subseteq Nat
        BY DEF Bad
      <3> QED
        BY <3>1, LeastNat
    <2>2. PICK T \in SUBSET M : Cardinality(T) = n /\ h[T] \notin K[T]
      OBVIOUS
    <2>3. T # {}
      BY <2>2
    <2>4. PICK U \in SUBSET M : U = T \ {Pick(T)}
      OBVIOUS
    <2>5. IsFiniteSet(T) /\ IsFiniteSet(U)
      BY FS_Subset
    <2>6. Cardinality(U) = n - 1 /\ n - 1 \in Nat
      BY <2>2, <2>3, <2>4, <2>5, PickIn, FS_RemoveElement, FS_CardinalityType
    <2>7. h[U] \notin K[U]
      BY <2>2, <2>3, <2>4
    <2>8. n - 1 \in Bad
      BY <2>6, <2>7
    <2>9. n \in Nat
      OBVIOUS
    <2> QED
      <3> HIDE DEF Bad
      <3> QED
        BY <2>1, <2>8, <2>9
  <1>2. Cardinality(M) \in Nat
    BY FS_CardinalityType
  <1> QED
    BY <1>1, <1>2

LEMMA Looped ==
    ASSUME NEW M, IsFiniteSet(M), NEW b, NEW F, NEW K, b \in K[{}],
           \A T \in SUBSET M : T # {} => \A d \in K[T \ {Pick(T)}] : F[<<Pick(T), d>>] \in K[T]
    PROVE  \E it : /\ it = LoopBy(M, b, F, it)
                  /\ \A T \in SUBSET M : it[T] \in K[T]
  <1>1. PICK it : it = LoopBy(M, b, F, it)
    BY LoopExists
  <1>2. ASSUME NEW N \in SUBSET M
        PROVE  it[N] \in K[N]
    <2>1. IsFiniteSet(N)
      BY FS_Subset
    <2>2. it[{}] \in K[{}]
      BY <1>1 DEF LoopBy
    <2>3. \A T \in SUBSET N : T # {} /\ it[T \ {Pick(T)}] \in K[T \ {Pick(T)}] => it[T] \in K[T]
      BY <1>1 DEF LoopBy
    <2> QED
      BY <2>1, <2>2, <2>3, LoopEnds
  <1> QED
    BY <1>1, <1>2

-----------------------------------------------------------------------------
(***************************************************************************)
(* Sums.                                                                   *)
(***************************************************************************)
SumBy(f, S, h) == [T \in SUBSET S |-> IF T = {} THEN 0 ELSE f[Pick(T)] + h[T \ {Pick(T)}]]

LEMMA SumExists ==
    ASSUME NEW S, IsFiniteSet(S), NEW f, \A x \in S : f[x] \in Int
    PROVE  \E h : h = SumBy(f, S, h)
  <1>1. PICK F : F = [z \in S \X Int |-> f[z[1]] + z[2]]
    OBVIOUS
  <1>2. PICK K : K = [T \in SUBSET S |-> Int]
    OBVIOUS
  <1>3. \A x \in S : \A d \in Int : F[<<x, d>>] = f[x] + d
    BY <1>1
  <1>4. \A T \in SUBSET S : T # {} => Pick(T) \in S /\ T \ {Pick(T)} \in SUBSET S
    BY PickIn
  <1>5. 0 \in K[{}]
    BY <1>2
  <1>6. \A T \in SUBSET S : T # {} => \A d \in K[T \ {Pick(T)}] : F[<<Pick(T), d>>] \in K[T]
    BY <1>2, <1>3, <1>4
  <1>7. PICK h : h = LoopBy(S, 0, F, h) /\ \A T \in SUBSET S : h[T] \in K[T]
    BY <1>5, <1>6, Looped
  <1>8. \A T \in SUBSET S : T # {} => F[<<Pick(T), h[T \ {Pick(T)}]>>] = f[Pick(T)] + h[T \ {Pick(T)}]
    BY <1>2, <1>3, <1>4, <1>7
  <1>9. h = SumBy(f, S, h)
    BY <1>7, <1>8 DEF LoopBy, SumBy
  <1> QED
    BY <1>9

LEMMA SumParts ==
    ASSUME NEW S, IsFiniteSet(S), NEW f, \A x \in S : f[x] \in Int, NEW h, h = SumBy(f, S, h)
    PROVE  h[{}] = 0 /\ \A T \in SUBSET S : h[T] \in Int
  <1>1. h[{}] = 0
    BY DEF SumBy
  <1>2. ASSUME NEW N \in SUBSET S
        PROVE  h[N] \in Int
    <2>1. PICK K : K = [T \in SUBSET N |-> Int]
      OBVIOUS
    <2>2. IsFiniteSet(N) /\ h[{}] \in K[{}]
      BY <1>1, <2>1, FS_Subset
    <2>3. ASSUME NEW T \in SUBSET N, T # {}, h[T \ {Pick(T)}] \in K[T \ {Pick(T)}]
          PROVE  h[T] \in K[T]
      <3>1. Pick(T) \in S /\ h[T \ {Pick(T)}] \in Int
        BY <2>1, <2>3, PickIn
      <3>2. h[T] = f[Pick(T)] + h[T \ {Pick(T)}]
        BY <2>3 DEF SumBy
      <3> QED
        BY <2>1, <3>1, <3>2
    <2>4. h[N] \in K[N]
      BY <2>2, <2>3, LoopEnds
    <2> QED
      BY <2>1, <2>4
  <1> QED
    BY <1>1, <1>2

\* Any element may be taken first.
LEMMA SumAnyFirst ==
    ASSUME NEW S, IsFiniteSet(S), NEW f, \A x \in S : f[x] \in Int, NEW h, h = SumBy(f, S, h),
           NEW T \in SUBSET S, NEW x \in T
    PROVE  h[T] = f[x] + h[T \ {x}]
  <1> DEFINE Wrong(U) == \E y \in U : h[U] # f[y] + h[U \ {y}]
             Bad == {n \in Nat : \E U \in SUBSET S : Cardinality(U) = n /\ Wrong(U)}
  <1>1. Bad = {}
    <2> SUFFICES ASSUME Bad # {}
                 PROVE  FALSE
      OBVIOUS
    <2>1. PICK n \in Bad : \A k \in Bad : n <= k
      <3> HIDE DEF Bad
      <3>1. Bad \subseteq Nat
        BY DEF Bad
      <3> QED
        BY <3>1, LeastNat
    <2>2. PICK U \in SUBSET S : Cardinality(U) = n /\ Wrong(U)
      OBVIOUS
    <2>3. PICK y \in U : h[U] # f[y] + h[U \ {y}]
      BY <2>2
    <2>4. PICK z : z = Pick(U) /\ z \in U
      BY <2>2, PickIn
    <2>5. h[U] = f[z] + h[U \ {z}]
      BY <2>4 DEF SumBy
    <2>6. y # z
      BY <2>3, <2>5
    <2>7. PICK V \in SUBSET S : V = U \ {z}
      OBVIOUS
    <2>8. PICK W \in SUBSET S : W = U \ {y}
      OBVIOUS
    <2>9. /\ IsFiniteSet(U) /\ Cardinality(V) \in Nat /\ Cardinality(W) \in Nat
          /\ Cardinality(V) = Cardinality(U) - 1 /\ Cardinality(W) = Cardinality(U) - 1
      BY <2>4, <2>7, <2>8, FS_Subset, FS_RemoveElement, FS_CardinalityType
    <2>10. ~ Wrong(V) /\ ~ Wrong(W)
      <3>1. Cardinality(V) \notin Bad /\ Cardinality(W) \notin Bad
        <4>1. n \in Nat
          OBVIOUS
        <4> HIDE DEF Bad
        <4> QED
          BY <2>1, <2>2, <2>9, <4>1
      <3> QED
        BY <2>9, <3>1
    <2>11. y \in V /\ z \in W /\ V \ {y} = W \ {z}
      BY <2>4, <2>6, <2>7, <2>8
    <2>12. h[V] = f[y] + h[V \ {y}] /\ h[W] = f[z] + h[W \ {z}]
      BY <2>10, <2>11
    <2>13. f[y] \in Int /\ f[z] \in Int /\ h[V \ {y}] \in Int
      BY <2>4, SumParts
    <2>14. h[U] = f[z] + h[V] /\ h[U] # f[y] + h[W]
      BY <2>3, <2>5, <2>7, <2>8
    <2>15. PICK r \in Int : r = h[V \ {y}] /\ r = h[W \ {z}]
      BY <2>11, <2>13
    <2> HIDE DEF Bad, Wrong
    <2> QED
      BY <2>12, <2>13, <2>14, <2>15
  <1>2. Cardinality(T) \in Nat
    BY FS_Subset, FS_CardinalityType
  <1> QED
    BY <1>1, <1>2

\* The sum of what is left of a function.
LEMMA SumSame ==
    ASSUME NEW S, IsFiniteSet(S), NEW f, NEW h, h = SumBy(f, S, h),
           NEW T \in SUBSET S, NEW e, \A x \in T : e[x] = f[x], NEW k, k = SumBy(e, T, k)
    PROVE  k[T] = h[T]
  <1>1. PICK K : K = [U \in SUBSET T |-> {h[U]}]
    OBVIOUS
  <1>2. IsFiniteSet(T) /\ k[{}] \in K[{}]
    BY <1>1, FS_Subset DEF SumBy
  <1>3. ASSUME NEW U \in SUBSET T, U # {}, k[U \ {Pick(U)}] \in K[U \ {Pick(U)}]
        PROVE  k[U] \in K[U]
    <2>1. Pick(U) \in T
      BY <1>3, PickIn
    <2>2. k[U \ {Pick(U)}] = h[U \ {Pick(U)}]
      BY <1>1, <1>3
    <2>3. k[U] = e[Pick(U)] + k[U \ {Pick(U)}]
      BY <1>3 DEF SumBy
    <2>4. h[U] = f[Pick(U)] + h[U \ {Pick(U)}]
      BY <1>3 DEF SumBy
    <2> QED
      BY <1>1, <2>1, <2>2, <2>3, <2>4
  <1>4. k[T] \in K[T]
    BY <1>2, <1>3, LoopEnds
  <1> QED
    BY <1>1, <1>4

LEMMA SumUnfolds ==
    ASSUME NEW f, IsFiniteSet(DOMAIN f), \A x \in DOMAIN f : f[x] \in Int
    PROVE  \E h : h = SumBy(f, DOMAIN f, h) /\ SumFunction(f) = h[DOMAIN f]
  <1>1. PICK h : h = CHOOSE k : k = [T \in SUBSET DOMAIN f |->
                                        IF T = {} THEN 0 ELSE f[CHOOSE x \in T : TRUE]
                                                              + k[T \ {CHOOSE x \in T : TRUE}]]
    OBVIOUS
  <1>2. SumFunction(f) = h[DOMAIN f]
    BY <1>1 DEF SumFunction, SumFunctionOnSet, FoldFunctionOnSet, MapThenFoldSet
  <1>3. h = SumBy(f, DOMAIN f, h)
    <2>1. \E k : k = SumBy(f, DOMAIN f, k)
      BY SumExists
    <2> QED
      BY <1>1, <2>1 DEF SumBy, Pick
  <1> QED
    BY <1>2, <1>3

LEMMA SumNone ==
    ASSUME NEW f, DOMAIN f = {}
    PROVE  SumFunction(f) = 0
  <1>1. PICK h : h = SumBy(f, DOMAIN f, h) /\ SumFunction(f) = h[DOMAIN f]
    BY SumUnfolds, FS_EmptySet
  <1> QED
    BY <1>1 DEF SumBy

LEMMA SumInt ==
    ASSUME NEW S, IsFiniteSet(S), NEW f \in [S -> Int]
    PROVE  SumFunction(f) \in Int
  <1>1. PICK h : h = SumBy(f, S, h) /\ SumFunction(f) = h[S]
    BY SumUnfolds
  <1> QED
    BY <1>1, SumParts

LEMMA SumWithout ==
    ASSUME NEW S, IsFiniteSet(S), NEW f \in [S -> Int], NEW x \in S,
           NEW e, e = [y \in S \ {x} |-> f[y]]
    PROVE  SumFunction(f) = f[x] + SumFunction(e)
  <1>1. PICK h : h = SumBy(f, S, h) /\ SumFunction(f) = h[S]
    BY SumUnfolds
  <1>2. PICK T \in SUBSET S : T = S \ {x}
    OBVIOUS
  <1>3. IsFiniteSet(T) /\ DOMAIN e = T /\ \A y \in T : e[y] = f[y] /\ e[y] \in Int
    BY <1>2, FS_Subset
  <1>4. PICK k : k = SumBy(e, T, k) /\ SumFunction(e) = k[T]
    BY <1>3, SumUnfolds
  <1>5. k[T] = h[T]
    BY <1>1, <1>3, <1>4, SumSame
  <1>6. h[S] = f[x] + h[S \ {x}]
    BY <1>1, SumAnyFirst
  <1> QED
    BY <1>1, <1>2, <1>4, <1>5, <1>6

LEMMA SumChange ==
    ASSUME NEW S, IsFiniteSet(S), NEW f \in [S -> Int], NEW e \in [S -> Int], NEW x \in S,
           \A y \in S \ {x} : e[y] = f[y]
    PROVE  SumFunction(e) = SumFunction(f) + (e[x] - f[x])
  <1>1. PICK k : k = [y \in S \ {x} |-> f[y]]
    OBVIOUS
  <1>2. k = [y \in S \ {x} |-> e[y]]
    BY <1>1
  <1>3. SumFunction(f) = f[x] + SumFunction(k)
    BY <1>1, SumWithout
  <1>4. SumFunction(e) = e[x] + SumFunction(k)
    BY <1>2, SumWithout
  <1>5. SumFunction(k) \in Int
    <2>1. IsFiniteSet(S \ {x}) /\ k \in [S \ {x} -> Int]
      BY <1>1, FS_Subset
    <2> QED
      BY <2>1, SumInt
  <1> QED
    BY <1>3, <1>4, <1>5

-----------------------------------------------------------------------------
(***************************************************************************)
(* Accounts and what is tied up in offers.                                 *)
(***************************************************************************)
AccountsOK(a) == a \in [row : [Trader -> Account], loaded : [Trader -> Account \cup {None}]]
GoldOf(a) == [p \in Trader |-> AccountOf(a, p).gold]
GoodsOf(a) == [p \in Trader |-> AccountOf(a, p).goods]
GoldTied(S) == [o \in S |-> GoldIn(o)]
GoodsTied(S) == [o \in S |-> GoodsIn(o)]

LEMMA AccountParts ==
    ASSUME NEW a, AccountsOK(a), NEW p \in Trader
    PROVE  /\ AccountOf(a, p) \in Account
           /\ AccountOf(a, p).gold \in Nat /\ AccountOf(a, p).goods \in Nat
           /\ a.row[p] \in Account
  <1>1. a.row[p] \in Account /\ a.loaded[p] \in Account \cup {None}
    BY DEF AccountsOK
  <1>2. AccountOf(a, p) \in Account
    BY <1>1 DEF AccountOf
  <1> QED
    BY <1>1, <1>2 DEF Account

LEMMA WorthType ==
    ASSUME NEW a, AccountsOK(a)
    PROVE  /\ GoldOf(a) \in [Trader -> Int] /\ GoodsOf(a) \in [Trader -> Int]
           /\ SumFunction(GoldOf(a)) \in Int /\ SumFunction(GoodsOf(a)) \in Int
  <1>1. GoldOf(a) \in [Trader -> Int] /\ GoodsOf(a) \in [Trader -> Int]
    BY AccountParts DEF GoldOf, GoodsOf
  <1> QED
    BY <1>1, SumInt, MarketAssumption

LEMMA CreditParts ==
    ASSUME NEW a, AccountsOK(a), NEW q \in Trader, NEW x \in Int, NEW y \in Int,
           AccountOf(a, q).gold + x >= 0, AccountOf(a, q).goods + y >= 0,
           NEW b, b = Credit(a, q, x, y)
    PROVE  /\ AccountsOK(b) /\ \A p \in Trader : b.loaded[p] = None <=> a.loaded[p] = None
           /\ AccountOf(b, q) = [gold |-> AccountOf(a, q).gold + x, goods |-> AccountOf(a, q).goods + y]
           /\ \A p \in Trader \ {q} : AccountOf(b, p) = AccountOf(a, p)
  <1>1. PICK n : n = [gold |-> AccountOf(a, q).gold + x, goods |-> AccountOf(a, q).goods + y]
    OBVIOUS
  <1>2. n \in Account /\ n # None
    <2>1. n \in Account
      BY <1>1, AccountParts DEF Account
    <2> QED
      BY <2>1, MarketAssumption DEF Account
  <1>3. /\ a = [row |-> a.row, loaded |-> a.loaded]
        /\ a.row \in [Trader -> Account] /\ a.loaded \in [Trader -> Account \cup {None}]
    BY DEF AccountsOK
  <1>4. CASE a.loaded[q] # None
    <2>1. b = [row |-> a.row, loaded |-> [a.loaded EXCEPT ![q] = n]]
      BY <1>1, <1>3, <1>4 DEF Credit, AccountOf
    <2> QED
      BY <1>1, <1>2, <1>3, <1>4, <2>1 DEF AccountsOK, AccountOf
  <1>5. CASE a.loaded[q] = None
    <2>1. b = [row |-> [a.row EXCEPT ![q] = n], loaded |-> a.loaded]
      BY <1>1, <1>3, <1>5 DEF Credit, AccountOf
    <2> QED
      BY <1>1, <1>2, <1>3, <1>5, <2>1 DEF AccountsOK, AccountOf
  <1> QED
    BY <1>4, <1>5

LEMMA CreditSums ==
    ASSUME NEW a, AccountsOK(a), NEW q \in Trader, NEW x \in Int, NEW y \in Int,
           AccountOf(a, q).gold + x >= 0, AccountOf(a, q).goods + y >= 0,
           NEW b, b = Credit(a, q, x, y)
    PROVE  /\ SumFunction(GoldOf(b)) = SumFunction(GoldOf(a)) + x
           /\ SumFunction(GoodsOf(b)) = SumFunction(GoodsOf(a)) + y
  <1>1. /\ AccountsOK(b)
        /\ AccountOf(b, q) = [gold |-> AccountOf(a, q).gold + x, goods |-> AccountOf(a, q).goods + y]
        /\ \A p \in Trader \ {q} : AccountOf(b, p) = AccountOf(a, p)
    BY CreditParts
  <1>2. AccountOf(a, q).gold \in Nat /\ AccountOf(a, q).goods \in Nat
    BY AccountParts
  <1>3. SumFunction(GoldOf(b)) = SumFunction(GoldOf(a)) + x
    <2>1. PICK f : f = GoldOf(a)
      OBVIOUS
    <2>2. PICK e : e = GoldOf(b)
      OBVIOUS
    <2>3. f \in [Trader -> Int] /\ e \in [Trader -> Int]
      BY <1>1, <2>1, <2>2, WorthType
    <2>4. e[q] = f[q] + x /\ \A p \in Trader \ {q} : e[p] = f[p]
      BY <1>1, <2>1, <2>2 DEF GoldOf
    <2>5. SumFunction(e) = SumFunction(f) + (e[q] - f[q])
      BY <2>3, <2>4, SumChange, MarketAssumption
    <2>6. e[q] - f[q] = x
      BY <2>3, <2>4
    <2> QED
      BY <2>1, <2>2, <2>5, <2>6
  <1>4. SumFunction(GoodsOf(b)) = SumFunction(GoodsOf(a)) + y
    <2>1. PICK f : f = GoodsOf(a)
      OBVIOUS
    <2>2. PICK e : e = GoodsOf(b)
      OBVIOUS
    <2>3. f \in [Trader -> Int] /\ e \in [Trader -> Int]
      BY <1>1, <2>1, <2>2, WorthType
    <2>4. e[q] = f[q] + y /\ \A p \in Trader \ {q} : e[p] = f[p]
      BY <1>1, <2>1, <2>2 DEF GoodsOf
    <2>5. SumFunction(e) = SumFunction(f) + (e[q] - f[q])
      BY <2>3, <2>4, SumChange, MarketAssumption
    <2>6. e[q] - f[q] = y
      BY <2>3, <2>4
    <2> QED
      BY <2>1, <2>2, <2>5, <2>6
  <1> QED
    BY <1>3, <1>4

LEMMA Product ==
    ASSUME NEW m \in Nat, NEW n \in Nat
    PROVE  m * n \in Nat
  OBVIOUS

LEMMA OfferParts ==
    ASSUME NEW o \in Offer
    PROVE  /\ o.id \in OfferId /\ o.id \in Nat /\ o.owner \in Trader /\ o.type \in {"buy", "sell"}
           /\ o.amount \in Nat /\ o.price \in Nat /\ o.old \in BOOLEAN
           /\ o.price * o.amount \in Nat
           /\ GoldIn(o) \in Nat /\ GoodsIn(o) \in Nat
           /\ o = [id |-> o.id, owner |-> o.owner, type |-> o.type, amount |-> o.amount,
                   price |-> o.price, old |-> o.old]
  <1>1. /\ o.id \in OfferId /\ o.owner \in Trader /\ o.type \in {"buy", "sell"}
        /\ o.amount \in Nat /\ o.price \in Price /\ o.old \in BOOLEAN
        /\ o = [id |-> o.id, owner |-> o.owner, type |-> o.type, amount |-> o.amount,
                price |-> o.price, old |-> o.old]
    BY DEF Offer
  <1>2. OfferId \subseteq Nat /\ Price \subseteq Nat
    <2>1. PICK n : n = Cardinality(OfferId)
      OBVIOUS
    <2>2. OfferId = 1 .. n
      BY <2>1, MarketAssumption
    <2>3. 1 .. n \subseteq Nat
      OBVIOUS
    <2> QED
      BY <2>2, <2>3, MarketAssumption
  <1>3. o.price \in Nat /\ o.price * o.amount \in Nat
    BY <1>1, <1>2, Product
  <1> QED
    BY <1>1, <1>2, <1>3 DEF GoldIn, GoodsIn

LEMMA TiedType ==
    ASSUME NEW S \in SUBSET Offer, IsFiniteSet(S)
    PROVE  /\ GoldTied(S) \in [S -> Int] /\ GoodsTied(S) \in [S -> Int]
           /\ SumFunction(GoldTied(S)) \in Int /\ SumFunction(GoodsTied(S)) \in Int
  <1>1. GoldTied(S) \in [S -> Int] /\ GoodsTied(S) \in [S -> Int]
    BY OfferParts DEF GoldTied, GoodsTied
  <1> QED
    BY <1>1, SumInt

LEMMA TiedWithout ==
    ASSUME NEW S \in SUBSET Offer, IsFiniteSet(S), NEW o \in S
    PROVE  /\ SumFunction(GoldTied(S \ {o})) = SumFunction(GoldTied(S)) - GoldIn(o)
           /\ SumFunction(GoodsTied(S \ {o})) = SumFunction(GoodsTied(S)) - GoodsIn(o)
  <1>1. PICK T \in SUBSET S : T = S \ {o}
    OBVIOUS
  <1>2. IsFiniteSet(T) /\ T \in SUBSET Offer
    BY FS_Subset
  <1>3. /\ SumFunction(GoldTied(T)) \in Int /\ SumFunction(GoodsTied(T)) \in Int
        /\ GoldTied(S) \in [S -> Int] /\ GoodsTied(S) \in [S -> Int]
    BY <1>2, TiedType
  <1>4. GoldTied(T) = [y \in S \ {o} |-> GoldTied(S)[y]]
    BY <1>1 DEF GoldTied
  <1>5. GoodsTied(T) = [y \in S \ {o} |-> GoodsTied(S)[y]]
    BY <1>1 DEF GoodsTied
  <1>6. SumFunction(GoldTied(S)) = GoldTied(S)[o] + SumFunction(GoldTied(T))
    <2>1. PICK f : f = GoldTied(S)
      OBVIOUS
    <2>2. PICK e : e = GoldTied(T)
      OBVIOUS
    <2>3. f \in [S -> Int] /\ e = [y \in S \ {o} |-> f[y]]
      BY <1>3, <1>4, <2>1, <2>2
    <2>4. SumFunction(f) = f[o] + SumFunction(e)
      BY <2>3, SumWithout
    <2> QED
      BY <2>1, <2>2, <2>4
  <1>7. SumFunction(GoodsTied(S)) = GoodsTied(S)[o] + SumFunction(GoodsTied(T))
    <2>1. PICK f : f = GoodsTied(S)
      OBVIOUS
    <2>2. PICK e : e = GoodsTied(T)
      OBVIOUS
    <2>3. f \in [S -> Int] /\ e = [y \in S \ {o} |-> f[y]]
      BY <1>3, <1>5, <2>1, <2>2
    <2>4. SumFunction(f) = f[o] + SumFunction(e)
      BY <2>3, SumWithout
    <2> QED
      BY <2>1, <2>2, <2>4
  <1>8. GoldTied(S)[o] = GoldIn(o) /\ GoodsTied(S)[o] = GoodsIn(o)
    BY DEF GoldTied, GoodsTied
  <1>9. GoldIn(o) \in Int /\ GoodsIn(o) \in Int
    BY OfferParts
  <1> QED
    BY <1>1, <1>3, <1>6, <1>7, <1>8, <1>9

LEMMA TiedWith ==
    ASSUME NEW S \in SUBSET Offer, IsFiniteSet(S), NEW o \in Offer, o \notin S
    PROVE  /\ SumFunction(GoldTied(S \cup {o})) = SumFunction(GoldTied(S)) + GoldIn(o)
           /\ SumFunction(GoodsTied(S \cup {o})) = SumFunction(GoodsTied(S)) + GoodsIn(o)
  <1>1. PICK T \in SUBSET Offer : T = S \cup {o}
    OBVIOUS
  <1>2. IsFiniteSet(T) /\ o \in T /\ T \ {o} = S
    BY <1>1, FS_AddElement
  <1>3. /\ SumFunction(GoldTied(S)) = SumFunction(GoldTied(T)) - GoldIn(o)
        /\ SumFunction(GoodsTied(S)) = SumFunction(GoodsTied(T)) - GoodsIn(o)
    BY <1>2, TiedWithout
  <1>4. GoldIn(o) \in Int /\ GoodsIn(o) \in Int
    BY OfferParts
  <1>5. SumFunction(GoldTied(T)) \in Int /\ SumFunction(GoodsTied(T)) \in Int
    BY <1>2, TiedType
  <1> QED
    BY <1>1, <1>3, <1>4, <1>5

-----------------------------------------------------------------------------
(***************************************************************************)
(* The inductive invariant.  What the database thread has found of an      *)
(* offer stays true of it but for the amount.                              *)
(***************************************************************************)
OneOfAKind(S) == \A o, t \in S : o.id = t.id => o = t
OffersOK(S, next) ==
    /\ S \subseteq Offer /\ IsFiniteSet(S) /\ OneOfAKind(S) /\ next \in Nat
    /\ \A o \in S : o.id < next /\ o.amount > 0
FoundOK(found, S, next) ==
    /\ found \subseteq Offer /\ IsFiniteSet(found) /\ OneOfAKind(found)
    /\ \A o \in found :
        o.id < next /\ o.old /\ \A t \in S : t.id = o.id => t = [o EXCEPT !.amount = t.amount]
ResultsOK(list, S, next) ==
    list \in Seq(SUBSET Offer) /\ \A n \in 1 .. Len(list) : FoundOK(list[n], S, next)

MarketBudgetOK ==
    /\ budget \in [checks : 0 .. MaxChecks, logins : 0 .. MaxLogins]
    /\ selects \in Nat /\ selects <= budget.checks

MarketInv ==
    /\ AccountsOK(Accounts) /\ inMarket \subseteq {p \in Trader : loaded[p] # None}
    /\ OffersOK(offers, nextId) /\ ResultsOK(results, offers, nextId)
    /\ MarketBudgetOK /\ fees \in Nat

LEMMA MarketTyped == MarketInv => MarketTypeOK
  <1> SUFFICES ASSUME MarketInv
               PROVE  MarketTypeOK
    OBVIOUS
  <1>1. row \in [Trader -> Account] /\ loaded \in [Trader -> Account \cup {None}]
    BY DEF MarketInv, AccountsOK, Accounts
  <1>2. selects \in 0 .. MaxChecks
    BY MarketAssumption DEF MarketInv, MarketBudgetOK
  <1> QED
    BY <1>1, <1>2 DEF MarketInv, MarketTypeOK, OffersOK, ResultsOK, MarketBudgetOK

LEMMA MarketNoDebts == MarketInv => NoDebts
  <1> SUFFICES ASSUME MarketInv
               PROVE  NoDebts
    OBVIOUS
  <1>1. \A p \in Trader : AccountOf(Accounts, p).gold >= 0 /\ AccountOf(Accounts, p).goods >= 0
    BY AccountParts DEF MarketInv
  <1> QED
    BY <1>1 DEF MarketInv, NoDebts, OffersOK, OneOfAKind

LEMMA TotalParts ==
    /\ TotalGold = SumFunction(GoldOf(Accounts)) + SumFunction(GoldTied(offers))
    /\ TotalGoods = SumFunction(GoodsOf(Accounts)) + SumFunction(GoodsTied(offers))
  BY DEF TotalGold, TotalGoods, GoldOf, GoodsOf, GoldTied, GoodsTied

\* The books after a step, and what the step has moved.
LEMMA AfterStep ==
    ASSUME NEW a, AccountsOK(a), SetAccounts(a)
    PROVE  /\ Accounts' = a /\ AccountsOK(Accounts)'
           /\ TotalGold' = SumFunction(GoldOf(a)) + SumFunction(GoldTied(offers'))
           /\ TotalGoods' = SumFunction(GoodsOf(a)) + SumFunction(GoodsTied(offers'))
  <1>1. Accounts' = a
    BY DEF Accounts, SetAccounts, AccountsOK
  <1>2. AccountsOK(Accounts)'
    BY <1>1 DEF AccountsOK
  <1>3. TotalGold' = SumFunction([p \in Trader |-> AccountOf(a, p).gold])
                     + SumFunction([o \in offers' |-> GoldIn(o)])
    BY <1>1 DEF TotalGold, AccountOf, GoldIn
  <1>4. TotalGoods' = SumFunction([p \in Trader |-> AccountOf(a, p).goods])
                     + SumFunction([o \in offers' |-> GoodsIn(o)])
    BY <1>1 DEF TotalGoods, AccountOf, GoodsIn
  <1> QED
    BY <1>1, <1>2, <1>3, <1>4 DEF GoldOf, GoodsOf, GoldTied, GoodsTied

LEMMA MarketStarts == MarketInit => MarketInv
  <1> SUFFICES ASSUME MarketInit
               PROVE  MarketInv
    OBVIOUS
  <1>1. AccountsOK(Accounts)
    <2>1. [gold |-> Gold, goods |-> Goods] \in Account
      BY MarketAssumption DEF Account
    <2>2. row \in [Trader -> Account] /\ loaded \in [Trader -> Account \cup {None}]
      BY <2>1 DEF MarketInit
    <2> QED
      BY <2>2 DEF AccountsOK, Accounts
  <1>2. OffersOK(offers, nextId)
    BY FS_EmptySet DEF MarketInit, OffersOK, OneOfAKind
  <1>3. ResultsOK(results, offers, nextId)
    BY DEF MarketInit, ResultsOK
  <1>4. MarketBudgetOK
    BY MarketAssumption DEF MarketInit, MarketBudgetOK
  <1> QED
    BY <1>1, <1>2, <1>3, <1>4 DEF MarketInit, MarketInv

-----------------------------------------------------------------------------
(* The offers.                                                             *)

LEMMA OffersLess ==
    ASSUME NEW S, NEW next, OffersOK(S, next), NEW T, T \subseteq S
    PROVE  OffersOK(T, next)
  BY FS_Subset DEF OffersOK, OneOfAKind

LEMMA ResultsLess ==
    ASSUME NEW list, NEW S, NEW next, ResultsOK(list, S, next), NEW T, T \subseteq S
    PROVE  ResultsOK(list, T, next)
  BY DEF ResultsOK, FoundOK

LEMMA OffersMore ==
    ASSUME NEW S, NEW next, OffersOK(S, next), NEW o \in Offer, o.id = next, o.amount > 0
    PROVE  o \notin S /\ OffersOK(S \cup {o}, next + 1)
  <1>1. o \notin S
    BY OfferParts DEF OffersOK
  <1>2. IsFiniteSet(S \cup {o})
    BY FS_AddElement DEF OffersOK
  <1>3. OneOfAKind(S \cup {o})
    <2>1. \A t \in S : t.id # o.id
      BY OfferParts DEF OffersOK
    <2> QED
      BY <2>1 DEF OffersOK, OneOfAKind
  <1>4. \A t \in S \cup {o} : t.id < next + 1 /\ t.amount > 0
    <2>1. \A t \in S : t.id \in Nat /\ t.id < next
      BY OfferParts DEF OffersOK
    <2>2. o.id < next + 1
      BY DEF OffersOK
    <2>3. \A t \in S : t.id < next + 1
      BY <2>1 DEF OffersOK
    <2> QED
      BY <2>2, <2>3 DEF OffersOK
  <1> QED
    BY <1>1, <1>2, <1>3, <1>4 DEF OffersOK

LEMMA ResultsMore ==
    ASSUME NEW list, NEW S, NEW next \in Nat, ResultsOK(list, S, next), NEW o \in Offer, o.id = next
    PROVE  ResultsOK(list, S \cup {o}, next + 1)
  <1> SUFFICES ASSUME NEW n \in 1 .. Len(list)
               PROVE  FoundOK(list[n], S \cup {o}, next + 1)
    BY DEF ResultsOK
  <1>1. PICK found : found = list[n]
    OBVIOUS
  <1>2. FoundOK(found, S, next)
    BY <1>1 DEF ResultsOK
  <1>3. \A t \in found : t.id \in Nat /\ t.id < next
    BY <1>2, OfferParts DEF FoundOK
  <1>4. \A t \in found : t.id < next + 1 /\ t.id # o.id
    BY <1>3
  <1> QED
    BY <1>1, <1>2, <1>4 DEF FoundOK

\* An offer is changed but for its id, owner, type and price.
LEMMA OffersChange ==
    ASSUME NEW S, NEW next, OffersOK(S, next), NEW o \in S, NEW c \in Offer, c.id = o.id, c.amount > 0
    PROVE  c \notin S \ {o} /\ OffersOK((S \ {o}) \cup {c}, next)
  <1>1. c \notin S \ {o}
    BY DEF OffersOK, OneOfAKind
  <1>2. IsFiniteSet((S \ {o}) \cup {c})
    BY FS_AddElement, FS_RemoveElement DEF OffersOK
  <1>3. OneOfAKind((S \ {o}) \cup {c})
    BY DEF OffersOK, OneOfAKind
  <1> QED
    BY <1>1, <1>2, <1>3 DEF OffersOK

LEMMA ResultsChange ==
    ASSUME NEW list, NEW S, S \subseteq Offer, NEW next, ResultsOK(list, S, next), NEW o \in S,
           NEW c \in Offer, c = [o EXCEPT !.amount = c.amount]
    PROVE  ResultsOK(list, (S \ {o}) \cup {c}, next)
  <1> SUFFICES ASSUME NEW n \in 1 .. Len(list), NEW t \in list[n],
                      NEW u \in (S \ {o}) \cup {c}, u.id = t.id
               PROVE  u = [t EXCEPT !.amount = u.amount]
    BY DEF ResultsOK, FoundOK
  <1>1. FoundOK(list[n], S, next) /\ t \in Offer
    BY DEF ResultsOK, FoundOK
  <1>2. CASE u \in S
    BY <1>1, <1>2 DEF FoundOK
  <1>3. CASE u = c
    <2>1. o \in Offer
      OBVIOUS
    <2>2. o.id = c.id
      BY <2>1 DEF Offer
    <2>3. o = [t EXCEPT !.amount = o.amount]
      BY <1>1, <1>3, <2>2 DEF FoundOK
    <2> QED
      BY <1>1, <1>3, <2>1, <2>3 DEF Offer
  <1> QED
    BY <1>2, <1>3

-----------------------------------------------------------------------------
\* A query has not found what has not run out.
LEMMA ResultsOld ==
    ASSUME NEW list, NEW S, S \subseteq Offer, NEW next, ResultsOK(list, S, next), NEW o \in S, ~o.old,
           NEW c, c.id = o.id
    PROVE  ResultsOK(list, (S \ {o}) \cup {c}, next)
  <1> SUFFICES ASSUME NEW n \in 1 .. Len(list), NEW t \in list[n],
                      NEW u \in (S \ {o}) \cup {c}, u.id = t.id
               PROVE  u = [t EXCEPT !.amount = u.amount]
    BY DEF ResultsOK, FoundOK
  <1>1. FoundOK(list[n], S, next) /\ t \in Offer /\ t.old
    BY DEF ResultsOK, FoundOK
  <1>2. CASE u \in S
    BY <1>1, <1>2 DEF FoundOK
  <1>3. CASE u = c
    <2>1. o = [t EXCEPT !.amount = o.amount]
      BY <1>1, <1>3 DEF FoundOK
    <2>2. o.old = t.old
      BY <1>1, <2>1 DEF Offer
    <2> QED
      BY <1>1, <2>2
  <1> QED
    BY <1>2, <1>3

-----------------------------------------------------------------------------
(* The steps that move gold and goods.                                     *)

Conserved == TotalGold' + fees' = TotalGold + fees /\ TotalGoods' = TotalGoods

LEMMA FeeType ==
    ASSUME NEW price \in Nat, NEW amount \in Nat
    PROVE  Fee(price, amount) \in Nat
  <1>1. PICK m \in Nat \ {0} : m = FeeShare
    BY MarketAssumption
  <1>2. PICK n \in Nat : n = price * amount
    BY Product
  <1>3. PICK q \in Int : q = n \div m
    OBVIOUS
  <1>4. MinFee \in Nat /\ MaxFee \in Nat
    BY MarketAssumption
  <1>5. Fee(price, amount) = IF q < MinFee THEN MinFee ELSE IF q > MaxFee THEN MaxFee ELSE q
    BY <1>1, <1>2, <1>3 DEF Fee, Clamp
  <1> QED
    BY <1>4, <1>5

LEMMA LoadedAccount ==
    ASSUME MarketInv, NEW p \in inMarket
    PROVE  p \in Trader /\ loaded[p] # None /\ AccountOf(Accounts, p) = loaded[p]
  BY DEF MarketInv, AccountOf, Accounts

LEMMA CreditsAccount ==
    ASSUME MarketInv, NEW q \in Trader, NEW x \in Int, NEW y \in Int,
           AccountOf(Accounts, q).gold + x >= 0, AccountOf(Accounts, q).goods + y >= 0,
           NEW b, b = Credit(Accounts, q, x, y)
    PROVE  /\ AccountsOK(b) /\ \A p \in Trader : b.loaded[p] = None <=> loaded[p] = None
           /\ AccountOf(b, q) = [gold |-> AccountOf(Accounts, q).gold + x,
                                 goods |-> AccountOf(Accounts, q).goods + y]
           /\ \A p \in Trader \ {q} : AccountOf(b, p) = AccountOf(Accounts, p)
           /\ SumFunction(GoldOf(b)) = SumFunction(GoldOf(Accounts)) + x
           /\ SumFunction(GoodsOf(b)) = SumFunction(GoodsOf(Accounts)) + y
  <1>1. AccountsOK(Accounts)
    BY DEF MarketInv
  <1>2. Accounts.loaded = loaded
    BY DEF Accounts
  <1>3. /\ AccountsOK(b) /\ \A p \in Trader : b.loaded[p] = None <=> Accounts.loaded[p] = None
        /\ AccountOf(b, q) = [gold |-> AccountOf(Accounts, q).gold + x,
                              goods |-> AccountOf(Accounts, q).goods + y]
        /\ \A p \in Trader \ {q} : AccountOf(b, p) = AccountOf(Accounts, p)
    BY <1>1, CreditParts
  <1>4. /\ SumFunction(GoldOf(b)) = SumFunction(GoldOf(Accounts)) + x
        /\ SumFunction(GoodsOf(b)) = SumFunction(GoodsOf(Accounts)) + y
    BY <1>1, CreditSums
  <1> QED
    BY <1>2, <1>3, <1>4

\* Every total is a number.
LEMMA TotalTypes ==
    ASSUME MarketInv
    PROVE  /\ SumFunction(GoldOf(Accounts)) \in Int /\ SumFunction(GoodsOf(Accounts)) \in Int
           /\ SumFunction(GoldTied(offers)) \in Int /\ SumFunction(GoodsTied(offers)) \in Int
           /\ fees \in Nat
  BY WorthType, TiedType DEF MarketInv, OffersOK

LEMMA CreateConserves ==
    ASSUME MarketInv, NEW p \in Trader, NEW type \in {"buy", "sell"}, NEW amount \in Amount,
           NEW price \in Price, PlayerCreateMarketOffer(p, type, amount, price)
    PROVE  MarketInv' /\ Conserved
  <1> DEFINE fee == Fee(price, amount)
             o == [id |-> nextId, owner |-> p, type |-> type, amount |-> amount, price |-> price, old |-> FALSE]
  <1>1. /\ amount \in Nat /\ amount > 0 /\ price \in Nat /\ price > 0 /\ price * amount \in Nat
        /\ fee \in Nat
    <2>1. amount \in Nat \ {0} /\ price \in Nat \ {0}
      BY MarketAssumption
    <2> QED
      BY <2>1, Product, FeeType
  <1>2. PICK n : n = o
    OBVIOUS
  <1>3. n \in Offer /\ n.id = nextId /\ n.amount > 0
    BY <1>1, <1>2 DEF PlayerCreateMarketOffer, Offer
  <1>4. /\ GoldIn(n) = IF type = "buy" THEN price * amount ELSE 0
        /\ GoodsIn(n) = IF type = "sell" THEN amount ELSE 0
    BY <1>2 DEF GoldIn, GoodsIn
  <1>5. PICK x \in Nat : x = fee + GoldIn(n)
    BY <1>1, <1>4
  <1>6. PICK y \in Nat : y = GoodsIn(n)
    BY <1>1, <1>4
  <1> HIDE DEF fee
  <1>7. PICK a : a = Credit(Accounts, p, -x, -y)
    OBVIOUS
  <1>8. /\ p \in inMarket /\ x <= loaded[p].gold /\ y <= loaded[p].goods
        /\ SetAccounts(a) /\ offers' = offers \cup {n} /\ nextId' = nextId + 1
        /\ fees' = fees + fee /\ UNCHANGED <<inMarket, selects, results, budget>>
    BY <1>2, <1>4, <1>5, <1>6, <1>7 DEF PlayerCreateMarketOffer, fee
  <1>9. /\ AccountOf(Accounts, p).gold \in Nat /\ AccountOf(Accounts, p).goods \in Nat
        /\ AccountOf(Accounts, p) = loaded[p]
    BY <1>8, LoadedAccount, AccountParts DEF MarketInv
  <1>10. /\ AccountsOK(a) /\ \A q \in Trader : a.loaded[q] = None <=> loaded[q] = None
         /\ SumFunction(GoldOf(a)) = SumFunction(GoldOf(Accounts)) + (-x)
         /\ SumFunction(GoodsOf(a)) = SumFunction(GoodsOf(Accounts)) + (-y)
    <2>1. -x \in Int /\ -y \in Int
      OBVIOUS
    <2>2. AccountOf(Accounts, p).gold + (-x) >= 0 /\ AccountOf(Accounts, p).goods + (-y) >= 0
      BY <1>8, <1>9
    <2> QED
      BY <1>7, <2>1, <2>2, CreditsAccount
  <1>11. OffersOK(offers, nextId) /\ ResultsOK(results, offers, nextId) /\ nextId \in Nat
    BY DEF MarketInv, OffersOK
  <1>12. n \notin offers /\ OffersOK(offers \cup {n}, nextId + 1)
    BY <1>3, <1>11, OffersMore
  <1>13. ResultsOK(results, offers \cup {n}, nextId + 1)
    BY <1>3, <1>11, ResultsMore
  <1>14. /\ SumFunction(GoldTied(offers \cup {n})) = SumFunction(GoldTied(offers)) + GoldIn(n)
         /\ SumFunction(GoodsTied(offers \cup {n})) = SumFunction(GoodsTied(offers)) + GoodsIn(n)
    BY <1>3, <1>11, <1>12, TiedWith DEF OffersOK
  <1>15. /\ AccountsOK(Accounts)'
         /\ TotalGold' = SumFunction(GoldOf(a)) + SumFunction(GoldTied(offers \cup {n}))
         /\ TotalGoods' = SumFunction(GoodsOf(a)) + SumFunction(GoodsTied(offers \cup {n}))
    BY <1>8, <1>10, AfterStep
  <1>16. Conserved
    BY <1>1, <1>4, <1>5, <1>6, <1>8, <1>10, <1>14, <1>15, TotalParts, TotalTypes DEF Conserved
  <1>17. MarketInv'
    <2>1. inMarket' \subseteq {q \in Trader : loaded'[q] # None}
      BY <1>8, <1>10 DEF MarketInv, SetAccounts
    <2>2. fees' \in Nat
      BY <1>1, <1>8 DEF MarketInv
    <2>3. MarketBudgetOK'
      BY <1>8 DEF MarketInv, MarketBudgetOK
    <2> QED
      BY <1>8, <1>12, <1>13, <1>15, <2>1, <2>2, <2>3 DEF MarketInv
  <1> QED
    BY <1>16, <1>17

LEMMA DropKeeps ==
    ASSUME MarketInv, NEW o \in offers, NEW S, S = offers \ {o}
    PROVE  /\ o \in Offer /\ OffersOK(S, nextId) /\ ResultsOK(results, S, nextId)
           /\ SumFunction(GoldTied(S)) = SumFunction(GoldTied(offers)) - GoldIn(o)
           /\ SumFunction(GoodsTied(S)) = SumFunction(GoodsTied(offers)) - GoodsIn(o)
  <1>1. /\ OffersOK(offers, nextId) /\ ResultsOK(results, offers, nextId)
        /\ offers \in SUBSET Offer /\ IsFiniteSet(offers)
    BY DEF MarketInv, OffersOK
  <1>2. OffersOK(S, nextId) /\ ResultsOK(results, S, nextId)
    BY <1>1, OffersLess, ResultsLess
  <1> QED
    BY <1>1, <1>2, TiedWithout

LEMMA Difference ==
    ASSUME NEW p \in Nat, NEW a \in Nat, NEW n \in Nat
    PROVE  p * (a - n) = p * a - p * n
  OBVIOUS

LEMMA ReduceKeeps ==
    ASSUME MarketInv, NEW o \in offers, NEW n \in Amount, n <= o.amount, Reduce(o, n)
    PROVE  /\ OffersOK(offers', nextId) /\ ResultsOK(results, offers', nextId)
           /\ SumFunction(GoldTied(offers')) =
                SumFunction(GoldTied(offers)) - (IF o.type = "buy" THEN o.price * n ELSE 0)
           /\ SumFunction(GoodsTied(offers')) =
                SumFunction(GoodsTied(offers)) - (IF o.type = "sell" THEN n ELSE 0)
  <1>1. PICK S : S = offers \ {o}
    OBVIOUS
  <1>2. /\ o \in Offer /\ OffersOK(S, nextId) /\ ResultsOK(results, S, nextId)
        /\ SumFunction(GoldTied(S)) = SumFunction(GoldTied(offers)) - GoldIn(o)
        /\ SumFunction(GoodsTied(S)) = SumFunction(GoodsTied(offers)) - GoodsIn(o)
    BY <1>1, DropKeeps
  <1>3. n \in Nat /\ o.amount \in Nat /\ o.price \in Nat /\ o.price * o.amount \in Nat /\ o.price * n \in Nat
    <2>1. n \in Nat /\ o.amount \in Nat /\ o.price \in Nat
      BY <1>2, OfferParts, MarketAssumption
    <2> QED
      BY <2>1, Product
  <1>4. CASE o.amount = n
    <2>1. offers' = S
      BY <1>1, <1>4 DEF Reduce
    <2>2. /\ GoldIn(o) = IF o.type = "buy" THEN o.price * n ELSE 0
          /\ GoodsIn(o) = IF o.type = "sell" THEN n ELSE 0
      BY <1>4 DEF GoldIn, GoodsIn
    <2> QED
      BY <1>2, <2>1, <2>2
  <1>5. CASE o.amount # n
    <2>1. PICK c : c = [o EXCEPT !.amount = @ - n]
      OBVIOUS
    <2>2. offers' = S \cup {c}
      BY <1>1, <1>5, <2>1 DEF Reduce
    <2>3. o.amount - n \in Nat /\ o.amount - n > 0
      <3>1. PICK k \in Nat : k = o.amount
        BY <1>3
      <3>2. n \in Nat /\ n <= k /\ n # k
        BY <1>3, <1>5, <3>1
      <3>3. k - n \in Nat /\ k - n > 0
        BY <3>2
      <3> QED
        BY <3>1, <3>3
    <2>4. /\ c \in Offer /\ c.id = o.id /\ c.amount = o.amount - n /\ c.type = o.type /\ c.price = o.price
          /\ c = [o EXCEPT !.amount = c.amount]
      BY <1>2, <2>1, <2>3 DEF Offer
    <2>5. /\ c \notin S /\ OffersOK(S \cup {c}, nextId)
      BY <1>1, <2>3, <2>4, OffersChange DEF MarketInv
    <2>6. ResultsOK(results, S \cup {c}, nextId)
      BY <1>1, <2>4, ResultsChange DEF MarketInv, OffersOK
    <2>7. /\ SumFunction(GoldTied(S \cup {c})) = SumFunction(GoldTied(S)) + GoldIn(c)
          /\ SumFunction(GoodsTied(S \cup {c})) = SumFunction(GoodsTied(S)) + GoodsIn(c)
      BY <1>2, <2>4, <2>5, TiedWith DEF OffersOK
    <2>8. o.price * (o.amount - n) = o.price * o.amount - o.price * n
      BY <1>3, Difference
    <2>9. /\ GoldIn(c) = GoldIn(o) - (IF o.type = "buy" THEN o.price * n ELSE 0)
          /\ GoodsIn(c) = GoodsIn(o) - (IF o.type = "sell" THEN n ELSE 0)
      BY <1>3, <2>4, <2>8 DEF GoldIn, GoodsIn
    <2>10. GoldIn(o) \in Int /\ GoodsIn(o) \in Int
      BY <1>2, OfferParts
    <2> QED
      BY <1>2, <1>3, <2>2, <2>5, <2>6, <2>7, <2>9, <2>10, TotalTypes
  <1> QED
    BY <1>4, <1>5

\* A step that changes accounts and offers and conserves what they hold.
LEMMA MovesConserve ==
    ASSUME MarketInv, NEW a, AccountsOK(a), \A q \in Trader : a.loaded[q] = None <=> loaded[q] = None,
           SetAccounts(a), OffersOK(offers', nextId), ResultsOK(results, offers', nextId),
           UNCHANGED <<inMarket, nextId, selects, results, budget, fees>>,
           SumFunction(GoldOf(a)) + SumFunction(GoldTied(offers')) =
               SumFunction(GoldOf(Accounts)) + SumFunction(GoldTied(offers)),
           SumFunction(GoodsOf(a)) + SumFunction(GoodsTied(offers')) =
               SumFunction(GoodsOf(Accounts)) + SumFunction(GoodsTied(offers))
    PROVE  MarketInv' /\ Conserved
  <1>1. /\ AccountsOK(Accounts)'
        /\ TotalGold' = SumFunction(GoldOf(a)) + SumFunction(GoldTied(offers'))
        /\ TotalGoods' = SumFunction(GoodsOf(a)) + SumFunction(GoodsTied(offers'))
    BY AfterStep
  <1>2. TotalGold' = TotalGold /\ TotalGoods' = TotalGoods
    BY <1>1, TotalParts
  <1>3. inMarket' \subseteq {q \in Trader : loaded'[q] # None}
    BY DEF MarketInv, SetAccounts
  <1>4. MarketBudgetOK'
    BY DEF MarketInv, MarketBudgetOK
  <1> QED
    BY <1>1, <1>2, <1>3, <1>4 DEF MarketInv, Conserved

LEMMA CancelConserves ==
    ASSUME MarketInv, NEW p \in Trader, NEW o \in offers, PlayerCancelMarketOffer(p, o)
    PROVE  MarketInv' /\ Conserved
  <1>1. PICK a : a = Credit(Accounts, p, GoldIn(o), GoodsIn(o))
    OBVIOUS
  <1>2. PICK S : S = offers \ {o}
    OBVIOUS
  <1>3. /\ o \in Offer /\ OffersOK(S, nextId) /\ ResultsOK(results, S, nextId)
        /\ SumFunction(GoldTied(S)) = SumFunction(GoldTied(offers)) - GoldIn(o)
        /\ SumFunction(GoodsTied(S)) = SumFunction(GoodsTied(offers)) - GoodsIn(o)
    BY <1>2, DropKeeps
  <1>4. GoldIn(o) \in Nat /\ GoodsIn(o) \in Nat
    BY <1>3, OfferParts
  <1>5. AccountOf(Accounts, p).gold \in Nat /\ AccountOf(Accounts, p).goods \in Nat
    BY AccountParts DEF MarketInv
  <1>6. /\ AccountsOK(a) /\ \A q \in Trader : a.loaded[q] = None <=> loaded[q] = None
        /\ SumFunction(GoldOf(a)) = SumFunction(GoldOf(Accounts)) + GoldIn(o)
        /\ SumFunction(GoodsOf(a)) = SumFunction(GoodsOf(Accounts)) + GoodsIn(o)
    BY <1>1, <1>4, <1>5, CreditsAccount
  <1>7. /\ SetAccounts(a) /\ offers' = S
        /\ UNCHANGED <<inMarket, nextId, selects, results, budget, fees>>
    BY <1>1, <1>2 DEF PlayerCancelMarketOffer
  <1>8. /\ SumFunction(GoldOf(a)) + SumFunction(GoldTied(S)) =
               SumFunction(GoldOf(Accounts)) + SumFunction(GoldTied(offers))
        /\ SumFunction(GoodsOf(a)) + SumFunction(GoodsTied(S)) =
               SumFunction(GoodsOf(Accounts)) + SumFunction(GoodsTied(offers))
    BY <1>3, <1>4, <1>6, TotalTypes
  <1> QED
    BY <1>3, <1>6, <1>7, <1>8, MovesConserve

\* A step takes no more than there is; the accounts after it.
Affords(p, x, y) == AccountOf(Accounts, p).gold + x >= 0 /\ AccountOf(Accounts, p).goods + y >= 0
Moved(a, x, y) ==
    /\ AccountsOK(a) /\ \A r \in Trader : a.loaded[r] = None <=> loaded[r] = None
    /\ SumFunction(GoldOf(a)) = SumFunction(GoldOf(Accounts)) + x
    /\ SumFunction(GoodsOf(a)) = SumFunction(GoodsOf(Accounts)) + y

\* Two accounts are changed, which may be one.
LEMMA TwoCredits ==
    ASSUME MarketInv, NEW p \in Trader, NEW q \in Trader,
           NEW x \in Int, NEW y \in Int, NEW u \in Nat, NEW v \in Nat, Affords(p, x, y),
           NEW b, b = Credit(Accounts, p, x, y), NEW a, a = Credit(b, q, u, v)
    PROVE  Moved(a, x + u, y + v)
  <1>1. /\ AccountsOK(b) /\ \A r \in Trader : b.loaded[r] = None <=> loaded[r] = None
        /\ SumFunction(GoldOf(b)) = SumFunction(GoldOf(Accounts)) + x
        /\ SumFunction(GoodsOf(b)) = SumFunction(GoodsOf(Accounts)) + y
    BY CreditsAccount DEF Affords
  <1>2. AccountOf(b, q).gold \in Nat /\ AccountOf(b, q).goods \in Nat
    BY <1>1, AccountParts
  <1>3. AccountOf(b, q).gold + u >= 0 /\ AccountOf(b, q).goods + v >= 0 /\ u \in Int /\ v \in Int
    BY <1>2
  <1>4. AccountsOK(a) /\ \A r \in Trader : a.loaded[r] = None <=> b.loaded[r] = None
    BY <1>1, <1>3, CreditParts
  <1>5. /\ SumFunction(GoldOf(a)) = SumFunction(GoldOf(b)) + u
        /\ SumFunction(GoodsOf(a)) = SumFunction(GoodsOf(b)) + v
    BY <1>1, <1>3, CreditSums
  <1>6. SumFunction(GoldOf(Accounts)) \in Int /\ SumFunction(GoodsOf(Accounts)) \in Int
    BY TotalTypes
  <1> QED
    BY <1>1, <1>4, <1>5, <1>6 DEF Moved

LEMMA SellConserves ==
    ASSUME MarketInv, NEW p \in Trader, NEW o \in offers, NEW n \in Amount, AcceptSellOffer(p, o, n)
    PROVE  MarketInv' /\ Conserved
  <1>1. /\ p \in inMarket /\ o.type = "sell" /\ n <= o.amount /\ o.price * n <= loaded[p].gold
        /\ SetAccounts(SettleAccept(p, o, n)) /\ Reduce(o, n)
        /\ UNCHANGED <<inMarket, nextId, selects, results, budget, fees>>
    BY DEF AcceptSellOffer
  <1>2. n \in Nat /\ o.owner \in Trader /\ o.price * n \in Nat
    BY OfferParts, Product, MarketAssumption DEF MarketInv, OffersOK
  <1>3. PICK x \in Nat : x = o.price * n
    BY <1>2
  <1>4. PICK a : a = Credit(Credit(Accounts, p, -x, n), o.owner, x, 0)
    OBVIOUS
  <1>5. /\ AccountOf(Accounts, p).gold \in Nat /\ AccountOf(Accounts, p).goods \in Nat
        /\ AccountOf(Accounts, p) = loaded[p]
    BY <1>1, LoadedAccount, AccountParts DEF MarketInv
  <1>6. Affords(p, (-x), n)
    BY <1>1, <1>2, <1>3, <1>5 DEF Affords
  <1>7. Moved(a, (-x) + x, n + 0)
    <2>1. PICK i \in Int : i = (-x)
      BY <1>2
    <2>2. PICK j \in Int : j = n
      BY <1>2
    <2>3. PICK k \in Nat : k = x
      BY <1>2
    <2>4. PICK m \in Nat : m = 0
      BY <1>2
    <2>5. PICK q \in Trader : q = o.owner
      BY <1>2
    <2>6. PICK b : b = Credit(Accounts, p, i, j)
      OBVIOUS
    <2>7. a = Credit(b, q, k, m)
      BY <1>4, <2>1, <2>2, <2>3, <2>4, <2>5, <2>6
    <2>8. Affords(p, i, j)
      BY <1>6, <2>1, <2>2
    <2>9. Moved(a, i + k, j + m)
      BY <2>6, <2>7, <2>8, TwoCredits
    <2> QED
      BY <2>1, <2>2, <2>3, <2>4, <2>9
  <1>8. SetAccounts(a)
    BY <1>1, <1>3, <1>4 DEF SettleAccept
  <1>9. /\ OffersOK(offers', nextId) /\ ResultsOK(results, offers', nextId)
        /\ SumFunction(GoldTied(offers')) = SumFunction(GoldTied(offers)) - 0
        /\ SumFunction(GoodsTied(offers')) = SumFunction(GoodsTied(offers)) - n
    BY <1>1, ReduceKeeps
  <1>10. /\ SumFunction(GoldOf(a)) + SumFunction(GoldTied(offers')) =
               SumFunction(GoldOf(Accounts)) + SumFunction(GoldTied(offers))
         /\ SumFunction(GoodsOf(a)) + SumFunction(GoodsTied(offers')) =
               SumFunction(GoodsOf(Accounts)) + SumFunction(GoodsTied(offers))
    BY <1>2, <1>7, <1>9, TotalTypes DEF Moved
  <1> QED
    BY <1>1, <1>7, <1>8, <1>9, <1>10, MovesConserve DEF Moved

LEMMA BuyConserves ==
    ASSUME MarketInv, NEW p \in Trader, NEW o \in offers, NEW n \in Amount, AcceptBuyOffer(p, o, n)
    PROVE  MarketInv' /\ Conserved
  <1>1. /\ p \in inMarket /\ o.type = "buy" /\ n <= o.amount /\ n <= loaded[p].goods
        /\ SetAccounts(Credit(Credit(Accounts, p, o.price * n, -n), o.owner, 0, n)) /\ Reduce(o, n)
        /\ UNCHANGED <<inMarket, nextId, selects, results, budget, fees>>
    BY DEF AcceptBuyOffer
  <1>2. n \in Nat /\ o.owner \in Trader /\ o.price * n \in Nat
    BY OfferParts, Product, MarketAssumption DEF MarketInv, OffersOK
  <1>3. PICK x \in Nat : x = o.price * n
    BY <1>2
  <1>4. PICK a : a = Credit(Credit(Accounts, p, x, -n), o.owner, 0, n)
    OBVIOUS
  <1>5. /\ AccountOf(Accounts, p).gold \in Nat /\ AccountOf(Accounts, p).goods \in Nat
        /\ AccountOf(Accounts, p) = loaded[p]
    BY <1>1, LoadedAccount, AccountParts DEF MarketInv
  <1>6. Affords(p, x, (-n))
    BY <1>1, <1>2, <1>3, <1>5 DEF Affords
  <1>7. Moved(a, x + 0, (-n) + n)
    <2>1. PICK i \in Int : i = x
      BY <1>2
    <2>2. PICK j \in Int : j = (-n)
      BY <1>2
    <2>3. PICK k \in Nat : k = 0
      BY <1>2
    <2>4. PICK m \in Nat : m = n
      BY <1>2
    <2>5. PICK q \in Trader : q = o.owner
      BY <1>2
    <2>6. PICK b : b = Credit(Accounts, p, i, j)
      OBVIOUS
    <2>7. a = Credit(b, q, k, m)
      BY <1>4, <2>1, <2>2, <2>3, <2>4, <2>5, <2>6
    <2>8. Affords(p, i, j)
      BY <1>6, <2>1, <2>2
    <2>9. Moved(a, i + k, j + m)
      BY <2>6, <2>7, <2>8, TwoCredits
    <2> QED
      BY <2>1, <2>2, <2>3, <2>4, <2>9
  <1>8. SetAccounts(a)
    BY <1>1, <1>3, <1>4
  <1>9. /\ OffersOK(offers', nextId) /\ ResultsOK(results, offers', nextId)
        /\ SumFunction(GoldTied(offers')) = SumFunction(GoldTied(offers)) - x
        /\ SumFunction(GoodsTied(offers')) = SumFunction(GoodsTied(offers)) - 0
    BY <1>1, <1>3, ReduceKeeps
  <1>10. /\ SumFunction(GoldOf(a)) + SumFunction(GoldTied(offers')) =
               SumFunction(GoldOf(Accounts)) + SumFunction(GoldTied(offers))
         /\ SumFunction(GoodsOf(a)) + SumFunction(GoodsTied(offers')) =
               SumFunction(GoodsOf(Accounts)) + SumFunction(GoodsTied(offers))
    BY <1>2, <1>7, <1>9, TotalTypes DEF Moved
  <1> QED
    BY <1>1, <1>7, <1>8, <1>9, <1>10, MovesConserve DEF Moved

-----------------------------------------------------------------------------
\* The account of everyone stays what it is.
LEMMA SameWorth ==
    ASSUME MarketInv, NEW a, AccountsOK(a), \A p \in Trader : AccountOf(a, p) = AccountOf(Accounts, p)
    PROVE  GoldOf(a) = GoldOf(Accounts) /\ GoodsOf(a) = GoodsOf(Accounts)
  BY DEF GoldOf, GoodsOf

LEMMA QuietConserves ==
    ASSUME MarketInv, NEW a, AccountsOK(a), \A p \in Trader : AccountOf(a, p) = AccountOf(Accounts, p),
           SetAccounts(a), inMarket' \subseteq {p \in Trader : loaded'[p] # None},
           ResultsOK(results', offers, nextId), MarketBudgetOK', UNCHANGED <<offers, nextId, fees>>
    PROVE  MarketInv' /\ Conserved
  <1>1. /\ AccountsOK(Accounts)'
        /\ TotalGold' = SumFunction(GoldOf(a)) + SumFunction(GoldTied(offers'))
        /\ TotalGoods' = SumFunction(GoodsOf(a)) + SumFunction(GoodsTied(offers'))
    BY AfterStep
  <1>2. TotalGold' = TotalGold /\ TotalGoods' = TotalGoods
    BY <1>1, SameWorth, TotalParts
  <1> QED
    BY <1>1, <1>2 DEF MarketInv, Conserved

LEMMA AccountsStay ==
    ASSUME MarketInv, UNCHANGED <<row, loaded>>
    PROVE  /\ AccountsOK(Accounts) /\ SetAccounts(Accounts)
           /\ \A p \in Trader : AccountOf(Accounts, p) = AccountOf(Accounts, p)
  BY DEF MarketInv, SetAccounts, Accounts

LEMMA EnterConserves ==
    ASSUME MarketInv, NEW p \in Trader, EnterMarket(p) \/ LeaveMarket(p)
    PROVE  MarketInv' /\ Conserved
  <1>1. /\ UNCHANGED <<row, loaded>> /\ inMarket' \subseteq {q \in Trader : loaded'[q] # None}
        /\ results' = results /\ MarketBudgetOK' /\ UNCHANGED <<offers, nextId, fees>>
    BY DEF EnterMarket, LeaveMarket, MarketInv, MarketBudgetOK
  <1>2. ResultsOK(results', offers, nextId)
    BY <1>1 DEF MarketInv
  <1> QED
    BY <1>1, <1>2, AccountsStay, QuietConserves

LEMMA LoginConserves ==
    ASSUME MarketInv, NEW p \in Trader, TraderLogsIn(p)
    PROVE  MarketInv' /\ Conserved
  <1>1. PICK a : a = [row |-> row, loaded |-> [loaded EXCEPT ![p] = row[p]]]
    OBVIOUS
  <1>2. row \in [Trader -> Account] /\ loaded \in [Trader -> Account \cup {None}]
    BY DEF MarketInv, AccountsOK, Accounts
  <1>3. AccountsOK(a)
    BY <1>1, <1>2 DEF AccountsOK
  <1>4. \A q \in Trader : AccountOf(a, q) = AccountOf(Accounts, q)
    BY <1>1, <1>2 DEF AccountOf, Accounts, TraderLogsIn
  <1>5. SetAccounts(a)
    BY <1>1 DEF SetAccounts, TraderLogsIn
  <1>6. row[p] # None
    BY <1>2, MarketAssumption DEF Account
  <1>7. inMarket' \subseteq {q \in Trader : loaded'[q] # None}
    BY <1>2, <1>6 DEF TraderLogsIn, MarketInv
  <1>8. MarketBudgetOK'
    BY MarketAssumption DEF TraderLogsIn, MarketInv, MarketBudgetOK
  <1>9. ResultsOK(results', offers, nextId) /\ UNCHANGED <<offers, nextId, fees>>
    BY DEF TraderLogsIn, MarketInv
  <1> QED
    BY <1>3, <1>4, <1>5, <1>7, <1>8, <1>9, QuietConserves

LEMMA LogoutConserves ==
    ASSUME MarketInv, NEW p \in Trader, TraderLogsOut(p)
    PROVE  MarketInv' /\ Conserved
  <1>1. PICK a : a = [row |-> [row EXCEPT ![p] = loaded[p]], loaded |-> [loaded EXCEPT ![p] = None]]
    OBVIOUS
  <1>2. row \in [Trader -> Account] /\ loaded \in [Trader -> Account \cup {None}]
    BY DEF MarketInv, AccountsOK, Accounts
  <1>3. AccountsOK(a)
    BY <1>1, <1>2 DEF AccountsOK, TraderLogsOut
  <1>4. \A q \in Trader : AccountOf(a, q) = AccountOf(Accounts, q)
    BY <1>1, <1>2 DEF AccountOf, Accounts, TraderLogsOut
  <1>5. SetAccounts(a)
    BY <1>1 DEF SetAccounts, TraderLogsOut
  <1>6. inMarket' \subseteq {q \in Trader : loaded'[q] # None}
    BY <1>2 DEF TraderLogsOut, MarketInv
  <1>7. MarketBudgetOK'
    BY DEF TraderLogsOut, MarketInv, MarketBudgetOK
  <1>8. ResultsOK(results', offers, nextId) /\ UNCHANGED <<offers, nextId, fees>>
    BY DEF TraderLogsOut, MarketInv
  <1> QED
    BY <1>3, <1>4, <1>5, <1>6, <1>7, <1>8, QuietConserves

LEMMA CheckConserves ==
    ASSUME MarketInv, CheckExpiredOffers
    PROVE  MarketInv' /\ Conserved
  <1>1. MarketBudgetOK'
    <2>1. PICK n \in Nat : n = budget.checks /\ n < MaxChecks /\ selects <= n /\ selects \in Nat
      BY MarketAssumption DEF MarketInv, MarketBudgetOK, CheckExpiredOffers
    <2>2. n + 1 \in 0 .. MaxChecks /\ selects + 1 \in Nat /\ selects + 1 <= n + 1
      BY <2>1, MarketAssumption
    <2>3. budget' \in [checks : 0 .. MaxChecks, logins : 0 .. MaxLogins] /\ budget'.checks = n + 1
      BY <2>1, <2>2 DEF MarketInv, MarketBudgetOK, CheckExpiredOffers
    <2> QED
      BY <2>2, <2>3 DEF CheckExpiredOffers, MarketBudgetOK
  <1>2. /\ UNCHANGED <<row, loaded>> /\ inMarket' \subseteq {q \in Trader : loaded'[q] # None}
        /\ UNCHANGED <<offers, nextId, fees>> /\ ResultsOK(results', offers, nextId)
    BY DEF CheckExpiredOffers, MarketInv
  <1> QED
    BY <1>1, <1>2, AccountsStay, QuietConserves

LEMMA SelectConserves ==
    ASSUME MarketInv, RunSelect
    PROVE  MarketInv' /\ Conserved
  <1>1. MarketBudgetOK'
    BY DEF MarketInv, MarketBudgetOK, RunSelect
  <1>2. PICK found \in SUBSET Offer : found = {o \in offers : o.old}
    BY DEF MarketInv, OffersOK
  <1>3. FoundOK(found, offers, nextId)
    <2>1. \A o \in found : o = [o EXCEPT !.amount = o.amount]
      BY DEF Offer
    <2>2. IsFiniteSet(found)
      BY <1>2, FS_Subset DEF MarketInv, OffersOK
    <2>3. \A o \in found : \A t \in offers : t.id = o.id => t = o
      BY <1>2 DEF MarketInv, OffersOK, OneOfAKind
    <2> QED
      BY <1>2, <2>1, <2>2, <2>3 DEF MarketInv, OffersOK, OneOfAKind, FoundOK
  <1>4. ResultsOK(results', offers, nextId)
    <2>1. PICK list : list = Append(results, found)
      OBVIOUS
    <2>2. results' = list
      BY <1>2, <2>1 DEF RunSelect
    <2>3. results \in Seq(SUBSET Offer) /\ \A n \in 1 .. Len(results) : FoundOK(results[n], offers, nextId)
      BY DEF MarketInv, ResultsOK
    <2>4. /\ list \in Seq(SUBSET Offer) /\ Len(list) = Len(results) + 1 /\ list[Len(results) + 1] = found
          /\ \A n \in 1 .. Len(results) : list[n] = results[n]
      BY <2>1, <2>3, AppendProperties
    <2>5. Len(results) \in Nat
      BY <2>3, LenProperties
    <2>6. \A n \in 1 .. Len(list) : n \in 1 .. Len(results) \/ n = Len(results) + 1
      BY <2>4, <2>5
    <2> QED
      BY <1>3, <2>2, <2>3, <2>4, <2>6 DEF ResultsOK
  <1>5. /\ UNCHANGED <<row, loaded>> /\ inMarket' \subseteq {q \in Trader : loaded'[q] # None}
        /\ UNCHANGED <<offers, nextId, fees>>
    BY DEF RunSelect, MarketInv
  <1> QED
    BY <1>1, <1>4, <1>5, AccountsStay, QuietConserves

LEMMA RunOutConserves ==
    ASSUME MarketInv, NEW o \in offers, RunOut(o)
    PROVE  MarketInv' /\ Conserved
  <1>1. PICK S : S = offers \ {o}
    OBVIOUS
  <1>2. /\ o \in Offer /\ OffersOK(S, nextId)
        /\ SumFunction(GoldTied(S)) = SumFunction(GoldTied(offers)) - GoldIn(o)
        /\ SumFunction(GoodsTied(S)) = SumFunction(GoodsTied(offers)) - GoodsIn(o)
    BY <1>1, DropKeeps
  <1>3. PICK c : c = [o EXCEPT !.old = TRUE]
    OBVIOUS
  <1>4. /\ c \in Offer /\ c.id = o.id /\ c.amount = o.amount
        /\ GoldIn(c) = GoldIn(o) /\ GoodsIn(c) = GoodsIn(o)
    BY <1>2, <1>3 DEF Offer, GoldIn, GoodsIn
  <1>5. offers' = S \cup {c} /\ ~o.old
    BY <1>1, <1>3 DEF RunOut
  <1>6. c.amount > 0
    BY <1>4 DEF MarketInv, OffersOK
  <1>7. c \notin S /\ OffersOK(offers', nextId)
    BY <1>1, <1>4, <1>5, <1>6, OffersChange DEF MarketInv
  <1>8. ResultsOK(results, offers', nextId)
    BY <1>1, <1>4, <1>5, ResultsOld DEF MarketInv, OffersOK
  <1>9. /\ SumFunction(GoldTied(offers')) = SumFunction(GoldTied(S)) + GoldIn(c)
        /\ SumFunction(GoodsTied(offers')) = SumFunction(GoodsTied(S)) + GoodsIn(c)
    BY <1>2, <1>4, <1>5, <1>7, TiedWith DEF OffersOK
  <1>10. GoldIn(o) \in Int /\ GoodsIn(o) \in Int
    BY <1>2, OfferParts
  <1>11. /\ SumFunction(GoldTied(offers')) = SumFunction(GoldTied(offers))
         /\ SumFunction(GoodsTied(offers')) = SumFunction(GoodsTied(offers))
    BY <1>2, <1>4, <1>9, <1>10, TotalTypes
  <1>12. UNCHANGED <<inMarket, nextId, selects, results, budget, fees, row, loaded>>
    BY DEF RunOut
  <1>13. AccountsOK(Accounts) /\ SetAccounts(Accounts) /\ Accounts.loaded = loaded
    BY <1>12, AccountsStay DEF Accounts
  <1> QED
    BY <1>7, <1>8, <1>11, <1>12, <1>13, MovesConserve

-----------------------------------------------------------------------------
(***************************************************************************)
(* Offers that have run out are settled.                                   *)
(***************************************************************************)
Settled(found) == FoldSet(LAMBDA o, a : Credit(a, o.owner, GoldIn(o), GoodsIn(o)), Accounts, found)
CreditOwner(o, a) == Credit(a, o.owner, GoldIn(o), GoodsIn(o))
SettledBy(M, b, h) == [T \in SUBSET M |-> IF T = {} THEN b ELSE CreditOwner(Pick(T), h[T \ {Pick(T)}])]

LEMMA SettledUnfolds ==
    ASSUME NEW M, NEW it, it = SettledBy(M, Accounts, it)
    PROVE  \E h : h = SettledBy(M, Accounts, h) /\ Settled(M) = h[M]
  <1>1. PICK h : h = CHOOSE k : k = [T \in SUBSET M |->
                        IF T = {} THEN Accounts
                        ELSE CreditOwner(CHOOSE x \in T : TRUE, k[T \ {CHOOSE x \in T : TRUE}])]
    OBVIOUS
  <1>2. Settled(M) = h[M]
    BY <1>1 DEF Settled, FoldSet, MapThenFoldSet, CreditOwner
  <1>3. h = SettledBy(M, Accounts, h)
    <2>1. \E k : k = SettledBy(M, Accounts, k)
      OBVIOUS
    <2>2. h = CHOOSE k : k = SettledBy(M, Accounts, k)
      BY <1>1 DEF SettledBy, Pick
    <2> QED
      BY <2>1, <2>2, Zenon
  <1> QED
    BY <1>2, <1>3

\* What is tied up in some of the offers and in the others.
LEMMA TiedSplit ==
    ASSUME NEW S \in SUBSET Offer, IsFiniteSet(S), NEW M \in SUBSET S
    PROVE  /\ SumFunction(GoldTied(S \ M)) + SumFunction(GoldTied(M)) = SumFunction(GoldTied(S))
           /\ SumFunction(GoodsTied(S \ M)) + SumFunction(GoodsTied(M)) = SumFunction(GoodsTied(S))
  <1>1. PICK h : h = [T \in SUBSET M |->
                        <<SumFunction(GoldTied(S \ T)) + SumFunction(GoldTied(T)),
                          SumFunction(GoodsTied(S \ T)) + SumFunction(GoodsTied(T))>>]
    OBVIOUS
  <1>2. PICK all : all = <<SumFunction(GoldTied(S)), SumFunction(GoodsTied(S))>>
    OBVIOUS
  <1>3. PICK K : K = [T \in SUBSET M |-> {all}]
    OBVIOUS
  <1>4. IsFiniteSet(M)
    BY FS_Subset
  <1>5. h[{}] \in K[{}]
    <2>1. S \ {} = S
      OBVIOUS
    <2>2. SumFunction(GoldTied({})) = 0 /\ SumFunction(GoodsTied({})) = 0
      BY SumNone DEF GoldTied, GoodsTied
    <2>3. SumFunction(GoldTied(S)) \in Int /\ SumFunction(GoodsTied(S)) \in Int
      BY TiedType
    <2>4. h[{}] = all
      BY <1>1, <1>2, <2>1, <2>2, <2>3
    <2> QED
      BY <1>3, <2>4
  <1>6. ASSUME NEW T \in SUBSET M, T # {}, h[T \ {Pick(T)}] \in K[T \ {Pick(T)}]
        PROVE  h[T] \in K[T]
    <2>1. PICK x \in T : x = Pick(T)
      BY <1>6, PickIn
    <2>2. PICK U \in SUBSET M : U = T \ {x}
      OBVIOUS
    <2>3. PICK A \in SUBSET Offer : A = S \ U
      OBVIOUS
    <2>4. PICK B \in SUBSET Offer : B = S \ T
      OBVIOUS
    <2>5. B = A \ {x} /\ x \in A
      BY <2>2, <2>3, <2>4
    <2>6. IsFiniteSet(A) /\ IsFiniteSet(T) /\ T \in SUBSET Offer
      BY <2>3, FS_Subset
    <2>7. /\ SumFunction(GoldTied(B)) = SumFunction(GoldTied(A)) - GoldIn(x)
          /\ SumFunction(GoodsTied(B)) = SumFunction(GoodsTied(A)) - GoodsIn(x)
      BY <2>5, <2>6, TiedWithout
    <2>8. /\ SumFunction(GoldTied(U)) = SumFunction(GoldTied(T)) - GoldIn(x)
          /\ SumFunction(GoodsTied(U)) = SumFunction(GoodsTied(T)) - GoodsIn(x)
      BY <2>2, <2>6, TiedWithout
    <2>9. /\ SumFunction(GoldTied(A)) \in Int /\ SumFunction(GoodsTied(A)) \in Int
          /\ SumFunction(GoldTied(T)) \in Int /\ SumFunction(GoodsTied(T)) \in Int
          /\ GoldIn(x) \in Int /\ GoodsIn(x) \in Int
      BY <2>6, TiedType, OfferParts
    <2>10. /\ SumFunction(GoldTied(B)) + SumFunction(GoldTied(T)) =
                  SumFunction(GoldTied(A)) + SumFunction(GoldTied(U))
           /\ SumFunction(GoodsTied(B)) + SumFunction(GoodsTied(T)) =
                  SumFunction(GoodsTied(A)) + SumFunction(GoodsTied(U))
      BY <2>7, <2>8, <2>9
    <2>11. h[T] = h[U]
      BY <1>1, <2>3, <2>4, <2>10
    <2>12. h[U] = all
      BY <1>3, <1>6, <2>1, <2>2
    <2> QED
      BY <1>3, <2>11, <2>12
  <1>7. h[M] \in K[M]
    BY <1>4, <1>5, <1>6, LoopEnds
  <1>9. h[M] = all
    BY <1>3, <1>7
  <1> QED
    BY <1>1, <1>2, <1>9

\* Every owner gets what is tied up in his offers.
LEMMA SettledParts ==
    ASSUME MarketInv, NEW M \in SUBSET Offer, IsFiniteSet(M), NEW a, a = Settled(M)
    PROVE  /\ AccountsOK(a) /\ \A p \in Trader : a.loaded[p] = None <=> loaded[p] = None
           /\ SumFunction(GoldOf(a)) = SumFunction(GoldOf(Accounts)) + SumFunction(GoldTied(M))
           /\ SumFunction(GoodsOf(a)) = SumFunction(GoodsOf(Accounts)) + SumFunction(GoodsTied(M))
  <1> DEFINE Books == [row : [Trader -> Account], loaded : [Trader -> Account \cup {None}]]
             Good(b, T) ==
                /\ \A p \in Trader : b.loaded[p] = None <=> loaded[p] = None
                /\ SumFunction(GoldOf(b)) = SumFunction(GoldOf(Accounts)) + SumFunction(GoldTied(T))
                /\ SumFunction(GoodsOf(b)) = SumFunction(GoodsOf(Accounts)) + SumFunction(GoodsTied(T))
  <1>1. PICK F : F = [z \in M \X Books |-> Credit(z[2], z[1].owner, GoldIn(z[1]), GoodsIn(z[1]))]
    OBVIOUS
  <1>2. PICK K : K = [T \in SUBSET M |-> {b \in Books : Good(b, T)}]
    OBVIOUS
  <1>3. Accounts \in K[{}]
    <2>1. SumFunction(GoldTied({})) = 0 /\ SumFunction(GoodsTied({})) = 0
      BY SumNone DEF GoldTied, GoodsTied
    <2>2. Accounts \in Books /\ Accounts.loaded = loaded
      BY DEF MarketInv, AccountsOK, Accounts
    <2>3. Good(Accounts, {})
      BY <2>1, <2>2, TotalTypes
    <2> QED
      BY <1>2, <2>2, <2>3
  <1>4. ASSUME NEW T \in SUBSET M, T # {}, NEW d \in K[T \ {Pick(T)}]
        PROVE  F[<<Pick(T), d>>] \in K[T]
    <2>1. PICK x \in T : x = Pick(T)
      BY <1>4, PickIn
    <2>2. PICK U \in SUBSET M : U = T \ {x}
      OBVIOUS
    <2>3. d \in Books /\ Good(d, U)
      BY <1>2, <2>1, <2>2
    <2>4. x \in Offer /\ x \in M
      OBVIOUS
    <2>5. /\ x.owner \in Trader /\ GoldIn(x) \in Nat /\ GoodsIn(x) \in Nat
          /\ GoldIn(x) \in Int /\ GoodsIn(x) \in Int
      BY <2>4, OfferParts
    <2>6. PICK b : b = Credit(d, x.owner, GoldIn(x), GoodsIn(x))
      OBVIOUS
    <2>7. F[<<x, d>>] = b
      BY <1>1, <2>3, <2>4, <2>6
    <2>8. AccountsOK(d)
      BY <2>3 DEF AccountsOK
    <2>9. AccountOf(d, x.owner).gold + GoldIn(x) >= 0 /\ AccountOf(d, x.owner).goods + GoodsIn(x) >= 0
      <3>1. AccountOf(d, x.owner).gold \in Nat /\ AccountOf(d, x.owner).goods \in Nat
        BY <2>5, <2>8, AccountParts
      <3> QED
        BY <2>5, <3>1
    <2>10. AccountsOK(b) /\ \A p \in Trader : b.loaded[p] = None <=> d.loaded[p] = None
      BY <2>5, <2>6, <2>8, <2>9, CreditParts
    <2>11. /\ SumFunction(GoldOf(b)) = SumFunction(GoldOf(d)) + GoldIn(x)
           /\ SumFunction(GoodsOf(b)) = SumFunction(GoodsOf(d)) + GoodsIn(x)
      BY <2>5, <2>6, <2>8, <2>9, CreditSums
    <2>12. T \in SUBSET Offer /\ IsFiniteSet(T)
      BY FS_Subset
    <2>13. /\ SumFunction(GoldTied(U)) = SumFunction(GoldTied(T)) - GoldIn(x)
           /\ SumFunction(GoodsTied(U)) = SumFunction(GoodsTied(T)) - GoodsIn(x)
      BY <2>2, <2>12, TiedWithout
    <2>14. SumFunction(GoldTied(T)) \in Int /\ SumFunction(GoodsTied(T)) \in Int
      BY <2>12, TiedType
    <2>15. /\ SumFunction(GoldOf(b)) = SumFunction(GoldOf(Accounts)) + SumFunction(GoldTied(T))
           /\ SumFunction(GoodsOf(b)) = SumFunction(GoodsOf(Accounts)) + SumFunction(GoodsTied(T))
      BY <2>3, <2>5, <2>11, <2>13, <2>14, TotalTypes
    <2>16. b \in Books /\ Good(b, T)
      BY <2>3, <2>10, <2>15 DEF AccountsOK
    <2> HIDE DEF Good, Books
    <2> QED
      BY <1>2, <2>1, <2>7, <2>16
  <1>5. PICK it : it = LoopBy(M, Accounts, F, it) /\ \A T \in SUBSET M : it[T] \in K[T]
    <2> HIDE DEF Good, Books
    <2> QED
      BY <1>3, <1>4, Looped
  <1>6. it = SettledBy(M, Accounts, it)
    <2>1. ASSUME NEW T \in SUBSET M, T # {}
          PROVE  F[<<Pick(T), it[T \ {Pick(T)}]>>] = CreditOwner(Pick(T), it[T \ {Pick(T)}])
      <3>1. PICK x \in T : x = Pick(T)
        BY <2>1, PickIn
      <3>2. PICK d : d = it[T \ {x}]
        OBVIOUS
      <3>3. d \in Books
        <4> HIDE DEF Good, Books
        <4> QED
          BY <1>2, <1>5, <3>2
      <3>4. F[<<x, d>>] = CreditOwner(x, d)
        <4> HIDE DEF Good, Books
        <4> QED
          BY <1>1, <3>3 DEF CreditOwner
      <3> QED
        BY <3>1, <3>2, <3>4
    <2> HIDE DEF Good, Books
    <2> QED
      BY <1>5, <2>1 DEF LoopBy, SettledBy
  <1>7. PICK h : h = SettledBy(M, Accounts, h) /\ a = h[M]
    BY <1>6, SettledUnfolds
  <1>8. h[M] \in K[M]
    <2>1. h[{}] \in K[{}]
      BY <1>3, <1>7 DEF SettledBy
    <2>2. ASSUME NEW T \in SUBSET M, T # {}, h[T \ {Pick(T)}] \in K[T \ {Pick(T)}]
          PROVE  h[T] \in K[T]
      <3>1. PICK x \in T : x = Pick(T)
        BY <2>2, PickIn
      <3>2. PICK d : d = h[T \ {x}]
        OBVIOUS
      <3>3. d \in Books
        <4> HIDE DEF Good, Books
        <4> QED
          BY <1>2, <2>2, <3>1, <3>2
      <3>4. F[<<x, d>>] = CreditOwner(x, d)
        <4> HIDE DEF Good, Books
        <4> QED
          BY <1>1, <3>3 DEF CreditOwner
      <3>5. h[T] = CreditOwner(x, d)
        BY <1>7, <2>2, <3>1, <3>2 DEF SettledBy
      <3> HIDE DEF Good, Books
      <3> QED
        BY <1>4, <2>2, <3>1, <3>2, <3>4, <3>5
    <2> HIDE DEF Good, Books
    <2> QED
      BY <2>1, <2>2, LoopEnds
  <1>9. Good(h[M], M) /\ h[M] \in Books
    <2> HIDE DEF Good, Books
    <2> QED
      BY <1>2, <1>8
  <1> QED
    BY <1>7, <1>9 DEF AccountsOK

LEMMA TailParts ==
    ASSUME MarketInv, results # <<>>
    PROVE  /\ FoundOK(Head(results), offers, nextId)
           /\ \A S \in SUBSET offers : ResultsOK(Tail(results), S, nextId)
  <1>1. results \in Seq(SUBSET Offer) /\ \A n \in 1 .. Len(results) : FoundOK(results[n], offers, nextId)
    BY DEF MarketInv, ResultsOK
  <1>2. /\ Len(results) \in Nat /\ Len(results) > 0 /\ Head(results) = results[1]
        /\ Tail(results) \in Seq(SUBSET Offer) /\ Len(Tail(results)) = Len(results) - 1
        /\ \A n \in 1 .. Len(Tail(results)) : Tail(results)[n] = results[n + 1]
    BY <1>1, HeadTailProperties, EmptySeq, LenProperties
  <1>3. FoundOK(results[1], offers, nextId)
    BY <1>1, <1>2
  <1>4. \A n \in 1 .. Len(Tail(results)) : n + 1 \in 1 .. Len(results)
    BY <1>2
  <1>5. ResultsOK(Tail(results), offers, nextId)
    BY <1>1, <1>2, <1>4 DEF ResultsOK
  <1> QED
    BY <1>2, <1>3, <1>5, ResultsLess

LEMMA ExpiredConserves ==
    ASSUME MarketInv, ProcessExpiredOffers
    PROVE  /\ MarketInv' /\ results' = Tail(results)
           /\ ~Outdated => Conserved
  <1>1. PICK found \in SUBSET Offer : found = Head(results) /\ FoundOK(found, offers, nextId)
    BY TailParts DEF ProcessExpiredOffers, FoundOK
  <1>2. PICK M \in SUBSET Offer : M = StillThere(found) /\ M \subseteq found
    BY <1>1 DEF StillThere
  <1>3. IsFiniteSet(M)
    BY <1>1, <1>2, FS_Subset DEF FoundOK
  <1>4. PICK a : a = Settled(M)
    OBVIOUS
  <1>5. PICK S \in SUBSET offers : S = {t \in offers : \A o \in M : t.id # o.id}
    OBVIOUS
  <1>6. /\ results # <<>> /\ SetAccounts(a) /\ offers' = S /\ results' = Tail(results)
        /\ UNCHANGED <<inMarket, nextId, selects, budget, fees>>
    BY <1>1, <1>2, <1>4, <1>5 DEF ProcessExpiredOffers, Settled
  <1>7. /\ AccountsOK(a) /\ \A p \in Trader : a.loaded[p] = None <=> loaded[p] = None
        /\ SumFunction(GoldOf(a)) = SumFunction(GoldOf(Accounts)) + SumFunction(GoldTied(M))
        /\ SumFunction(GoodsOf(a)) = SumFunction(GoodsOf(Accounts)) + SumFunction(GoodsTied(M))
    BY <1>3, <1>4, SettledParts
  <1>8. /\ AccountsOK(Accounts)'
        /\ TotalGold' = SumFunction(GoldOf(a)) + SumFunction(GoldTied(S))
        /\ TotalGoods' = SumFunction(GoodsOf(a)) + SumFunction(GoodsTied(S))
    BY <1>6, <1>7, AfterStep
  <1>9. MarketInv'
    <2>1. inMarket' \subseteq {q \in Trader : loaded'[q] # None}
      BY <1>6, <1>7 DEF MarketInv, SetAccounts
    <2>2. OffersOK(S, nextId)
      BY OffersLess DEF MarketInv
    <2>3. ResultsOK(results', S, nextId)
      BY <1>6, TailParts
    <2>4. MarketBudgetOK' /\ fees' \in Nat
      BY <1>6 DEF MarketInv, MarketBudgetOK
    <2> QED
      BY <1>6, <1>8, <2>1, <2>2, <2>3, <2>4 DEF MarketInv
  <1>10. ASSUME ~Outdated
         PROVE  Conserved
    <2>1. M \subseteq offers
      <3> SUFFICES ASSUME NEW o \in M
                   PROVE  o \in offers
        OBVIOUS
      <3>1. PICK t \in offers : t.id = o.id
        BY <1>2 DEF StillThere
      <3>2. o \in found /\ t.amount = o.amount
        BY <1>1, <1>2, <1>6, <1>10, <3>1 DEF Outdated
      <3>3. t = [o EXCEPT !.amount = o.amount]
        BY <1>1, <3>1, <3>2 DEF FoundOK
      <3>4. t = o
        BY <3>3 DEF Offer
      <3> QED
        BY <3>4
    <2>2. S = offers \ M
      BY <1>5, <2>1 DEF MarketInv, OffersOK, OneOfAKind
    <2>3. offers \in SUBSET Offer /\ IsFiniteSet(offers)
      BY DEF MarketInv, OffersOK
    <2>4. /\ SumFunction(GoldTied(S)) + SumFunction(GoldTied(M)) = SumFunction(GoldTied(offers))
          /\ SumFunction(GoodsTied(S)) + SumFunction(GoodsTied(M)) = SumFunction(GoodsTied(offers))
      BY <2>1, <2>2, <2>3, TiedSplit
    <2>5. S \in SUBSET Offer /\ IsFiniteSet(S)
      BY <2>3, FS_Subset
    <2>6. /\ SumFunction(GoldTied(S)) \in Int /\ SumFunction(GoodsTied(S)) \in Int
          /\ SumFunction(GoldTied(M)) \in Int /\ SumFunction(GoodsTied(M)) \in Int
      BY <1>3, <2>5, TiedType
    <2>7. TotalGold' = TotalGold /\ TotalGoods' = TotalGoods
      BY <1>7, <1>8, <2>4, <2>6, TotalTypes, TotalParts
    <2> QED
      BY <1>6, <2>7 DEF Conserved
  <1> QED
    BY <1>6, <1>9, <1>10

-----------------------------------------------------------------------------
LEMMA MarketKeeps ==
    ASSUME MarketInv, [MarketNext]_marketVars
    PROVE  MarketInv' /\ (NothingIsMade \/ UNCHANGED marketVars)
  <1>1. CASE UNCHANGED marketVars
    <2>1. UNCHANGED <<row, loaded, inMarket, offers, nextId, selects, results, budget, fees>>
      BY <1>1 DEF marketVars
    <2> QED
      BY <1>1, <2>1 DEF MarketInv, AccountsOK, Accounts, MarketBudgetOK
  <1>2. ASSUME NEW p \in Trader, EnterMarket(p) \/ LeaveMarket(p)
        PROVE  MarketInv' /\ Conserved
    BY <1>2, EnterConserves
  <1>3. ASSUME NEW p \in Trader, NEW type \in {"buy", "sell"}, NEW n \in Amount, NEW price \in Price,
               PlayerCreateMarketOffer(p, type, n, price)
        PROVE  MarketInv' /\ Conserved
    BY <1>3, CreateConserves
  <1>4. ASSUME NEW p \in Trader, NEW o \in offers, PlayerCancelMarketOffer(p, o)
        PROVE  MarketInv' /\ Conserved
    BY <1>4, CancelConserves
  <1>5. ASSUME NEW p \in Trader, NEW o \in offers, NEW n \in Amount, AcceptSellOffer(p, o, n)
        PROVE  MarketInv' /\ Conserved
    BY <1>5, SellConserves
  <1>6. ASSUME NEW p \in Trader, NEW o \in offers, NEW n \in Amount, AcceptBuyOffer(p, o, n)
        PROVE  MarketInv' /\ Conserved
    BY <1>6, BuyConserves
  <1>7. ASSUME NEW p \in Trader, TraderLogsIn(p) \/ TraderLogsOut(p)
        PROVE  MarketInv' /\ Conserved
    BY <1>7, LoginConserves, LogoutConserves
  <1>8. ASSUME NEW o \in offers, RunOut(o)
        PROVE  MarketInv' /\ Conserved
    BY <1>8, RunOutConserves
  <1>9. ASSUME CheckExpiredOffers \/ RunSelect
        PROVE  MarketInv' /\ Conserved
    BY <1>9, CheckConserves, SelectConserves
  <1>10. ASSUME ProcessExpiredOffers
         PROVE  MarketInv' /\ NothingIsMade
    BY <1>10, ExpiredConserves DEF NothingIsMade, Conserved
  <1>11. Conserved => NothingIsMade
    BY DEF Conserved, NothingIsMade
  <1> QED
    BY <1>1, <1>2, <1>3, <1>4, <1>5, <1>6, <1>7, <1>8, <1>9, <1>10, <1>11 DEF MarketNext

LEMMA MarketInvCorrect == MarketSpec => []MarketInv
  <1>1. MarketInv /\ [MarketNext]_marketVars => MarketInv'
    BY MarketKeeps
  <1> QED
    BY MarketStarts, <1>1, PTL DEF MarketSpec

\* Accounts, offers, queries and results keep their types whatever the handlers of
\* the market and the settlement of expired offers do.
THEOREM MarketTypeCorrect == MarketSpec => []MarketTypeOK
  BY MarketInvCorrect, MarketTyped, PTL

\* Nobody spends what he does not have: the checks of playerCreateMarketOffer and
\* playerAcceptMarketOffer are enough, and no id is given to two offers.
THEOREM NoDebtsCorrect == MarketSpec => []NoDebts
  BY MarketInvCorrect, MarketNoDebts, PTL

\* An offer is settled once, whether it is accepted, cancelled or has run out.
THEOREM NothingFromNothingCorrect == MarketSpec => NothingFromNothing
  <1>1. MarketInv /\ [MarketNext]_marketVars => [NothingIsMade]_marketVars
    BY MarketKeeps
  <1> QED
    BY MarketInvCorrect, <1>1, PTL DEF MarketSpec, NothingFromNothing

-----------------------------------------------------------------------------
LEMMA MarketStays ==
    ASSUME MarketInv,
           [SessionStep \/ MarketStep \/ StorageStep \/ ViewStep \/ HousesStep \/ ChatStep]_accountsVars
    PROVE  MarketInv' /\ [part = "market" => NothingIsMade]_accountsVars
  <1>1. CASE MarketStep
    <2>1. MarketNext /\ UNCHANGED <<part, g, storageVars, viewVars, housesVars, chatVars>>
      BY <1>1 DEF MarketStep
    <2>2. MarketInv' /\ (NothingIsMade \/ UNCHANGED marketVars)
      BY <2>1, MarketKeeps
    <2> QED
      BY <2>1, <2>2 DEF accountsVars
  <1>2. CASE SessionStep \/ StorageStep \/ ViewStep \/ HousesStep \/ ChatStep
    <2>1. part # "market" /\ UNCHANGED marketVars
      BY <1>2 DEF SessionStep, StorageStep, ViewStep, HousesStep, ChatStep
    <2> QED
      BY <2>1, MarketKeeps
  <1>3. CASE UNCHANGED accountsVars
    <2>1. UNCHANGED marketVars
      BY <1>3 DEF accountsVars
    <2> QED
      BY <1>3, <2>1, MarketKeeps
  <1> QED
    BY <1>1, <1>2, <1>3

\* What the run of the accounts checks: the market of Game's playerCreateMarketOffer,
\* playerAcceptMarketOffer, playerCancelMarketOffer and IOMarket::processExpiredOffers
\* makes and loses no gold and no goods, next to everything else that happens.
THEOREM MarketConservesCorrect == AccountsSpec => MarketConserves
  <1>1. AccountsInit => MarketInv
    BY MarketStarts DEF AccountsInit
  <1>2. QED
    BY <1>1, MarketStays, PTL DEF AccountsSpec, MarketConserves
=============================================================================
