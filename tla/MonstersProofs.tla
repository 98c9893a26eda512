--------------------------- MODULE MonstersProofs ---------------------------
(***************************************************************************)
(* Monsters, for any players, monsters, summons and places: the references *)
(* of creatures are counted exactly, what a monster attacks or follows is  *)
(* in the world and in its sight, and no monster sleeps while it has       *)
(* something to do.                                                        *)
(*                                                                         *)
(* The books b are one record, as every call changes several of them.  In  *)
(* the invariant they are Intact (each creature Fit: it has as many        *)
(* references as there are holders, and nobody who is gone has a list, a   *)
(* master or a check), every monster is Dutiful and every living summon    *)
(* Led, and whoever is in toRelease is there once and out of the world.    *)
(*                                                                         *)
(* Inside a call less is true.  Fit(b, c, k) says that c has k references  *)
(* more than holders; Half(b, m, e) is Dutiful but for the creature e,     *)
(* which is coming, moving or going and of which the monster m may not     *)
(* have been told.  The loops that tell the monsters have invariants in    *)
(* which those that were told are Dutiful and the others are Half.         *)
(***************************************************************************)
EXTENDS Monsters, FiniteSetTheorems, WellFoundedInduction, TLAPS

-----------------------------------------------------------------------------
(***************************************************************************)
(* Loops over a finite set, which take one element away at a time.         *)
(***************************************************************************)
Pick(T) == CHOOSE x \in T : TRUE
LEMMA PickIn ==
    ASSUME NEW T, T # {}
    PROVE  Pick(T) \in T
  BY DEF Pick

LEMMA LeastOf ==
    ASSUME NEW S, S \subseteq Nat, NEW n \in S, NEW R, R = {p \in Nat \X Nat : p[1] < p[2]},
           \A k \in S : ~ (<<k, n>> \in R)
    PROVE  \A k \in S : n <= k
  <1> SUFFICES ASSUME NEW k \in S
               PROVE  n <= k
    OBVIOUS
  <1>1. PICK p \in Nat \X Nat : p = <<k, n>>
    OBVIOUS
  <1>2. p[1] = k /\ p[2] = n
    BY <1>1
  <1>3. p \notin R
    BY <1>1
  <1>4. ~ (k < n)
    BY <1>2, <1>3
  <1> QED
    BY <1>4

LEMMA LeastNat ==
    ASSUME NEW S, S \subseteq Nat, S # {}
    PROVE  \E n \in S : \A k \in S : n <= k
  <1>1. PICK R : R = OpToRel(<, Nat)
    OBVIOUS
  <1>2. IsWellFoundedOn(R, Nat)
    BY <1>1, NatLessThanWellFounded, Zenon
  <1>3. PICK n \in S : \A k \in S : ~ (<<k, n>> \in R)
    BY <1>2, WFMin, Zenon
  <1>4. R = {p \in Nat \X Nat : p[1] < p[2]}
    BY <1>1, Zenon DEF OpToRel
  <1>5. \A k \in S : n <= k
    BY <1>3, <1>4, LeastOf, Zenon
  <1> QED
    BY <1>5, Zenon

Small(M, n) == {T \in SUBSET M : Cardinality(T) <= n}

LEMMA SmallFacts ==
    ASSUME NEW M, IsFiniteSet(M)
    PROVE  /\ \A T \in SUBSET M : IsFiniteSet(T) /\ Cardinality(T) \in Nat
           /\ Small(M, 0) = {{}}
           /\ \A n \in Nat : \A T \in Small(M, n + 1) : T # {} => T \ {Pick(T)} \in Small(M, n)
           /\ \A n \in Nat : Small(M, n) \subseteq Small(M, n + 1)
           /\ Small(M, Cardinality(M)) = SUBSET M
  <1>1. \A T \in SUBSET M : IsFiniteSet(T) /\ Cardinality(T) \in Nat /\ Cardinality(T) <= Cardinality(M)
    BY FS_Subset, FS_CardinalityType
  <1>2. Small(M, 0) = {{}}
    BY <1>1, FS_EmptySet DEF Small
  <1>3. ASSUME NEW n \in Nat, NEW T \in Small(M, n + 1), T # {}
        PROVE  T \ {Pick(T)} \in Small(M, n)
    <2>1. T \in SUBSET M /\ Cardinality(T) <= n + 1
      BY DEF Small
    <2>2. Cardinality(T \ {Pick(T)}) = Cardinality(T) - 1
      BY <1>1, <1>3, <2>1, PickIn, FS_RemoveElement
    <2> QED
      BY <1>1, <2>1, <2>2 DEF Small
  <1>4. \A n \in Nat : Small(M, n) \subseteq Small(M, n + 1)
    BY <1>1 DEF Small
  <1>5. Small(M, Cardinality(M)) = SUBSET M
    BY <1>1 DEF Small
  <1> QED
    BY <1>1, <1>2, <1>3, <1>4, <1>5

LoopBy(M, b, F, g) == [T \in SUBSET M |-> IF T = {} THEN b ELSE F[<<Pick(T), g[T \ {Pick(T)}]>>]]

\* The function that a loop defines, which takes one element away at a time, exists;
\* F says what the loop does with an element.
LEMMA LoopExists ==
    ASSUME NEW M, IsFiniteSet(M), NEW b, NEW F
    PROVE  \E g : g = LoopBy(M, b, F, g)
  <1> DEFINE Next(g, D) == [T \in D |-> IF T = {} THEN b ELSE F[<<Pick(T), g[T \ {Pick(T)}]>>]]
             Bad == {n \in Nat : ~ \E g : g = Next(g, Small(M, n))}
  <1>1. 0 \notin Bad
    <2>1. PICK g : g = [T \in {{}} |-> b]
      OBVIOUS
    <2>2. g = [T \in {{}} |-> IF T = {} THEN b ELSE F[<<Pick(T), g[T \ {Pick(T)}]>>]]
      BY <2>1
    <2> QED
      BY <2>2, SmallFacts
  <1>2. ASSUME NEW n \in Nat, n \notin Bad
        PROVE  n + 1 \notin Bad
    <2>1. PICK g : g = Next(g, Small(M, n))
      BY <1>2
    <2>2. PICK h : h = Next(g, Small(M, n + 1))
      OBVIOUS
    <2>3. ASSUME NEW T \in Small(M, n + 1), T # {}
          PROVE  h[T \ {Pick(T)}] = g[T \ {Pick(T)}]
      <3>1. PICK U : U = T \ {Pick(T)}
        OBVIOUS
      <3>2. U \in Small(M, n) /\ U \in Small(M, n + 1)
        BY <2>3, <3>1, SmallFacts
      <3>3. h[U] = IF U = {} THEN b ELSE F[<<Pick(U), g[U \ {Pick(U)}]>>]
        BY <2>2, <3>2
      <3>4. g[U] = IF U = {} THEN b ELSE F[<<Pick(U), g[U \ {Pick(U)}]>>]
        BY <2>1, <3>2
      <3> QED
        BY <3>1, <3>3, <3>4
    <2>4. h = [T \in Small(M, n + 1) |-> IF T = {} THEN b ELSE F[<<Pick(T), h[T \ {Pick(T)}]>>]]
      BY <2>2, <2>3
    <2> QED
      BY <2>4
  <1>3. Bad = {}
    <2> SUFFICES ASSUME Bad # {}
                 PROVE  FALSE
      OBVIOUS
    <2>1. PICK n \in Bad : \A k \in Bad : n <= k
      <3> HIDE DEF Bad
      <3>1. Bad \subseteq Nat
        BY DEF Bad
      <3> QED
        BY <3>1, LeastNat
    <2>2. n \in Nat /\ n # 0
      BY <1>1
    <2>3. n - 1 \in Nat /\ n - 1 \notin Bad
      <3> HIDE DEF Bad
      <3> QED
        BY <2>1, <2>2
    <2>4. n - 1 + 1 \notin Bad
      <3> HIDE DEF Bad
      <3> QED
        BY <1>2, <2>3
    <2> QED
      <3> HIDE DEF Bad
      <3> QED
        BY <2>1, <2>2, <2>4
  <1>4. Cardinality(M) \in Nat
    BY FS_CardinalityType
  <1>5. PICK g : g = Next(g, Small(M, Cardinality(M)))
    BY <1>3, <1>4
  <1>6. Next(g, Small(M, Cardinality(M))) = LoopBy(M, b, F, g)
    BY SmallFacts DEF LoopBy
  <1> QED
    BY <1>5, <1>6

\* What is said of the books after every part of a loop is said after it; K[T] are
\* the books of which it is said when the loop is over with the elements of T.
LEMMA LoopEnds ==
    ASSUME NEW M, IsFiniteSet(M), NEW K, NEW h,
           h[{}] \in K[{}],
           \A T \in SUBSET M : T # {} /\ h[T \ {Pick(T)}] \in K[T \ {Pick(T)}] => h[T] \in K[T]
    PROVE  h[M] \in K[M]
  <1> DEFINE Bad == {n \in Nat : \E T \in SUBSET M : Cardinality(T) = n /\ h[T] \notin K[T]}
  <1>1. Bad = {}
    <2> SUFFICES ASSUME Bad # {}
                 PROVE  FALSE
      OBVIOUS
    <2>1. PICK n \in Bad : \A k \in Bad : n <= k
      <3> HIDE DEF Bad
      <3>1. Bad \subseteq Nat
        BY DEF Bad
      <3> QED
        BY <3>1, LeastNat
    <2>2. PICK T \in SUBSET M : Cardinality(T) = n /\ h[T] \notin K[T]
      OBVIOUS
    <2>3. T # {}
      BY <2>2
    <2>4. PICK U \in SUBSET M : U = T \ {Pick(T)}
      OBVIOUS
    <2>5. IsFiniteSet(T) /\ IsFiniteSet(U)
      BY FS_Subset
    <2>6. Cardinality(U) = n - 1 /\ n - 1 \in Nat
      BY <2>2, <2>3, <2>4, <2>5, PickIn, FS_RemoveElement, FS_CardinalityType
    <2>7. h[U] \notin K[U]
      BY <2>2, <2>3, <2>4
    <2>8. n - 1 \in Bad
      BY <2>6, <2>7
    <2>9. n \in Nat
      OBVIOUS
    <2> QED
      <3> HIDE DEF Bad
      <3> QED
        BY <2>1, <2>8, <2>9
  <1>2. Cardinality(M) \in Nat
    BY FS_CardinalityType
  <1> QED
    BY <1>1, <1>2

LEMMA Looped ==
    ASSUME NEW M, IsFiniteSet(M), NEW b, NEW F, NEW K, b \in K[{}],
           \A T \in SUBSET M : T # {} => \A d \in K[T \ {Pick(T)}] : F[<<Pick(T), d>>] \in K[T]
    PROVE  \E g : /\ g = LoopBy(M, b, F, g)
                  /\ \A T \in SUBSET M : g[T] \in K[T]
  <1>1. PICK g : g = LoopBy(M, b, F, g)
    BY LoopExists
  <1>2. ASSUME NEW N \in SUBSET M
        PROVE  g[N] \in K[N]
    <2>1. IsFiniteSet(N)
      BY FS_Subset
    <2>2. g[{}] \in K[{}]
      BY <1>1 DEF LoopBy
    <2>3. \A T \in SUBSET N : T # {} /\ g[T \ {Pick(T)}] \in K[T \ {Pick(T)}] => g[T] \in K[T]
      BY <1>1 DEF LoopBy
    <2> QED
      BY <2>1, <2>2, <2>3, LoopEnds
  <1> QED
    BY <1>1, <1>2

-----------------------------------------------------------------------------
(***************************************************************************)
(* Monsters: the books, and what is said of a creature in them.            *)
(***************************************************************************)
Object == [where : {"new", "world", "gone"}, at : Place, alive : BOOLEAN, client : BOOLEAN,
           creatureCheck : BOOLEAN, inCheckCreaturesVector : BOOLEAN, targetList : SUBSET Player,
           attackedCreature : Creature \cup {None}, followCreature : Creature \cup {None},
           master : Wild \cup {None}, refs : Int]
Books == [cr : [Creature -> Object], rel : [Creature -> Nat], tasks : SUBSET Monster, dazed : SUBSET Monster]

HeldIn(b, c) == Cardinality({m \in Monster : c \in b.cr[m].targetList})
Holders(b, c) == CountOf(Here(b, c)) + CountOf(b.cr[c].inCheckCreaturesVector)
                 + CountOf(b.cr[c].master # None) + b.rel[c] + HeldIn(b, c)

\* A creature that has k references more than there are holders.
Fit(b, c, k) ==
    /\ b.cr[c].where = "new" => b.cr[c] = NewCreature
    /\ b.cr[c].targetList # {} => c \in Monster /\ Here(b, c)
    /\ b.cr[c].master # None => c \in Summon /\ Here(b, c) /\ Here(b, b.cr[c].master)
    /\ b.cr[c].creatureCheck => Here(b, c) /\ b.cr[c].inCheckCreaturesVector
    /\ b.cr[c].refs = Holders(b, c) + k
Intact(b) == b \in Books /\ \A c \in Creature : Fit(b, c, 0)

\* What a monster attacks or follows is in sight, that it is checked when it has
\* something to do, and that it knows the players around it; the creature e excepted.
Looks(b, m, e, c) == c # None => c \in Creature /\ Here(b, c) /\ (m = e \/ c = e \/ Sees(b, m, c))
IsBusy(b, m) == ~ b.cr[m].alive \/ b.cr[m].master # None \/ b.cr[m].targetList # {}
Knows(b, m, e) ==
    m \in Wild /\ b.cr[m].alive /\ m # e =>
        \A p \in Player \ {e} : Here(b, p) /\ b.cr[p].client /\ Sees(b, m, p) => p \in b.cr[m].targetList
Half(b, m, e) ==
    Here(b, m) => /\ Looks(b, m, e, b.cr[m].attackedCreature) /\ Looks(b, m, e, b.cr[m].followCreature)
                  /\ m \notin b.dazed => Knows(b, m, e) /\ (IsBusy(b, m) => b.cr[m].creatureCheck)
Dutiful(b, m) == Half(b, m, None)

\* A summon that lives has a master.
Led(b, m) == Here(b, m) /\ b.cr[m].alive /\ m \in Summon => b.cr[m].master # None

\* What stays of a creature in the world when something is done to others, or to its
\* lists, or to what it is after.
Stays(b, y, x) ==
    /\ Here(b, x) <=> Here(y, x)
    /\ Here(b, x) => /\ y.cr[x].at = b.cr[x].at /\ y.cr[x].alive = b.cr[x].alive
                     /\ y.cr[x].client = b.cr[x].client /\ y.cr[x].master = b.cr[x].master
SameMind(b, y, x) ==
    Here(b, x) => /\ y.cr[x].attackedCreature = b.cr[x].attackedCreature
                  /\ y.cr[x].followCreature = b.cr[x].followCreature
SameDuty(b, y, x) ==
    Here(b, x) => /\ y.cr[x].targetList = b.cr[x].targetList /\ y.cr[x].creatureCheck = b.cr[x].creatureCheck
                  /\ (x \in y.dazed <=> x \in b.dazed)
\* Only the lists of m have changed.
Tended(b, y, m) ==
    /\ y \in Books /\ y.rel = b.rel /\ y.tasks = b.tasks
    /\ \A x \in Creature : Stays(b, y, x) /\ SameMind(b, y, x) /\ (x # m => SameDuty(b, y, x))
\* What a creature is after is forgotten, or as before, or in sight.
InSight(y, x, c) == c \in Creature /\ Here(y, c) /\ Sees(y, x, c)
Attentive(b, y, x) ==
    Here(b, x) =>
        /\ y.cr[x].attackedCreature \in {b.cr[x].attackedCreature, None} \/ InSight(y, x, y.cr[x].attackedCreature)
        /\ y.cr[x].followCreature \in {b.cr[x].followCreature, None} \/ InSight(y, x, y.cr[x].followCreature)

LEMMA CreatureParts ==
    /\ IsFiniteSet(Player) /\ IsFiniteSet(Monster) /\ IsFiniteSet(Creature)
    /\ Player \subseteq Creature /\ Wild \subseteq Monster /\ Summon \subseteq Monster /\ Monster \subseteq Creature
    /\ \A c \in Creature : c # None /\ (c \in Player <=> c \notin Monster)
    /\ \A m \in Monster : m # None /\ m \in Creature /\ m \notin Player /\ (m \in Wild <=> m \notin Summon)
    /\ NewCreature \in Object
  <1>1. IsFiniteSet(Monster) /\ IsFiniteSet(Creature)
    BY MonstersAssumption, FS_Union DEF Monster, Creature
  <1>2. NewCreature \in Object
    BY MonstersAssumption DEF NewCreature, Object
  <1> QED
    BY <1>1, <1>2, MonstersAssumption DEF Monster, Creature

LEMMA ObjectParts ==
    ASSUME NEW b \in Books, NEW c \in Creature
    PROVE  /\ b.cr[c] \in Object /\ b.cr \in [Creature -> Object] /\ b.rel \in [Creature -> Nat]
           /\ b.tasks \subseteq Monster /\ b.dazed \subseteq Monster
           /\ b.cr[c].where \in {"new", "world", "gone"} /\ b.cr[c].at \in Place
           /\ b.cr[c].alive \in BOOLEAN /\ b.cr[c].client \in BOOLEAN
           /\ b.cr[c].creatureCheck \in BOOLEAN /\ b.cr[c].inCheckCreaturesVector \in BOOLEAN
           /\ b.cr[c].targetList \subseteq Player
           /\ b.cr[c].attackedCreature \in Creature \cup {None} /\ b.cr[c].followCreature \in Creature \cup {None}
           /\ b.cr[c].master \in Wild \cup {None} /\ b.cr[c].refs \in Int /\ b.rel[c] \in Nat
  BY DEF Books, Object

LEMMA HeldIsNat ==
    ASSUME NEW b, NEW c
    PROVE  /\ IsFiniteSet({m \in Monster : c \in b.cr[m].targetList}) /\ HeldIn(b, c) \in Nat
           /\ (\E m \in Monster : c \in b.cr[m].targetList) => HeldIn(b, c) > 0
  <1> DEFINE S == {m \in Monster : c \in b.cr[m].targetList}
  <1>1. IsFiniteSet(S)
    <2>1. S \in SUBSET Monster
      OBVIOUS
    <2> HIDE DEF S
    <2> QED
      BY <2>1, CreatureParts, FS_Subset
  <1>2. Cardinality(S) \in Nat /\ (S # {} => Cardinality(S) > 0)
    <2> HIDE DEF S
    <2> QED
      BY <1>1, FS_CardinalityType, FS_EmptySet
  <1> QED
    BY <1>1, <1>2 DEF HeldIn

LEMMA HeldKept ==
    ASSUME NEW b, NEW y, NEW c,
           \A m \in Monster : c \in y.cr[m].targetList <=> c \in b.cr[m].targetList
    PROVE  HeldIn(y, c) = HeldIn(b, c)
  <1>1. {m \in Monster : c \in y.cr[m].targetList} = {m \in Monster : c \in b.cr[m].targetList}
    OBVIOUS
  <1> QED
    BY <1>1, Zenon DEF HeldIn

LEMMA HeldByOneMore ==
    ASSUME NEW b, NEW y, NEW c, NEW m \in Monster, c \notin b.cr[m].targetList, c \in y.cr[m].targetList,
           \A n \in Monster \ {m} : c \in y.cr[n].targetList <=> c \in b.cr[n].targetList
    PROVE  HeldIn(y, c) = HeldIn(b, c) + 1
  <1> DEFINE S == {n \in Monster : c \in b.cr[n].targetList}
  <1>1. {n \in Monster : c \in y.cr[n].targetList} = S \cup {m}
    OBVIOUS
  <1>2. IsFiniteSet(S) /\ m \notin S
    BY HeldIsNat
  <1>3. Cardinality(S \cup {m}) = Cardinality(S) + 1
    <2> HIDE DEF S
    <2> QED
      BY <1>2, FS_AddElement
  <1> QED
    BY <1>1, <1>3 DEF HeldIn

\* The references of a creature whose parts are as before.
LEMMA HoldersKept ==
    ASSUME NEW b \in Books, NEW y \in Books, NEW c \in Creature,
           Here(b, c) <=> Here(y, c), y.cr[c].inCheckCreaturesVector = b.cr[c].inCheckCreaturesVector,
           y.cr[c].master # None <=> b.cr[c].master # None, y.rel[c] = b.rel[c]
    PROVE  Holders(y, c) - Holders(b, c) = HeldIn(y, c) - HeldIn(b, c)
  <1>1. b.rel[c] \in Nat /\ HeldIn(b, c) \in Nat /\ HeldIn(y, c) \in Nat
    BY HeldIsNat, ObjectParts
  <1>2. CountOf(Here(b, c)) = CountOf(Here(y, c)) /\ CountOf(Here(b, c)) \in {0, 1}
    BY DEF CountOf
  <1>3. /\ CountOf(b.cr[c].inCheckCreaturesVector) = CountOf(y.cr[c].inCheckCreaturesVector)
        /\ CountOf(b.cr[c].inCheckCreaturesVector) \in {0, 1}
    BY DEF CountOf
  <1>4. CountOf(b.cr[c].master # None) = CountOf(y.cr[c].master # None) /\ CountOf(b.cr[c].master # None) \in {0, 1}
    BY DEF CountOf
  <1> QED
    BY <1>1, <1>2, <1>3, <1>4 DEF Holders

LEMMA HoldersParts ==
    ASSUME NEW b \in Books, NEW c \in Creature
    PROVE  /\ Holders(b, c) \in Nat /\ HeldIn(b, c) <= Holders(b, c) /\ b.rel[c] <= Holders(b, c)
           /\ b.rel[c] + HeldIn(b, c) <= Holders(b, c)
           /\ Here(b, c) => Holders(b, c) >= 1 + b.rel[c] + HeldIn(b, c)
           /\ b.cr[c].inCheckCreaturesVector => Holders(b, c) >= 1 + b.rel[c] + HeldIn(b, c)
           /\ b.cr[c].master # None => Holders(b, c) >= 1 + b.rel[c] + HeldIn(b, c)
           /\ ~ Here(b, c) /\ ~ b.cr[c].inCheckCreaturesVector /\ b.cr[c].master = None =>
                 Holders(b, c) = b.rel[c] + HeldIn(b, c)
  <1>1. b.rel[c] \in Nat /\ HeldIn(b, c) \in Nat
    BY HeldIsNat, ObjectParts
  <1>2. CountOf(Here(b, c)) \in {0, 1} /\ (CountOf(Here(b, c)) = 1 <=> Here(b, c))
    BY DEF CountOf
  <1>3. /\ CountOf(b.cr[c].inCheckCreaturesVector) \in {0, 1}
        /\ CountOf(b.cr[c].inCheckCreaturesVector) = 1 <=> b.cr[c].inCheckCreaturesVector
    BY DEF CountOf
  <1>4. CountOf(b.cr[c].master # None) \in {0, 1} /\ (CountOf(b.cr[c].master # None) = 1 <=> b.cr[c].master # None)
    BY DEF CountOf
  <1> QED
    BY <1>1, <1>2, <1>3, <1>4 DEF Holders

\* One object replaced.
With(b, c, o) == [b EXCEPT !.cr = [b.cr EXCEPT ![c] = o]]

LEMMA WithEffect ==
    ASSUME NEW b \in Books, NEW c \in Creature, NEW o \in Object, NEW y, y = With(b, c, o)
    PROVE  /\ y \in Books /\ y.cr[c] = o /\ \A x \in Creature \ {c} : y.cr[x] = b.cr[x]
           /\ y.rel = b.rel /\ y.tasks = b.tasks /\ y.dazed = b.dazed
  <1>1. PICK cr : cr = [b.cr EXCEPT ![c] = o]
    OBVIOUS
  <1>2. cr \in [Creature -> Object] /\ cr[c] = o /\ \A x \in Creature \ {c} : cr[x] = b.cr[x]
    BY <1>1, ObjectParts
  <1>3. y = [cr |-> cr, rel |-> b.rel, tasks |-> b.tasks, dazed |-> b.dazed]
    BY <1>1 DEF With, Books
  <1> QED
    BY <1>2, <1>3 DEF Books

-----------------------------------------------------------------------------
(***************************************************************************)
(* The loops of the code, by name; what is said of the books after every   *)
(* round is said when they are over.                                       *)
(***************************************************************************)
Cleared(b, S) == FoldSet(LAMBDA c, d : UnrefLast(d, c), b, S)
Forgotten(m, b, S) == FoldSet(LAMBDA c, d : RemoveTarget(d, m, c), b, S)
FoundAll(m, b, S) == FoldSet(LAMBDA c, d : OnCreatureFound(d, m, c), b, S)
AppearedTo(c, b, S) == FoldSet(LAMBDA m, d : OnCreatureAppear(d, m, c), b, S)
RemovedTo(c, b, S) == FoldSet(LAMBDA m, d : OnRemoveCreature(d, m, c), b, S)
MovedTo(c, from, to, b, S) == FoldSet(LAMBDA m, d : OnCreatureMove(d, m, c, from, to), b, S)
UnrefAll(b, S) == FoldSet(LAMBDA c, d : Unref(d, c), b, S)
Killed(d, s) == LoseMaster([d EXCEPT !.cr[s].alive = FALSE], s)
KilledAll(b, S) == FoldSet(LAMBDA s, d : Killed(d, s), b, S)

LEMMA ClearedLoop ==
    ASSUME NEW S, IsFiniteSet(S), NEW b, NEW K, b \in K[{}], \A T \in SUBSET S : K[T] \subseteq Books,
           \A T \in SUBSET S : T # {} => \A d \in K[T \ {Pick(T)}] : UnrefLast(d, Pick(T)) \in K[T]
    PROVE  Cleared(b, S) \in K[S]
  <1> DEFINE F == [p \in S \X Books |-> UnrefLast(p[2], p[1])]
  <1>1. ASSUME NEW T \in SUBSET S, T # {}, NEW d \in K[T \ {Pick(T)}]
        PROVE  F[<<Pick(T), d>>] \in K[T] /\ F[<<Pick(T), d>>] = UnrefLast(d, Pick(T))
    <2>1. Pick(T) \in S /\ d \in Books
      BY <1>1, PickIn
    <2>2. F[<<Pick(T), d>>] = UnrefLast(d, Pick(T))
      BY <2>1
    <2> QED
      BY <1>1, <2>2
  <1>2. PICK g : g = LoopBy(S, b, F, g) /\ \A T \in SUBSET S : g[T] \in K[T]
    <2> HIDE DEF F
    <2>1. \A T \in SUBSET S : T # {} => \A d \in K[T \ {Pick(T)}] : F[<<Pick(T), d>>] \in K[T]
      BY <1>1
    <2> QED
      BY <2>1, Looped
  <1>3. g = [T \in SUBSET S |-> IF T = {} THEN b ELSE UnrefLast(g[T \ {Pick(T)}], Pick(T))]
    <2> HIDE DEF F
    <2>1. \A T \in SUBSET S : T # {} => F[<<Pick(T), g[T \ {Pick(T)}]>>] = UnrefLast(g[T \ {Pick(T)}], Pick(T))
      BY <1>1, <1>2
    <2> QED
      BY <1>2, <2>1 DEF LoopBy
  <1>4. PICK h : h = CHOOSE f : f = [T \in SUBSET S |-> IF T = {} THEN b ELSE UnrefLast(f[T \ {Pick(T)}], Pick(T))]
    OBVIOUS
  <1>5. h = [T \in SUBSET S |-> IF T = {} THEN b ELSE UnrefLast(h[T \ {Pick(T)}], Pick(T))]
    BY <1>3, <1>4
  <1>6. h[{}] = b /\ \A T \in SUBSET S : T # {} => h[T] = UnrefLast(h[T \ {Pick(T)}], Pick(T))
    BY <1>5
  <1>7. \A T \in SUBSET S : T # {} /\ h[T \ {Pick(T)}] \in K[T \ {Pick(T)}] => h[T] \in K[T]
    BY <1>6
  <1>8. h[S] \in K[S]
    BY <1>6, <1>7, LoopEnds
  <1>9. Cleared(b, S) = h[S]
    BY <1>4 DEF Cleared, FoldSet, MapThenFoldSet, Pick
  <1> QED
    BY <1>8, <1>9

LEMMA Forgot ==
    ASSUME NEW m, NEW S, IsFiniteSet(S), NEW b, NEW K, b \in K[{}], \A T \in SUBSET S : K[T] \subseteq Books,
           \A T \in SUBSET S : T # {} => \A d \in K[T \ {Pick(T)}] : RemoveTarget(d, m, Pick(T)) \in K[T]
    PROVE  Forgotten(m, b, S) \in K[S]
  <1> DEFINE F == [p \in S \X Books |-> RemoveTarget(p[2], m, p[1])]
  <1>1. ASSUME NEW T \in SUBSET S, T # {}, NEW d \in K[T \ {Pick(T)}]
        PROVE  F[<<Pick(T), d>>] \in K[T] /\ F[<<Pick(T), d>>] = RemoveTarget(d, m, Pick(T))
    <2>1. Pick(T) \in S /\ d \in Books
      BY <1>1, PickIn
    <2>2. F[<<Pick(T), d>>] = RemoveTarget(d, m, Pick(T))
      BY <2>1
    <2> QED
      BY <1>1, <2>2
  <1>2. PICK g : g = LoopBy(S, b, F, g) /\ \A T \in SUBSET S : g[T] \in K[T]
    <2> HIDE DEF F
    <2>1. \A T \in SUBSET S : T # {} => \A d \in K[T \ {Pick(T)}] : F[<<Pick(T), d>>] \in K[T]
      BY <1>1
    <2> QED
      BY <2>1, Looped
  <1>3. g = [T \in SUBSET S |-> IF T = {} THEN b ELSE RemoveTarget(g[T \ {Pick(T)}], m, Pick(T))]
    <2> HIDE DEF F
    <2>1. \A T \in SUBSET S : T # {} => F[<<Pick(T), g[T \ {Pick(T)}]>>] = RemoveTarget(g[T \ {Pick(T)}], m, Pick(T))
      BY <1>1, <1>2
    <2> QED
      BY <1>2, <2>1 DEF LoopBy
  <1>4. PICK h : h = CHOOSE f : f = [T \in SUBSET S |-> IF T = {} THEN b ELSE RemoveTarget(f[T \ {Pick(T)}], m, Pick(T))]
    OBVIOUS
  <1>5. h = [T \in SUBSET S |-> IF T = {} THEN b ELSE RemoveTarget(h[T \ {Pick(T)}], m, Pick(T))]
    BY <1>3, <1>4
  <1>6. h[{}] = b /\ \A T \in SUBSET S : T # {} => h[T] = RemoveTarget(h[T \ {Pick(T)}], m, Pick(T))
    BY <1>5
  <1>7. \A T \in SUBSET S : T # {} /\ h[T \ {Pick(T)}] \in K[T \ {Pick(T)}] => h[T] \in K[T]
    BY <1>6
  <1>8. h[S] \in K[S]
    BY <1>6, <1>7, LoopEnds
  <1>9. Forgotten(m, b, S) = h[S]
    BY <1>4 DEF Forgotten, FoldSet, MapThenFoldSet, Pick
  <1> QED
    BY <1>8, <1>9

LEMMA Found ==
    ASSUME NEW m, NEW S, IsFiniteSet(S), NEW b, NEW K, b \in K[{}], \A T \in SUBSET S : K[T] \subseteq Books,
           \A T \in SUBSET S : T # {} => \A d \in K[T \ {Pick(T)}] : OnCreatureFound(d, m, Pick(T)) \in K[T]
    PROVE  FoundAll(m, b, S) \in K[S]
  <1> DEFINE F == [p \in S \X Books |-> OnCreatureFound(p[2], m, p[1])]
  <1>1. ASSUME NEW T \in SUBSET S, T # {}, NEW d \in K[T \ {Pick(T)}]
        PROVE  F[<<Pick(T), d>>] \in K[T] /\ F[<<Pick(T), d>>] = OnCreatureFound(d, m, Pick(T))
    <2>1. Pick(T) \in S /\ d \in Books
      BY <1>1, PickIn
    <2>2. F[<<Pick(T), d>>] = OnCreatureFound(d, m, Pick(T))
      BY <2>1
    <2> QED
      BY <1>1, <2>2
  <1>2. PICK g : g = LoopBy(S, b, F, g) /\ \A T \in SUBSET S : g[T] \in K[T]
    <2> HIDE DEF F
    <2>1. \A T \in SUBSET S : T # {} => \A d \in K[T \ {Pick(T)}] : F[<<Pick(T), d>>] \in K[T]
      BY <1>1
    <2> QED
      BY <2>1, Looped
  <1>3. g = [T \in SUBSET S |-> IF T = {} THEN b ELSE OnCreatureFound(g[T \ {Pick(T)}], m, Pick(T))]
    <2> HIDE DEF F
    <2>1. \A T \in SUBSET S : T # {} => F[<<Pick(T), g[T \ {Pick(T)}]>>] = OnCreatureFound(g[T \ {Pick(T)}], m, Pick(T))
      BY <1>1, <1>2
    <2> QED
      BY <1>2, <2>1 DEF LoopBy
  <1>4. PICK h : h = CHOOSE f : f = [T \in SUBSET S |-> IF T = {} THEN b ELSE OnCreatureFound(f[T \ {Pick(T)}], m, Pick(T))]
    OBVIOUS
  <1>5. h = [T \in SUBSET S |-> IF T = {} THEN b ELSE OnCreatureFound(h[T \ {Pick(T)}], m, Pick(T))]
    BY <1>3, <1>4
  <1>6. h[{}] = b /\ \A T \in SUBSET S : T # {} => h[T] = OnCreatureFound(h[T \ {Pick(T)}], m, Pick(T))
    BY <1>5
  <1>7. \A T \in SUBSET S : T # {} /\ h[T \ {Pick(T)}] \in K[T \ {Pick(T)}] => h[T] \in K[T]
    BY <1>6
  <1>8. h[S] \in K[S]
    BY <1>6, <1>7, LoopEnds
  <1>9. FoundAll(m, b, S) = h[S]
    BY <1>4 DEF FoundAll, FoldSet, MapThenFoldSet, Pick
  <1> QED
    BY <1>8, <1>9

LEMMA Appeared ==
    ASSUME NEW c, NEW S, IsFiniteSet(S), NEW b, NEW K, b \in K[{}], \A T \in SUBSET S : K[T] \subseteq Books,
           \A T \in SUBSET S : T # {} => \A d \in K[T \ {Pick(T)}] : OnCreatureAppear(d, Pick(T), c) \in K[T]
    PROVE  AppearedTo(c, b, S) \in K[S]
  <1> DEFINE F == [p \in S \X Books |-> OnCreatureAppear(p[2], p[1], c)]
  <1>1. ASSUME NEW T \in SUBSET S, T # {}, NEW d \in K[T \ {Pick(T)}]
        PROVE  F[<<Pick(T), d>>] \in K[T] /\ F[<<Pick(T), d>>] = OnCreatureAppear(d, Pick(T), c)
    <2>1. Pick(T) \in S /\ d \in Books
      BY <1>1, PickIn
    <2>2. F[<<Pick(T), d>>] = OnCreatureAppear(d, Pick(T), c)
      BY <2>1
    <2> QED
      BY <1>1, <2>2
  <1>2. PICK g : g = LoopBy(S, b, F, g) /\ \A T \in SUBSET S : g[T] \in K[T]
    <2> HIDE DEF F
    <2>1. \A T \in SUBSET S : T # {} => \A d \in K[T \ {Pick(T)}] : F[<<Pick(T), d>>] \in K[T]
      BY <1>1
    <2> QED
      BY <2>1, Looped
  <1>3. g = [T \in SUBSET S |-> IF T = {} THEN b ELSE OnCreatureAppear(g[T \ {Pick(T)}], Pick(T), c)]
    <2> HIDE DEF F
    <2>1. \A T \in SUBSET S : T # {} => F[<<Pick(T), g[T \ {Pick(T)}]>>] = OnCreatureAppear(g[T \ {Pick(T)}], Pick(T), c)
      BY <1>1, <1>2
    <2> QED
      BY <1>2, <2>1 DEF LoopBy
  <1>4. PICK h : h = CHOOSE f : f = [T \in SUBSET S |-> IF T = {} THEN b ELSE OnCreatureAppear(f[T \ {Pick(T)}], Pick(T), c)]
    OBVIOUS
  <1>5. h = [T \in SUBSET S |-> IF T = {} THEN b ELSE OnCreatureAppear(h[T \ {Pick(T)}], Pick(T), c)]
    BY <1>3, <1>4
  <1>6. h[{}] = b /\ \A T \in SUBSET S : T # {} => h[T] = OnCreatureAppear(h[T \ {Pick(T)}], Pick(T), c)
    BY <1>5
  <1>7. \A T \in SUBSET S : T # {} /\ h[T \ {Pick(T)}] \in K[T \ {Pick(T)}] => h[T] \in K[T]
    BY <1>6
  <1>8. h[S] \in K[S]
    BY <1>6, <1>7, LoopEnds
  <1>9. AppearedTo(c, b, S) = h[S]
    BY <1>4 DEF AppearedTo, FoldSet, MapThenFoldSet, Pick
  <1> QED
    BY <1>8, <1>9

LEMMA Removed ==
    ASSUME NEW c, NEW S, IsFiniteSet(S), NEW b, NEW K, b \in K[{}], \A T \in SUBSET S : K[T] \subseteq Books,
           \A T \in SUBSET S : T # {} => \A d \in K[T \ {Pick(T)}] : OnRemoveCreature(d, Pick(T), c) \in K[T]
    PROVE  RemovedTo(c, b, S) \in K[S]
  <1> DEFINE F == [p \in S \X Books |-> OnRemoveCreature(p[2], p[1], c)]
  <1>1. ASSUME NEW T \in SUBSET S, T # {}, NEW d \in K[T \ {Pick(T)}]
        PROVE  F[<<Pick(T), d>>] \in K[T] /\ F[<<Pick(T), d>>] = OnRemoveCreature(d, Pick(T), c)
    <2>1. Pick(T) \in S /\ d \in Books
      BY <1>1, PickIn
    <2>2. F[<<Pick(T), d>>] = OnRemoveCreature(d, Pick(T), c)
      BY <2>1
    <2> QED
      BY <1>1, <2>2
  <1>2. PICK g : g = LoopBy(S, b, F, g) /\ \A T \in SUBSET S : g[T] \in K[T]
    <2> HIDE DEF F
    <2>1. \A T \in SUBSET S : T # {} => \A d \in K[T \ {Pick(T)}] : F[<<Pick(T), d>>] \in K[T]
      BY <1>1
    <2> QED
      BY <2>1, Looped
  <1>3. g = [T \in SUBSET S |-> IF T = {} THEN b ELSE OnRemoveCreature(g[T \ {Pick(T)}], Pick(T), c)]
    <2> HIDE DEF F
    <2>1. \A T \in SUBSET S : T # {} => F[<<Pick(T), g[T \ {Pick(T)}]>>] = OnRemoveCreature(g[T \ {Pick(T)}], Pick(T), c)
      BY <1>1, <1>2
    <2> QED
      BY <1>2, <2>1 DEF LoopBy
  <1>4. PICK h : h = CHOOSE f : f = [T \in SUBSET S |-> IF T = {} THEN b ELSE OnRemoveCreature(f[T \ {Pick(T)}], Pick(T), c)]
    OBVIOUS
  <1>5. h = [T \in SUBSET S |-> IF T = {} THEN b ELSE OnRemoveCreature(h[T \ {Pick(T)}], Pick(T), c)]
    BY <1>3, <1>4
  <1>6. h[{}] = b /\ \A T \in SUBSET S : T # {} => h[T] = OnRemoveCreature(h[T \ {Pick(T)}], Pick(T), c)
    BY <1>5
  <1>7. \A T \in SUBSET S : T # {} /\ h[T \ {Pick(T)}] \in K[T \ {Pick(T)}] => h[T] \in K[T]
    BY <1>6
  <1>8. h[S] \in K[S]
    BY <1>6, <1>7, LoopEnds
  <1>9. RemovedTo(c, b, S) = h[S]
    BY <1>4 DEF RemovedTo, FoldSet, MapThenFoldSet, Pick
  <1> QED
    BY <1>8, <1>9

LEMMA MovedLoop ==
    ASSUME NEW c, NEW from, NEW to, NEW S, IsFiniteSet(S), NEW b, NEW K, b \in K[{}], \A T \in SUBSET S : K[T] \subseteq Books,
           \A T \in SUBSET S : T # {} => \A d \in K[T \ {Pick(T)}] : OnCreatureMove(d, Pick(T), c, from, to) \in K[T]
    PROVE  MovedTo(c, from, to, b, S) \in K[S]
  <1> DEFINE F == [p \in S \X Books |-> OnCreatureMove(p[2], p[1], c, from, to)]
  <1>1. ASSUME NEW T \in SUBSET S, T # {}, NEW d \in K[T \ {Pick(T)}]
        PROVE  F[<<Pick(T), d>>] \in K[T] /\ F[<<Pick(T), d>>] = OnCreatureMove(d, Pick(T), c, from, to)
    <2>1. Pick(T) \in S /\ d \in Books
      BY <1>1, PickIn
    <2>2. F[<<Pick(T), d>>] = OnCreatureMove(d, Pick(T), c, from, to)
      BY <2>1
    <2> QED
      BY <1>1, <2>2
  <1>2. PICK g : g = LoopBy(S, b, F, g) /\ \A T \in SUBSET S : g[T] \in K[T]
    <2> HIDE DEF F
    <2>1. \A T \in SUBSET S : T # {} => \A d \in K[T \ {Pick(T)}] : F[<<Pick(T), d>>] \in K[T]
      BY <1>1
    <2> QED
      BY <2>1, Looped
  <1>3. g = [T \in SUBSET S |-> IF T = {} THEN b ELSE OnCreatureMove(g[T \ {Pick(T)}], Pick(T), c, from, to)]
    <2> HIDE DEF F
    <2>1. \A T \in SUBSET S : T # {} => F[<<Pick(T), g[T \ {Pick(T)}]>>] = OnCreatureMove(g[T \ {Pick(T)}], Pick(T), c, from, to)
      BY <1>1, <1>2
    <2> QED
      BY <1>2, <2>1 DEF LoopBy
  <1>4. PICK h : h = CHOOSE f : f = [T \in SUBSET S |-> IF T = {} THEN b ELSE OnCreatureMove(f[T \ {Pick(T)}], Pick(T), c, from, to)]
    OBVIOUS
  <1>5. h = [T \in SUBSET S |-> IF T = {} THEN b ELSE OnCreatureMove(h[T \ {Pick(T)}], Pick(T), c, from, to)]
    BY <1>3, <1>4
  <1>6. h[{}] = b /\ \A T \in SUBSET S : T # {} => h[T] = OnCreatureMove(h[T \ {Pick(T)}], Pick(T), c, from, to)
    BY <1>5
  <1>7. \A T \in SUBSET S : T # {} /\ h[T \ {Pick(T)}] \in K[T \ {Pick(T)}] => h[T] \in K[T]
    BY <1>6
  <1>8. h[S] \in K[S]
    BY <1>6, <1>7, LoopEnds
  <1>9. MovedTo(c, from, to, b, S) = h[S]
    BY <1>4 DEF MovedTo, FoldSet, MapThenFoldSet, Pick
  <1> QED
    BY <1>8, <1>9

LEMMA UnrefLoop ==
    ASSUME NEW S, IsFiniteSet(S), NEW b, NEW K, b \in K[{}], \A T \in SUBSET S : K[T] \subseteq Books,
           \A T \in SUBSET S : T # {} => \A d \in K[T \ {Pick(T)}] : Unref(d, Pick(T)) \in K[T]
    PROVE  UnrefAll(b, S) \in K[S]
  <1> DEFINE F == [p \in S \X Books |-> Unref(p[2], p[1])]
  <1>1. ASSUME NEW T \in SUBSET S, T # {}, NEW d \in K[T \ {Pick(T)}]
        PROVE  F[<<Pick(T), d>>] \in K[T] /\ F[<<Pick(T), d>>] = Unref(d, Pick(T))
    <2>1. Pick(T) \in S /\ d \in Books
      BY <1>1, PickIn
    <2>2. F[<<Pick(T), d>>] = Unref(d, Pick(T))
      BY <2>1
    <2> QED
      BY <1>1, <2>2
  <1>2. PICK g : g = LoopBy(S, b, F, g) /\ \A T \in SUBSET S : g[T] \in K[T]
    <2> HIDE DEF F
    <2>1. \A T \in SUBSET S : T # {} => \A d \in K[T \ {Pick(T)}] : F[<<Pick(T), d>>] \in K[T]
      BY <1>1
    <2> QED
      BY <2>1, Looped
  <1>3. g = [T \in SUBSET S |-> IF T = {} THEN b ELSE Unref(g[T \ {Pick(T)}], Pick(T))]
    <2> HIDE DEF F
    <2>1. \A T \in SUBSET S : T # {} => F[<<Pick(T), g[T \ {Pick(T)}]>>] = Unref(g[T \ {Pick(T)}], Pick(T))
      BY <1>1, <1>2
    <2> QED
      BY <1>2, <2>1 DEF LoopBy
  <1>4. PICK h : h = CHOOSE f : f = [T \in SUBSET S |-> IF T = {} THEN b ELSE Unref(f[T \ {Pick(T)}], Pick(T))]
    OBVIOUS
  <1>5. h = [T \in SUBSET S |-> IF T = {} THEN b ELSE Unref(h[T \ {Pick(T)}], Pick(T))]
    BY <1>3, <1>4
  <1>6. h[{}] = b /\ \A T \in SUBSET S : T # {} => h[T] = Unref(h[T \ {Pick(T)}], Pick(T))
    BY <1>5
  <1>7. \A T \in SUBSET S : T # {} /\ h[T \ {Pick(T)}] \in K[T \ {Pick(T)}] => h[T] \in K[T]
    BY <1>6
  <1>8. h[S] \in K[S]
    BY <1>6, <1>7, LoopEnds
  <1>9. UnrefAll(b, S) = h[S]
    BY <1>4 DEF UnrefAll, FoldSet, MapThenFoldSet, Pick
  <1> QED
    BY <1>8, <1>9

LEMMA KilledLoop ==
    ASSUME NEW S, IsFiniteSet(S), NEW b, NEW K, b \in K[{}], \A T \in SUBSET S : K[T] \subseteq Books,
           \A T \in SUBSET S : T # {} => \A d \in K[T \ {Pick(T)}] : Killed(d, Pick(T)) \in K[T]
    PROVE  KilledAll(b, S) \in K[S]
  <1> DEFINE F == [p \in S \X Books |-> Killed(p[2], p[1])]
  <1>1. ASSUME NEW T \in SUBSET S, T # {}, NEW d \in K[T \ {Pick(T)}]
        PROVE  F[<<Pick(T), d>>] \in K[T] /\ F[<<Pick(T), d>>] = Killed(d, Pick(T))
    <2>1. Pick(T) \in S /\ d \in Books
      BY <1>1, PickIn
    <2>2. F[<<Pick(T), d>>] = Killed(d, Pick(T))
      BY <2>1
    <2> QED
      BY <1>1, <2>2
  <1>2. PICK g : g = LoopBy(S, b, F, g) /\ \A T \in SUBSET S : g[T] \in K[T]
    <2> HIDE DEF F
    <2>1. \A T \in SUBSET S : T # {} => \A d \in K[T \ {Pick(T)}] : F[<<Pick(T), d>>] \in K[T]
      BY <1>1
    <2> QED
      BY <2>1, Looped
  <1>3. g = [T \in SUBSET S |-> IF T = {} THEN b ELSE Killed(g[T \ {Pick(T)}], Pick(T))]
    <2> HIDE DEF F
    <2>1. \A T \in SUBSET S : T # {} => F[<<Pick(T), g[T \ {Pick(T)}]>>] = Killed(g[T \ {Pick(T)}], Pick(T))
      BY <1>1, <1>2
    <2> QED
      BY <1>2, <2>1 DEF LoopBy
  <1>4. PICK h : h = CHOOSE f : f = [T \in SUBSET S |-> IF T = {} THEN b ELSE Killed(f[T \ {Pick(T)}], Pick(T))]
    OBVIOUS
  <1>5. h = [T \in SUBSET S |-> IF T = {} THEN b ELSE Killed(h[T \ {Pick(T)}], Pick(T))]
    BY <1>3, <1>4
  <1>6. h[{}] = b /\ \A T \in SUBSET S : T # {} => h[T] = Killed(h[T \ {Pick(T)}], Pick(T))
    BY <1>5
  <1>7. \A T \in SUBSET S : T # {} /\ h[T \ {Pick(T)}] \in K[T \ {Pick(T)}] => h[T] \in K[T]
    BY <1>6
  <1>8. h[S] \in K[S]
    BY <1>6, <1>7, LoopEnds
  <1>9. KilledAll(b, S) = h[S]
    BY <1>4 DEF KilledAll, FoldSet, MapThenFoldSet, Pick
  <1> QED
    BY <1>8, <1>9

-----------------------------------------------------------------------------
(***************************************************************************)
(* A reference is given up.                                                *)
(***************************************************************************)
\* References.
Lessened(o) == [o EXCEPT !.refs = @ - 1]
LEMMA LessenedParts ==
    ASSUME NEW o \in Object, NEW r, r = Lessened(o)
    PROVE  /\ r \in Object /\ r.where = o.where /\ r.at = o.at /\ r.alive = o.alive /\ r.client = o.client
           /\ r.creatureCheck = o.creatureCheck /\ r.inCheckCreaturesVector = o.inCheckCreaturesVector
           /\ r.targetList = o.targetList /\ r.attackedCreature = o.attackedCreature
           /\ r.followCreature = o.followCreature /\ r.master = o.master /\ r.refs = o.refs - 1
  BY DEF Lessened, Object

LEMMA NewParts ==
    /\ NewCreature \in Object /\ NewCreature.where = "new" /\ NewCreature.targetList = {} /\ NewCreature.master = None
    /\ ~ NewCreature.creatureCheck /\ ~ NewCreature.inCheckCreaturesVector /\ NewCreature.refs = 0
    /\ NewCreature.alive /\ NewCreature.client /\ NewCreature.attackedCreature = None /\ NewCreature.followCreature = None
  BY CreatureParts DEF NewCreature

LEMMA UnrefLastEffect ==
    ASSUME NEW b \in Books, NEW c \in Creature, NEW y, y = UnrefLast(b, c)
    PROVE  /\ y \in Books /\ y.rel = b.rel /\ y.tasks = b.tasks
           /\ \A x \in Creature \ {c} : y.cr[x] = b.cr[x]
           /\ b.cr[c].refs = 1 => y.cr[c] = NewCreature /\ y.dazed = b.dazed \ {c}
           /\ b.cr[c].refs # 1 => y.cr[c] = Lessened(b.cr[c]) /\ y.dazed = b.dazed
  <1>1. PICK o : o = Lessened(b.cr[c])
    OBVIOUS
  <1>2. o \in Object
    BY <1>1, ObjectParts, LessenedParts
  <1>3. CASE b.cr[c].refs # 1
    <2>1. y = With(b, c, o)
      BY <1>1, <1>3 DEF UnrefLast, With, Lessened
    <2> QED
      BY <1>1, <1>2, <1>3, <2>1, WithEffect
  <1>4. CASE b.cr[c].refs = 1
    <2>1. PICK z : z = With(b, c, NewCreature)
      OBVIOUS
    <2>2. y = [z EXCEPT !.dazed = b.dazed \ {c}]
      BY <1>4, <2>1 DEF UnrefLast, With
    <2>3. z \in Books /\ z.cr[c] = NewCreature /\ (\A x \in Creature \ {c} : z.cr[x] = b.cr[x]) /\ z.rel = b.rel /\ z.tasks = b.tasks
      BY <2>1, WithEffect, NewParts
    <2>4. y.cr = z.cr /\ y.rel = z.rel /\ y.tasks = z.tasks /\ y.dazed = b.dazed \ {c} /\ y \in Books
      BY <2>2, <2>3, ObjectParts DEF Books
    <2> QED
      BY <1>4, <2>3, <2>4
  <1> QED
    BY <1>3, <1>4

LEMMA NothingToClear ==
    ASSUME NEW b \in Books, NEW c \in Creature, b.cr[c].targetList = {}
    PROVE  ClearTargetList(b, c) = b
  <1>1. FoldSet(LAMBDA x, d : UnrefLast(d, x), b, {}) = b
    BY DEF FoldSet, MapThenFoldSet
  <1>2. PICK d : d = FoldSet(LAMBDA x, z : UnrefLast(z, x), b, b.cr[c].targetList)
    OBVIOUS
  <1>3. d = b
    BY <1>1, <1>2
  <1>4. ClearTargetList(b, c) = [d EXCEPT !.cr[c].targetList = {}]
    BY <1>2, Zenon DEF ClearTargetList
  <1>5. [b.cr[c] EXCEPT !.targetList = {}] = b.cr[c]
    BY ObjectParts DEF Object
  <1>6. [b.cr EXCEPT ![c] = b.cr[c]] = b.cr
    BY ObjectParts
  <1>7. [b EXCEPT !.cr = b.cr] = b
    BY DEF Books
  <1> QED
    BY <1>3, <1>4, <1>5, <1>6, <1>7

\* Whoever loses a reference and, with the last one, has nothing left to let go.
LEMMA LastUnref ==
    ASSUME NEW b \in Books, NEW c \in Creature, NEW y, y = Unref(b, c),
           b.cr[c].refs = 1 => Summons(b, c) = {} /\ b.cr[c].targetList = {}, b.cr[c].refs >= 1
    PROVE  /\ y \in Books /\ y.rel = b.rel /\ y.tasks = b.tasks
           /\ \A x \in Creature \ {c} : y.cr[x] = b.cr[x]
           /\ b.cr[c].refs = 1 => y.cr[c] = NewCreature /\ y.dazed = b.dazed \ {c}
           /\ b.cr[c].refs # 1 => y.cr[c] = Lessened(b.cr[c]) /\ y.dazed = b.dazed
  <1>1. CASE b.cr[c].refs > 1 \/ c \in Player
    <2>1. y = UnrefLast(b, c)
      BY <1>1, Zenon DEF Unref
    <2> QED
      BY <2>1, UnrefLastEffect
  <1>2. CASE ~ (b.cr[c].refs > 1 \/ c \in Player)
    <2> DEFINE orphan(s, d) ==
                 UnrefAlone([d EXCEPT !.cr[s] = [@ EXCEPT !.master = None, !.attackedCreature = None]], s)
    <2>1. b.cr[c].refs = 1
      BY <1>2, ObjectParts
    <2>2. FoldSet(orphan, b, {}) = b
      <3> HIDE DEF orphan
      <3> QED
        BY DEF FoldSet, MapThenFoldSet
    <2>3. PICK d : d = FoldSet(orphan, b, Summons(b, c))
      OBVIOUS
    <2>4. d = b
      BY <2>1, <2>2, <2>3
    <2>5. y = UnrefAlone(d, c)
      BY <1>2, <2>3, Zenon DEF Unref
    <2>6. y = UnrefLast(b, c)
      <3> HIDE DEF orphan
      <3> QED
        BY <2>1, <2>4, <2>5, NothingToClear DEF UnrefAlone
    <2> QED
      <3> HIDE DEF orphan
      <3> QED
        BY <2>6, UnrefLastEffect
  <1> QED
    BY <1>1, <1>2

-----------------------------------------------------------------------------
(***************************************************************************)
(* A reference is given up that is counted and that nobody holds.          *)
(***************************************************************************)
\* y is b when a reference to c was given up.
GivenUp(b, c, y) ==
    /\ y \in Books /\ y.rel = b.rel /\ y.tasks = b.tasks
    /\ \A x \in Creature \ {c} : y.cr[x] = b.cr[x]
    /\ b.cr[c].refs = 1 => y.cr[c] = NewCreature /\ y.dazed = b.dazed \ {c}
    /\ b.cr[c].refs # 1 => y.cr[c] = Lessened(b.cr[c]) /\ y.dazed = b.dazed
AllFit(b, w) == b \in Books /\ w \in [Creature -> Int] /\ \A x \in Creature : Fit(b, x, w[x])
IsNobody(b, c) == ~ Here(b, c) /\ ~ b.cr[c].inCheckCreaturesVector /\ b.cr[c].master = None /\ b.rel[c] = 0

LEMMA NobodyIsLeft ==
    ASSUME NEW b, NEW w, AllFit(b, w), NEW c \in Creature, ~ Here(b, c)
    PROVE  Summons(b, c) = {} /\ b.cr[c].targetList = {} /\ b.cr[c].master = None /\ ~ b.cr[c].creatureCheck
  <1>1. ASSUME NEW s \in Summon, b.cr[s].master = c
        PROVE  FALSE
    <2>1. s \in Creature /\ b.cr[s].master # None
      BY <1>1, CreatureParts
    <2> QED
      BY <1>1, <2>1 DEF AllFit, Fit
  <1> QED
    BY <1>1 DEF AllFit, Fit, Summons

LEMMA HoldersSame ==
    ASSUME NEW b \in Books, NEW y \in Books, NEW c \in Creature,
           Here(b, c) <=> Here(y, c), y.cr[c].inCheckCreaturesVector = b.cr[c].inCheckCreaturesVector,
           y.cr[c].master # None <=> b.cr[c].master # None, y.rel[c] = b.rel[c], HeldIn(y, c) = HeldIn(b, c)
    PROVE  Holders(y, c) = Holders(b, c)
  <1>0. PICK h \in Nat : h = HeldIn(b, c)
    BY HeldIsNat
  <1>1. HeldIn(y, c) - HeldIn(b, c) = 0
    BY <1>0
  <1>2. Holders(y, c) - Holders(b, c) = 0
    BY <1>1, HoldersKept
  <1> QED
    BY <1>2, HoldersParts

LEMMA DroppedFit ==
    ASSUME NEW b, NEW w, AllFit(b, w), NEW c \in Creature, NEW y, GivenUp(b, c, y),
           b.cr[c].refs >= 1, b.cr[c].refs = 1 => IsNobody(b, c)
    PROVE  /\ AllFit(y, [w EXCEPT ![c] = w[c] - 1])
           /\ Tended(b, y, c) /\ SameDuty(b, y, c)
           /\ \A x \in Creature : Here(b, x) => y.cr[x].inCheckCreaturesVector = b.cr[x].inCheckCreaturesVector
  <1>1. b \in Books /\ y \in Books /\ w \in [Creature -> Int] /\ y.rel = b.rel /\ y.tasks = b.tasks
    BY DEF AllFit, GivenUp
  <1>2. \A x \in Creature : Fit(b, x, w[x])
    BY DEF AllFit
  <1>3. \A x \in Creature \ {c} : y.cr[x] = b.cr[x]
    BY DEF GivenUp
  <1>4. PICK o : o = b.cr[c]
    OBVIOUS
  <1>5. o \in Object
    BY <1>1, <1>4, ObjectParts
  <1>6. b.cr[c].where # "new"
    BY <1>2, NewParts DEF Fit
  <1>7. CASE b.cr[c].refs = 1
    <2>1. y.cr[c] = NewCreature /\ y.dazed = b.dazed \ {c}
      BY <1>7 DEF GivenUp
    <2>2. IsNobody(b, c) /\ ~ Here(b, c) /\ Summons(b, c) = {} /\ b.cr[c].targetList = {}
      BY <1>7, NobodyIsLeft DEF IsNobody
    <2>3. \A x \in Creature : Here(b, x) <=> Here(y, x)
      BY <1>3, <2>1, <2>2, NewParts DEF Here
    <2>4. \A x \in Creature : y.cr[x].targetList = b.cr[x].targetList
      BY <1>3, <2>1, <2>2, NewParts
    <2>5. \A x \in Creature : HeldIn(y, x) = HeldIn(b, x)
      BY <2>4, HeldKept, CreatureParts
    <2>6. \A x \in Creature \ {c} : Holders(y, x) = Holders(b, x)
      BY <1>1, <1>3, <2>3, <2>5, HoldersSame
    <2>7. ASSUME NEW x \in Creature \ {c}
          PROVE  Fit(y, x, w[x])
      <3>1. Fit(b, x, w[x]) /\ Holders(y, x) = Holders(b, x) /\ y.cr[x] = b.cr[x]
        BY <1>2, <1>3, <2>6
      <3>2. b.cr[x].master # None => Here(y, b.cr[x].master)
        BY <1>1, <2>3, <3>1, ObjectParts, CreatureParts DEF Fit
      <3> QED
        BY <2>3, <3>1, <3>2 DEF Fit
    <2>8. Fit(y, c, w[c] - 1)
      <3>1. ~ Here(y, c)
        BY <2>2, <2>3
      <3>2. Holders(b, c) = b.rel[c] + HeldIn(b, c) /\ Holders(y, c) = y.rel[c] + HeldIn(y, c)
        BY <1>1, <2>1, <2>2, <3>1, HoldersParts, NewParts DEF IsNobody
      <3>3. b.cr[c].refs = Holders(b, c) + w[c]
        BY <1>2 DEF Fit
      <3>4. y.cr[c].refs = Holders(y, c) + (w[c] - 1)
        <4>1. Holders(y, c) = Holders(b, c) /\ Holders(y, c) \in Nat /\ w[c] \in Int
          BY <1>1, <2>5, <3>2, HoldersParts
        <4> QED
          BY <1>7, <2>1, <3>3, <4>1, NewParts
      <3> QED
        BY <2>1, <3>4, NewParts DEF Fit
    <2>9. AllFit(y, [w EXCEPT ![c] = w[c] - 1])
      BY <1>1, <2>7, <2>8 DEF AllFit
    <2>10. \A x \in Creature : x # c => Stays(b, y, x) /\ SameMind(b, y, x) /\ SameDuty(b, y, x)
      BY <1>3, <2>1, <2>3 DEF Stays, SameMind, SameDuty
    <2>11. Stays(b, y, c) /\ SameMind(b, y, c) /\ SameDuty(b, y, c)
      BY <2>2, <2>3 DEF Stays, SameMind, SameDuty
    <2> QED
      BY <1>1, <1>3, <2>2, <2>9, <2>10, <2>11 DEF Tended
  <1>8. CASE b.cr[c].refs # 1
    <2>1. y.cr[c] = Lessened(o) /\ y.dazed = b.dazed
      BY <1>4, <1>8 DEF GivenUp
    <2>2. /\ y.cr[c].where = o.where /\ y.cr[c].at = o.at /\ y.cr[c].alive = o.alive /\ y.cr[c].client = o.client
          /\ y.cr[c].creatureCheck = o.creatureCheck /\ y.cr[c].inCheckCreaturesVector = o.inCheckCreaturesVector
          /\ y.cr[c].targetList = o.targetList /\ y.cr[c].attackedCreature = o.attackedCreature
          /\ y.cr[c].followCreature = o.followCreature /\ y.cr[c].master = o.master /\ y.cr[c].refs = o.refs - 1
      BY <1>5, <2>1, LessenedParts
    <2>3. \A x \in Creature : Here(b, x) <=> Here(y, x)
      BY <1>3, <1>4, <2>2 DEF Here
    <2>4. \A x \in Creature : y.cr[x].targetList = b.cr[x].targetList
      BY <1>3, <1>4, <2>2
    <2>5. \A x \in Creature : HeldIn(y, x) = HeldIn(b, x)
      BY <2>4, HeldKept, CreatureParts
    <2>6. \A x \in Creature : Holders(y, x) = Holders(b, x)
      BY <1>1, <1>3, <1>4, <2>2, <2>3, <2>5, HoldersSame
    <2>7. ASSUME NEW x \in Creature \ {c}
          PROVE  Fit(y, x, w[x])
      <3>1. Fit(b, x, w[x]) /\ Holders(y, x) = Holders(b, x) /\ y.cr[x] = b.cr[x]
        BY <1>2, <1>3, <2>6
      <3>2. b.cr[x].master # None => Here(y, b.cr[x].master)
        BY <1>1, <2>3, <3>1, ObjectParts, CreatureParts DEF Fit
      <3> QED
        BY <2>3, <3>1, <3>2 DEF Fit
    <2>8. Fit(y, c, w[c] - 1)
      <3>1. Fit(b, c, w[c]) /\ Holders(y, c) = Holders(b, c) /\ Holders(b, c) \in Nat /\ w[c] \in Int
        BY <1>1, <1>2, <2>6, HoldersParts
      <3>2. b.cr[c].master # None => Here(y, b.cr[c].master)
        BY <1>1, <2>3, <3>1, ObjectParts, CreatureParts DEF Fit
      <3>3. y.cr[c].refs = Holders(y, c) + (w[c] - 1)
        BY <1>4, <2>2, <3>1 DEF Fit
      <3> QED
        BY <1>4, <1>6, <2>2, <2>3, <3>1, <3>2, <3>3 DEF Fit
    <2>9. AllFit(y, [w EXCEPT ![c] = w[c] - 1])
      BY <1>1, <2>7, <2>8 DEF AllFit
    <2>10. \A x \in Creature : x # c => Stays(b, y, x) /\ SameMind(b, y, x) /\ SameDuty(b, y, x)
      BY <1>3, <2>1, <2>3 DEF Stays, SameMind, SameDuty
    <2>11. Stays(b, y, c) /\ SameMind(b, y, c) /\ SameDuty(b, y, c)
      BY <1>4, <2>1, <2>2, <2>3 DEF Stays, SameMind, SameDuty
    <2> QED
      BY <1>1, <1>3, <1>4, <2>2, <2>9, <2>10, <2>11 DEF Tended
  <1> QED
    BY <1>7, <1>8

\* Somebody who was owed a reference less.
LEMMA UnrefOwed ==
    ASSUME NEW b, NEW w, AllFit(b, w), NEW c \in Creature, w[c] >= 1, NEW y, y = Unref(b, c)
    PROVE  /\ AllFit(y, [w EXCEPT ![c] = w[c] - 1])
           /\ Tended(b, y, c) /\ SameDuty(b, y, c)
           /\ \A x \in Creature : Here(b, x) => y.cr[x].inCheckCreaturesVector = b.cr[x].inCheckCreaturesVector
  <1>1. b \in Books /\ w[c] \in Int /\ b.cr[c].refs = Holders(b, c) + w[c]
    BY DEF AllFit, Fit
  <1>2. Holders(b, c) \in Nat
    BY <1>1, HoldersParts
  <1>3. b.cr[c].refs >= 1 /\ (b.cr[c].refs = 1 => Holders(b, c) = 0)
    BY <1>1, <1>2
  <1>4. b.cr[c].refs = 1 => IsNobody(b, c)
    <2>1. b.rel[c] \in Nat /\ HeldIn(b, c) \in Nat
      BY <1>1, HeldIsNat, ObjectParts
    <2> QED
      BY <1>1, <1>3, <2>1, HoldersParts DEF IsNobody
  <1>5. b.cr[c].refs = 1 => Summons(b, c) = {} /\ b.cr[c].targetList = {}
    BY <1>4, NobodyIsLeft DEF IsNobody
  <1>6. GivenUp(b, c, y)
    BY <1>1, <1>3, <1>5, LastUnref DEF GivenUp
  <1> QED
    BY <1>3, <1>4, <1>6, DroppedFit

NoDebt == [x \in Creature |-> 0]
Debt(c) == [x \in Creature |-> IF x = c THEN 1 ELSE 0]

LEMMA SoundIsFit ==
    ASSUME NEW b
    PROVE  Intact(b) <=> AllFit(b, NoDebt)
  BY DEF Intact, AllFit, NoDebt

LEMMA UnrefSound ==
    ASSUME NEW b, NEW c \in Creature, AllFit(b, Debt(c)), NEW y, y = Unref(b, c)
    PROVE  /\ Intact(y) /\ Tended(b, y, c) /\ SameDuty(b, y, c)
           /\ \A x \in Creature : Here(b, x) => y.cr[x].inCheckCreaturesVector = b.cr[x].inCheckCreaturesVector
  <1>1. PICK w : w = Debt(c)
    OBVIOUS
  <1>2. w[c] = 1 /\ w \in [Creature -> Int] /\ [w EXCEPT ![c] = w[c] - 1] = NoDebt
    BY <1>1 DEF Debt, NoDebt
  <1>3. AllFit(b, w) /\ w[c] >= 1
    BY <1>1, <1>2
  <1> QED
    BY <1>2, <1>3, UnrefOwed, SoundIsFit

-----------------------------------------------------------------------------
(***************************************************************************)
(* What one call after another leaves as it was.                           *)
(***************************************************************************)
LEMMA FitKept ==
    ASSUME NEW b \in Books, NEW y \in Books, NEW x \in Creature, NEW k \in Int, Fit(b, x, k),
           y.cr[x] = b.cr[x], y.rel[x] = b.rel[x], HeldIn(y, x) = HeldIn(b, x),
           \A z \in Creature : Here(b, z) => Here(y, z)
    PROVE  Fit(y, x, k)
  <1>1. Here(b, x) <=> Here(y, x)
    BY DEF Here
  <1>2. Holders(y, x) = Holders(b, x)
    BY <1>1, HoldersSame
  <1>3. b.cr[x].master # None => Here(y, b.cr[x].master)
    BY ObjectParts, CreatureParts DEF Fit
  <1> QED
    BY <1>1, <1>2, <1>3 DEF Fit

LEMMA StaysTrans ==
    ASSUME NEW b, NEW d, NEW y, NEW x, Stays(b, d, x), Stays(d, y, x)
    PROVE  Stays(b, y, x)
  BY DEF Stays
LEMMA MindTrans ==
    ASSUME NEW b, NEW d, NEW y, NEW x, Stays(b, d, x), SameMind(b, d, x), SameMind(d, y, x)
    PROVE  SameMind(b, y, x)
  BY DEF Stays, SameMind
LEMMA DutyTrans ==
    ASSUME NEW b, NEW d, NEW y, NEW x, Stays(b, d, x), SameDuty(b, d, x), SameDuty(d, y, x)
    PROVE  SameDuty(b, y, x)
  BY DEF Stays, SameDuty

LEMMA TendedTrans ==
    ASSUME NEW b, NEW d, NEW y, NEW m \in Creature, NEW c \in Creature, Tended(b, d, m), Tended(d, y, c),
           c = m \/ SameDuty(d, y, c)
    PROVE  Tended(b, y, m)
  <1>1. y \in Books /\ y.rel = b.rel /\ y.tasks = b.tasks
    BY DEF Tended
  <1>2. ASSUME NEW x \in Creature
        PROVE  Stays(b, y, x) /\ SameMind(b, y, x) /\ (x # m => SameDuty(b, y, x))
    <2>1. Stays(b, d, x) /\ SameMind(b, d, x) /\ (x # m => SameDuty(b, d, x))
      BY DEF Tended
    <2>2. Stays(d, y, x) /\ SameMind(d, y, x) /\ (x # m => SameDuty(d, y, x))
      BY DEF Tended
    <2> QED
      BY <2>1, <2>2, StaysTrans, MindTrans, DutyTrans
  <1> QED
    BY <1>1, <1>2 DEF Tended

LEMMA TendedSelf ==
    ASSUME NEW b \in Books, NEW m
    PROVE  Tended(b, b, m) /\ \A x : SameDuty(b, b, x)
  BY DEF Tended, Stays, SameMind, SameDuty

\* The lists of one creature replaced, and its references.
Relisted(o, r) ==
    /\ r \in Object /\ r.where = o.where /\ r.at = o.at /\ r.alive = o.alive /\ r.client = o.client
    /\ r.attackedCreature = o.attackedCreature /\ r.followCreature = o.followCreature /\ r.master = o.master

LEMMA RelistedEffect ==
    ASSUME NEW b \in Books, NEW m \in Creature, NEW r, Relisted(b.cr[m], r), NEW y, y = With(b, m, r)
    PROVE  /\ y \in Books /\ Tended(b, y, m) /\ y.dazed = b.dazed
           /\ y.rel = b.rel /\ y.cr[m] = r
           /\ \A x \in Creature \ {m} : y.cr[x] = b.cr[x]
           /\ \A x \in Creature : Here(b, x) <=> Here(y, x)
  <1>1. PICK o \in Object : o = b.cr[m]
    BY ObjectParts
  <1>3. /\ r \in Object /\ r.where = o.where /\ r.at = o.at /\ r.alive = o.alive /\ r.client = o.client
        /\ r.attackedCreature = o.attackedCreature
        /\ r.followCreature = o.followCreature /\ r.master = o.master
    BY <1>1 DEF Relisted
  <1>4. /\ y \in Books /\ y.cr[m] = r /\ \A x \in Creature \ {m} : y.cr[x] = b.cr[x]
        /\ y.rel = b.rel /\ y.tasks = b.tasks /\ y.dazed = b.dazed
    BY <1>1, <1>3, WithEffect
  <1>5. \A x \in Creature : Here(b, x) <=> Here(y, x)
    BY <1>1, <1>3, <1>4 DEF Here
  <1>6. \A x \in Creature : Stays(b, y, x) /\ SameMind(b, y, x) /\ (x # m => SameDuty(b, y, x))
    BY <1>1, <1>3, <1>4, <1>5 DEF Stays, SameMind, SameDuty
  <1> QED
    BY <1>1, <1>3, <1>4, <1>5, <1>6 DEF Tended

Retargeted(b, m, S) == [b EXCEPT !.cr[m].targetList = S]

\* The list of targets changed by the creature c, and the references not yet.
LEMMA TargetsFit ==
    ASSUME NEW b, Intact(b), NEW m \in Monster, Here(b, m), NEW S \in SUBSET Player, NEW c \in Player,
           c \in S <=> c \notin b.cr[m].targetList, S \ {c} = b.cr[m].targetList \ {c},
           NEW y, y = Retargeted(b, m, S)
    PROVE  /\ \A x \in Creature : Fit(y, x, IF x = c THEN (IF c \in S THEN -1 ELSE 1) ELSE 0)
           /\ y \in Books /\ Tended(b, y, m) /\ y.dazed = b.dazed
           /\ y.cr[m].targetList = S /\ y.cr[m].creatureCheck = b.cr[m].creatureCheck
           /\ \A x \in Creature : y.cr[x].inCheckCreaturesVector = b.cr[x].inCheckCreaturesVector
  <1>1. b \in Books /\ m \in Creature /\ c \in Creature /\ c # m
    BY CreatureParts DEF Intact
  <1>2. PICK o \in Object : o = b.cr[m]
    BY <1>1, ObjectParts
  <1>3. PICK r : r = [o EXCEPT !.targetList = S]
    OBVIOUS
  <1>4. /\ Relisted(o, r) /\ r.targetList = S /\ r.creatureCheck = o.creatureCheck
        /\ r.inCheckCreaturesVector = o.inCheckCreaturesVector /\ r.refs = o.refs
    BY <1>3 DEF Relisted, Object
  <1>5. /\ y \in Books /\ Tended(b, y, m) /\ y.dazed = b.dazed
        /\ y.rel = b.rel /\ \A x \in Creature \ {m} : y.cr[x] = b.cr[x]
        /\ y.cr[m].targetList = S /\ y.cr[m].creatureCheck = o.creatureCheck /\ y.cr[m].inCheckCreaturesVector = o.inCheckCreaturesVector
        /\ y.cr[m].refs = o.refs /\ y.cr[m].master = o.master /\ y.cr[m].where = o.where
        /\ \A x \in Creature : Here(b, x) <=> Here(y, x)
    <2>1. y = With(b, m, r) /\ Relisted(b.cr[m], r)
      BY <1>2, <1>3, <1>4 DEF With, Retargeted
    <2>2. /\ y \in Books /\ Tended(b, y, m) /\ y.dazed = b.dazed
          /\ y.rel = b.rel /\ y.cr[m] = r
          /\ \A x \in Creature \ {m} : y.cr[x] = b.cr[x]
          /\ \A x \in Creature : Here(b, x) <=> Here(y, x)
      BY <1>1, <2>1, RelistedEffect
    <2> QED
      BY <1>4, <2>2 DEF Relisted
  <1>6. \A x \in Creature \ {c} : HeldIn(y, x) = HeldIn(b, x)
    <2> SUFFICES ASSUME NEW x \in Creature \ {c}
                 PROVE  HeldIn(y, x) = HeldIn(b, x)
      OBVIOUS
    <2>1. \A n \in Monster : x \in y.cr[n].targetList <=> x \in b.cr[n].targetList
      BY <1>5, CreatureParts
    <2> QED
      BY <2>1, HeldKept
  <1>7. HeldIn(y, c) = HeldIn(b, c) + (IF c \in S THEN 1 ELSE -1)
    <2>1. \A n \in Monster \ {m} : c \in y.cr[n].targetList <=> c \in b.cr[n].targetList
      BY <1>5, CreatureParts
    <2>2. CASE c \in S
      <3>0. c \notin b.cr[m].targetList /\ c \in y.cr[m].targetList
        BY <1>5, <2>2
      <3>1. HeldIn(y, c) = HeldIn(b, c) + 1
        BY <2>1, <3>0, HeldByOneMore
      <3> QED
        BY <2>2, <3>1
    <2>3. CASE c \notin S
      <3>0. /\ c \notin y.cr[m].targetList /\ c \in b.cr[m].targetList
            /\ \A n \in Monster \ {m} : c \in b.cr[n].targetList <=> c \in y.cr[n].targetList
        BY <1>5, <2>1, <2>3
      <3>1. HeldIn(b, c) = HeldIn(y, c) + 1
        BY <3>0, HeldByOneMore
      <3>2. HeldIn(b, c) \in Nat /\ HeldIn(y, c) \in Nat
        BY HeldIsNat
      <3> QED
        BY <2>3, <3>1, <3>2
    <2> QED
      BY <2>2, <2>3
  <1>8. \A x \in Creature \ {m, c} : Fit(y, x, 0)
    BY <1>1, <1>5, <1>6, FitKept DEF Intact
  <1>9. Fit(y, m, 0)
    <2>1. Fit(b, m, 0)
      BY <1>1 DEF Intact
    <2>2. Holders(y, m) = Holders(b, m)
      BY <1>1, <1>2, <1>5, <1>6, HoldersSame
    <2>3. b.cr[m].master # None => Here(y, b.cr[m].master)
      BY <1>1, <1>5, <2>1, ObjectParts, CreatureParts DEF Fit
    <2>4. o.where = "world" /\ y.cr[m].where = "world"
      BY <1>2, <1>5 DEF Here
    <2> QED
      BY <1>2, <1>5, <2>1, <2>2, <2>3, <2>4 DEF Fit, Here
  <1>10. Fit(y, c, IF c \in S THEN -1 ELSE 1)
    <2>1. Fit(b, c, 0) /\ y.cr[c] = b.cr[c] /\ y.rel[c] = b.rel[c]
      BY <1>1, <1>5 DEF Intact
    <2>2. Holders(y, c) - Holders(b, c) = HeldIn(y, c) - HeldIn(b, c)
      BY <1>1, <1>5, <2>1, HoldersKept
    <2>3. PICK h \in Nat, k \in Nat, n \in Nat : h = HeldIn(b, c) /\ k = Holders(b, c) /\ n = Holders(y, c)
      BY <1>1, <1>5, HoldersParts, HeldIsNat
    <2>4. n - k = IF c \in S THEN 1 ELSE -1
      BY <1>7, <2>2, <2>3
    <2>5. b.cr[c].refs = k
      BY <2>1, <2>3 DEF Fit
    <2>6. y.cr[c].refs = Holders(y, c) + (IF c \in S THEN -1 ELSE 1)
      BY <2>1, <2>3, <2>4, <2>5
    <2>7. b.cr[c].master # None => Here(y, b.cr[c].master)
      BY <1>1, <1>5, <2>1, ObjectParts, CreatureParts DEF Fit
    <2>8. Here(b, c) <=> Here(y, c)
      BY <1>1, <1>5
    <2>9. y.cr[c].targetList # {} => c \in Monster /\ Here(y, c)
      BY <2>1, <2>8 DEF Fit
    <2> QED
      BY <2>1, <2>6, <2>7, <2>8, <2>9 DEF Fit
  <1> QED
    BY <1>2, <1>5, <1>8, <1>9, <1>10

-----------------------------------------------------------------------------
(***************************************************************************)
(* A reference is taken; targets; masters.                                 *)
(***************************************************************************)
SameVector(b, y) ==
    \A x \in Creature : Here(b, x) => y.cr[x].inCheckCreaturesVector = b.cr[x].inCheckCreaturesVector

\* A reference is taken that somebody has already.
LEMMA RefSound ==
    ASSUME NEW b \in Books, NEW c \in Creature, b.cr[c].where # "new",
           \A x \in Creature : Fit(b, x, IF x = c THEN -1 ELSE 0), NEW y, y = Ref(b, c)
    PROVE  Intact(y) /\ Tended(b, y, c) /\ SameDuty(b, y, c) /\ y.dazed = b.dazed /\ SameVector(b, y)
  <1>1. PICK o \in Object : o = b.cr[c]
    BY ObjectParts
  <1>2. PICK r : r = [o EXCEPT !.refs = @ + 1]
    OBVIOUS
  <1>3. /\ Relisted(o, r) /\ r.targetList = o.targetList /\ r.creatureCheck = o.creatureCheck
        /\ r.inCheckCreaturesVector = o.inCheckCreaturesVector /\ r.refs = o.refs + 1
    BY <1>2 DEF Relisted, Object
  <1>4. y = With(b, c, r) /\ Relisted(b.cr[c], r)
    BY <1>1, <1>2, <1>3 DEF With, Ref
  <1>5. /\ y \in Books /\ Tended(b, y, c) /\ y.dazed = b.dazed
        /\ y.rel = b.rel /\ y.cr[c] = r
        /\ \A x \in Creature \ {c} : y.cr[x] = b.cr[x]
        /\ \A x \in Creature : Here(b, x) <=> Here(y, x)
    BY <1>4, RelistedEffect
  <1>6. \A x \in Creature : y.cr[x].targetList = b.cr[x].targetList
    BY <1>1, <1>3, <1>5
  <1>7. \A x \in Creature : HeldIn(y, x) = HeldIn(b, x)
    BY <1>6, HeldKept, CreatureParts
  <1>8. \A x \in Creature \ {c} : Fit(y, x, 0)
    BY <1>5, <1>7, FitKept
  <1>9. Fit(y, c, 0)
    <2>1. Fit(b, c, -1)
      OBVIOUS
    <2>2. y.cr[c].master = o.master /\ y.cr[c].where = o.where
      BY <1>3, <1>5 DEF Relisted
    <2>3. Holders(y, c) = Holders(b, c)
      BY <1>1, <1>3, <1>5, <1>7, <2>2, HoldersSame
    <2>4. o.master # None => Here(y, o.master)
      BY <1>1, <1>5, <2>1, ObjectParts, CreatureParts DEF Fit
    <2>5. Holders(b, c) \in Nat /\ o.refs = Holders(b, c) - 1
      BY <1>1, <2>1, HoldersParts DEF Fit
    <2>6. y.cr[c].refs = Holders(y, c)
      BY <1>3, <1>5, <2>3, <2>5
    <2>7. Here(b, c) <=> Here(y, c)
      BY <1>5
    <2>8. Holders(y, c) + 0 = Holders(y, c)
      BY <2>3, <2>5
    <2> QED
      BY <1>1, <1>3, <1>5, <2>1, <2>2, <2>4, <2>6, <2>7, <2>8 DEF Fit
  <1>10. SameDuty(b, y, c) /\ SameVector(b, y)
    BY <1>1, <1>3, <1>5 DEF SameDuty, SameVector
  <1> QED
    BY <1>5, <1>8, <1>9, <1>10 DEF Intact

\* What the operations on the lists of a monster do.
LEMMA AddTargetEffect ==
    ASSUME NEW b, Intact(b), NEW m \in Monster, Here(b, m), NEW c \in Player, Here(b, c), NEW y, y = AddTarget(b, m, c)
    PROVE  /\ Intact(y) /\ Tended(b, y, m) /\ SameVector(b, y)
           /\ y.cr[m].targetList = b.cr[m].targetList \cup {c} /\ y.cr[m].creatureCheck = b.cr[m].creatureCheck
           /\ m \in y.dazed <=> m \in b.dazed
  <1>1. b \in Books /\ m \in Creature /\ c \in Creature /\ c # m
    BY CreatureParts DEF Intact
  <1>2. CASE c \in b.cr[m].targetList
    <2>1. y = b
      BY <1>2 DEF AddTarget
    <2> QED
      BY <1>1, <1>2, <2>1, TendedSelf DEF SameVector
  <1>3. CASE c \notin b.cr[m].targetList
    <2>1. PICK S : S = b.cr[m].targetList \cup {c}
      OBVIOUS
    <2>2. S \in SUBSET Player /\ c \in S /\ S \ {c} = b.cr[m].targetList \ {c}
      BY <1>1, <2>1, ObjectParts
    <2>3. PICK d : d = Retargeted(b, m, S)
      OBVIOUS
    <2>4. y = Ref(d, c)
      BY <1>3, <2>1, <2>3 DEF AddTarget, Retargeted
    <2>5. /\ \A x \in Creature : Fit(d, x, IF x = c THEN (IF c \in S THEN -1 ELSE 1) ELSE 0)
          /\ d \in Books /\ Tended(b, d, m) /\ d.dazed = b.dazed
          /\ d.cr[m].targetList = S /\ d.cr[m].creatureCheck = b.cr[m].creatureCheck
          /\ \A x \in Creature : d.cr[x].inCheckCreaturesVector = b.cr[x].inCheckCreaturesVector
      BY <1>3, <2>2, <2>3, TargetsFit
    <2>6. Here(d, c) /\ Here(d, m) /\ d.cr[c].where # "new"
      BY <1>1, <2>5 DEF Tended, Stays, Here
    <2>7. \A x \in Creature : Fit(d, x, IF x = c THEN -1 ELSE 0)
      BY <2>2, <2>5
    <2>8. Intact(y) /\ Tended(d, y, c) /\ SameDuty(d, y, c) /\ y.dazed = d.dazed /\ SameVector(d, y)
      BY <1>1, <2>4, <2>5, <2>6, <2>7, RefSound
    <2>9. Tended(b, y, m)
      BY <1>1, <2>5, <2>8, TendedTrans
    <2>10. SameDuty(d, y, m)
      BY <1>1, <2>8 DEF Tended
    <2>11. SameVector(b, y)
      BY <2>5, <2>8 DEF SameVector, Tended, Stays
    <2> QED
      BY <2>1, <2>5, <2>6, <2>8, <2>9, <2>10, <2>11 DEF SameDuty
  <1> QED
    BY <1>2, <1>3

LEMMA RemoveTargetEffect ==
    ASSUME NEW b, Intact(b), NEW m \in Monster, Here(b, m), NEW c \in Player, NEW y, y = RemoveTarget(b, m, c)
    PROVE  /\ Intact(y) /\ Tended(b, y, m) /\ SameVector(b, y)
           /\ y.cr[m].targetList = b.cr[m].targetList \ {c} /\ y.cr[m].creatureCheck = b.cr[m].creatureCheck
           /\ m \in y.dazed <=> m \in b.dazed
  <1>1. b \in Books /\ m \in Creature /\ c \in Creature /\ c # m
    BY CreatureParts DEF Intact
  <1>2. CASE c \notin b.cr[m].targetList
    <2>1. y = b
      BY <1>2 DEF RemoveTarget
    <2> QED
      BY <1>1, <1>2, <2>1, TendedSelf DEF SameVector
  <1>3. CASE c \in b.cr[m].targetList
    <2>1. PICK S : S = b.cr[m].targetList \ {c}
      OBVIOUS
    <2>2. S \in SUBSET Player /\ c \notin S /\ S \ {c} = b.cr[m].targetList \ {c}
      BY <1>1, <2>1, ObjectParts
    <2>3. PICK d : d = Retargeted(b, m, S)
      OBVIOUS
    <2>4. y = Unref(d, c)
      BY <1>3, <2>1, <2>3 DEF RemoveTarget, Retargeted
    <2>5. /\ \A x \in Creature : Fit(d, x, IF x = c THEN (IF c \in S THEN -1 ELSE 1) ELSE 0)
          /\ d \in Books /\ Tended(b, d, m) /\ d.dazed = b.dazed
          /\ d.cr[m].targetList = S /\ d.cr[m].creatureCheck = b.cr[m].creatureCheck
          /\ \A x \in Creature : d.cr[x].inCheckCreaturesVector = b.cr[x].inCheckCreaturesVector
      BY <1>3, <2>2, <2>3, TargetsFit
    <2>6. Here(d, m)
      BY <1>1, <2>5 DEF Tended, Stays, Here
    <2>7. AllFit(d, Debt(c))
      BY <2>2, <2>5 DEF AllFit, Debt
    <2>8. Intact(y) /\ Tended(d, y, c) /\ SameDuty(d, y, c) /\ SameVector(d, y)
      BY <1>1, <2>4, <2>7, UnrefSound DEF SameVector
    <2>9. Tended(b, y, m)
      BY <1>1, <2>5, <2>8, TendedTrans
    <2>10. SameDuty(d, y, m)
      BY <1>1, <2>8 DEF Tended
    <2>11. SameVector(b, y)
      BY <2>5, <2>8 DEF SameVector, Tended, Stays
    <2> QED
      BY <2>1, <2>5, <2>6, <2>8, <2>9, <2>10, <2>11 DEF SameDuty
  <1> QED
    BY <1>2, <1>3

\* A summon that has no master any more.
Freed(o) == [o EXCEPT !.master = None]
LEMMA LoseMasterEffect ==
    ASSUME NEW b, Intact(b), NEW s \in Monster, NEW y, y = LoseMaster(b, s)
    PROVE  /\ Intact(y) /\ y.rel = b.rel /\ y.tasks = b.tasks /\ SameVector(b, y)
           /\ \A x \in Creature : SameMind(b, y, x) /\ SameDuty(b, y, x) /\ (x # s => Stays(b, y, x))
           /\ Here(b, s) => /\ Here(y, s) /\ y.cr[s].master = None /\ y.cr[s].at = b.cr[s].at
                            /\ y.cr[s].alive = b.cr[s].alive /\ y.cr[s].client = b.cr[s].client
           /\ ~ Here(b, s) => y = b
  <1>1. b \in Books /\ s \in Creature
    BY CreatureParts DEF Intact
  <1>2. CASE b.cr[s].master = None
    <2>1. y = b
      BY <1>2 DEF LoseMaster
    <2> QED
      BY <1>1, <1>2, <2>1 DEF SameVector, Stays, SameMind, SameDuty
  <1>3. CASE b.cr[s].master # None
    <2>1. PICK o \in Object : o = b.cr[s]
      BY <1>1, ObjectParts
    <2>2. PICK r : r = Freed(o)
      OBVIOUS
    <2>3. /\ r \in Object /\ r.where = o.where /\ r.at = o.at /\ r.alive = o.alive /\ r.client = o.client
          /\ r.creatureCheck = o.creatureCheck /\ r.inCheckCreaturesVector = o.inCheckCreaturesVector
          /\ r.targetList = o.targetList /\ r.attackedCreature = o.attackedCreature
          /\ r.followCreature = o.followCreature /\ r.master = None /\ r.refs = o.refs
      BY <2>2 DEF Freed, Object
    <2>4. PICK d : d = With(b, s, r)
      OBVIOUS
    <2>5. /\ d \in Books /\ d.cr[s] = r /\ \A x \in Creature \ {s} : d.cr[x] = b.cr[x]
          /\ d.rel = b.rel /\ d.tasks = b.tasks /\ d.dazed = b.dazed
      BY <1>1, <2>3, <2>4, WithEffect
    <2>6. y = Unref(d, s)
      BY <1>3, <2>1, <2>2, <2>4 DEF LoseMaster, With, Freed
    <2>7. Fit(b, s, 0) /\ Here(b, s)
      BY <1>1, <1>3 DEF Intact, Fit
    <2>8. \A x \in Creature : Here(b, x) <=> Here(d, x)
      BY <2>1, <2>3, <2>5 DEF Here
    <2>9. \A x \in Creature : HeldIn(d, x) = HeldIn(b, x)
      <3>1. \A x \in Creature : d.cr[x].targetList = b.cr[x].targetList
        BY <2>1, <2>3, <2>5
      <3> QED
        BY <3>1, HeldKept, CreatureParts
    <2>10. \A x \in Creature \ {s} : Fit(d, x, 0)
      BY <1>1, <2>5, <2>8, <2>9, FitKept DEF Intact
    <2>11. Fit(d, s, 1)
      <3>1. Holders(b, s) = Holders(d, s) + 1
        <4>0. Here(d, s) /\ Here(b, s)
          BY <1>1, <2>7, <2>8
        <4>1. CountOf(Here(d, s)) = 1 /\ CountOf(Here(b, s)) = 1
          BY <4>0 DEF CountOf
        <4>2. PICK k \in Nat : k = CountOf(d.cr[s].inCheckCreaturesVector) /\ k = CountOf(b.cr[s].inCheckCreaturesVector)
          BY <2>1, <2>3, <2>5 DEF CountOf
        <4>3. CountOf(b.cr[s].master # None) = 1 /\ CountOf(d.cr[s].master # None) = 0
          BY <1>3, <2>3, <2>5 DEF CountOf
        <4>4. PICK h \in Nat, l \in Nat : h = HeldIn(b, s) /\ h = HeldIn(d, s) /\ l = b.rel[s] /\ l = d.rel[s]
          BY <1>1, <2>5, <2>9, HeldIsNat, ObjectParts
        <4> QED
          BY <4>1, <4>2, <4>3, <4>4 DEF Holders
      <3>2. Holders(d, s) \in Nat
        BY <1>1, <2>5, HoldersParts
      <3>3. d.cr[s].refs = Holders(d, s) + 1
        BY <2>1, <2>3, <2>5, <2>7, <3>1, <3>2 DEF Fit
      <3>4. o.where = "world" /\ d.cr[s].where = "world" /\ Here(d, s)
        BY <2>1, <2>3, <2>5, <2>7 DEF Here
      <3> QED
        BY <2>1, <2>3, <2>5, <2>7, <3>3, <3>4 DEF Fit
    <2>12. AllFit(d, Debt(s))
      BY <1>1, <2>5, <2>10, <2>11 DEF AllFit, Debt
    <2>13. Intact(y) /\ Tended(d, y, s) /\ SameDuty(d, y, s) /\ SameVector(d, y)
      BY <1>1, <2>6, <2>12, UnrefSound DEF SameVector
    <2>14. ASSUME NEW x \in Creature
           PROVE  SameMind(b, y, x) /\ SameDuty(b, y, x) /\ (x # s => Stays(b, y, x))
      <3>1. SameMind(b, d, x) /\ SameDuty(b, d, x) /\ (x # s => Stays(b, d, x))
        BY <2>1, <2>3, <2>5, <2>8 DEF SameMind, SameDuty, Stays
      <3>2. Stays(d, y, x) /\ SameMind(d, y, x) /\ SameDuty(d, y, x)
        BY <2>13 DEF Tended
      <3>3. Here(b, x) <=> Here(d, x)
        BY <2>8
      <3> QED
        BY <3>1, <3>2, <3>3 DEF SameMind, SameDuty, Stays
    <2>15. /\ Here(y, s) /\ y.cr[s].master = None /\ y.cr[s].at = b.cr[s].at
           /\ y.cr[s].alive = b.cr[s].alive /\ y.cr[s].client = b.cr[s].client
      <3>1. Stays(d, y, s)
        BY <1>1, <2>13 DEF Tended
      <3> QED
        BY <1>1, <2>1, <2>3, <2>5, <2>7, <2>8, <3>1 DEF Stays
    <2>16. SameVector(b, y)
      BY <2>1, <2>3, <2>5, <2>8, <2>13 DEF SameVector
    <2> QED
      BY <2>5, <2>7, <2>13, <2>14, <2>15, <2>16 DEF Tended
  <1> QED
    BY <1>2, <1>3

-----------------------------------------------------------------------------
(***************************************************************************)
(* What a call of a monster leaves as it was, and the check list.          *)
(***************************************************************************)
\* Everything fits, and only the duties of m have changed; of nobody with m = None.
Kept(b, y, m) ==
    /\ Intact(y) /\ y.rel = b.rel
    /\ \A x \in Creature : Stays(b, y, x) /\ Attentive(b, y, x) /\ (x # m => SameDuty(b, y, x))

LEMMA TendedKept ==
    ASSUME NEW b, NEW m, NEW y, Intact(y), Tended(b, y, m)
    PROVE  Kept(b, y, m)
  BY DEF Tended, Kept, SameMind, Attentive

LEMMA KeptSelf ==
    ASSUME NEW b, Intact(b), NEW m
    PROVE  Kept(b, b, m)
  BY DEF Kept, Stays, Attentive, SameDuty

LEMMA KeptTrans ==
    ASSUME NEW b, NEW d, NEW y, NEW m, NEW k, NEW l, Kept(b, d, k), Kept(d, y, l), k \in {m, None}, l \in {m, None}
    PROVE  Kept(b, y, m)
  <1>1. Intact(y) /\ y.rel = b.rel
    BY DEF Kept
  <1>2. ASSUME NEW x \in Creature
        PROVE  Stays(b, y, x) /\ Attentive(b, y, x) /\ (x # m => SameDuty(b, y, x))
    <2>1. \A z \in Creature : Stays(b, d, z) /\ Stays(d, y, z)
      BY DEF Kept
    <2>2. Attentive(b, d, x) /\ Attentive(d, y, x)
      BY DEF Kept
    <2>3. Stays(b, y, x)
      BY <2>1, StaysTrans
    <2>4. ASSUME x # m
          PROVE  SameDuty(b, y, x)
      <3>1. x # None
        BY CreatureParts
      <3>2. SameDuty(b, d, x) /\ SameDuty(d, y, x)
        BY <2>4, <3>1 DEF Kept
      <3> QED
        BY <2>1, <3>2, DutyTrans
    <2>5. \A c : InSight(d, x, c) /\ Here(d, x) => InSight(y, x, c)
      BY <2>1 DEF InSight, Stays, Sees
    <2>6. Attentive(b, y, x)
      BY <2>1, <2>2, <2>5 DEF Attentive, Stays
    <2> QED
      BY <2>3, <2>4, <2>6
  <1> QED
    BY <1>1, <1>2 DEF Kept

LEMMA HalfKept ==
    ASSUME NEW b, NEW y, NEW x \in Monster, NEW e, Half(b, x, e),
           \A z \in Creature : /\ Here(b, z) <=> Here(y, z)
                               /\ Here(b, z) => y.cr[z].at = b.cr[z].at /\ y.cr[z].client = b.cr[z].client,
           Stays(b, y, x), Attentive(b, y, x), SameDuty(b, y, x)
    PROVE  Half(y, x, e)
  <1> SUFFICES ASSUME Here(y, x)
               PROVE  /\ Looks(y, x, e, y.cr[x].attackedCreature) /\ Looks(y, x, e, y.cr[x].followCreature)
                      /\ x \notin y.dazed => Knows(y, x, e) /\ (IsBusy(y, x) => y.cr[x].creatureCheck)
    BY DEF Half
  <1>1. x \in Creature /\ Here(b, x)
    BY CreatureParts
  <1>2. \A c : c \in Creature /\ Here(b, c) => Here(y, c) /\ (Sees(b, x, c) <=> Sees(y, x, c))
    BY <1>1 DEF Sees
  <1>3. \A c : Looks(b, x, e, c) => Looks(y, x, e, c)
    BY <1>2 DEF Looks
  <1>4. \A c : InSight(y, x, c) => Looks(y, x, e, c)
    BY DEF Looks, InSight
  <1>5. Looks(y, x, e, None)
    BY DEF Looks
  <1>6. Looks(y, x, e, y.cr[x].attackedCreature) /\ Looks(y, x, e, y.cr[x].followCreature)
    BY <1>1, <1>3, <1>4, <1>5 DEF Half, Attentive
  <1>7. ASSUME x \notin y.dazed
        PROVE  Knows(y, x, e) /\ (IsBusy(y, x) => y.cr[x].creatureCheck)
    <2>1. /\ x \notin b.dazed /\ y.cr[x].targetList = b.cr[x].targetList /\ y.cr[x].creatureCheck = b.cr[x].creatureCheck
          /\ y.cr[x].alive = b.cr[x].alive /\ y.cr[x].master = b.cr[x].master
      BY <1>1, <1>7 DEF SameDuty, Stays
    <2>2. Knows(b, x, e) /\ (IsBusy(b, x) => b.cr[x].creatureCheck)
      BY <1>1, <2>1 DEF Half
    <2>3. Knows(y, x, e)
      <3>1. ASSUME NEW p \in Player, Here(y, p), y.cr[p].client, Sees(y, x, p)
            PROVE  Here(b, p) /\ b.cr[p].client /\ Sees(b, x, p)
        BY <1>2, <3>1, CreatureParts
      <3> QED
        BY <2>1, <2>2, <3>1 DEF Knows
    <2> QED
      BY <2>1, <2>2, <2>3 DEF IsBusy
  <1> QED
    BY <1>6, <1>7

LEMMA KeptHalf ==
    ASSUME NEW b, NEW y, NEW m, Kept(b, y, m), NEW x \in Monster, x # m, NEW e, Half(b, x, e)
    PROVE  Half(y, x, e)
  <1>1. x \in Creature
    BY CreatureParts
  <1>2. \A z \in Creature : /\ Here(b, z) <=> Here(y, z)
                            /\ Here(b, z) => y.cr[z].at = b.cr[z].at /\ y.cr[z].client = b.cr[z].client
    BY DEF Kept, Stays
  <1>3. Stays(b, y, x) /\ Attentive(b, y, x) /\ SameDuty(b, y, x)
    BY <1>1 DEF Kept
  <1> QED
    BY <1>2, <1>3, HalfKept

\* A creature whose flags of the check list are replaced.
LEMMA FlaggedFit ==
    ASSUME NEW b, Intact(b), NEW c \in Creature, Here(b, c), NEW r, Relisted(b.cr[c], r),
           r.targetList = b.cr[c].targetList, r.refs = b.cr[c].refs, r.creatureCheck => r.inCheckCreaturesVector,
           NEW k \in Int,
           k = (IF b.cr[c].inCheckCreaturesVector THEN 1 ELSE 0) - (IF r.inCheckCreaturesVector THEN 1 ELSE 0),
           NEW y, y = With(b, c, r)
    PROVE  /\ \A x \in Creature : Fit(y, x, IF x = c THEN k ELSE 0)
           /\ y \in Books /\ Tended(b, y, c) /\ y.dazed = b.dazed /\ y.cr[c] = r /\ Here(y, c)
  <1>1. b \in Books /\ Fit(b, c, 0)
    BY DEF Intact
  <1>2. /\ y \in Books /\ Tended(b, y, c) /\ y.dazed = b.dazed
        /\ y.rel = b.rel /\ y.cr[c] = r
        /\ \A x \in Creature \ {c} : y.cr[x] = b.cr[x]
        /\ \A x \in Creature : Here(b, x) <=> Here(y, x)
    BY <1>1, RelistedEffect
  <1>3. \A x \in Creature : HeldIn(y, x) = HeldIn(b, x)
    <2>1. \A x \in Creature : y.cr[x].targetList = b.cr[x].targetList
      BY <1>2
    <2> QED
      BY <2>1, HeldKept, CreatureParts
  <1>4. \A x \in Creature \ {c} : Fit(y, x, 0)
    BY <1>1, <1>2, <1>3, FitKept DEF Intact
  <1>5. Fit(y, c, k)
    <2>0. y.cr[c].master = b.cr[c].master /\ y.cr[c].where = b.cr[c].where
      BY <1>2 DEF Relisted
    <2>1. Here(b, c) /\ Here(y, c) /\ y.cr[c].where = "world"
      BY <1>2 DEF Here
    <2>2. CountOf(Here(b, c)) = 1 /\ CountOf(Here(y, c)) = 1
      BY <2>1 DEF CountOf
    <2>3. PICK f \in Int, g \in Int : /\ f = CountOf(b.cr[c].inCheckCreaturesVector) /\ g = CountOf(r.inCheckCreaturesVector)
                                    /\ k = f - g
      BY DEF CountOf
    <2>4. PICK n \in Int : n = CountOf(b.cr[c].master # None) /\ n = CountOf(y.cr[c].master # None)
      BY <2>0 DEF CountOf
    <2>5. PICK h \in Nat, l \in Nat : h = HeldIn(b, c) /\ h = HeldIn(y, c) /\ l = b.rel[c] /\ l = y.rel[c]
      BY <1>1, <1>2, <1>3, HeldIsNat, ObjectParts
    <2>6. Holders(b, c) = 1 + f + n + l + h /\ Holders(y, c) = 1 + g + n + l + h
      BY <1>2, <2>2, <2>3, <2>4, <2>5 DEF Holders
    <2>7. b.cr[c].refs = Holders(b, c) + 0
      BY <1>1 DEF Fit
    <2>8. y.cr[c].refs = Holders(y, c) + k
      BY <1>2, <2>3, <2>6, <2>7
    <2>9. y.cr[c].master # None => c \in Summon /\ Here(y, y.cr[c].master)
      BY <1>1, <1>2, <2>0, ObjectParts, CreatureParts DEF Fit
    <2>10. y.cr[c].targetList # {} => c \in Monster
      BY <1>1, <1>2 DEF Fit
    <2> QED
      BY <1>2, <2>1, <2>8, <2>9, <2>10 DEF Fit
  <1> QED
    BY <1>2, <1>4, <1>5

\* What the operations on the check list do.
LEMMA AddCheckEffect ==
    ASSUME NEW b, Intact(b), NEW c \in Creature, Here(b, c), NEW y, y = AddCreatureCheck(b, c)
    PROVE  /\ Intact(y) /\ Tended(b, y, c) /\ y.cr[c].creatureCheck /\ y.cr[c].targetList = b.cr[c].targetList
           /\ c \in y.dazed <=> c \in b.dazed
  <1>1. b \in Books
    BY DEF Intact
  <1>2. PICK o \in Object : o = b.cr[c]
    BY <1>1, ObjectParts
  <1>3. PICK r : r = [o EXCEPT !.creatureCheck = TRUE, !.inCheckCreaturesVector = TRUE]
    OBVIOUS
  <1>4. /\ Relisted(o, r) /\ r.targetList = o.targetList /\ r.creatureCheck /\ r.inCheckCreaturesVector /\ r.refs = o.refs
    BY <1>3 DEF Relisted, Object
  <1>5. PICK d : d = With(b, c, r)
    OBVIOUS
  <1>6. d = [b EXCEPT !.cr[c] = [@ EXCEPT !.creatureCheck = TRUE, !.inCheckCreaturesVector = TRUE]]
    BY <1>2, <1>3, <1>5 DEF With
  <1>8. CASE b.cr[c].inCheckCreaturesVector
    <2>1. y = d
      BY <1>6, <1>8 DEF AddCreatureCheck
    <2>3. 0 = (IF b.cr[c].inCheckCreaturesVector THEN 1 ELSE 0) - (IF r.inCheckCreaturesVector THEN 1 ELSE 0)
      BY <1>4, <1>8
    <2>4. /\ \A x \in Creature : Fit(d, x, IF x = c THEN 0 ELSE 0)
          /\ d \in Books /\ Tended(b, d, c) /\ d.dazed = b.dazed /\ d.cr[c] = r /\ Here(d, c)
      BY <1>2, <1>4, <1>5, <2>3, FlaggedFit
    <2> QED
      BY <1>2, <1>4, <2>1, <2>4 DEF Intact
  <1>9. CASE ~ b.cr[c].inCheckCreaturesVector
    <2>1. y = Ref(d, c)
      BY <1>6, <1>9 DEF AddCreatureCheck
    <2>3. -1 = (IF b.cr[c].inCheckCreaturesVector THEN 1 ELSE 0) - (IF r.inCheckCreaturesVector THEN 1 ELSE 0)
      BY <1>4, <1>9
    <2>4. /\ \A x \in Creature : Fit(d, x, IF x = c THEN -1 ELSE 0)
          /\ d \in Books /\ Tended(b, d, c) /\ d.dazed = b.dazed /\ d.cr[c] = r /\ Here(d, c)
      BY <1>2, <1>4, <1>5, <2>3, FlaggedFit
    <2>5. d.cr[c].where # "new"
      BY <2>4 DEF Here
    <2>6. Intact(y) /\ Tended(d, y, c) /\ SameDuty(d, y, c) /\ y.dazed = d.dazed
      BY <2>1, <2>4, <2>5, RefSound
    <2>7. Tended(b, y, c)
      BY <2>4, <2>6, TendedTrans
    <2> QED
      BY <1>2, <1>4, <2>4, <2>6, <2>7 DEF SameDuty
  <1> QED
    BY <1>8, <1>9

LEMMA RemoveCheckEffect ==
    ASSUME NEW b, Intact(b), NEW c \in Creature, Here(b, c), NEW y, y = RemoveCreatureCheck(b, c)
    PROVE  /\ Intact(y) /\ Tended(b, y, c) /\ ~ y.cr[c].creatureCheck /\ y.cr[c].targetList = b.cr[c].targetList
           /\ y.dazed = b.dazed
  <1>1. b \in Books /\ Fit(b, c, 0)
    BY DEF Intact
  <1>2. CASE ~ b.cr[c].inCheckCreaturesVector
    <2>1. y = b /\ ~ b.cr[c].creatureCheck
      BY <1>1, <1>2 DEF RemoveCreatureCheck, Fit
    <2> QED
      BY <1>1, <2>1, TendedSelf
  <1>3. CASE b.cr[c].inCheckCreaturesVector
    <2>1. PICK o \in Object : o = b.cr[c]
      BY <1>1, ObjectParts
    <2>2. PICK r : r = [o EXCEPT !.creatureCheck = FALSE]
      OBVIOUS
    <2>3. /\ Relisted(o, r) /\ r.targetList = o.targetList /\ ~ r.creatureCheck /\ r.inCheckCreaturesVector /\ r.refs = o.refs
      BY <1>3, <2>1, <2>2 DEF Relisted, Object
    <2>4. y = With(b, c, r)
      BY <1>3, <2>1, <2>2 DEF RemoveCreatureCheck, With
    <2>5. 0 = (IF b.cr[c].inCheckCreaturesVector THEN 1 ELSE 0) - (IF r.inCheckCreaturesVector THEN 1 ELSE 0)
      BY <1>3, <2>3
    <2>6. /\ \A x \in Creature : Fit(y, x, IF x = c THEN 0 ELSE 0)
          /\ y \in Books /\ Tended(b, y, c) /\ y.dazed = b.dazed /\ y.cr[c] = r /\ Here(y, c)
      BY <2>1, <2>3, <2>4, <2>5, FlaggedFit
    <2> QED
      BY <2>1, <2>3, <2>6 DEF Intact
  <1> QED
    BY <1>2, <1>3

-----------------------------------------------------------------------------
(***************************************************************************)
(* ClearTargetList.                                                        *)
(***************************************************************************)
\* ClearTargetList: the targets of T have been let go, m still has them in its list.
Owed(T) == [x \in Creature |-> IF x \in T THEN -1 ELSE 0]
Clearing(b, m, T, d) == AllFit(d, Owed(T)) /\ Tended(b, d, m) /\ SameDuty(b, d, m)

LEMMA ClearingStep ==
    ASSUME NEW b, NEW m \in Monster, Here(b, m), NEW T, NEW c \in Player, c \notin T, c \in b.cr[m].targetList,
           NEW d, Clearing(b, m, T, d), NEW y, y = UnrefLast(d, c)
    PROVE  Clearing(b, m, T \cup {c}, y)
  <1>1. AllFit(d, Owed(T)) /\ d \in Books /\ c \in Creature /\ m \in Creature /\ c # m
    BY CreatureParts DEF Clearing, AllFit
  <1>2. PICK w : w = Owed(T)
    OBVIOUS
  <1>3. w[c] = 0 /\ AllFit(d, w)
    BY <1>1, <1>2 DEF Owed
  <1>4. c \in d.cr[m].targetList
    BY <1>1 DEF Clearing, SameDuty
  <1>5. HeldIn(d, c) > 0 /\ HeldIn(d, c) \in Nat /\ d.rel[c] \in Nat /\ Holders(d, c) \in Nat
    BY <1>1, <1>4, HeldIsNat, HoldersParts, ObjectParts
  <1>6. d.cr[c].refs = Holders(d, c)
    <2>1. d.cr[c].refs = Holders(d, c) + 0
      BY <1>1, <1>3 DEF AllFit, Fit
    <2> QED
      BY <1>5, <2>1
  <1>7. d.cr[c].refs >= 1 /\ (d.cr[c].refs = 1 => IsNobody(d, c))
    BY <1>1, <1>5, <1>6, HoldersParts DEF IsNobody
  <1>8. GivenUp(d, c, y)
    <2>0. d \in Books /\ c \in Creature
      BY <1>1
    <2>1. /\ y \in Books /\ y.rel = d.rel /\ y.tasks = d.tasks
          /\ \A x \in Creature \ {c} : y.cr[x] = d.cr[x]
          /\ d.cr[c].refs = 1 => y.cr[c] = NewCreature /\ y.dazed = d.dazed \ {c}
          /\ d.cr[c].refs # 1 => y.cr[c] = Lessened(d.cr[c]) /\ y.dazed = d.dazed
      BY <2>0, UnrefLastEffect
    <2> QED
      BY <2>1, Zenon DEF GivenUp
  <1>9. AllFit(y, [w EXCEPT ![c] = w[c] - 1]) /\ Tended(d, y, c) /\ SameDuty(d, y, c)
    BY <1>1, <1>3, <1>7, <1>8, DroppedFit
  <1>10. [w EXCEPT ![c] = w[c] - 1] = Owed(T \cup {c})
    BY <1>1, <1>2, <1>3 DEF Owed
  <1>11. Tended(b, y, m)
    BY <1>1, <1>9, TendedTrans DEF Clearing
  <1>12. Stays(b, d, m) /\ SameDuty(b, d, m) /\ SameDuty(d, y, m)
    BY <1>1, <1>9 DEF Clearing, Tended
  <1>13. SameDuty(b, y, m)
    BY <1>12, DutyTrans
  <1> QED
    BY <1>9, <1>10, <1>11, <1>13 DEF Clearing

\* The list is emptied in the end.
LEMMA ClearedFit ==
    ASSUME NEW b, NEW m \in Monster, Here(b, m), NEW d, Clearing(b, m, b.cr[m].targetList, d), NEW y, y = Retargeted(d, m, {})
    PROVE  /\ Intact(y) /\ Tended(b, y, m) /\ y.cr[m].targetList = {}
           /\ y.cr[m].creatureCheck = b.cr[m].creatureCheck /\ (m \in y.dazed <=> m \in b.dazed)
  <1>1. AllFit(d, Owed(b.cr[m].targetList)) /\ d \in Books /\ m \in Creature
    BY CreatureParts DEF Clearing, AllFit
  <1>2. PICK o \in Object : o = d.cr[m]
    BY <1>1, ObjectParts
  <1>3. PICK r : r = [o EXCEPT !.targetList = {}]
    OBVIOUS
  <1>4. /\ Relisted(o, r) /\ r.targetList = {} /\ r.creatureCheck = o.creatureCheck
        /\ r.inCheckCreaturesVector = o.inCheckCreaturesVector /\ r.refs = o.refs
    BY <1>3 DEF Relisted, Object
  <1>5. y = With(d, m, r) /\ Relisted(d.cr[m], r)
    BY <1>2, <1>3, <1>4 DEF With, Retargeted
  <1>6. /\ y \in Books /\ Tended(d, y, m) /\ y.dazed = d.dazed
        /\ y.rel = d.rel /\ y.cr[m] = r
        /\ \A x \in Creature \ {m} : y.cr[x] = d.cr[x]
        /\ \A x \in Creature : Here(d, x) <=> Here(y, x)
    BY <1>1, <1>5, RelistedEffect
  <1>7. PICK S : S = b.cr[m].targetList
    OBVIOUS
  <1>8. Here(d, m) /\ d.cr[m].targetList = S
    BY <1>1, <1>7 DEF Clearing, Tended, Stays, SameDuty
  <1>9. ASSUME NEW x \in Creature
        PROVE  Fit(y, x, 0)
    <2>1. Fit(d, x, IF x \in S THEN -1 ELSE 0)
      BY <1>1, <1>7 DEF AllFit, Owed
    <2>2. HeldIn(d, x) - HeldIn(y, x) = IF x \in S THEN 1 ELSE 0
      <3>1. \A n \in Monster \ {m} : x \in d.cr[n].targetList <=> x \in y.cr[n].targetList
        BY <1>6, CreatureParts
      <3>2. CASE x \in S
        <4>1. x \in d.cr[m].targetList /\ x \notin y.cr[m].targetList
          BY <1>4, <1>6, <1>8, <3>2
        <4>2. HeldIn(d, x) = HeldIn(y, x) + 1
          BY <3>1, <4>1, HeldByOneMore
        <4>3. HeldIn(y, x) \in Nat
          BY HeldIsNat
        <4> QED
          BY <3>2, <4>2, <4>3
      <3>3. CASE x \notin S
        <4>1. x \notin d.cr[m].targetList /\ x \notin y.cr[m].targetList
          BY <1>4, <1>6, <1>8, <3>3
        <4>2. \A n \in Monster : x \in d.cr[n].targetList <=> x \in y.cr[n].targetList
          BY <3>1, <4>1
        <4>3. HeldIn(d, x) = HeldIn(y, x)
          BY <4>2, HeldKept
        <4>4. HeldIn(y, x) \in Nat
          BY HeldIsNat
        <4> QED
          BY <3>3, <4>3, <4>4
      <3> QED
        BY <3>2, <3>3
    <2>3. /\ y.cr[x].where = d.cr[x].where /\ y.cr[x].master = d.cr[x].master
          /\ y.cr[x].inCheckCreaturesVector = d.cr[x].inCheckCreaturesVector
          /\ y.cr[x].creatureCheck = d.cr[x].creatureCheck /\ y.cr[x].refs = d.cr[x].refs
          /\ (x # m => y.cr[x] = d.cr[x]) /\ (x = m => y.cr[x].targetList = {})
      BY <1>2, <1>4, <1>6 DEF Relisted
    <2>4. Holders(y, x) - Holders(d, x) = HeldIn(y, x) - HeldIn(d, x)
      BY <1>1, <1>6, <2>3, HoldersKept
    <2>5. PICK h \in Nat, k \in Nat, n \in Nat, l \in Nat : h = HeldIn(d, x) /\ k = HeldIn(y, x) /\ n = Holders(d, x) /\ l = Holders(y, x)
      BY <1>1, <1>6, HeldIsNat, HoldersParts
    <2>6. d.cr[x].refs = n + (IF x \in S THEN -1 ELSE 0)
      BY <2>1, <2>5 DEF Fit
    <2>7. y.cr[x].refs = Holders(y, x) + 0
      BY <2>2, <2>3, <2>4, <2>5, <2>6
    <2>8. Here(d, x) <=> Here(y, x)
      BY <1>6
    <2>9. y.cr[x].master # None => x \in Summon /\ Here(y, x) /\ Here(y, y.cr[x].master)
      BY <1>1, <1>6, <2>1, <2>3, ObjectParts, CreatureParts DEF Fit
    <2>10. y.cr[x].targetList # {} => x \in Monster /\ Here(y, x)
      BY <2>1, <2>3, <2>8 DEF Fit
    <2>11. y.cr[x].creatureCheck => Here(y, x) /\ y.cr[x].inCheckCreaturesVector
      BY <2>1, <2>3, <2>8 DEF Fit
    <2>12. y.cr[x].where = "new" => x # m /\ y.cr[x] = NewCreature
      BY <1>8, <2>1, <2>3 DEF Fit, Here
    <2> QED
      BY <2>7, <2>9, <2>10, <2>11, <2>12 DEF Fit
  <1>10. Intact(y)
    BY <1>6, <1>9 DEF Intact
  <1>11. Tended(b, y, m)
    BY <1>1, <1>6, TendedTrans DEF Clearing
  <1> QED
    BY <1>2, <1>4, <1>6, <1>10, <1>11 DEF Clearing, SameDuty

LEMMA ClearLoop ==
    ASSUME NEW b, Intact(b), NEW m \in Monster, Here(b, m), NEW S, S = b.cr[m].targetList
    PROVE  Clearing(b, m, S, Cleared(b, S))
  <1> DEFINE K == [T \in SUBSET S |-> {d \in Books : Clearing(b, m, T, d)}]
  <1>1. b \in Books /\ m \in Creature /\ S \subseteq Player /\ IsFiniteSet(S)
    <2>1. b \in Books /\ m \in Creature
      BY CreatureParts DEF Intact
    <2>2. S \subseteq Player
      BY <2>1, ObjectParts
    <2> QED
      BY <2>1, <2>2, CreatureParts, FS_Subset
  <1>2. b \in K[{}]
    <2>1. Owed({}) = NoDebt
      BY DEF Owed, NoDebt
    <2>2. AllFit(b, Owed({}))
      BY <2>1, SoundIsFit
    <2> QED
      BY <1>1, <2>2, TendedSelf DEF Clearing
  <1>3. ASSUME NEW T \in SUBSET S, T # {}, NEW d \in K[T \ {Pick(T)}]
        PROVE  UnrefLast(d, Pick(T)) \in K[T]
    <2>1. PICK c \in T : c = Pick(T)
      BY <1>3, PickIn
    <2>2. PICK U : U = T \ {c}
      OBVIOUS
    <2>3. U \in SUBSET S /\ c \notin U /\ U \cup {c} = T /\ c \in S /\ c \in Player
      BY <1>1, <2>2
    <2>4. d \in Books /\ Clearing(b, m, U, d)
      BY <1>3, <2>1, <2>2, <2>3
    <2>5. PICK y : y = UnrefLast(d, c)
      OBVIOUS
    <2>6. Clearing(b, m, U \cup {c}, y)
      BY <2>3, <2>4, <2>5, ClearingStep
    <2>7. y \in Books
      BY <2>6 DEF Clearing, AllFit
    <2> QED
      BY <2>1, <2>3, <2>5, <2>6, <2>7
  <1>4. Cleared(b, S) \in K[S]
    <2>1. \A T \in SUBSET S : K[T] \subseteq Books
      OBVIOUS
    <2> HIDE DEF K
    <2> QED
      BY <1>1, <1>2, <1>3, <2>1, ClearedLoop
  <1> QED
    BY <1>4

LEMMA ClearTargetsEffect ==
    ASSUME NEW b, Intact(b), NEW m \in Monster, Here(b, m), NEW y, y = ClearTargetList(b, m)
    PROVE  /\ Intact(y) /\ Tended(b, y, m) /\ y.cr[m].targetList = {}
           /\ y.cr[m].creatureCheck = b.cr[m].creatureCheck /\ (m \in y.dazed <=> m \in b.dazed)
  <1>1. PICK S : S = b.cr[m].targetList
    OBVIOUS
  <1>2. PICK d : d = Cleared(b, S)
    OBVIOUS
  <1>3. Clearing(b, m, S, d)
    BY <1>1, <1>2, ClearLoop
  <1>4. y = Retargeted(d, m, {})
    BY <1>1, <1>2, Zenon DEF ClearTargetList, Retargeted, Cleared
  <1> QED
    BY <1>1, <1>3, <1>4, ClearedFit

-----------------------------------------------------------------------------
(***************************************************************************)
(* A monster finds somebody, loses somebody, falls asleep.                 *)
(***************************************************************************)
LEMMA SleepEffect ==
    ASSUME NEW b, Intact(b), NEW m \in Monster, Here(b, m), NEW y, y = RemoveCreatureCheck(ClearTargetList(b, m), m)
    PROVE  /\ Intact(y) /\ Tended(b, y, m) /\ y.cr[m].targetList = {} /\ ~ y.cr[m].creatureCheck
           /\ m \in y.dazed <=> m \in b.dazed
  <1>1. PICK d : d = ClearTargetList(b, m)
    OBVIOUS
  <1>0. m \in Creature
    BY CreatureParts
  <1>2. y = RemoveCreatureCheck(d, m) /\ m \in Creature
    BY <1>0, <1>1
  <1>3. Intact(d) /\ Tended(b, d, m) /\ d.cr[m].targetList = {} /\ (m \in d.dazed <=> m \in b.dazed)
    BY <1>1, ClearTargetsEffect
  <1>4. Here(d, m)
    BY <1>2, <1>3 DEF Tended, Stays
  <1>5. Intact(y) /\ Tended(d, y, m) /\ ~ y.cr[m].creatureCheck /\ y.cr[m].targetList = {} /\ y.dazed = d.dazed
    BY <1>0, <1>2, <1>3, <1>4, RemoveCheckEffect
  <1>6. Tended(b, y, m)
    BY <1>2, <1>3, <1>5, TendedTrans
  <1> QED
    BY <1>3, <1>5, <1>6

LEMMA UpdateIdleEffect ==
    ASSUME NEW b, Intact(b), NEW m \in Monster, Here(b, m), NEW y, y = UpdateIdleStatus(b, m)
    PROVE  /\ Intact(y) /\ Tended(b, y, m) /\ y.cr[m].targetList = b.cr[m].targetList /\ (m \in y.dazed <=> m \in b.dazed)
           /\ b.cr[m].alive /\ ~ IsIdle(b, m) => y.cr[m].creatureCheck
           /\ ~ b.cr[m].alive => y.cr[m].creatureCheck = b.cr[m].creatureCheck
  <1>1. b \in Books /\ m \in Creature
    BY CreatureParts DEF Intact
  <1>2. CASE ~ b.cr[m].alive
    <2>1. y = b
      BY <1>2 DEF UpdateIdleStatus, SetIdle
    <2> QED
      BY <1>1, <1>2, <2>1, TendedSelf
  <1>3. CASE b.cr[m].alive /\ ~ IsIdle(b, m)
    <2>1. y = AddCreatureCheck(b, m)
      BY <1>3 DEF UpdateIdleStatus, SetIdle
    <2> QED
      BY <1>1, <1>3, <2>1, AddCheckEffect
  <1>4. CASE b.cr[m].alive /\ IsIdle(b, m)
    <2>1. y = RemoveCreatureCheck(ClearTargetList(b, m), m)
      BY <1>4 DEF UpdateIdleStatus, SetIdle
    <2>2. b.cr[m].targetList = {}
      BY <1>4 DEF IsIdle
    <2> QED
      BY <1>1, <1>4, <2>1, <2>2, SleepEffect
  <1> QED
    BY <1>2, <1>3, <1>4

LEMMA FoundEffect ==
    ASSUME NEW b, Intact(b), NEW m \in Monster, Here(b, m), NEW c \in Creature, Here(b, c),
           NEW y, y = OnCreatureFound(b, m, c)
    PROVE  /\ Intact(y) /\ Tended(b, y, m) /\ (m \in y.dazed <=> m \in b.dazed)
           /\ y.cr[m].targetList = b.cr[m].targetList \cup (IF IsOpponent(b, c) THEN {c} ELSE {})
           /\ b.cr[m].alive /\ (b.cr[m].master # None \/ y.cr[m].targetList # {}) => y.cr[m].creatureCheck
           /\ ~ b.cr[m].alive => y.cr[m].creatureCheck = b.cr[m].creatureCheck
  <1>1. b \in Books /\ m \in Creature
    BY CreatureParts DEF Intact
  <1>2. PICK d : d = IF IsOpponent(b, c) THEN AddTarget(b, m, c) ELSE b
    OBVIOUS
  <1>3. y = UpdateIdleStatus(d, m)
    BY <1>2 DEF OnCreatureFound
  <1>4. /\ Intact(d) /\ Tended(b, d, m) /\ (m \in d.dazed <=> m \in b.dazed)
        /\ d.cr[m].targetList = b.cr[m].targetList \cup (IF IsOpponent(b, c) THEN {c} ELSE {})
        /\ d.cr[m].creatureCheck = b.cr[m].creatureCheck
    <2>1. CASE IsOpponent(b, c)
      <3>1. d = AddTarget(b, m, c) /\ c \in Player
        BY <1>2, <2>1 DEF IsOpponent
      <3> QED
        BY <2>1, <3>1, AddTargetEffect
    <2>2. CASE ~ IsOpponent(b, c)
      BY <1>1, <1>2, <2>2, TendedSelf
    <2> QED
      BY <2>1, <2>2
  <1>5. Here(d, m) /\ d.cr[m].alive = b.cr[m].alive /\ d.cr[m].master = b.cr[m].master
    BY <1>1, <1>4 DEF Tended, Stays
  <1>6. /\ Intact(y) /\ Tended(d, y, m) /\ y.cr[m].targetList = d.cr[m].targetList /\ (m \in y.dazed <=> m \in d.dazed)
        /\ d.cr[m].alive /\ ~ IsIdle(d, m) => y.cr[m].creatureCheck
        /\ ~ d.cr[m].alive => y.cr[m].creatureCheck = d.cr[m].creatureCheck
    BY <1>3, <1>4, <1>5, UpdateIdleEffect
  <1>7. Tended(b, y, m)
    BY <1>1, <1>4, <1>6, TendedTrans
  <1> QED
    BY <1>4, <1>5, <1>6, <1>7 DEF IsIdle

\* Whoever is removed from the list of targets.
LEMMA GoneTarget ==
    ASSUME NEW b, Intact(b), NEW m \in Monster, Here(b, m), NEW c \in Creature, NEW y, y = RemoveTarget(b, m, c)
    PROVE  /\ Intact(y) /\ Tended(b, y, m)
           /\ y.cr[m].targetList = b.cr[m].targetList \ {c} /\ y.cr[m].creatureCheck = b.cr[m].creatureCheck
           /\ m \in y.dazed <=> m \in b.dazed
  <1>1. b \in Books /\ m \in Creature
    BY CreatureParts DEF Intact
  <1>2. CASE c \in Player
    BY <1>2, RemoveTargetEffect
  <1>3. CASE c \notin Player
    <2>1. c \notin b.cr[m].targetList
      BY <1>1, <1>3, ObjectParts
    <2>2. y = b
      BY <2>1 DEF RemoveTarget
    <2> QED
      BY <1>1, <2>1, <2>2, TendedSelf
  <1> QED
    BY <1>2, <1>3

LEMMA LeaveEffect ==
    ASSUME NEW b, Intact(b), NEW m \in Monster, Here(b, m), NEW c \in Creature,
           NEW y, y = OnCreatureLeave(b, m, c)
    PROVE  /\ Intact(y) /\ Tended(b, y, m) /\ (m \in y.dazed <=> m \in b.dazed)
           /\ y.cr[m].targetList \in {b.cr[m].targetList, b.cr[m].targetList \ {c}}
           /\ IsBusy(y, m) => y.cr[m].creatureCheck \/ (IsBusy(b, m) /\ ~ b.cr[m].creatureCheck)
  <1>1. b \in Books /\ m \in Creature
    BY CreatureParts DEF Intact
  <1>2. CASE ~ IsOpponent(b, c)
    <2>1. y = b
      BY <1>2 DEF OnCreatureLeave
    <2> QED
      BY <1>1, <2>1, TendedSelf
  <1>3. CASE IsOpponent(b, c)
    <2>1. PICK d : d = RemoveTarget(b, m, c)
      OBVIOUS
    <2>2. /\ Intact(d) /\ Tended(b, d, m)
          /\ d.cr[m].targetList = b.cr[m].targetList \ {c} /\ d.cr[m].creatureCheck = b.cr[m].creatureCheck
          /\ m \in d.dazed <=> m \in b.dazed
      BY <2>1, GoneTarget
    <2>3. Here(d, m) /\ d.cr[m].alive = b.cr[m].alive /\ d.cr[m].master = b.cr[m].master
      BY <1>1, <2>2 DEF Tended, Stays
    <2>4. y = IF d.cr[m].targetList = {} THEN UpdateIdleStatus(d, m) ELSE d
      BY <1>3, <2>1 DEF OnCreatureLeave, SleepAlone
    <2>5. CASE d.cr[m].targetList # {}
      <3>1. y = d
        BY <2>4, <2>5
      <3> QED
        BY <2>2, <2>3, <2>5, <3>1 DEF IsBusy
    <2>6. CASE d.cr[m].targetList = {}
      <3>1. y = UpdateIdleStatus(d, m)
        BY <2>4, <2>6
      <3>2. /\ Intact(y) /\ Tended(d, y, m) /\ y.cr[m].targetList = d.cr[m].targetList /\ (m \in y.dazed <=> m \in d.dazed)
            /\ d.cr[m].alive /\ ~ IsIdle(d, m) => y.cr[m].creatureCheck
            /\ ~ d.cr[m].alive => y.cr[m].creatureCheck = d.cr[m].creatureCheck
        BY <2>2, <2>3, <3>1, UpdateIdleEffect
      <3>3. Tended(b, y, m) /\ Stays(d, y, m)
        <4>1. Tended(b, y, m)
          BY <1>1, <2>2, <3>2, TendedTrans
        <4> QED
          BY <1>1, <3>2, <4>1 DEF Tended
      <3>4. IsBusy(y, m) => y.cr[m].creatureCheck \/ (IsBusy(b, m) /\ ~ b.cr[m].creatureCheck)
        BY <2>2, <2>3, <2>6, <3>2, <3>3 DEF IsBusy, IsIdle, Stays
      <3> QED
        BY <2>2, <3>2, <3>3, <3>4
    <2> QED
      BY <2>5, <2>6
  <1> QED
    BY <1>2, <1>3

\* What a monster must know before it looks whether it is idle.
Aware(b, m) ==
    Here(b, m) => /\ Looks(b, m, None, b.cr[m].attackedCreature) /\ Looks(b, m, None, b.cr[m].followCreature)
                  /\ m \notin b.dazed => Knows(b, m, None) /\ (~ b.cr[m].alive => b.cr[m].creatureCheck)

LEMMA TendedSees ==
    ASSUME NEW b, NEW y, NEW k, Tended(b, y, k), NEW m \in Creature, Here(b, m)
    PROVE  /\ y.cr[m].attackedCreature = b.cr[m].attackedCreature /\ y.cr[m].followCreature = b.cr[m].followCreature
           /\ y.cr[m].alive = b.cr[m].alive /\ y.cr[m].master = b.cr[m].master /\ Here(y, m)
           /\ \A e, c : Looks(b, m, e, c) => Looks(y, m, e, c)
           /\ \A p \in Player : Here(y, p) /\ y.cr[p].client /\ Sees(y, m, p) => Here(b, p) /\ b.cr[p].client /\ Sees(b, m, p)
           /\ \A p \in Creature : Here(b, p) => Here(y, p) /\ y.cr[p].client = b.cr[p].client /\ (Sees(b, m, p) <=> Sees(y, m, p))
  <1>1. \A x \in Creature : Stays(b, y, x) /\ SameMind(b, y, x)
    BY DEF Tended
  <1>2. \A c \in Creature : Here(b, c) => Here(y, c) /\ (Sees(b, m, c) <=> Sees(y, m, c))
    BY <1>1 DEF Stays, Sees
  <1>3. \A e, c : Looks(b, m, e, c) => Looks(y, m, e, c)
    BY <1>2 DEF Looks
  <1>4. \A p \in Player : Here(y, p) /\ y.cr[p].client /\ Sees(y, m, p) => Here(b, p) /\ b.cr[p].client /\ Sees(b, m, p)
    BY <1>1, <1>2, CreatureParts DEF Stays
  <1>5. Stays(b, y, m) /\ SameMind(b, y, m)
    BY <1>1
  <1>6. \A p \in Creature : Here(b, p) => Here(y, p) /\ y.cr[p].client = b.cr[p].client /\ (Sees(b, m, p) <=> Sees(y, m, p))
    BY <1>1, <1>2 DEF Stays
  <1> QED
    BY <1>3, <1>4, <1>5, <1>6 DEF Stays, SameMind

LEMMA UpdateAware ==
    ASSUME NEW b, Intact(b), NEW m \in Monster, Here(b, m), Aware(b, m), NEW y, y = UpdateIdleStatus(b, m)
    PROVE  Kept(b, y, m) /\ Dutiful(y, m)
  <1>1. m \in Creature
    BY CreatureParts
  <1>2. /\ Intact(y) /\ Tended(b, y, m) /\ y.cr[m].targetList = b.cr[m].targetList /\ (m \in y.dazed <=> m \in b.dazed)
        /\ b.cr[m].alive /\ ~ IsIdle(b, m) => y.cr[m].creatureCheck
        /\ ~ b.cr[m].alive => y.cr[m].creatureCheck = b.cr[m].creatureCheck
    BY UpdateIdleEffect
  <1>3. /\ y.cr[m].attackedCreature = b.cr[m].attackedCreature /\ y.cr[m].followCreature = b.cr[m].followCreature
        /\ y.cr[m].alive = b.cr[m].alive /\ y.cr[m].master = b.cr[m].master /\ Here(y, m)
        /\ \A e, c : Looks(b, m, e, c) => Looks(y, m, e, c)
        /\ \A p \in Player : Here(y, p) /\ y.cr[p].client /\ Sees(y, m, p) => Here(b, p) /\ b.cr[p].client /\ Sees(b, m, p)
    BY <1>1, <1>2, TendedSees
  <1>4. Looks(y, m, None, y.cr[m].attackedCreature) /\ Looks(y, m, None, y.cr[m].followCreature)
    BY <1>3 DEF Aware
  <1>5. ASSUME m \notin y.dazed
        PROVE  Knows(y, m, None) /\ (IsBusy(y, m) => y.cr[m].creatureCheck)
    <2>1. Knows(b, m, None) /\ (~ b.cr[m].alive => b.cr[m].creatureCheck)
      BY <1>2, <1>5 DEF Aware
    <2>2. Knows(y, m, None)
      BY <1>2, <1>3, <2>1 DEF Knows
    <2>3. IsBusy(y, m) => y.cr[m].creatureCheck
      BY <1>2, <1>3, <2>1 DEF IsBusy, IsIdle
    <2> QED
      BY <2>2, <2>3
  <1> QED
    BY <1>2, <1>4, <1>5, TendedKept DEF Dutiful, Half

\* A creature that comes into sight.
LEMMA FoundGood ==
    ASSUME NEW b, Intact(b), NEW m \in Monster, Here(b, m), NEW c \in Creature, Here(b, c), Sees(b, m, c), m # c,
           Half(b, m, c), NEW y, y = OnCreatureFound(b, m, c)
    PROVE  Kept(b, y, m) /\ Dutiful(y, m)
  <1>1. m \in Creature
    BY CreatureParts
  <1>2. /\ Intact(y) /\ Tended(b, y, m) /\ (m \in y.dazed <=> m \in b.dazed)
        /\ y.cr[m].targetList = b.cr[m].targetList \cup (IF IsOpponent(b, c) THEN {c} ELSE {})
        /\ b.cr[m].alive /\ (b.cr[m].master # None \/ y.cr[m].targetList # {}) => y.cr[m].creatureCheck
        /\ ~ b.cr[m].alive => y.cr[m].creatureCheck = b.cr[m].creatureCheck
    BY FoundEffect
  <1>3. /\ y.cr[m].attackedCreature = b.cr[m].attackedCreature /\ y.cr[m].followCreature = b.cr[m].followCreature
        /\ y.cr[m].alive = b.cr[m].alive /\ y.cr[m].master = b.cr[m].master /\ Here(y, m)
        /\ \A e, x : Looks(b, m, e, x) => Looks(y, m, e, x)
        /\ \A p \in Player : Here(y, p) /\ y.cr[p].client /\ Sees(y, m, p) => Here(b, p) /\ b.cr[p].client /\ Sees(b, m, p)
    BY <1>1, <1>2, TendedSees
  <1>4. \A x : Looks(b, m, c, x) => Looks(b, m, None, x)
    BY DEF Looks
  <1>5. Looks(y, m, None, y.cr[m].attackedCreature) /\ Looks(y, m, None, y.cr[m].followCreature)
    BY <1>3, <1>4 DEF Half
  <1>6. ASSUME m \notin y.dazed
        PROVE  Knows(y, m, None) /\ (IsBusy(y, m) => y.cr[m].creatureCheck)
    <2>1. Knows(b, m, c) /\ (IsBusy(b, m) => b.cr[m].creatureCheck)
      BY <1>2, <1>6 DEF Half
    <2>2. Knows(y, m, None)
      BY <1>2, <1>3, <2>1 DEF Knows, IsOpponent
    <2>3. IsBusy(y, m) => y.cr[m].creatureCheck
      BY <1>2, <1>3, <2>1 DEF IsBusy
    <2> QED
      BY <2>2, <2>3
  <1> QED
    BY <1>2, <1>5, <1>6, TendedKept DEF Dutiful, Half

\* A creature that goes out of sight, or out of the world.
LEMMA LeaveHalf ==
    ASSUME NEW b, Intact(b), NEW m \in Monster, Here(b, m), NEW c \in Creature,
           Half(b, m, c), NEW y, y = OnCreatureLeave(b, m, c)
    PROVE  Kept(b, y, m) /\ Half(y, m, c) /\ SameMind(b, y, m)
  <1>1. m \in Creature
    BY CreatureParts
  <1>2. /\ Intact(y) /\ Tended(b, y, m) /\ (m \in y.dazed <=> m \in b.dazed)
        /\ y.cr[m].targetList \in {b.cr[m].targetList, b.cr[m].targetList \ {c}}
        /\ IsBusy(y, m) => y.cr[m].creatureCheck \/ (IsBusy(b, m) /\ ~ b.cr[m].creatureCheck)
    BY LeaveEffect
  <1>3. /\ y.cr[m].attackedCreature = b.cr[m].attackedCreature /\ y.cr[m].followCreature = b.cr[m].followCreature
        /\ y.cr[m].alive = b.cr[m].alive /\ y.cr[m].master = b.cr[m].master /\ Here(y, m)
        /\ \A e, x : Looks(b, m, e, x) => Looks(y, m, e, x)
        /\ \A p \in Player : Here(y, p) /\ y.cr[p].client /\ Sees(y, m, p) => Here(b, p) /\ b.cr[p].client /\ Sees(b, m, p)
    BY <1>1, <1>2, TendedSees
  <1>5. Looks(y, m, c, y.cr[m].attackedCreature) /\ Looks(y, m, c, y.cr[m].followCreature)
    BY <1>3 DEF Half
  <1>6. ASSUME m \notin y.dazed
        PROVE  Knows(y, m, c) /\ (IsBusy(y, m) => y.cr[m].creatureCheck)
    <2>1. Knows(b, m, c) /\ (IsBusy(b, m) => b.cr[m].creatureCheck)
      BY <1>2, <1>6 DEF Half
    <2>2. Knows(y, m, c)
      BY <1>2, <1>3, <2>1 DEF Knows
    <2> QED
      BY <1>2, <2>1, <2>2
  <1> QED
    BY <1>1, <1>2, <1>5, <1>6, TendedKept DEF Half, Tended

-----------------------------------------------------------------------------
(***************************************************************************)
(* UpdateTargetList.                                                       *)
(***************************************************************************)
\* UpdateTargetList: the targets out of sight have been forgotten up to T, the creatures
\* in sight found up to T.
Forgetting(b, m, T, d) ==
    /\ Intact(d) /\ Tended(b, d, m) /\ (m \in d.dazed <=> m \in b.dazed)
    /\ d.cr[m].creatureCheck = b.cr[m].creatureCheck
Finding(b, m, T, d) ==
    /\ Intact(d) /\ Tended(b, d, m) /\ (m \in d.dazed <=> m \in b.dazed)
    /\ \A p \in Player : (p \in b.cr[m].targetList \/ (p \in T /\ IsOpponent(b, p))) => p \in d.cr[m].targetList
    /\ ~ b.cr[m].alive => d.cr[m].creatureCheck = b.cr[m].creatureCheck

LEMMA ForgetLoop ==
    ASSUME NEW b, Intact(b), NEW m \in Monster, Here(b, m), NEW S \in SUBSET Creature
    PROVE  Forgetting(b, m, S, Forgotten(m, b, S))
  <1> DEFINE K == [T \in SUBSET S |-> {d \in Books : Forgetting(b, m, T, d)}]
  <1>1. b \in Books /\ m \in Creature /\ IsFiniteSet(S)
    BY CreatureParts, FS_Subset DEF Intact
  <1>2. b \in K[{}]
    BY <1>1, TendedSelf DEF Forgetting
  <1>3. ASSUME NEW T \in SUBSET S, T # {}, NEW d \in K[T \ {Pick(T)}]
        PROVE  RemoveTarget(d, m, Pick(T)) \in K[T]
    <2>1. PICK c \in T : c = Pick(T)
      BY <1>3, PickIn
    <2>2. PICK U : U = T \ {c}
      OBVIOUS
    <2>3. U \in SUBSET S /\ c \in Creature
      BY <1>1, <2>2
    <2>4. d \in Books /\ Forgetting(b, m, U, d)
      BY <1>3, <2>1, <2>2, <2>3
    <2>5. PICK y : y = RemoveTarget(d, m, c)
      OBVIOUS
    <2>6. Intact(d) /\ Here(d, m)
      BY <1>1, <2>4 DEF Forgetting, Tended, Stays
    <2>7. /\ Intact(y) /\ Tended(d, y, m) /\ y.cr[m].creatureCheck = d.cr[m].creatureCheck
          /\ m \in y.dazed <=> m \in d.dazed
      BY <2>3, <2>5, <2>6, GoneTarget
    <2>8. Tended(b, y, m)
      BY <1>1, <2>4, <2>7, TendedTrans DEF Forgetting
    <2>9. Forgetting(b, m, T, y) /\ y \in Books
      BY <2>4, <2>7, <2>8 DEF Forgetting, Intact
    <2> QED
      BY <2>1, <2>5, <2>9
  <1>4. Forgotten(m, b, S) \in K[S]
    <2>1. \A T \in SUBSET S : K[T] \subseteq Books
      OBVIOUS
    <2> HIDE DEF K
    <2> QED
      BY <1>1, <1>2, <1>3, <2>1, Forgot
  <1> QED
    BY <1>4

LEMMA FindLoop ==
    ASSUME NEW b, Intact(b), NEW m \in Monster, Here(b, m), NEW S \in SUBSET Creature, \A c \in S : Here(b, c)
    PROVE  Finding(b, m, S, FoundAll(m, b, S))
  <1> DEFINE K == [T \in SUBSET S |-> {d \in Books : Finding(b, m, T, d)}]
  <1>1. b \in Books /\ m \in Creature /\ IsFiniteSet(S)
    BY CreatureParts, FS_Subset DEF Intact
  <1>2. b \in K[{}]
    BY <1>1, TendedSelf DEF Finding
  <1>3. ASSUME NEW T \in SUBSET S, T # {}, NEW d \in K[T \ {Pick(T)}]
        PROVE  OnCreatureFound(d, m, Pick(T)) \in K[T]
    <2>1. PICK c \in T : c = Pick(T)
      BY <1>3, PickIn
    <2>2. PICK U : U = T \ {c}
      OBVIOUS
    <2>3. U \in SUBSET S /\ c \in Creature /\ Here(b, c) /\ T = U \cup {c}
      BY <1>1, <2>2
    <2>4. d \in Books /\ Finding(b, m, U, d)
      BY <1>3, <2>1, <2>2, <2>3
    <2>5. PICK y : y = OnCreatureFound(d, m, c)
      OBVIOUS
    <2>6. /\ Intact(d) /\ Here(d, m) /\ Here(d, c) /\ d.cr[c].client = b.cr[c].client
          /\ d.cr[m].alive = b.cr[m].alive
      BY <1>1, <2>3, <2>4 DEF Finding, Tended, Stays
    <2>7. /\ Intact(y) /\ Tended(d, y, m) /\ (m \in y.dazed <=> m \in d.dazed)
          /\ y.cr[m].targetList = d.cr[m].targetList \cup (IF IsOpponent(d, c) THEN {c} ELSE {})
          /\ ~ d.cr[m].alive => y.cr[m].creatureCheck = d.cr[m].creatureCheck
      BY <2>3, <2>5, <2>6, FoundEffect
    <2>8. Tended(b, y, m)
      BY <1>1, <2>4, <2>7, TendedTrans DEF Finding
    <2>9. IsOpponent(b, c) <=> IsOpponent(d, c)
      BY <2>6 DEF IsOpponent
    <2>10. \A p \in Player : (p \in b.cr[m].targetList \/ (p \in T /\ IsOpponent(b, p))) => p \in y.cr[m].targetList
      BY <2>3, <2>4, <2>7, <2>9 DEF Finding
    <2>11. Finding(b, m, T, y) /\ y \in Books
      BY <2>4, <2>6, <2>7, <2>8, <2>10 DEF Finding, Intact
    <2> QED
      BY <2>1, <2>5, <2>11
  <1>4. FoundAll(m, b, S) \in K[S]
    <2>1. \A T \in SUBSET S : K[T] \subseteq Books
      OBVIOUS
    <2> HIDE DEF K
    <2> QED
      BY <1>1, <1>2, <1>3, <2>1, Found
  <1> QED
    BY <1>4

\* Who is overlooked no more.
Awoken(b, D) == [b EXCEPT !.dazed = D]
LEMMA AwokenSound ==
    ASSUME NEW b, Intact(b), NEW D \in SUBSET Monster, NEW y, y = Awoken(b, D)
    PROVE  Intact(y) /\ y.cr = b.cr /\ y.rel = b.rel /\ y.tasks = b.tasks /\ y.dazed = D
  <1>1. b \in Books
    BY DEF Intact
  <1>2. y \in Books /\ y.cr = b.cr /\ y.rel = b.rel /\ y.tasks = b.tasks /\ y.dazed = D
    BY <1>1 DEF Awoken, Books
  <1>3. \A x \in Creature : HeldIn(y, x) = HeldIn(b, x)
    BY <1>2, HeldKept
  <1>4. \A z \in Creature : Here(b, z) => Here(y, z)
    BY <1>2 DEF Here
  <1>5. \A x \in Creature : Fit(y, x, 0)
    BY <1>1, <1>2, <1>3, <1>4, FitKept DEF Intact
  <1> QED
    BY <1>2, <1>5 DEF Intact

LEMMA UpdateTargetsEffect ==
    ASSUME NEW b, Intact(b), NEW m \in Monster, Here(b, m), NEW y, y = UpdateTargetList(b, m)
    PROVE  /\ Intact(y) /\ Tended(b, y, m)
           /\ \A p \in Player : Here(b, p) /\ b.cr[p].client /\ Sees(b, m, p) => p \in y.cr[m].targetList
           /\ b.cr[m].alive => m \notin y.dazed
           /\ ~ b.cr[m].alive => y.cr[m].creatureCheck = b.cr[m].creatureCheck /\ (m \in y.dazed <=> m \in b.dazed)
  <1>1. b \in Books /\ m \in Creature
    BY CreatureParts DEF Intact
  <1>2. PICK S : S = {c \in b.cr[m].targetList : ~Sees(b, m, c)}
    OBVIOUS
  <1>3. S \in SUBSET Creature
    BY <1>1, <1>2, ObjectParts, CreatureParts
  <1>4. PICK k : k = Forgotten(m, b, S)
    OBVIOUS
  <1>5. Forgetting(b, m, S, k)
    BY <1>3, <1>4, ForgetLoop
  <1>6. PICK I : I = {c \in Creature \ {m} : Here(b, c) /\ Sees(b, m, c)}
    OBVIOUS
  <1>7. PICK f : f = FoundAll(m, k, I)
    OBVIOUS
  <1>8. \A x \in Creature : Stays(b, k, x)
    BY <1>5 DEF Forgetting, Tended
  <1>9. Intact(k) /\ Here(k, m) /\ I \in SUBSET Creature /\ \A c \in I : Here(k, c)
    BY <1>1, <1>5, <1>6, <1>8 DEF Forgetting, Stays
  <1>10. Finding(k, m, I, f)
    BY <1>7, <1>9, FindLoop
  <1>11. PICK D : D = IF b.cr[m].alive THEN f.dazed \ {m} ELSE f.dazed
    OBVIOUS
  <1>12. y = Awoken(f, D)
    <2>1. f = FoldSet(LAMBDA c, d : OnCreatureFound(d, m, c), k, I)
      BY <1>7, Zenon DEF FoundAll
    <2>2. k = FoldSet(LAMBDA c, d : RemoveTarget(d, m, c), b, S)
      BY <1>4, Zenon DEF Forgotten
    <2>3. y = [f EXCEPT !.dazed = IF b.cr[m].alive THEN @ \ {m} ELSE @]
      BY <1>2, <1>6, <2>1, <2>2, Zenon DEF UpdateTargetList
    <2>4. [f EXCEPT !.dazed = IF b.cr[m].alive THEN @ \ {m} ELSE @] = [f EXCEPT !.dazed = IF b.cr[m].alive THEN f.dazed \ {m} ELSE f.dazed]
      BY <1>10 DEF Finding, Intact, Books
    <2> QED
      BY <1>11, <2>3, <2>4 DEF Awoken
  <1>13. Intact(f) /\ D \in SUBSET Monster
    BY <1>1, <1>10, <1>11, ObjectParts DEF Finding, Intact
  <1>14. Intact(y) /\ y.cr = f.cr /\ y.rel = f.rel /\ y.tasks = f.tasks /\ y.dazed = D
    BY <1>12, <1>13, AwokenSound
  <1>15. Tended(b, f, m)
    BY <1>1, <1>5, <1>10, TendedTrans DEF Forgetting, Finding
  <1>16. Tended(f, y, m)
    BY <1>11, <1>14 DEF Tended, Stays, SameMind, SameDuty, Here, Intact
  <1>17. Tended(b, y, m)
    BY <1>1, <1>15, <1>16, TendedTrans
  <1>18. ASSUME NEW p \in Player, Here(b, p), b.cr[p].client, Sees(b, m, p)
         PROVE  p \in y.cr[m].targetList
    <2>1. p \in I /\ p \in Creature
      BY <1>1, <1>6, <1>18, CreatureParts
    <2>2. IsOpponent(k, p)
      BY <1>8, <1>18, <2>1 DEF IsOpponent, Stays
    <2> QED
      BY <1>10, <1>14, <2>1, <2>2 DEF Finding
  <1>19. b.cr[m].alive => m \notin y.dazed
    BY <1>11, <1>14
  <1>20. ~ b.cr[m].alive => y.cr[m].creatureCheck = b.cr[m].creatureCheck /\ (m \in y.dazed <=> m \in b.dazed)
    <2>1. k.cr[m].alive = b.cr[m].alive
      BY <1>1, <1>8, <1>9 DEF Stays
    <2> QED
      BY <1>5, <1>10, <1>11, <1>14, <2>1 DEF Forgetting, Finding
  <1> QED
    BY <1>14, <1>17, <1>18, <1>19, <1>20

\* A monster that has looked around.
LEMMA LookAround ==
    ASSUME NEW b, Intact(b), NEW m \in Monster, Here(b, m),
           Looks(b, m, None, b.cr[m].attackedCreature), Looks(b, m, None, b.cr[m].followCreature),
           m \notin b.dazed /\ ~ b.cr[m].alive => b.cr[m].creatureCheck,
           NEW y, y = UpdateIdleStatus(UpdateTargetList(b, m), m)
    PROVE  Kept(b, y, m) /\ Dutiful(y, m)
  <1>1. m \in Creature
    BY CreatureParts
  <1>2. PICK d : d = UpdateTargetList(b, m)
    OBVIOUS
  <1>3. /\ Intact(d) /\ Tended(b, d, m)
        /\ \A p \in Player : Here(b, p) /\ b.cr[p].client /\ Sees(b, m, p) => p \in d.cr[m].targetList
        /\ b.cr[m].alive => m \notin d.dazed
        /\ ~ b.cr[m].alive => d.cr[m].creatureCheck = b.cr[m].creatureCheck /\ (m \in d.dazed <=> m \in b.dazed)
    BY <1>2, UpdateTargetsEffect
  <1>4. /\ d.cr[m].attackedCreature = b.cr[m].attackedCreature /\ d.cr[m].followCreature = b.cr[m].followCreature
        /\ d.cr[m].alive = b.cr[m].alive /\ d.cr[m].master = b.cr[m].master /\ Here(d, m)
        /\ \A e, x : Looks(b, m, e, x) => Looks(d, m, e, x)
        /\ \A p \in Player : Here(d, p) /\ d.cr[p].client /\ Sees(d, m, p) => Here(b, p) /\ b.cr[p].client /\ Sees(b, m, p)
    BY <1>1, <1>3, TendedSees
  <1>5. Aware(d, m)
    <2>1. Knows(d, m, None)
      BY <1>3, <1>4 DEF Knows
    <2> QED
      BY <1>3, <1>4, <2>1 DEF Aware
  <1>6. Kept(d, y, m) /\ Dutiful(y, m)
    BY <1>2, <1>3, <1>4, <1>5, UpdateAware
  <1>7. Kept(b, d, m)
    BY <1>3, TendedKept
  <1>8. Kept(b, y, m)
    BY <1>6, <1>7, KeptTrans
  <1> QED
    BY <1>6, <1>8

-----------------------------------------------------------------------------
(***************************************************************************)
(* Whom monsters attack and follow.                                        *)
(***************************************************************************)
\* What monsters are after has changed, and the tasks that they have put off.
Minded(o, r) ==
    /\ r \in Object /\ r.where = o.where /\ r.at = o.at /\ r.alive = o.alive /\ r.client = o.client
    /\ r.creatureCheck = o.creatureCheck /\ r.inCheckCreaturesVector = o.inCheckCreaturesVector
    /\ r.targetList = o.targetList /\ r.master = o.master /\ r.refs = o.refs

LEMMA MindedKept ==
    ASSUME NEW b, Intact(b), NEW y, y \in Books, y.rel = b.rel, y.dazed = b.dazed,
           \A x \in Creature : /\ Minded(b.cr[x], y.cr[x]) /\ Attentive(b, y, x)
                               /\ ~ Here(b, x) => y.cr[x] = b.cr[x]
    PROVE  Kept(b, y, None)
  <1>1. \A x \in Creature : Here(b, x) <=> Here(y, x)
    BY DEF Minded, Here
  <1>2. \A x \in Creature : HeldIn(y, x) = HeldIn(b, x)
    <2>1. \A x \in Creature : y.cr[x].targetList = b.cr[x].targetList
      BY DEF Minded
    <2> QED
      BY <2>1, HeldKept, CreatureParts
  <1>3. ASSUME NEW x \in Creature
        PROVE  Fit(y, x, 0)
    <2>1. b \in Books /\ Fit(b, x, 0) /\ Minded(b.cr[x], y.cr[x]) /\ (Here(b, x) <=> Here(y, x))
      BY <1>1 DEF Intact
    <2>2. Holders(y, x) = Holders(b, x)
      BY <1>2, <2>1, HoldersSame DEF Minded
    <2>3. b.cr[x].master # None => Here(y, b.cr[x].master)
      BY <1>1, <2>1, ObjectParts, CreatureParts DEF Fit
    <2>4. y.cr[x].where = "new" => y.cr[x] = NewCreature
      BY <2>1 DEF Fit, Minded, Here
    <2> QED
      BY <2>1, <2>2, <2>3, <2>4 DEF Fit, Minded
  <1>4. \A x \in Creature : Stays(b, y, x) /\ SameDuty(b, y, x)
    BY <1>1 DEF Stays, SameDuty, Minded
  <1> QED
    BY <1>3, <1>4 DEF Kept, Intact

LEMMA MindedSame ==
    ASSUME NEW b \in Books, NEW x \in Creature
    PROVE  Minded(b.cr[x], b.cr[x]) /\ Attentive(b, b, x)
  BY ObjectParts DEF Minded, Attentive

LEMMA MasterIsHere ==
    ASSUME NEW b, Intact(b), NEW m, NEW s \in Summons(b, m), m # None
    PROVE  s \in Summon /\ s \in Creature /\ s \in Monster /\ Here(b, s) /\ Here(b, m)
  BY CreatureParts DEF Summons, Intact, Fit

After(o, c) == [o EXCEPT !.attackedCreature = c]
Behind(o, c) == [o EXCEPT !.followCreature = c]
LEMMA AfterParts ==
    ASSUME NEW o \in Object, NEW c \in Creature \cup {None}
    PROVE  /\ Minded(o, After(o, c)) /\ After(o, c).attackedCreature = c /\ After(o, c).followCreature = o.followCreature
           /\ Minded(o, Behind(o, c)) /\ Behind(o, c).followCreature = c /\ Behind(o, c).attackedCreature = o.attackedCreature
  BY DEF After, Behind, Object, Minded

\* What is said of the pointers of all creatures after an order is given.
Ordered(b, y, m, c) ==
    \A x \in Creature :
        /\ y.cr[x].attackedCreature \in {b.cr[x].attackedCreature, c, None}
        /\ y.cr[x].followCreature \in {b.cr[x].followCreature, c, None}
        /\ x # m => y.cr[x].followCreature = b.cr[x].followCreature

LEMMA SetAttackedEffect ==
    ASSUME NEW b, Intact(b), NEW m \in Monster, Here(b, m), NEW c, c = None \/ (c \in Creature /\ Here(b, c)),
           NEW y, y = SetAttackedCreature(b, m, c)
    PROVE  /\ Kept(b, y, None) /\ Ordered(b, y, m, c) /\ y.tasks = b.tasks /\ y.dazed = b.dazed
           /\ y.cr[m].attackedCreature = IF c = None \/ Sees(b, m, c) THEN c ELSE None
           /\ y.cr[m].followCreature = b.cr[m].followCreature
  <1>1. b \in Books /\ m \in Creature /\ m # None
    BY CreatureParts DEF Intact
  <1>2. PICK who : who = IF c = None \/ Sees(b, m, c) THEN {m} \cup Summons(b, m) ELSE {m}
    OBVIOUS
  <1>3. m \in who /\ \A x \in who : x \in Creature /\ Here(b, x)
    BY <1>1, <1>2, MasterIsHere
  <1>4. PICK a : a = [x \in Creature |-> IF c = None \/ Sees(b, x, c) THEN c ELSE None]
    OBVIOUS
  <1>5. PICK cr : cr = [x \in Creature |-> IF x \in who THEN After(b.cr[x], a[x]) ELSE b.cr[x]]
    OBVIOUS
  <1>6. y = [b EXCEPT !.cr = cr]
    <2>1. y = [b EXCEPT !.cr = [x \in Creature |-> IF x \in who THEN [b.cr[x] EXCEPT !.attackedCreature = IF c = None \/ Sees(b, x, c) THEN c ELSE None] ELSE b.cr[x]]]
      BY <1>1, <1>2 DEF SetAttackedCreature, Books
    <2>2. cr = [x \in Creature |-> IF x \in who THEN [b.cr[x] EXCEPT !.attackedCreature = IF c = None \/ Sees(b, x, c) THEN c ELSE None] ELSE b.cr[x]]
      BY <1>4, <1>5 DEF After
    <2> QED
      BY <2>1, <2>2
  <1>7. \A x \in Creature : a[x] \in Creature \cup {None} /\ a[x] \in {c, None} /\ (a[x] # None => a[x] = c /\ Sees(b, x, c))
    BY <1>4
  <1>8. ASSUME NEW x \in Creature
        PROVE  /\ Minded(b.cr[x], cr[x]) /\ cr[x] \in Object /\ (x \notin who => cr[x] = b.cr[x])
               /\ cr[x].followCreature = b.cr[x].followCreature
               /\ x \in who => cr[x].attackedCreature = a[x]
    <2>1. PICK o \in Object : o = b.cr[x]
      BY <1>1, ObjectParts
    <2>2. CASE x \in who
      <3>1. PICK z \in Creature \cup {None} : z = a[x]
        BY <1>7
      <3>2. cr[x] = After(o, z)
        BY <1>5, <2>1, <2>2, <3>1
      <3>3. Minded(o, cr[x]) /\ cr[x].attackedCreature = z /\ cr[x].followCreature = o.followCreature
        BY <3>2, AfterParts
      <3> QED
        BY <2>1, <2>2, <3>1, <3>3 DEF Minded
    <2>3. CASE x \notin who
      BY <1>1, <1>5, <2>1, <2>3, MindedSame
    <2> QED
      BY <2>2, <2>3
  <1>9. y \in Books /\ y.cr = cr /\ y.rel = b.rel /\ y.tasks = b.tasks /\ y.dazed = b.dazed
    <2>1. cr \in [Creature -> Object]
      BY <1>5, <1>8
    <2> QED
      BY <1>1, <1>6, <2>1 DEF Books
  <1>10. ASSUME NEW x \in Creature
         PROVE  /\ Minded(b.cr[x], y.cr[x]) /\ Attentive(b, y, x)
                /\ ~ Here(b, x) => y.cr[x] = b.cr[x]
    <2>1. Minded(b.cr[x], y.cr[x]) /\ (~ Here(b, x) => y.cr[x] = b.cr[x]) /\ y.cr[x].followCreature = b.cr[x].followCreature
      BY <1>3, <1>8, <1>9
    <2>2. Sees(b, x, c) /\ c \in Creature => Sees(y, x, c)
      BY <1>8, <1>9 DEF Sees, Minded
    <2>3. Here(b, c) /\ c \in Creature => Here(y, c)
      BY <1>8, <1>9 DEF Here, Minded
    <2>4. y.cr[x].attackedCreature \in {b.cr[x].attackedCreature, None} \/ InSight(y, x, y.cr[x].attackedCreature)
      BY <1>7, <1>8, <1>9, <2>2, <2>3 DEF InSight
    <2> QED
      BY <2>1, <2>4 DEF Attentive
  <1>11. Kept(b, y, None)
    BY <1>9, <1>10, MindedKept
  <1>12. Ordered(b, y, m, c)
    BY <1>7, <1>8, <1>9 DEF Ordered
  <1>13. y.cr[m].attackedCreature = IF c = None \/ Sees(b, m, c) THEN c ELSE None
    BY <1>1, <1>3, <1>4, <1>8, <1>9
  <1> QED
    BY <1>1, <1>8, <1>9, <1>11, <1>12, <1>13

LEMMA SetFollowEffect ==
    ASSUME NEW b, Intact(b), NEW m \in Monster, Here(b, m), NEW c, c = None \/ (c \in Creature /\ Here(b, c)),
           NEW y, y = SetFollowCreature(b, m, c)
    PROVE  /\ Kept(b, y, None) /\ Ordered(b, y, m, c) /\ y.tasks = b.tasks /\ y.dazed = b.dazed
           /\ y.cr[m].followCreature = IF c # None /\ Sees(b, m, c) THEN c ELSE None
           /\ \A x \in Creature : y.cr[x].attackedCreature = b.cr[x].attackedCreature
  <1>1. b \in Books /\ m \in Creature /\ m # None
    BY CreatureParts DEF Intact
  <1>2. PICK o \in Object : o = b.cr[m]
    BY <1>1, ObjectParts
  <1>3. PICK a : a = IF c # None /\ Sees(b, m, c) THEN c ELSE None
    OBVIOUS
  <1>4. a \in Creature \cup {None} /\ a \in {c, None} /\ (a # None => a = c /\ Sees(b, m, c))
    BY <1>3
  <1>5. PICK r : r = Behind(o, a)
    OBVIOUS
  <1>6. Minded(o, r) /\ r.followCreature = a /\ r.attackedCreature = o.attackedCreature /\ r \in Object
    BY <1>4, <1>5, AfterParts DEF Minded
  <1>7. y = With(b, m, r)
    BY <1>2, <1>3, <1>5 DEF With, SetFollowCreature, Behind
  <1>8. /\ y \in Books /\ y.cr[m] = r /\ \A x \in Creature \ {m} : y.cr[x] = b.cr[x]
        /\ y.rel = b.rel /\ y.tasks = b.tasks /\ y.dazed = b.dazed
    BY <1>1, <1>6, <1>7, WithEffect
  <1>9. \A x \in Creature : Minded(b.cr[x], y.cr[x])
    BY <1>1, <1>2, <1>6, <1>8, MindedSame
  <1>10. \A x \in Creature : Attentive(b, y, x)
    <2>1. Sees(b, m, c) /\ c \in Creature => Sees(y, m, c)
      BY <1>1, <1>9 DEF Sees, Minded
    <2>2. Here(b, c) /\ c \in Creature => Here(y, c)
      BY <1>9 DEF Here, Minded
    <2>3. y.cr[m].followCreature \in {b.cr[m].followCreature, None} \/ InSight(y, m, y.cr[m].followCreature)
      BY <1>4, <1>6, <1>8, <2>1, <2>2 DEF InSight
    <2> QED
      BY <1>2, <1>6, <1>8, <2>3 DEF Attentive
  <1>11. Kept(b, y, None)
    BY <1>8, <1>9, <1>10, MindedKept
  <1>12. Ordered(b, y, m, c)
    BY <1>2, <1>4, <1>6, <1>8 DEF Ordered
  <1> QED
    BY <1>2, <1>3, <1>6, <1>8, <1>11, <1>12

\* A task more, or less.
Tasked(b, S) == [b EXCEPT !.tasks = S]
LEMMA TaskedKept ==
    ASSUME NEW b, Intact(b), NEW S \in SUBSET Monster, NEW y, y = Tasked(b, S)
    PROVE  Kept(b, y, None) /\ y.cr = b.cr /\ y.dazed = b.dazed
  <1>1. b \in Books
    BY DEF Intact
  <1>2. y \in Books /\ y.cr = b.cr /\ y.rel = b.rel /\ y.dazed = b.dazed
    BY <1>1 DEF Tasked, Books
  <1>3. \A x \in Creature : Minded(b.cr[x], y.cr[x])
    BY <1>1, <1>2, MindedSame
  <1>4. \A x \in Creature : Attentive(b, y, x)
    BY <1>2 DEF Attentive
  <1> QED
    BY <1>2, <1>3, <1>4, MindedKept

LEMMA KeptHere ==
    ASSUME NEW b, NEW y, NEW m, Kept(b, y, m), NEW x \in Creature
    PROVE  /\ Here(b, x) <=> Here(y, x)
           /\ Here(b, x) => /\ y.cr[x].at = b.cr[x].at /\ y.cr[x].alive = b.cr[x].alive
                            /\ y.cr[x].client = b.cr[x].client /\ y.cr[x].master = b.cr[x].master
           /\ Here(b, x) => \A c \in Creature : Here(b, c) => (Sees(b, x, c) <=> Sees(y, x, c))
           /\ Intact(y) /\ y.rel = b.rel
  <1>1. \A z \in Creature : Stays(b, y, z)
    BY DEF Kept
  <1>2. Here(b, x) => \A c \in Creature : Here(b, c) => (Sees(b, x, c) <=> Sees(y, x, c))
    BY <1>1 DEF Stays, Sees
  <1> QED
    BY <1>1, <1>2 DEF Stays, Kept

-----------------------------------------------------------------------------
(***************************************************************************)
(* Somebody disappears, is chosen as a target, moves.                      *)
(***************************************************************************)
LEMMA OrderedSelf ==
    ASSUME NEW b, NEW m, NEW c
    PROVE  Ordered(b, b, m, c)
  BY DEF Ordered

LEMMA DisappearEffect ==
    ASSUME NEW b, Intact(b), NEW m \in Monster, Here(b, m), NEW c \in Creature,
           NEW y, y = OnCreatureDisappear(b, m, c)
    PROVE  /\ Kept(b, y, None) /\ Ordered(b, y, m, None) /\ y.dazed = b.dazed
           /\ y.cr[m].attackedCreature = IF b.cr[m].attackedCreature = c THEN None ELSE b.cr[m].attackedCreature
           /\ y.cr[m].followCreature = IF b.cr[m].followCreature = c THEN None ELSE b.cr[m].followCreature
  <1>1. m \in Creature /\ c # None
    BY CreatureParts
  <1>2. PICK d : d = StopAttack(b, m, c)
    OBVIOUS
  <1>3. y = StopFollow(d, m, c)
    BY <1>2 DEF OnCreatureDisappear
  <1>4. /\ Kept(b, d, None) /\ Ordered(b, d, m, None) /\ d.dazed = b.dazed
        /\ d.cr[m].attackedCreature = IF b.cr[m].attackedCreature = c THEN None ELSE b.cr[m].attackedCreature
        /\ d.cr[m].followCreature = b.cr[m].followCreature
    <2>1. CASE b.cr[m].attackedCreature = c
      <3>1. d = SetAttackedCreature(b, m, None)
        BY <1>2, <2>1 DEF StopAttack
      <3>2. /\ Kept(b, d, None) /\ Ordered(b, d, m, None) /\ d.dazed = b.dazed
            /\ d.cr[m].attackedCreature = None /\ d.cr[m].followCreature = b.cr[m].followCreature
        BY <3>1, SetAttackedEffect
      <3> QED
        BY <2>1, <3>2
    <2>2. CASE b.cr[m].attackedCreature # c
      <3>1. d = b
        BY <1>2, <2>2 DEF StopAttack
      <3> QED
        BY <2>2, <3>1, KeptSelf, OrderedSelf
    <2> QED
      BY <2>1, <2>2
  <1>5. Intact(d) /\ Here(d, m)
    BY <1>1, <1>4, KeptHere
  <1>6. /\ Kept(d, y, None) /\ Ordered(d, y, m, None) /\ y.dazed = d.dazed
        /\ y.cr[m].followCreature = IF d.cr[m].followCreature = c THEN None ELSE d.cr[m].followCreature
        /\ y.cr[m].attackedCreature = d.cr[m].attackedCreature
    <2>1. CASE d.cr[m].followCreature = c
      <3>1. y = SetFollowCreature(d, m, None)
        BY <1>3, <2>1 DEF StopFollow
      <3>2. /\ Kept(d, y, None) /\ Ordered(d, y, m, None) /\ y.dazed = d.dazed
            /\ y.cr[m].followCreature = None /\ \A x \in Creature : y.cr[x].attackedCreature = d.cr[x].attackedCreature
        BY <1>5, <3>1, SetFollowEffect
      <3> QED
        BY <1>1, <2>1, <3>2
    <2>2. CASE d.cr[m].followCreature # c
      <3>1. y = d
        BY <1>3, <2>2 DEF StopFollow
      <3> QED
        BY <1>5, <2>2, <3>1, KeptSelf, OrderedSelf
    <2> QED
      BY <2>1, <2>2
  <1>7. Kept(b, y, None)
    BY <1>4, <1>6, KeptTrans
  <1>8. Ordered(b, y, m, None)
    BY <1>4, <1>6 DEF Ordered
  <1> QED
    BY <1>4, <1>6, <1>7, <1>8

LEMMA SelectEffect ==
    ASSUME NEW b, Intact(b), NEW m \in Monster, Here(b, m), NEW c, NEW y, y = SelectTarget(b, m, c)
    PROVE  Kept(b, y, None)
  <1>1. b \in Books /\ m \in Creature
    BY CreatureParts DEF Intact
  <1>2. CASE ~ (IsTarget(b, c) /\ c \in b.cr[m].targetList)
    <2>1. y = b
      BY <1>2 DEF SelectTarget
    <2> QED
      BY <2>1, KeptSelf
  <1>3. CASE IsTarget(b, c) /\ c \in b.cr[m].targetList
    <2>1. c \in Creature /\ Here(b, c)
      BY <1>3, CreatureParts DEF IsTarget
    <2>2. PICK d : d = SetAttackedCreature(b, m, c)
      OBVIOUS
    <2>3. Kept(b, d, None) /\ d.tasks = b.tasks
      BY <2>1, <2>2, SetAttackedEffect
    <2>4. Intact(d) /\ d.tasks \subseteq Monster
      BY <1>1, <2>3, ObjectParts DEF Kept, Intact
    <2>5. PICK S \in SUBSET Monster : S = IF Sees(b, m, c) /\ b.cr[m].master = None THEN d.tasks \cup {m} ELSE d.tasks
      BY <2>4
    <2>6. PICK e : e = Tasked(d, S)
      OBVIOUS
    <2>7. Kept(d, e, None)
      BY <2>4, <2>6, TaskedKept
    <2>8. y = SetFollowCreature(e, m, c)
      <3>1. y = SetFollowCreature([d EXCEPT !.tasks = IF Sees(b, m, c) /\ b.cr[m].master = None THEN @ \cup {m} ELSE @], m, c)
        BY <1>3, <2>2, Zenon DEF SelectTarget
      <3>2. [d EXCEPT !.tasks = IF Sees(b, m, c) /\ b.cr[m].master = None THEN @ \cup {m} ELSE @] = e
        BY <2>4, <2>5, <2>6 DEF Tasked, Intact, Books
      <3> QED
        BY <3>1, <3>2
    <2>9. Intact(e) /\ Here(e, m) /\ Here(e, c)
      BY <1>1, <2>1, <2>3, <2>7, KeptHere
    <2>10. Kept(e, y, None)
      BY <2>1, <2>8, <2>9, SetFollowEffect
    <2>11. Kept(b, e, None)
      BY <2>3, <2>7, KeptTrans
    <2> QED
      BY <2>10, <2>11, KeptTrans
  <1> QED
    BY <1>2, <1>3

LEMMA LoseSightEffect ==
    ASSUME NEW b, Intact(b), NEW m \in Monster, Here(b, m), NEW c \in Creature, Half(b, m, c),
           NEW y, y = LoseSight(b, m, c)
    PROVE  /\ Kept(b, y, None)
           /\ Looks(y, m, None, y.cr[m].attackedCreature) /\ Looks(y, m, None, y.cr[m].followCreature)
  <1>1. b \in Books /\ m \in Creature /\ m # None
    BY CreatureParts DEF Intact
  <1>2. PICK f : f = b.cr[m].followCreature
    OBVIOUS
  <1>3. PICK a : a = b.cr[m].attackedCreature
    OBVIOUS
  <1>4. /\ f # None => f \in Creature /\ Here(b, f) /\ (c \notin {m, f} => Sees(b, m, f))
        /\ a # None => a \in Creature /\ Here(b, a) /\ (c \notin {m, a} => Sees(b, m, a))
    BY <1>2, <1>3 DEF Half, Looks
  <1>5. PICK d : d = LosePrey(b, m, c)
    OBVIOUS
  <1>6. /\ Kept(b, d, None) /\ d.cr[m].attackedCreature \in {a, None}
        /\ d.cr[m].followCreature \in {f, None} /\ (d.cr[m].followCreature # None => Sees(b, m, f))
    <2>1. CASE Lost(b, m, f, c)
      <3>1. d = OnCreatureDisappear(b, m, f) /\ f \in Creature
        BY <1>2, <1>4, <1>5, <2>1 DEF LosePrey, Lost
      <3>2. /\ Kept(b, d, None)
            /\ d.cr[m].attackedCreature = IF b.cr[m].attackedCreature = f THEN None ELSE b.cr[m].attackedCreature
            /\ d.cr[m].followCreature = IF b.cr[m].followCreature = f THEN None ELSE b.cr[m].followCreature
        BY <3>1, DisappearEffect
      <3> QED
        BY <1>2, <1>3, <3>2
    <2>2. CASE ~ Lost(b, m, f, c)
      <3>1. d = b
        BY <1>2, <1>5, <2>2 DEF LosePrey
      <3>2. f # None => Sees(b, m, f)
        BY <1>4, <2>2 DEF Lost
      <3> QED
        BY <1>2, <1>3, <3>1, <3>2, KeptSelf
    <2> QED
      BY <2>1, <2>2
  <1>7. Intact(d) /\ Here(d, m)
    BY <1>1, <1>6, KeptHere
  <1>8. PICK g : g = d.cr[m].attackedCreature
    OBVIOUS
  <1>9. g \in {a, None} /\ (g # None => g \in Creature /\ Here(d, g) /\ (Sees(b, m, g) <=> Sees(d, m, g)))
    BY <1>1, <1>4, <1>6, <1>8, KeptHere
  <1>10. y = LoseEnemy(d, m, c)
    BY <1>5 DEF LoseSight
  <1>11. /\ Kept(d, y, None) /\ y.cr[m].attackedCreature \in {g, None} /\ (y.cr[m].attackedCreature # None => Sees(b, m, g))
         /\ y.cr[m].followCreature \in {d.cr[m].followCreature, None}
    <2>1. CASE Lost(d, m, g, c)
      <3>1. y = OnCreatureDisappear(d, m, g) /\ g \in Creature
        BY <1>8, <1>9, <1>10, <2>1 DEF LoseEnemy, Lost
      <3>2. /\ Kept(d, y, None)
            /\ y.cr[m].attackedCreature = IF d.cr[m].attackedCreature = g THEN None ELSE d.cr[m].attackedCreature
            /\ y.cr[m].followCreature = IF d.cr[m].followCreature = g THEN None ELSE d.cr[m].followCreature
        BY <1>7, <3>1, DisappearEffect
      <3> QED
        BY <1>8, <3>2
    <2>2. CASE ~ Lost(d, m, g, c)
      <3>1. g # None => Sees(b, m, g)
        BY <1>4, <1>9, <2>2 DEF Lost
      <3>2. PICK S : S = IF g # None /\ c \in {m, g} THEN d.tasks \cup {m} ELSE d.tasks
        OBVIOUS
      <3>3. d \in Books /\ S \in SUBSET Monster
        BY <1>1, <1>7, <3>2, ObjectParts DEF Intact
      <3>4. y = Tasked(d, S)
        <4>1. CASE g # None /\ c \in {m, g}
          <5>1. y = [d EXCEPT !.tasks = @ \cup {m}]
            BY <1>8, <1>10, <2>2, <4>1 DEF LoseEnemy
          <5> QED
            BY <3>2, <3>3, <4>1, <5>1 DEF Tasked, Books
        <4>2. CASE ~ (g # None /\ c \in {m, g})
          <5>1. y = d
            BY <1>8, <1>10, <2>2, <4>2 DEF LoseEnemy
          <5> QED
            BY <3>2, <3>3, <4>2, <5>1 DEF Tasked, Books
        <4> QED
          BY <4>1, <4>2
      <3>5. Kept(d, y, None) /\ y.cr = d.cr
        BY <1>7, <3>3, <3>4, TaskedKept
      <3> QED
        BY <1>8, <3>1, <3>5
    <2> QED
      BY <2>1, <2>2
  <1>12. Kept(b, y, None)
    BY <1>6, <1>11, KeptTrans
  <1>13. ASSUME NEW x, x # None, x = f \/ x = a, Sees(b, m, x)
         PROVE  Looks(y, m, None, x)
    <2>1. x \in Creature /\ Here(b, x)
      BY <1>4, <1>13
    <2>2. Here(y, x) /\ Sees(y, m, x)
      BY <1>1, <1>12, <1>13, <2>1, KeptHere
    <2> QED
      BY <2>1, <2>2 DEF Looks
  <1>14. Looks(y, m, None, None)
    BY DEF Looks
  <1>15. Looks(y, m, None, y.cr[m].attackedCreature)
    <2>1. y.cr[m].attackedCreature # None => y.cr[m].attackedCreature = a /\ Sees(b, m, a)
      BY <1>9, <1>11
    <2> QED
      BY <1>13, <1>14, <2>1
  <1>16. Looks(y, m, None, y.cr[m].followCreature)
    <2>1. y.cr[m].followCreature # None => y.cr[m].followCreature = f /\ Sees(b, m, f)
      BY <1>6, <1>11
    <2> QED
      BY <1>13, <1>14, <2>1
  <1> QED
    BY <1>12, <1>15, <1>16

\* Somebody has moved, maybe the monster.
LEMMA MovedGood ==
    ASSUME NEW b, Intact(b), NEW m \in Monster, Here(b, m), NEW c \in Creature, Here(b, c), Half(b, m, c),
           NEW from, NEW to, from # to, b.cr[c].at = to, b.cr[m].at \in {from, to},
           NEW y, y = OnCreatureMove(b, m, c, from, to)
    PROVE  Kept(b, y, m) /\ Dutiful(y, m)
  <1>1. b \in Books /\ m \in Creature /\ m # None
    BY CreatureParts DEF Intact
  <1>2. PICK d : d = LoseSight(b, m, c)
    OBVIOUS
  <1>3. /\ Kept(b, d, None)
        /\ Looks(d, m, None, d.cr[m].attackedCreature) /\ Looks(d, m, None, d.cr[m].followCreature)
    BY <1>2, LoseSightEffect
  <1>4. Intact(d) /\ Here(d, m) /\ Here(d, c) /\ d.cr[c].at = to /\ d.cr[m].at = b.cr[m].at
    BY <1>1, <1>3, KeptHere
  <1>5. Half(d, m, c)
    BY <1>1, <1>3, KeptHalf
  <1>6. CASE c = m
    <2>1. y = UpdateIdleStatus(UpdateTargetList(d, m), m)
      BY <1>2, <1>6 DEF OnCreatureMove
    <2>2. m \notin d.dazed /\ ~ d.cr[m].alive => d.cr[m].creatureCheck
      BY <1>4, <1>5 DEF Half, IsBusy
    <2>3. Kept(d, y, m) /\ Dutiful(y, m)
      BY <1>3, <1>4, <2>1, <2>2, LookAround
    <2>4. Kept(b, y, m)
      BY <1>3, <2>3, KeptTrans
    <2> QED
      BY <2>3, <2>4
  <1>7. CASE c # m
    <2>1. PICK n : n = Notice(d, m, c, from, to)
      OBVIOUS
    <2>2. Kept(d, n, m) /\ Aware(n, m)
      <3>1. CASE d.cr[m].at = to
        <4>1. n = OnCreatureFound(d, m, c)
          BY <2>1, <3>1 DEF Notice
        <4>2. Sees(d, m, c)
          BY <1>4, <3>1 DEF Sees
        <4>3. Kept(d, n, m) /\ Dutiful(n, m)
          BY <1>4, <1>5, <1>7, <4>1, <4>2, FoundGood
        <4> QED
          BY <4>3 DEF Dutiful, Half, Aware, IsBusy
      <3>2. CASE d.cr[m].at # to
        <4>1. n = OnCreatureLeave(d, m, c)
          BY <1>4, <2>1, <3>2 DEF Notice
        <4>2. Kept(d, n, m) /\ Half(n, m, c) /\ SameMind(d, n, m)
          BY <1>4, <1>5, <4>1, LeaveHalf
        <4>3. /\ Here(n, m) /\ Here(n, c) /\ ~ Sees(n, m, c)
              /\ \A x \in Creature : Here(d, x) => Here(n, x) /\ (Sees(d, m, x) <=> Sees(n, m, x))
          BY <1>1, <1>4, <3>2, <4>2, KeptHere DEF Sees
        <4>4. Looks(n, m, None, n.cr[m].attackedCreature) /\ Looks(n, m, None, n.cr[m].followCreature)
          BY <1>3, <1>4, <4>2, <4>3 DEF SameMind, Looks
        <4>5. m \notin n.dazed => Knows(n, m, None) /\ (~ n.cr[m].alive => n.cr[m].creatureCheck)
          BY <1>1, <1>7, <4>2, <4>3 DEF Half, Knows, IsBusy
        <4> QED
          BY <4>2, <4>4, <4>5 DEF Aware
      <3> QED
        BY <3>1, <3>2
    <2>3. PICK e : e = UpdateIdleStatus(n, m)
      OBVIOUS
    <2>4. Intact(n) /\ Here(n, m)
      BY <1>1, <1>4, <2>2, KeptHere
    <2>5. Kept(n, e, m) /\ Dutiful(e, m)
      BY <2>2, <2>3, <2>4, UpdateAware
    <2>6. y = Hunt(e, m, c)
      BY <1>2, <1>7, <2>1, <2>3 DEF OnCreatureMove
    <2>7. Intact(e) /\ Here(e, m)
      BY <1>1, <2>4, <2>5, KeptHere
    <2>8. Kept(e, y, None)
      <3>1. y = e \/ y = SelectTarget(e, m, c)
        BY <2>6 DEF Hunt
      <3> QED
        BY <2>7, <3>1, SelectEffect, KeptSelf
    <2>9. Dutiful(y, m)
      BY <1>1, <2>5, <2>8, KeptHalf DEF Dutiful
    <2>10. Kept(b, n, m)
      BY <1>3, <2>2, KeptTrans
    <2>11. Kept(b, e, m)
      BY <2>5, <2>10, KeptTrans
    <2>12. Kept(b, y, m)
      BY <2>8, <2>11, KeptTrans
    <2> QED
      BY <2>9, <2>12
  <1> QED
    BY <1>6, <1>7

-----------------------------------------------------------------------------
(***************************************************************************)
(* A creature moves: MoveCreature.                                         *)
(***************************************************************************)
Watches(b, m, e) == Looks(b, m, e, b.cr[m].attackedCreature) /\ Looks(b, m, e, b.cr[m].followCreature)
AllGood(b) == \A m \in Monster : Dutiful(b, m)
\* Everything fits, and nobody has come, gone, moved or changed sides.
Spread(b, y) == Intact(y) /\ y.rel = b.rel /\ \A x \in Creature : Stays(b, y, x)

LEMMA GoodHalf ==
    ASSUME NEW b, NEW m \in Monster, Dutiful(b, m), NEW e
    PROVE  Half(b, m, e)
  <1>1. m # None
    BY CreatureParts
  <1> QED
    BY <1>1, CreatureParts DEF Dutiful, Half, Looks, Knows

LEMMA KeptWatches ==
    ASSUME NEW b, NEW y, NEW k, Kept(b, y, k), NEW x \in Creature, Here(b, x), NEW e, Watches(b, x, e)
    PROVE  Watches(y, x, e)
  <1>1. \A c \in Creature : Here(b, c) => Here(y, c) /\ (Sees(b, x, c) <=> Sees(y, x, c))
    BY KeptHere
  <1>2. \A c : Looks(b, x, e, c) => Looks(y, x, e, c)
    BY <1>1 DEF Looks
  <1>3. \A c : InSight(y, x, c) => Looks(y, x, e, c)
    BY DEF Looks, InSight
  <1>4. Looks(y, x, e, None)
    BY DEF Looks
  <1>5. Attentive(b, y, x)
    BY DEF Kept
  <1> QED
    BY <1>2, <1>3, <1>4, <1>5 DEF Attentive, Watches

LEMMA SpreadKept ==
    ASSUME NEW b, NEW d, NEW y, NEW k, Spread(b, d), Kept(d, y, k)
    PROVE  Spread(b, y)
  <1>1. ASSUME NEW x \in Creature
        PROVE  Stays(b, y, x)
    <2>1. Stays(b, d, x) /\ Stays(d, y, x)
      BY DEF Spread, Kept
    <2> QED
      BY <2>1, StaysTrans
  <1> QED
    BY <1>1 DEF Spread, Kept

LEMMA SpreadSelf ==
    ASSUME NEW b, Intact(b)
    PROVE  Spread(b, b)
  BY DEF Spread, Stays

\* A creature in the world that is elsewhere, hurt, or has another client.
Lived(o, r) ==
    /\ r \in Object /\ r.where = o.where /\ r.creatureCheck = o.creatureCheck
    /\ r.inCheckCreaturesVector = o.inCheckCreaturesVector /\ r.targetList = o.targetList
    /\ r.attackedCreature = o.attackedCreature /\ r.followCreature = o.followCreature
    /\ r.master = o.master /\ r.refs = o.refs
LEMMA LivedSound ==
    ASSUME NEW b, Intact(b), NEW c \in Creature, Here(b, c), NEW r, Lived(b.cr[c], r), NEW y, y = With(b, c, r)
    PROVE  /\ Intact(y) /\ y.cr[c] = r /\ y.rel = b.rel /\ y.tasks = b.tasks /\ y.dazed = b.dazed
           /\ \A x \in Creature \ {c} : y.cr[x] = b.cr[x]
           /\ \A x \in Creature : Here(b, x) <=> Here(y, x)
  <1>1. b \in Books /\ r \in Object
    BY DEF Intact, Lived
  <1>2. /\ y \in Books /\ y.cr[c] = r /\ \A x \in Creature \ {c} : y.cr[x] = b.cr[x]
        /\ y.rel = b.rel /\ y.tasks = b.tasks /\ y.dazed = b.dazed
    BY <1>1, WithEffect
  <1>3. \A x \in Creature : Here(b, x) <=> Here(y, x)
    BY <1>2 DEF Here, Lived
  <1>4. \A x \in Creature : HeldIn(y, x) = HeldIn(b, x)
    <2>1. \A x \in Creature : y.cr[x].targetList = b.cr[x].targetList
      BY <1>2 DEF Lived
    <2> QED
      BY <2>1, HeldKept, CreatureParts
  <1>5. \A x \in Creature \ {c} : Fit(y, x, 0)
    BY <1>1, <1>2, <1>3, <1>4, FitKept DEF Intact
  <1>6. Fit(y, c, 0)
    <2>1. Fit(b, c, 0) /\ Lived(b.cr[c], y.cr[c]) /\ Here(y, c) /\ y.cr[c].where # "new"
      BY <1>2, <1>3 DEF Intact, Here
    <2>2. Holders(y, c) = Holders(b, c)
      BY <1>1, <1>2, <1>3, <1>4, <2>1, HoldersSame DEF Lived
    <2>3. b.cr[c].master # None => Here(y, b.cr[c].master)
      BY <1>1, <1>3, <2>1, ObjectParts, CreatureParts DEF Fit
    <2> QED
      BY <2>1, <2>2, <2>3 DEF Fit, Lived
  <1> QED
    BY <1>2, <1>3, <1>5, <1>6 DEF Intact

\* A loop of calls that tell the monsters of S what the creature c does.
Telling(b, c, S, T, d) ==
    /\ Spread(b, d)
    /\ \A m \in Monster : Half(d, m, c) /\ (m \in T \/ m \notin S => Dutiful(d, m))

LEMMA TellingStep ==
    ASSUME NEW b, NEW c, NEW S, NEW T, NEW d, Telling(b, c, S, T, d), NEW m \in Monster,
           NEW y, Kept(d, y, m), Dutiful(y, m)
    PROVE  Telling(b, c, S, T \cup {m}, y)
  <1>1. Spread(b, y)
    BY SpreadKept DEF Telling
  <1>2. ASSUME NEW x \in Monster
        PROVE  Half(y, x, c) /\ (x \in T \cup {m} \/ x \notin S => Dutiful(y, x))
    <2>1. CASE x = m
      BY <2>1, GoodHalf
    <2>2. CASE x # m
      <3>1. Half(y, x, c)
        BY <2>2, KeptHalf DEF Telling
      <3>2. x \in T \/ x \notin S => Dutiful(y, x)
        BY <2>2, KeptHalf DEF Telling, Dutiful
      <3> QED
        BY <2>2, <3>1, <3>2
    <2> QED
      BY <2>1, <2>2
  <1> QED
    BY <1>1, <1>2 DEF Telling

LEMMA MoveLoop ==
    ASSUME NEW b, Intact(b), NEW c \in Creature, Here(b, c), NEW from, NEW to, from # to, b.cr[c].at = to,
           NEW S \in SUBSET Monster, \A m \in S : Here(b, m) /\ b.cr[m].at \in {from, to},
           Telling(b, c, S, {}, b)
    PROVE  Telling(b, c, S, S, MovedTo(c, from, to, b, S))
  <1> DEFINE K == [T \in SUBSET S |-> {d \in Books : Telling(b, c, S, T, d)}]
  <1>1. b \in Books /\ IsFiniteSet(S)
    BY CreatureParts, FS_Subset DEF Intact
  <1>2. b \in K[{}]
    BY <1>1
  <1>3. ASSUME NEW T \in SUBSET S, T # {}, NEW d \in K[T \ {Pick(T)}]
        PROVE  OnCreatureMove(d, Pick(T), c, from, to) \in K[T]
    <2>1. PICK m \in T : m = Pick(T)
      BY <1>3, PickIn
    <2>2. PICK U : U = T \ {m}
      OBVIOUS
    <2>3. U \in SUBSET S /\ m \in Monster /\ m \in Creature /\ T = U \cup {m} /\ Here(b, m) /\ b.cr[m].at \in {from, to}
      BY <2>2, CreatureParts
    <2>4. d \in Books /\ Telling(b, c, S, U, d)
      BY <1>3, <2>1, <2>2, <2>3
    <2>5. PICK y : y = OnCreatureMove(d, m, c, from, to)
      OBVIOUS
    <2>6. Intact(d) /\ Here(d, m) /\ Here(d, c) /\ d.cr[c].at = to /\ d.cr[m].at \in {from, to} /\ Half(d, m, c)
      BY <2>3, <2>4 DEF Telling, Spread, Stays
    <2>7. Kept(d, y, m) /\ Dutiful(y, m)
      BY <2>3, <2>5, <2>6, MovedGood
    <2>8. Telling(b, c, S, T, y)
      BY <2>3, <2>4, <2>7, TellingStep
    <2>9. y \in Books
      BY <2>7 DEF Kept, Intact
    <2> QED
      BY <2>1, <2>5, <2>8, <2>9
  <1>4. MovedTo(c, from, to, b, S) \in K[S]
    <2>1. \A T \in SUBSET S : K[T] \subseteq Books
      OBVIOUS
    <2> HIDE DEF K
    <2> QED
      BY <1>1, <1>2, <1>3, <2>1, MovedLoop
  <1> QED
    BY <1>4

LEMMA MoveEffect ==
    ASSUME NEW b, Intact(b), AllGood(b), NEW c \in Creature, Here(b, c), NEW to \in Place, to # b.cr[c].at,
           NEW y, y = MoveCreature(b, c, to)
    PROVE  /\ Intact(y) /\ AllGood(y) /\ y.rel = b.rel
           /\ \A x \in Creature \ {c} : Stays(b, y, x)
           /\ Here(y, c) /\ y.cr[c].at = to /\ y.cr[c].alive = b.cr[c].alive
           /\ y.cr[c].client = b.cr[c].client /\ y.cr[c].master = b.cr[c].master
  <1>1. b \in Books
    BY DEF Intact
  <1>2. PICK from : from = b.cr[c].at
    OBVIOUS
  <1>3. PICK o \in Object : o = b.cr[c]
    BY <1>1, ObjectParts
  <1>4. PICK r : r = [o EXCEPT !.at = to]
    OBVIOUS
  <1>5. Lived(o, r) /\ r.at = to /\ r.alive = o.alive /\ r.client = o.client
    BY <1>4 DEF Lived, Object
  <1>6. PICK d : d = With(b, c, r)
    OBVIOUS
  <1>7. /\ Intact(d) /\ d.cr[c] = r /\ d.rel = b.rel /\ d.dazed = b.dazed
        /\ \A x \in Creature \ {c} : d.cr[x] = b.cr[x]
        /\ \A x \in Creature : Here(b, x) <=> Here(d, x)
    BY <1>3, <1>5, <1>6, LivedSound
  <1>8. PICK S : S = MonstersAt(d, from) \cup MonstersAt(d, to)
    OBVIOUS
  <1>9. S \in SUBSET Monster /\ \A m \in S : Here(d, m) /\ d.cr[m].at \in {from, to}
    BY <1>8 DEF MonstersAt
  <1>10. y = MovedTo(c, from, to, d, S)
    <2>1. d = [b EXCEPT !.cr[c].at = to]
      BY <1>3, <1>4, <1>6 DEF With
    <2> QED
      <3>1. y = MovedTo(c, b.cr[c].at, to, [b EXCEPT !.cr[c].at = to],
                        MonstersAt([b EXCEPT !.cr[c].at = to], b.cr[c].at) \cup MonstersAt([b EXCEPT !.cr[c].at = to], to))
        BY Zenon DEF MoveCreature, MovedTo
      <3> QED
        BY <1>2, <1>8, <2>1, <3>1
  <1>11. ASSUME NEW m \in Monster, Here(d, m)
         PROVE  Half(d, m, c) /\ (m \notin S => Dutiful(d, m))
    <2>1. m \in Creature /\ Here(b, m) /\ Half(b, m, None)
      BY <1>7, <1>11, CreatureParts DEF AllGood, Dutiful
    <2>2. /\ d.cr[m].attackedCreature = b.cr[m].attackedCreature /\ d.cr[m].followCreature = b.cr[m].followCreature
          /\ d.cr[m].alive = b.cr[m].alive /\ d.cr[m].master = b.cr[m].master
          /\ d.cr[m].targetList = b.cr[m].targetList /\ d.cr[m].creatureCheck = b.cr[m].creatureCheck
      BY <1>3, <1>5, <1>7, <2>1 DEF Lived
    <2>3. \A x \in Creature : m # c /\ x # c => (Sees(b, m, x) <=> Sees(d, m, x))
      BY <1>7, <2>1 DEF Sees
    <2>4. \A x : Looks(b, m, None, x) => Looks(d, m, c, x)
      BY <1>7, <2>1, <2>3, CreatureParts DEF Looks
    <2>5. m \notin d.dazed => (IsBusy(d, m) => d.cr[m].creatureCheck)
      BY <1>7, <1>11, <2>1, <2>2 DEF Half, IsBusy
    <2>6. ASSUME m \notin d.dazed
          PROVE  Knows(d, m, c)
      <3>1. Knows(b, m, None) /\ m # None
        BY <1>7, <2>1, <2>6, CreatureParts DEF Half
      <3>2. \A p \in Player \ {c} : Here(d, p) /\ d.cr[p].client => p \in Creature /\ p # None /\ Here(b, p) /\ b.cr[p].client
        BY <1>7, CreatureParts
      <3> QED
        BY <2>2, <2>3, <3>1, <3>2 DEF Knows
    <2>7. Half(d, m, c)
      BY <2>1, <2>2, <2>4, <2>5, <2>6 DEF Half
    <2>8. ASSUME m \notin S
          PROVE  Dutiful(d, m)
      <3>1. d.cr[m].at # from /\ d.cr[m].at # to
        BY <1>8, <1>11, <2>8 DEF MonstersAt
      <3>2. m # c /\ d.cr[m].at = b.cr[m].at
        BY <1>5, <1>7, <2>1, <3>1
      <3>3. ~ Sees(b, m, c) /\ ~ Sees(d, m, c)
        BY <1>2, <1>5, <1>7, <3>1, <3>2 DEF Sees
      <3>4. \A x : Looks(b, m, None, x) => Looks(d, m, None, x)
        BY <1>7, <2>1, <2>3, <3>2, <3>3, CreatureParts DEF Looks
      <3>5. Knows(d, m, c) => Knows(d, m, None)
        BY <3>2, <3>3 DEF Knows
      <3> QED
        BY <2>1, <2>2, <2>5, <2>6, <3>4, <3>5 DEF Dutiful, Half
    <2> QED
      BY <2>7, <2>8
  <1>12. \A m \in Monster : Half(d, m, c) /\ (m \notin S => Dutiful(d, m))
    BY <1>11 DEF Half, Dutiful
  <1>13. Telling(d, c, S, {}, d)
    BY <1>7, <1>12, SpreadSelf DEF Telling
  <1>14. Here(d, c) /\ d.cr[c].at = to /\ from # to
    BY <1>2, <1>5, <1>7
  <1>15. Telling(d, c, S, S, y)
    BY <1>7, <1>9, <1>10, <1>13, <1>14, MoveLoop
  <1>16. Intact(y) /\ y.rel = b.rel /\ \A x \in Creature : Stays(d, y, x)
    BY <1>7, <1>15 DEF Telling, Spread
  <1>17. AllGood(y)
    BY <1>15 DEF Telling, AllGood
  <1>18. \A x \in Creature \ {c} : Stays(b, y, x)
    BY <1>7, <1>16 DEF Stays
  <1>19. Stays(d, y, c)
    BY <1>16
  <1> QED
    BY <1>3, <1>5, <1>7, <1>14, <1>16, <1>17, <1>18, <1>19 DEF Stays, Lived

-----------------------------------------------------------------------------
(***************************************************************************)
(* A creature comes: PlaceCreature.                                        *)
(***************************************************************************)
\* A creature that has just come into the world: it looks around when it is told of itself.
Arriving(b, c, S, T, d) == Telling(b, c, S, T, d) /\ (c \in Monster => Watches(d, c, None))

LEMMA AppearLoop ==
    ASSUME NEW b, Intact(b), NEW c \in Creature, Here(b, c),
           NEW S \in SUBSET Monster, \A m \in S : Here(b, m) /\ Sees(b, m, c),
           Arriving(b, c, S, {}, b)
    PROVE  Arriving(b, c, S, S, AppearedTo(c, b, S))
  <1> DEFINE K == [T \in SUBSET S |-> {d \in Books : Arriving(b, c, S, T, d)}]
  <1>1. b \in Books /\ IsFiniteSet(S)
    BY CreatureParts, FS_Subset DEF Intact
  <1>2. b \in K[{}]
    BY <1>1
  <1>3. ASSUME NEW T \in SUBSET S, T # {}, NEW d \in K[T \ {Pick(T)}]
        PROVE  OnCreatureAppear(d, Pick(T), c) \in K[T]
    <2>1. PICK m \in T : m = Pick(T)
      BY <1>3, PickIn
    <2>2. PICK U : U = T \ {m}
      OBVIOUS
    <2>3. U \in SUBSET S /\ m \in Monster /\ m \in Creature /\ T = U \cup {m} /\ Here(b, m) /\ Sees(b, m, c)
      BY <2>2, CreatureParts
    <2>4. d \in Books /\ Telling(b, c, S, U, d) /\ (c \in Monster => Watches(d, c, None))
      BY <1>3, <2>1, <2>2, <2>3 DEF Arriving
    <2>5. PICK y : y = OnCreatureAppear(d, m, c)
      OBVIOUS
    <2>6. Intact(d) /\ Here(d, m) /\ Here(d, c) /\ Sees(d, m, c) /\ Half(d, m, c)
      BY <2>3, <2>4 DEF Telling, Spread, Stays, Sees
    <2>7. Kept(d, y, m) /\ Dutiful(y, m)
      <3>1. CASE m = c
        <4>1. y = UpdateIdleStatus(UpdateTargetList(d, m), m)
          BY <2>5, <3>1 DEF OnCreatureAppear
        <4>2. m \notin d.dazed /\ ~ d.cr[m].alive => d.cr[m].creatureCheck
          BY <2>6 DEF Half, IsBusy
        <4> QED
          BY <2>3, <2>4, <2>6, <3>1, <4>1, <4>2, LookAround DEF Watches
      <3>2. CASE m # c
        <4>1. y = OnCreatureFound(d, m, c)
          BY <2>5, <3>2 DEF OnCreatureAppear
        <4> QED
          BY <2>3, <2>6, <3>2, <4>1, FoundGood
      <3> QED
        BY <3>1, <3>2
    <2>8. Telling(b, c, S, T, y)
      BY <2>3, <2>4, <2>7, TellingStep
    <2>9. y \in Books
      BY <2>7 DEF Kept, Intact
    <2>10. c \in Monster => Watches(y, c, None)
      BY <2>4, <2>6, <2>7, KeptWatches
    <2>11. Arriving(b, c, S, T, y)
      BY <2>8, <2>10 DEF Arriving
    <2> QED
      BY <2>1, <2>5, <2>9, <2>11
  <1>4. AppearedTo(c, b, S) \in K[S]
    <2>1. \A T \in SUBSET S : K[T] \subseteq Books
      OBVIOUS
    <2> HIDE DEF K
    <2> QED
      BY <1>1, <1>2, <1>3, <2>1, Appeared
  <1> QED
    BY <1>4

\* The new creature.
Newcomer(place) == [NewCreature EXCEPT !.where = "world", !.at = place, !.refs = 1]
LEMMA NewcomerSound ==
    ASSUME NEW b, Intact(b), NEW c \in Creature, b.cr[c].where = "new", NEW place \in Place,
           NEW y, y = With(b, c, Newcomer(place))
    PROVE  /\ Intact(y) /\ y.rel = b.rel /\ y.tasks = b.tasks /\ y.dazed = b.dazed
           /\ \A x \in Creature \ {c} : y.cr[x] = b.cr[x]
           /\ \A x \in Creature : Here(y, x) <=> x = c \/ Here(b, x)
           /\ y.cr[c].at = place /\ y.cr[c].alive /\ y.cr[c].client /\ y.cr[c].master = None
           /\ y.cr[c].attackedCreature = None /\ y.cr[c].followCreature = None
           /\ y.cr[c].targetList = {} /\ ~ y.cr[c].creatureCheck
  <1>1. b \in Books /\ Fit(b, c, 0) /\ b.cr[c] = NewCreature
    BY DEF Intact, Fit
  <1>2. PICK r : r = Newcomer(place)
    OBVIOUS
  <1>3. /\ r \in Object /\ r.where = "world" /\ r.at = place /\ r.alive /\ r.client /\ ~ r.creatureCheck
        /\ ~ r.inCheckCreaturesVector /\ r.targetList = {} /\ r.attackedCreature = None /\ r.followCreature = None
        /\ r.master = None /\ r.refs = 1
    <2>1. PICK n \in Object : n = NewCreature
      BY NewParts
    <2>2. /\ n.targetList = {} /\ n.master = None /\ ~ n.creatureCheck /\ ~ n.inCheckCreaturesVector
          /\ n.alive /\ n.client /\ n.attackedCreature = None /\ n.followCreature = None
      BY <2>1, NewParts
    <2>3. r = [n EXCEPT !.where = "world", !.at = place, !.refs = 1]
      BY <1>2, <2>1 DEF Newcomer
    <2>4. r \in Object
      <3>1. PICK q : q = [n EXCEPT !.at = place]
        OBVIOUS
      <3>2. q \in Object
        BY <3>1 DEF Object
      <3>3. PICK s : s = [q EXCEPT !.refs = 1]
        OBVIOUS
      <3>4. s \in Object
        BY <3>2, <3>3 DEF Object
      <3>5. r = [s EXCEPT !.where = "world"]
        BY <2>3, <3>1, <3>3 DEF Object
      <3> QED
        BY <3>4, <3>5 DEF Object
    <2>5. r.where = "world" /\ r.at = place /\ r.refs = 1
      BY <2>3 DEF Object
    <2>6. /\ r.targetList = n.targetList /\ r.master = n.master /\ r.creatureCheck = n.creatureCheck
          /\ r.inCheckCreaturesVector = n.inCheckCreaturesVector /\ r.alive = n.alive /\ r.client = n.client
          /\ r.attackedCreature = n.attackedCreature /\ r.followCreature = n.followCreature
      BY <2>3 DEF Object
    <2> QED
      BY <2>2, <2>4, <2>5, <2>6
  <1>4. /\ y \in Books /\ y.cr[c] = r /\ \A x \in Creature \ {c} : y.cr[x] = b.cr[x]
        /\ y.rel = b.rel /\ y.tasks = b.tasks /\ y.dazed = b.dazed
    BY <1>1, <1>2, <1>3, WithEffect
  <1>5. \A x \in Creature : Here(y, x) <=> x = c \/ Here(b, x)
    BY <1>3, <1>4 DEF Here
  <1>6. \A x \in Creature : HeldIn(y, x) = HeldIn(b, x)
    <2>1. \A x \in Creature : y.cr[x].targetList = b.cr[x].targetList
      BY <1>1, <1>3, <1>4, NewParts
    <2> QED
      BY <2>1, HeldKept, CreatureParts
  <1>7. \A x \in Creature \ {c} : Fit(y, x, 0)
    BY <1>1, <1>4, <1>5, <1>6, FitKept DEF Intact
  <1>8. Fit(y, c, 0)
    <2>1. Here(y, c) /\ ~ Here(b, c)
      BY <1>5, <1>1, NewParts DEF Here
    <2>2. CountOf(Here(y, c)) = 1 /\ CountOf(Here(b, c)) = 0
      BY <2>1 DEF CountOf
    <2>3. CountOf(y.cr[c].inCheckCreaturesVector) = 0 /\ CountOf(b.cr[c].inCheckCreaturesVector) = 0
      BY <1>1, <1>3, <1>4, NewParts DEF CountOf
    <2>4. CountOf(y.cr[c].master # None) = 0 /\ CountOf(b.cr[c].master # None) = 0
      BY <1>1, <1>3, <1>4, NewParts DEF CountOf
    <2>5. PICK h \in Nat, l \in Nat : h = HeldIn(b, c) /\ h = HeldIn(y, c) /\ l = b.rel[c] /\ l = y.rel[c]
      BY <1>1, <1>4, <1>6, HeldIsNat, ObjectParts
    <2>6. Holders(b, c) = h + l /\ Holders(y, c) = 1 + h + l
      BY <2>2, <2>3, <2>4, <2>5 DEF Holders
    <2>7. Holders(b, c) + 0 = 0
      BY <1>1, NewParts DEF Fit
    <2>8. y.cr[c].refs = Holders(y, c) + 0
      <3>1. h + l = 0
        BY <2>6, <2>7
      <3>2. Holders(y, c) + 0 = 1 /\ y.cr[c].refs = 1
        BY <1>3, <1>4, <2>6, <3>1
      <3> QED
        BY <3>2
    <2> QED
      BY <1>3, <1>4, <2>1, <2>8 DEF Fit
  <1> QED
    BY <1>3, <1>4, <1>5, <1>7, <1>8 DEF Intact

LEMMA PlaceEffect ==
    ASSUME NEW b, Intact(b), AllGood(b), NEW c \in Creature, b.cr[c].where = "new", NEW place \in Place,
           NEW y, y = PlaceCreature(b, c, place)
    PROVE  /\ Intact(y) /\ AllGood(y) /\ y.rel = b.rel
           /\ \A x \in Creature \ {c} : Stays(b, y, x)
           /\ Here(y, c) /\ y.cr[c].at = place /\ y.cr[c].alive /\ y.cr[c].client /\ y.cr[c].master = None
           /\ y.cr[c].creatureCheck
  <1>1. b \in Books
    BY DEF Intact
  <1>2. PICK d : d = With(b, c, Newcomer(place))
    OBVIOUS
  <1>3. /\ Intact(d) /\ d.rel = b.rel /\ d.dazed = b.dazed
        /\ \A x \in Creature \ {c} : d.cr[x] = b.cr[x]
        /\ \A x \in Creature : Here(d, x) <=> x = c \/ Here(b, x)
        /\ d.cr[c].at = place /\ d.cr[c].alive /\ d.cr[c].client /\ d.cr[c].master = None
        /\ d.cr[c].attackedCreature = None /\ d.cr[c].followCreature = None
        /\ d.cr[c].targetList = {} /\ ~ d.cr[c].creatureCheck
    BY <1>2, NewcomerSound
  <1>4. PICK S : S = MonstersAt(d, place)
    OBVIOUS
  <1>5. S \in SUBSET Monster /\ \A m \in S : Here(d, m) /\ Sees(d, m, c)
    BY <1>3, <1>4 DEF MonstersAt, Sees
  <1>6. PICK s : s = AppearedTo(c, d, S)
    OBVIOUS
  <1>7. y = AddCreatureCheck(s, c)
    <2>1. y = AddCreatureCheck(AppearedTo(c, With(b, c, Newcomer(place)), MonstersAt(With(b, c, Newcomer(place)), place)), c)
      BY Zenon DEF PlaceCreature, AppearedTo, With, Newcomer
    <2> QED
      BY <1>2, <1>4, <1>6, <2>1
  <1>8. ASSUME NEW m \in Monster, Here(d, m)
        PROVE  Half(d, m, c) /\ (m \notin S => Dutiful(d, m))
    <2>1. CASE m = c
      <3>1. Half(d, m, c)
        BY <1>3, <2>1 DEF Half, Looks, Knows, IsBusy
      <3>2. m \in S
        BY <1>3, <1>4, <2>1 DEF MonstersAt, Here
      <3> QED
        BY <3>1, <3>2
    <2>2. CASE m # c
      <3>1. m \in Creature /\ d.cr[m] = b.cr[m] /\ Here(b, m) /\ Half(b, m, None) /\ c # None /\ m # None
        BY <1>3, <1>8, <2>2, CreatureParts DEF AllGood, Dutiful
      <3>2. ~ Here(b, c)
        BY DEF Here
      <3>3. \A x : Looks(b, m, None, x) => Looks(d, m, None, x)
        <4>1. \A x \in Creature : Here(b, x) => x # c /\ Here(d, x) /\ (Sees(b, m, x) <=> Sees(d, m, x))
          BY <1>3, <3>1, <3>2 DEF Sees
        <4> QED
          BY <4>1 DEF Looks
      <3>4. m \notin d.dazed => (IsBusy(d, m) => d.cr[m].creatureCheck)
        BY <1>3, <3>1 DEF Half, IsBusy
      <3>5. ASSUME m \notin d.dazed
            PROVE  Knows(d, m, c) /\ (m \notin S => Knows(d, m, None))
        <4>1. Knows(b, m, None)
          BY <1>3, <3>1, <3>5 DEF Half
        <4>2. \A p \in Player \ {c} : Here(d, p) /\ d.cr[p].client /\ Sees(d, m, p) =>
                 p # None /\ Here(b, p) /\ b.cr[p].client /\ Sees(b, m, p)
          BY <1>3, <3>1, CreatureParts DEF Sees
        <4>3. Knows(d, m, c)
          BY <3>1, <4>1, <4>2 DEF Knows
        <4>4. m \notin S => ~ Sees(d, m, c)
          BY <1>3, <1>4, <1>8 DEF MonstersAt, Sees
        <4>5. m \notin S => Knows(d, m, None)
          BY <2>2, <4>3, <4>4 DEF Knows
        <4> QED
          BY <4>3, <4>5
      <3>6. \A x : Looks(d, m, None, x) => Looks(d, m, c, x)
        BY <3>1, CreatureParts DEF Looks
      <3>7. Looks(d, m, None, d.cr[m].attackedCreature) /\ Looks(d, m, None, d.cr[m].followCreature)
        BY <3>1, <3>3 DEF Half
      <3> QED
        BY <3>4, <3>5, <3>6, <3>7 DEF Half, Dutiful
    <2> QED
      BY <2>1, <2>2
  <1>9. \A m \in Monster : Half(d, m, c) /\ (m \notin S => Dutiful(d, m))
    BY <1>8 DEF Half, Dutiful
  <1>10. Arriving(d, c, S, {}, d)
    <2>1. Watches(d, c, None)
      BY <1>3 DEF Watches, Looks
    <2> QED
      BY <1>3, <1>9, <2>1, SpreadSelf DEF Arriving, Telling
  <1>11. Arriving(d, c, S, S, s)
    BY <1>3, <1>5, <1>6, <1>10, AppearLoop
  <1>12. Intact(s) /\ s.rel = b.rel /\ (\A x \in Creature : Stays(d, s, x)) /\ AllGood(s)
    BY <1>3, <1>11 DEF Arriving, Telling, Spread, AllGood
  <1>13. Here(d, c) /\ Here(s, c)
    BY <1>3, <1>12 DEF Stays
  <1>14. /\ Intact(y) /\ Tended(s, y, c) /\ y.cr[c].creatureCheck /\ y.cr[c].targetList = s.cr[c].targetList
         /\ c \in y.dazed <=> c \in s.dazed
    BY <1>7, <1>12, <1>13, AddCheckEffect
  <1>15. Kept(s, y, c)
    BY <1>14, TendedKept
  <1>16. ASSUME NEW m \in Monster
         PROVE  Dutiful(y, m)
    <2>1. CASE m # c
      BY <1>12, <1>15, <2>1, KeptHalf DEF AllGood, Dutiful
    <2>2. CASE m = c
      <3>1. Dutiful(s, c) /\ c \in Monster
        BY <1>12, <2>2 DEF AllGood
      <3>2. /\ y.cr[c].attackedCreature = s.cr[c].attackedCreature /\ y.cr[c].followCreature = s.cr[c].followCreature
            /\ y.cr[c].alive = s.cr[c].alive
            /\ \A e, x : Looks(s, c, e, x) => Looks(y, c, e, x)
            /\ \A p \in Player : Here(y, p) /\ y.cr[p].client /\ Sees(y, c, p) => Here(s, p) /\ s.cr[p].client /\ Sees(s, c, p)
        BY <1>13, <1>14, TendedSees
      <3>3. c \notin y.dazed => Knows(y, c, None)
        BY <1>13, <1>14, <3>1, <3>2 DEF Dutiful, Half, Knows
      <3> QED
        BY <1>13, <1>14, <2>2, <3>1, <3>2, <3>3 DEF Dutiful, Half
    <2> QED
      BY <2>1, <2>2
  <1>17. ASSUME NEW x \in Creature \ {c}
         PROVE  Stays(b, y, x)
    <2>1. Stays(b, d, x)
      BY <1>3 DEF Stays
    <2>2. Stays(d, s, x) /\ Stays(s, y, x)
      BY <1>12, <1>14 DEF Tended
    <2>3. Stays(b, s, x)
      BY <2>1, <2>2, StaysTrans
    <2> QED
      BY <2>2, <2>3, StaysTrans
  <1>18. Stays(d, s, c) /\ Stays(s, y, c) /\ y.rel = s.rel
    BY <1>12, <1>14 DEF Tended
  <1> QED
    BY <1>3, <1>12, <1>13, <1>14, <1>16, <1>17, <1>18 DEF Stays, AllGood

-----------------------------------------------------------------------------
(***************************************************************************)
(* A creature goes: RemoveCreature.                                        *)
(***************************************************************************)
\* A creature that is about to leave the world: whoever was told, or sees it not, is
\* after somebody else.
Forgets(b, m, c) == Here(b, m) => b.cr[m].attackedCreature # c /\ b.cr[m].followCreature # c
Leaving(b, c, S, T, d) ==
    /\ Spread(b, d)
    /\ \A m \in Monster : Half(d, m, c) /\ (m \in T \/ m \notin S => Forgets(d, m, c))
    /\ d.cr[c].targetList = {}
\* Without summons, and a monster without health or master.
Leaver(b, c) ==
    /\ Here(b, c) /\ Summons(b, c) = {} /\ b.cr[c].targetList = {} /\ b.cr[c].master = None
    /\ c \in Monster => ~ b.cr[c].alive

LEMMA LeavingStep ==
    ASSUME NEW b, NEW c \in Creature, Leaver(b, c), NEW S, NEW T, NEW d, Leaving(b, c, S, T, d),
           NEW m \in Monster, Here(b, m), NEW y, y = OnRemoveCreature(d, m, c)
    PROVE  Leaving(b, c, S, T \cup {m}, y)
  <1>1. m \in Creature /\ m # None /\ c # None
    BY CreatureParts
  <1>2. Intact(d) /\ Here(d, m) /\ Here(d, c) /\ Half(d, m, c) /\ d.cr[c].master = None /\ (c \in Monster => ~ d.cr[c].alive)
    BY <1>1 DEF Leaving, Leaver, Spread, Stays
  <1>3. PICK e : e = OnCreatureDisappear(d, m, c)
    OBVIOUS
  <1>4. /\ Kept(d, e, None) /\ Ordered(d, e, m, None) /\ e.dazed = d.dazed
        /\ e.cr[m].attackedCreature = IF d.cr[m].attackedCreature = c THEN None ELSE d.cr[m].attackedCreature
        /\ e.cr[m].followCreature = IF d.cr[m].followCreature = c THEN None ELSE d.cr[m].followCreature
    BY <1>2, <1>3, DisappearEffect
  <1>5. Leaving(b, c, S, T \cup {m}, e)
    <2>1. Spread(b, e)
      BY <1>4, SpreadKept DEF Leaving
    <2>2. \A x \in Creature : Here(d, x) <=> Here(e, x)
      BY <1>4, KeptHere
    <2>3. ASSUME NEW x \in Monster
          PROVE  Half(e, x, c) /\ (x \in T \cup {m} \/ x \notin S => Forgets(e, x, c))
      <3>1. Half(e, x, c)
        BY <1>4, CreatureParts, KeptHalf DEF Leaving
      <3>2. CASE x = m
        BY <1>1, <1>4, <3>1, <3>2 DEF Forgets
      <3>3. CASE x # m
        <4>1. /\ e.cr[x].attackedCreature \in {d.cr[x].attackedCreature, None}
              /\ e.cr[x].followCreature \in {d.cr[x].followCreature, None}
          BY <1>4, CreatureParts DEF Ordered
        <4>2. x \in T \/ x \notin S => Forgets(d, x, c)
          BY DEF Leaving
        <4> QED
          BY <1>1, <2>2, <3>1, <3>3, <4>1, <4>2, CreatureParts DEF Forgets
      <3> QED
        BY <3>2, <3>3
    <2>4. e.cr[c].targetList = {}
      <3>1. SameDuty(d, e, c)
        BY <1>1, <1>4 DEF Kept
      <3> QED
        BY <1>2, <3>1 DEF SameDuty, Leaving
    <2> QED
      BY <2>1, <2>3, <2>4 DEF Leaving
  <1>6. CASE c = m
    <2>1. Here(e, c) /\ e.cr[c].master = None /\ ~ e.cr[c].alive
      BY <1>2, <1>4, <1>6, KeptHere
    <2>2. LeaveMaster(e, c) = e
      BY <2>1 DEF LeaveMaster
    <2>3. y = SetIdle(LeaveMaster(OnCreatureDisappear(d, m, c), m), m, TRUE)
      BY <1>6, Zenon DEF OnRemoveCreature
    <2>4. SetIdle(e, c, TRUE) = e
      BY <2>1 DEF SetIdle
    <2>5. y = e
      BY <1>3, <1>6, <2>2, <2>3, <2>4
    <2> QED
      BY <1>5, <2>5
  <1>7. CASE c # m
    <2>1. y = OnCreatureLeave(e, m, c)
      BY <1>3, <1>7 DEF OnRemoveCreature
    <2>2. Intact(e) /\ Here(e, m) /\ Half(e, m, c)
      BY <1>1, <1>2, <1>4, KeptHere, KeptHalf
    <2>3. Kept(e, y, m) /\ Half(y, m, c)
      BY <2>1, <2>2, LeaveHalf
    <2>4. Tended(e, y, m)
      BY <2>1, <2>2, LeaveEffect
    <2>5. Spread(b, y)
      BY <1>5, <2>3, SpreadKept DEF Leaving
    <2>6. ASSUME NEW x \in Monster
          PROVE  Half(y, x, c) /\ (x \in T \cup {m} \/ x \notin S => Forgets(y, x, c))
      <3>1. Half(y, x, c)
        BY <1>5, <2>3, KeptHalf DEF Leaving
      <3>2. x \in Creature /\ Stays(e, y, x) /\ SameMind(e, y, x)
        BY <2>4, CreatureParts DEF Tended
      <3>3. x \in T \cup {m} \/ x \notin S => Forgets(e, x, c)
        BY <1>5 DEF Leaving
      <3> QED
        BY <3>1, <3>2, <3>3 DEF Forgets, Stays, SameMind
    <2>7. y.cr[c].targetList = {}
      <3>1. Here(e, c)
        BY <1>2, <1>4, KeptHere
      <3>2. SameDuty(e, y, c)
        BY <1>7, <2>3 DEF Kept
      <3> QED
        BY <1>5, <3>1, <3>2 DEF SameDuty, Leaving
    <2> QED
      BY <2>5, <2>6, <2>7 DEF Leaving
  <1> QED
    BY <1>6, <1>7

LEMMA RemoveLoop ==
    ASSUME NEW b, Intact(b), NEW c \in Creature, Leaver(b, c),
           NEW S \in SUBSET Monster, \A m \in S : Here(b, m), Leaving(b, c, S, {}, b)
    PROVE  Leaving(b, c, S, S, RemovedTo(c, b, S))
  <1> DEFINE K == [T \in SUBSET S |-> {d \in Books : Leaving(b, c, S, T, d)}]
  <1>1. b \in Books /\ IsFiniteSet(S)
    BY CreatureParts, FS_Subset DEF Intact
  <1>2. b \in K[{}]
    BY <1>1
  <1>3. ASSUME NEW T \in SUBSET S, T # {}, NEW d \in K[T \ {Pick(T)}]
        PROVE  OnRemoveCreature(d, Pick(T), c) \in K[T]
    <2>1. PICK m \in T : m = Pick(T)
      BY <1>3, PickIn
    <2>2. PICK U : U = T \ {m}
      OBVIOUS
    <2>3. U \in SUBSET S /\ m \in Monster /\ T = U \cup {m} /\ Here(b, m)
      BY <2>2
    <2>4. d \in Books /\ Leaving(b, c, S, U, d)
      BY <1>3, <2>1, <2>2, <2>3
    <2>5. PICK y : y = OnRemoveCreature(d, m, c)
      OBVIOUS
    <2>6. Leaving(b, c, S, T, y)
      BY <2>3, <2>4, <2>5, LeavingStep
    <2>7. y \in Books
      BY <2>6 DEF Leaving, Spread, Intact
    <2> QED
      BY <2>1, <2>5, <2>6, <2>7
  <1>4. RemovedTo(c, b, S) \in K[S]
    <2>1. \A T \in SUBSET S : K[T] \subseteq Books
      OBVIOUS
    <2> HIDE DEF K
    <2> QED
      BY <1>1, <1>2, <1>3, <2>1, Removed
  <1> QED
    BY <1>4

\* The creature that has left: toRelease keeps it until the next cleanup.
Departed(o) == [o EXCEPT !.where = "gone", !.creatureCheck = FALSE]
Dismissed(b, c, o) == [b EXCEPT !.cr = [b.cr EXCEPT ![c] = o], !.rel = [b.rel EXCEPT ![c] = @ + 1]]

LEMMA ReleasedEffect ==
    ASSUME NEW b \in Books, NEW c \in Creature, NEW o \in Object, NEW y, y = Dismissed(b, c, o)
    PROVE  /\ y \in Books /\ y.cr[c] = o /\ \A x \in Creature \ {c} : y.cr[x] = b.cr[x] /\ y.rel[x] = b.rel[x]
           /\ y.rel[c] = b.rel[c] + 1 /\ y.tasks = b.tasks /\ y.dazed = b.dazed
  <1>1. PICK cr : cr = [b.cr EXCEPT ![c] = o]
    OBVIOUS
  <1>2. cr \in [Creature -> Object] /\ cr[c] = o /\ \A x \in Creature \ {c} : cr[x] = b.cr[x]
    BY <1>1, ObjectParts
  <1>3. PICK rel : rel = [b.rel EXCEPT ![c] = @ + 1]
    OBVIOUS
  <1>4. rel \in [Creature -> Nat] /\ rel[c] = b.rel[c] + 1 /\ \A x \in Creature \ {c} : rel[x] = b.rel[x]
    BY <1>3, ObjectParts
  <1>5. y = [cr |-> cr, rel |-> rel, tasks |-> b.tasks, dazed |-> b.dazed]
    BY <1>1, <1>3 DEF Dismissed, Books
  <1> QED
    BY <1>2, <1>4, <1>5 DEF Books

LEMMA DepartedSound ==
    ASSUME NEW b, Intact(b), NEW c \in Creature, Leaver(b, c), NEW y, y = Dismissed(b, c, Departed(b.cr[c]))
    PROVE  /\ Intact(y) /\ y.cr[c].where = "gone" /\ y.rel[c] = b.rel[c] + 1 /\ y.dazed = b.dazed
           /\ \A x \in Creature \ {c} : y.cr[x] = b.cr[x] /\ y.rel[x] = b.rel[x]
           /\ \A x \in Creature : Here(y, x) <=> x # c /\ Here(b, x)
  <1>1. b \in Books
    BY DEF Intact
  <1>2. PICK o \in Object : o = b.cr[c]
    BY <1>1, ObjectParts
  <1>3. PICK r : r = Departed(o)
    OBVIOUS
  <1>4. /\ r \in Object /\ r.where = "gone" /\ ~ r.creatureCheck /\ r.inCheckCreaturesVector = o.inCheckCreaturesVector
        /\ r.targetList = o.targetList /\ r.master = o.master /\ r.refs = o.refs
    BY <1>3 DEF Departed, Object
  <1>5. /\ y \in Books /\ y.cr[c] = r /\ \A x \in Creature \ {c} : y.cr[x] = b.cr[x] /\ y.rel[x] = b.rel[x]
        /\ y.rel[c] = b.rel[c] + 1 /\ y.dazed = b.dazed
    BY <1>1, <1>2, <1>3, <1>4, ReleasedEffect
  <1>6. \A x \in Creature : Here(y, x) <=> x # c /\ Here(b, x)
    BY <1>4, <1>5 DEF Here
  <1>7. \A x \in Creature : HeldIn(y, x) = HeldIn(b, x)
    <2>1. \A x \in Creature : y.cr[x].targetList = b.cr[x].targetList
      BY <1>2, <1>4, <1>5
    <2> QED
      BY <2>1, HeldKept, CreatureParts
  <1>8. ASSUME NEW x \in Creature \ {c}
        PROVE  Fit(y, x, 0)
    <2>1. Fit(b, x, 0) /\ y.cr[x] = b.cr[x] /\ (Here(y, x) <=> Here(b, x))
      BY <1>5, <1>6 DEF Intact
    <2>2. Holders(y, x) = Holders(b, x)
      BY <1>1, <1>5, <1>7, <2>1, HoldersSame
    <2>3. b.cr[x].master # None => b.cr[x].master # c /\ Here(y, b.cr[x].master)
      <3>1. ASSUME b.cr[x].master # None
            PROVE  b.cr[x].master # c /\ Here(y, b.cr[x].master)
        <4>1. x \in Summon /\ Here(b, b.cr[x].master) /\ b.cr[x].master \in Creature
          BY <1>1, <2>1, <3>1, ObjectParts, CreatureParts DEF Fit
        <4>2. b.cr[x].master # c
          BY <4>1 DEF Leaver, Summons
        <4> QED
          BY <1>6, <4>1, <4>2
      <3> QED
        BY <3>1
    <2> QED
      BY <2>1, <2>2, <2>3 DEF Fit
  <1>9. Fit(y, c, 0)
    <2>1. Here(b, c) /\ ~ Here(y, c)
      BY <1>6 DEF Leaver
    <2>2. CountOf(Here(b, c)) = 1 /\ CountOf(Here(y, c)) = 0
      BY <2>1 DEF CountOf
    <2>3. PICK f \in Int : f = CountOf(b.cr[c].inCheckCreaturesVector) /\ f = CountOf(y.cr[c].inCheckCreaturesVector)
      BY <1>2, <1>4, <1>5 DEF CountOf
    <2>4. CountOf(b.cr[c].master # None) = 0 /\ CountOf(y.cr[c].master # None) = 0
      BY <1>2, <1>4, <1>5 DEF CountOf, Leaver
    <2>5. PICK h \in Nat, l \in Nat : h = HeldIn(b, c) /\ h = HeldIn(y, c) /\ l = b.rel[c] /\ l + 1 = y.rel[c]
      BY <1>1, <1>5, <1>7, HeldIsNat, ObjectParts
    <2>6. Holders(b, c) = 1 + f + l + h /\ Holders(y, c) = f + l + 1 + h
      BY <2>2, <2>3, <2>4, <2>5 DEF Holders
    <2>7. b.cr[c].refs = Holders(b, c) + 0
      BY DEF Intact, Fit
    <2>8. y.cr[c].refs = Holders(y, c) + 0
      BY <1>2, <1>4, <1>5, <2>6, <2>7
    <2> QED
      BY <1>2, <1>4, <1>5, <2>8 DEF Fit, Leaver
  <1> QED
    BY <1>4, <1>5, <1>6, <1>8, <1>9 DEF Intact

LEMMA RemoveAloneEffect ==
    ASSUME NEW b, Intact(b), AllGood(b), NEW c \in Creature, Leaver(b, c), NEW y, y = RemoveAlone(b, c)
    PROVE  /\ Intact(y) /\ AllGood(y) /\ y.cr[c].where = "gone" /\ y.rel[c] = b.rel[c] + 1
           /\ \A x \in Creature \ {c} : Stays(b, y, x) /\ y.rel[x] = b.rel[x]
  <1>1. b \in Books /\ Here(b, c) /\ c # None
    BY CreatureParts DEF Intact, Leaver
  <1>2. PICK S : S = MonstersAt(b, b.cr[c].at)
    OBVIOUS
  <1>3. S \in SUBSET Monster /\ \A m \in S : Here(b, m)
    BY <1>2 DEF MonstersAt
  <1>4. PICK d : d = RemovedTo(c, b, S)
    OBVIOUS
  <1>5. y = RemoveCreatureCheck([d EXCEPT !.cr[c].where = "gone", !.rel[c] = @ + 1], c)
    <2>1. y = RemoveCreatureCheck([RemovedTo(c, b, MonstersAt(b, b.cr[c].at)) EXCEPT !.cr[c].where = "gone", !.rel[c] = @ + 1], c)
      BY Zenon DEF RemoveAlone, RemovedTo
    <2> QED
      BY <1>2, <1>4, <2>1
  <1>6. Leaving(b, c, S, {}, b)
    <2>1. ASSUME NEW m \in Monster, m \notin S
          PROVE  Forgets(b, m, c)
      <3>1. SUFFICES ASSUME Here(b, m)
                     PROVE  b.cr[m].attackedCreature # c /\ b.cr[m].followCreature # c
        BY DEF Forgets
      <3>2. Half(b, m, None) /\ m # None
        BY CreatureParts DEF AllGood, Dutiful
      <3>3. ~ Sees(b, m, c)
        BY <1>2, <2>1, <3>1 DEF MonstersAt, Sees
      <3> QED
        BY <1>1, <3>1, <3>2, <3>3 DEF Half, Looks
    <2> QED
      BY <2>1, SpreadSelf, GoodHalf DEF Leaving, Leaver, AllGood
  <1>7. Leaving(b, c, S, S, d)
    BY <1>3, <1>4, <1>6, RemoveLoop
  <1>8. Intact(d) /\ d.rel = b.rel /\ \A x \in Creature : Stays(b, d, x)
    BY <1>7 DEF Leaving, Spread
  <1>9. Leaver(d, c)
    <2>1. Stays(b, d, c)
      BY <1>8
    <2>2. Summons(d, c) = {}
      <3>1. ASSUME NEW s \in Summon, d.cr[s].master = c
            PROVE  FALSE
        <4>1. s \in Creature /\ s \in Summons(d, c)
          BY <3>1, CreatureParts DEF Summons
        <4>2. Here(d, s)
          BY <1>1, <1>8, <4>1, MasterIsHere
        <4>3. b.cr[s].master = c
          BY <1>8, <3>1, <4>1, <4>2 DEF Stays
        <4> QED
          BY <4>3 DEF Leaver, Summons
      <3> QED
        BY <3>1 DEF Summons
    <2> QED
      BY <1>1, <1>7, <2>1, <2>2 DEF Leaver, Stays, Leaving
  <1>10. y = Dismissed(d, c, Departed(d.cr[c]))
    <2>1. PICK o \in Object : o = d.cr[c]
      BY <1>8, ObjectParts DEF Intact
    <2>2. d \in Books /\ Fit(d, c, 0)
      BY <1>8 DEF Intact
    <2>3. PICK z : z = [d EXCEPT !.cr[c].where = "gone", !.rel[c] = @ + 1]
      OBVIOUS
    <2>4. PICK q : q = [o EXCEPT !.where = "gone"]
      OBVIOUS
    <2>5. /\ z = Dismissed(d, c, q) /\ q \in Object /\ q.inCheckCreaturesVector = o.inCheckCreaturesVector
          /\ q.creatureCheck = o.creatureCheck
      BY <2>1, <2>2, <2>3, <2>4 DEF Dismissed, Object
    <2>6. z \in Books /\ z.cr[c] = q
      BY <2>2, <2>5, ReleasedEffect
    <2>7. CASE o.inCheckCreaturesVector
      <3>1. y = [z EXCEPT !.cr[c].creatureCheck = FALSE]
        BY <1>5, <2>3, <2>5, <2>6, <2>7 DEF RemoveCreatureCheck
      <3>2. [q EXCEPT !.creatureCheck = FALSE] = Departed(o)
        BY <2>4 DEF Departed, Object
      <3>3. y = [z EXCEPT !.cr = [z.cr EXCEPT ![c] = Departed(o)]]
        BY <2>6, <3>1, <3>2
      <3>4. [z.cr EXCEPT ![c] = Departed(o)] = [d.cr EXCEPT ![c] = Departed(o)]
        BY <2>2, <2>5 DEF Dismissed, Books
      <3>5. y = [z EXCEPT !.cr = [d.cr EXCEPT ![c] = Departed(o)]]
        BY <3>3, <3>4
      <3> QED
        BY <2>1, <2>2, <2>5, <3>5 DEF Dismissed, Books
    <2>8. CASE ~ o.inCheckCreaturesVector
      <3>1. y = z
        BY <1>5, <2>3, <2>5, <2>6, <2>8 DEF RemoveCreatureCheck
      <3>2. o.creatureCheck = FALSE
        BY <2>1, <2>2, <2>8 DEF Fit, Object
      <3>3. q = Departed(o)
        BY <2>4, <3>2 DEF Departed, Object
      <3> QED
        BY <2>1, <2>5, <3>1, <3>3
    <2> QED
      BY <2>7, <2>8
  <1>11. /\ Intact(y) /\ y.cr[c].where = "gone" /\ y.rel[c] = d.rel[c] + 1 /\ y.dazed = d.dazed
         /\ \A x \in Creature \ {c} : y.cr[x] = d.cr[x] /\ y.rel[x] = d.rel[x]
         /\ \A x \in Creature : Here(y, x) <=> x # c /\ Here(d, x)
    BY <1>8, <1>9, <1>10, DepartedSound
  <1>12. ASSUME NEW m \in Monster
         PROVE  Dutiful(y, m)
    <2>1. SUFFICES ASSUME Here(y, m)
                   PROVE  Dutiful(y, m)
      BY DEF Dutiful, Half
    <2>2. m # c /\ m \in Creature /\ Here(d, m) /\ y.cr[m] = d.cr[m] /\ m # None
      BY <1>11, <2>1, CreatureParts
    <2>3. Half(d, m, c) /\ Forgets(d, m, c)
      BY <1>7 DEF Leaving
    <2>4. \A x : x # c /\ Looks(d, m, c, x) => Looks(y, m, None, x)
      BY <1>11, <2>2 DEF Looks, Sees
    <2>5. Looks(y, m, None, y.cr[m].attackedCreature) /\ Looks(y, m, None, y.cr[m].followCreature)
      BY <2>2, <2>3, <2>4 DEF Half, Forgets
    <2>6. ASSUME m \notin y.dazed
          PROVE  Knows(y, m, None) /\ (IsBusy(y, m) => y.cr[m].creatureCheck)
      <3>1. Knows(d, m, c) /\ (IsBusy(d, m) => d.cr[m].creatureCheck)
        BY <1>11, <2>2, <2>3, <2>6 DEF Half
      <3>2. \A p \in Player : Here(y, p) => p \in Player \ {c} /\ Here(d, p) /\ y.cr[p] = d.cr[p]
        BY <1>11, CreatureParts
      <3> QED
        BY <2>2, <3>1, <3>2 DEF Knows, IsBusy, Sees
    <2> QED
      BY <2>5, <2>6 DEF Dutiful, Half
  <1>13. ASSUME NEW x \in Creature \ {c}
         PROVE  Stays(b, y, x) /\ y.rel[x] = b.rel[x]
    <2>1. Stays(b, d, x) /\ y.cr[x] = d.cr[x] /\ (Here(y, x) <=> Here(d, x))
      BY <1>8, <1>11
    <2> QED
      BY <1>8, <1>11, <2>1 DEF Stays
  <1> QED
    BY <1>8, <1>11, <1>12, <1>13 DEF AllGood

LEMMA RemoveEffect ==
    ASSUME NEW b, Intact(b), AllGood(b), NEW c \in Creature, Leaver(b, c), NEW y, y = RemoveCreature(b, c)
    PROVE  /\ Intact(y) /\ AllGood(y) /\ y.cr[c].where = "gone" /\ y.rel[c] = b.rel[c] + 1
           /\ \A x \in Creature \ {c} : Stays(b, y, x) /\ y.rel[x] = b.rel[x]
  <1>1. PICK d : d = RemoveAlone(b, c)
    OBVIOUS
  <1>2. /\ Intact(d) /\ AllGood(d) /\ d.cr[c].where = "gone" /\ d.rel[c] = b.rel[c] + 1
        /\ \A x \in Creature \ {c} : Stays(b, d, x) /\ d.rel[x] = b.rel[x]
    BY <1>1, RemoveAloneEffect
  <1>3. Summons(d, c) = {}
    <2>1. ~ Here(d, c) /\ AllFit(d, NoDebt)
      BY <1>2, SoundIsFit DEF Here
    <2> QED
      BY <2>1, NobodyIsLeft
  <1>4. RemoveSummons(d, c) = d
    <2>1. {s \in Summons(d, c) : Here(d, s)} = {}
      BY <1>3
    <2>2. PICK M : M = {s \in Summons(d, c) : Here(d, s)}
      OBVIOUS
    <2>3. RemoveSummons(d, c) = FoldSet(LAMBDA s, e : RemoveAlone(e, s), d, {s \in Summons(d, c) : Here(d, s)})
      BY Zenon DEF RemoveSummons
    <2>4. FoldSet(LAMBDA s, e : RemoveAlone(e, s), d, {}) = d
      BY DEF FoldSet, MapThenFoldSet
    <2> QED
      BY <2>1, <2>3, <2>4
  <1>5. y = d
    BY <1>1, <1>4 DEF RemoveCreature
  <1> QED
    BY <1>2, <1>5

-----------------------------------------------------------------------------
(***************************************************************************)
(* Cleanup.                                                                *)
(***************************************************************************)
\* Only references have changed, and what they keep.
Untouched(b, y) ==
    /\ y \in Books /\ y.rel = b.rel
    /\ \A x \in Creature : Stays(b, y, x) /\ SameMind(b, y, x) /\ SameDuty(b, y, x)
LEMMA UntouchedTrans ==
    ASSUME NEW b, NEW d, NEW y, Untouched(b, d), Untouched(d, y)
    PROVE  Untouched(b, y)
  <1>1. ASSUME NEW x \in Creature
        PROVE  Stays(b, y, x) /\ SameMind(b, y, x) /\ SameDuty(b, y, x)
    <2>1. Stays(b, d, x) /\ SameMind(b, d, x) /\ SameDuty(b, d, x)
      BY DEF Untouched
    <2>2. Stays(d, y, x) /\ SameMind(d, y, x) /\ SameDuty(d, y, x)
      BY DEF Untouched
    <2> QED
      BY <2>1, <2>2, StaysTrans, MindTrans, DutyTrans
  <1> QED
    BY <1>1 DEF Untouched

LEMMA UntouchedGood ==
    ASSUME NEW b, NEW y, \A x \in Creature : Stays(b, y, x) /\ SameMind(b, y, x) /\ SameDuty(b, y, x), AllGood(b)
    PROVE  AllGood(y)
  <1>1. ASSUME NEW m \in Monster
        PROVE  Dutiful(y, m)
    <2>1. m \in Creature /\ Half(b, m, None)
      BY CreatureParts DEF AllGood, Dutiful
    <2>2. \A z \in Creature : /\ Here(b, z) <=> Here(y, z)
                              /\ Here(b, z) => y.cr[z].at = b.cr[z].at /\ y.cr[z].client = b.cr[z].client
      BY DEF Stays
    <2>3. Attentive(b, y, m)
      BY <2>1 DEF Attentive, SameMind
    <2>4. Stays(b, y, m) /\ SameDuty(b, y, m)
      BY <2>1
    <2>5. Half(y, m, None)
      BY <2>1, <2>2, <2>3, <2>4, HalfKept
    <2> QED
      BY <2>5 DEF Dutiful
  <1> QED
    BY <1>1 DEF AllGood

\* References given up by the creatures of a set, which were owed them.
Paid(w, T) == [x \in Creature |-> IF x \in T THEN w[x] - 1 ELSE w[x]]
Paying(b, w, T, d) == AllFit(d, Paid(w, T)) /\ Untouched(b, d)
LEMMA PayLoop ==
    ASSUME NEW b, NEW w, AllFit(b, w), NEW S \in SUBSET Creature, \A c \in S : w[c] >= 1
    PROVE  Paying(b, w, S, UnrefAll(b, S))
  <1> DEFINE K == [T \in SUBSET S |-> {d \in Books : Paying(b, w, T, d)}]
  <1>1. b \in Books /\ IsFiniteSet(S) /\ w \in [Creature -> Int]
    BY CreatureParts, FS_Subset DEF AllFit
  <1>2. b \in K[{}]
    <2>1. Paid(w, {}) = w
      BY <1>1 DEF Paid
    <2>2. Untouched(b, b)
      BY <1>1 DEF Untouched, Stays, SameMind, SameDuty
    <2> QED
      BY <1>1, <2>1, <2>2 DEF Paying
  <1>3. ASSUME NEW T \in SUBSET S, T # {}, NEW d \in K[T \ {Pick(T)}]
        PROVE  Unref(d, Pick(T)) \in K[T]
    <2>1. PICK c \in T : c = Pick(T)
      BY <1>3, PickIn
    <2>2. PICK U : U = T \ {c}
      OBVIOUS
    <2>3. U \in SUBSET S /\ c \in Creature /\ T = U \cup {c} /\ c \notin U /\ w[c] >= 1
      BY <2>2
    <2>4. d \in Books /\ Paying(b, w, U, d)
      BY <1>3, <2>1, <2>2, <2>3
    <2>5. PICK y : y = Unref(d, c)
      OBVIOUS
    <2>6. PICK v : v = Paid(w, U)
      OBVIOUS
    <2>7. AllFit(d, v) /\ v[c] >= 1
      BY <2>3, <2>4, <2>6 DEF Paying, Paid
    <2>8. /\ AllFit(y, [v EXCEPT ![c] = v[c] - 1]) /\ Tended(d, y, c) /\ SameDuty(d, y, c)
      BY <2>3, <2>5, <2>7, UnrefOwed
    <2>9. [v EXCEPT ![c] = v[c] - 1] = Paid(w, T)
      BY <1>1, <2>3, <2>6 DEF Paid
    <2>10. Untouched(d, y)
      BY <2>8 DEF Untouched, Tended
    <2>11. Untouched(b, y)
      BY <2>4, <2>10, UntouchedTrans DEF Paying
    <2>12. Paying(b, w, T, y) /\ y \in Books
      BY <2>8, <2>9, <2>11 DEF Paying, Untouched
    <2> QED
      BY <2>1, <2>5, <2>12
  <1>4. UnrefAll(b, S) \in K[S]
    <2>1. \A T \in SUBSET S : K[T] \subseteq Books
      OBVIOUS
    <2> HIDE DEF K
    <2> QED
      BY <1>1, <1>2, <1>3, <2>1, UnrefLoop
  <1> QED
    BY <1>4

\* The references that toRelease had are owed now.
Emptied(b) == [b EXCEPT !.rel = [c \in Creature |-> 0]]
LEMMA EmptiedEffect ==
    ASSUME NEW b, Intact(b), NEW y, y = Emptied(b)
    PROVE  AllFit(y, b.rel) /\ y.cr = b.cr /\ y.dazed = b.dazed /\ y.rel = [c \in Creature |-> 0]
  <1>1. b \in Books /\ b.rel \in [Creature -> Nat]
    BY DEF Intact, Books
  <1>2. y \in Books /\ y.cr = b.cr /\ y.dazed = b.dazed /\ y.rel = [c \in Creature |-> 0]
    BY <1>1 DEF Emptied, Books
  <1>3. ASSUME NEW x \in Creature
        PROVE  Fit(y, x, b.rel[x])
    <2>1. Fit(b, x, 0) /\ b.cr[x].refs \in Int /\ b.rel[x] \in Nat
      BY <1>1, ObjectParts DEF Intact
    <2>2. HeldIn(y, x) = HeldIn(b, x) /\ HeldIn(b, x) \in Nat
      BY <1>2, HeldKept, HeldIsNat
    <2>3. \A z \in Creature \cup {None} : Here(y, z) <=> Here(b, z)
      BY <1>2 DEF Here
    <2>4. Holders(b, x) = Holders(y, x) + b.rel[x] /\ Holders(y, x) \in Int
      <3>1. y.rel[x] = 0 /\ y.cr[x] = b.cr[x] /\ (Here(y, x) <=> Here(b, x))
        BY <1>2, <2>3
      <3> QED
        BY <2>1, <2>2, <3>1 DEF Holders, CountOf
    <2>5. y.cr[x] = b.cr[x]
      BY <1>2
    <2>6. b.cr[x].refs = Holders(y, x) + b.rel[x]
      BY <2>1, <2>4 DEF Fit
    <2>7. b.cr[x].master \in Creature \cup {None} /\ x \in Creature \cup {None}
      BY <1>1, ObjectParts, CreatureParts
    <2> QED
      BY <2>1, <2>3, <2>5, <2>6, <2>7 DEF Fit
  <1> QED
    BY <1>1, <1>2, <1>3 DEF AllFit

LEMMA CleanupEffect ==
    ASSUME NEW b, Intact(b), AllGood(b), \A c \in Creature : b.rel[c] <= 2, NEW y, y = Cleanup(b)
    PROVE  /\ Intact(y) /\ AllGood(y)
           /\ \A x \in Creature : Stays(b, y, x) /\ y.rel[x] = 0
  <1>1. b \in Books /\ b.rel \in [Creature -> Nat]
    BY DEF Intact, Books
  <1>2. PICK S : S = {c \in Creature : b.rel[c] > 0}
    OBVIOUS
  <1>3. PICK R : R = {c \in S : b.rel[c] > 1}
    OBVIOUS
  <1>4. PICK e : e = Emptied(b)
    OBVIOUS
  <1>5. AllFit(e, b.rel) /\ e.cr = b.cr /\ e.dazed = b.dazed /\ e.rel = [c \in Creature |-> 0]
    BY <1>4, EmptiedEffect
  <1>6. PICK d : d = UnrefAll(e, S)
    OBVIOUS
  <1>7. y = UnrefAll(d, R)
    <2>1. e = [b EXCEPT !.rel = [c \in Creature |-> 0]]
      BY <1>4 DEF Emptied
    <2>2. y = FoldSet(LAMBDA c, f : Unref(f, c), FoldSet(LAMBDA c, f : Unref(f, c), e, S), R)
      BY <1>2, <1>3, <2>1, Zenon DEF Cleanup
    <2>3. d = FoldSet(LAMBDA c, f : Unref(f, c), e, S)
      BY <1>6, Zenon DEF UnrefAll
    <2>4. UnrefAll(d, R) = FoldSet(LAMBDA c, f : Unref(f, c), d, R)
      BY Zenon DEF UnrefAll
    <2> QED
      BY <2>2, <2>3, <2>4
  <1>8. Paying(e, b.rel, S, d)
    BY <1>1, <1>2, <1>5, <1>6, PayLoop
  <1>9. PICK w : w = Paid(b.rel, S)
    OBVIOUS
  <1>10. AllFit(d, w) /\ Untouched(e, d) /\ \A c \in R : w[c] >= 1
    BY <1>1, <1>2, <1>3, <1>8, <1>9 DEF Paying, Paid
  <1>11. Paying(d, w, R, y)
    <2>1. R \in SUBSET Creature
      BY <1>2, <1>3
    <2> QED
      BY <1>7, <1>10, <2>1, PayLoop
  <1>12. Paid(w, R) = NoDebt
    BY <1>1, <1>2, <1>3, <1>9 DEF Paid, NoDebt
  <1>13. Intact(y) /\ Untouched(d, y)
    BY <1>11, <1>12, SoundIsFit DEF Paying
  <1>14. Untouched(e, y)
    BY <1>10, <1>13, UntouchedTrans
  <1>15. \A x \in Creature : Stays(b, y, x) /\ SameMind(b, y, x) /\ SameDuty(b, y, x)
    BY <1>5, <1>14 DEF Untouched, Stays, SameMind, SameDuty, Here
  <1>16. y.rel = [c \in Creature |-> 0]
    BY <1>5, <1>14 DEF Untouched
  <1> QED
    BY <1>13, <1>15, <1>16, UntouchedGood

-----------------------------------------------------------------------------
(***************************************************************************)
(* The check of a creature: an attack, the way to a target, the way home.  *)
(***************************************************************************)
Whole(b) == Intact(b) /\ AllGood(b) /\ \A m \in Monster : Led(b, m)
LEMMA LedKept ==
    ASSUME NEW b, NEW y, NEW m \in Monster, Led(b, m), Stays(b, y, m)
    PROVE  Led(y, m)
  BY DEF Led, Stays
LEMMA WholeSpread ==
    ASSUME NEW b, Whole(b), NEW y, Spread(b, y), AllGood(y)
    PROVE  Whole(y)
  BY LedKept, CreatureParts DEF Whole, Spread
LEMMA SpreadTrans ==
    ASSUME NEW b, NEW d, NEW y, Spread(b, d), Spread(d, y)
    PROVE  Spread(b, y)
  <1>1. \A x \in Creature : Stays(b, d, x) /\ Stays(d, y, x)
    BY DEF Spread
  <1>2. \A x \in Creature : Stays(b, y, x)
    BY <1>1, StaysTrans
  <1> QED
    BY <1>2 DEF Spread

\* The duties of one monster have changed, or of nobody.
LEMMA WholeKept ==
    ASSUME NEW b, Whole(b), NEW k, NEW y, Kept(b, y, k), k \in Monster => Dutiful(y, k)
    PROVE  Whole(y) /\ Spread(b, y)
  <1>1. Spread(b, y)
    BY DEF Kept, Spread
  <1>2. ASSUME NEW m \in Monster
        PROVE  Dutiful(y, m)
    <2>1. CASE m = k
      BY <2>1
    <2>2. CASE m # k
      <3>1. Half(b, m, None)
        BY DEF Whole, AllGood, Dutiful
      <3> QED
        BY <2>2, <3>1, KeptHalf DEF Dutiful
    <2> QED
      BY <2>1, <2>2
  <1>3. AllGood(y)
    BY <1>2 DEF AllGood
  <1> QED
    BY <1>1, <1>3, WholeSpread
LEMMA WholeCalm ==
    ASSUME NEW b, Whole(b), NEW y, Kept(b, y, None)
    PROVE  Whole(y) /\ Spread(b, y)
  <1>1. None \notin Monster
    BY CreatureParts
  <1> QED
    BY <1>1, WholeKept
LEMMA WholeWatches ==
    ASSUME NEW b, Whole(b), NEW m \in Monster, Here(b, m)
    PROVE  /\ Intact(b) /\ b \in Books /\ Dutiful(b, m) /\ Watches(b, m, None) /\ Led(b, m) /\ m \in Creature
           /\ Looks(b, m, None, b.cr[m].attackedCreature) /\ Looks(b, m, None, b.cr[m].followCreature)
  BY CreatureParts DEF Whole, AllGood, Dutiful, Half, Watches, Intact

\* Monsters that overlook a player from now on.
LEMMA DazedWhole ==
    ASSUME NEW b, Intact(b), \A m \in Monster : Led(b, m), NEW D \in SUBSET Monster,
           \A m \in Monster \ D : Dutiful(b, m), \A m \in D : Here(b, m) => Watches(b, m, None),
           NEW y, y = Awoken(b, b.dazed \cup D)
    PROVE  Whole(y) /\ Spread(b, y)
  <1>1. b.dazed \cup D \in SUBSET Monster
    BY DEF Intact, Books
  <1>2. Intact(y) /\ y.cr = b.cr /\ y.rel = b.rel /\ y.dazed = b.dazed \cup D
    BY <1>1, AwokenSound
  <1>3. \A x : Stays(b, y, x) /\ (Here(b, x) <=> Here(y, x))
    BY <1>2 DEF Stays, Here
  <1>4. ASSUME NEW m \in Monster
        PROVE  Dutiful(y, m)
    <2>1. \A c : Looks(b, m, None, c) => Looks(y, m, None, c)
      BY <1>2, <1>3 DEF Looks, Sees
    <2>2. CASE m \in D
      BY <1>2, <1>3, <2>1, <2>2 DEF Dutiful, Half, Watches
    <2>3. CASE m \notin D
      <3>1. Half(b, m, None)
        BY <2>3 DEF Dutiful
      <3>2. Knows(b, m, None) => Knows(y, m, None)
        BY <1>2, <1>3 DEF Knows, Sees
      <3>3. IsBusy(y, m) <=> IsBusy(b, m)
        BY <1>2 DEF IsBusy
      <3> QED
        BY <1>2, <1>3, <2>1, <3>1, <3>2, <3>3 DEF Dutiful, Half
    <2> QED
      BY <2>2, <2>3
  <1>5. AllGood(y) /\ Spread(b, y)
    BY <1>2, <1>3, <1>4 DEF AllGood, Spread
  <1>6. \A m \in Monster : Led(y, m)
    BY <1>3, LedKept
  <1> QED
    BY <1>2, <1>5, <1>6 DEF Whole

\* What a monster does when it is checked.
LEMMA DoAttackingEffect ==
    ASSUME NEW b, Whole(b), NEW m \in Monster, Here(b, m), NEW y, y = DoAttacking(b, m)
    PROVE  Whole(y) /\ Spread(b, y)
  <1>1. Intact(b) /\ Watches(b, m, None) /\ m \in Creature
    BY WholeWatches
  <1>2. PICK c : c = b.cr[m].attackedCreature
    OBVIOUS
  <1>3. CASE c = None \/ ~(c \in Player /\ ~b.cr[c].client)
    <2>1. y = b
      BY <1>2, <1>3 DEF DoAttacking
    <2> QED
      BY <1>1, <2>1, SpreadSelf
  <1>4. CASE ~ (c = None \/ ~(c \in Player /\ ~b.cr[c].client))
    <2>1. PICK f : f = SetFollowCreature(b, m, None)
      OBVIOUS
    <2>2. Kept(b, f, None) /\ f.dazed = b.dazed
      BY <1>1, <2>1, SetFollowEffect
    <2>3. Here(f, m) /\ Intact(f)
      BY <1>1, <2>2, KeptHere
    <2>4. PICK s : s = RemoveCreatureCheck(f, m)
      OBVIOUS
    <2>5. Intact(s) /\ Tended(f, s, m) /\ s.dazed = f.dazed
      BY <1>1, <2>3, <2>4, RemoveCheckEffect
    <2>6. Kept(f, s, m) /\ Here(s, m)
      BY <1>1, <2>3, <2>5, TendedKept DEF Tended, Stays
    <2>7. PICK z : z = SetAttackedCreature(s, m, None)
      OBVIOUS
    <2>8. Kept(s, z, None) /\ z.dazed = s.dazed
      BY <2>5, <2>6, <2>7, SetAttackedEffect
    <2>9. Kept(b, z, m)
      <3>1. Kept(b, s, m)
        BY <2>2, <2>6, KeptTrans
      <3> QED
        BY <2>8, <3>1, KeptTrans
    <2>10. Intact(z) /\ Spread(b, z)
      BY <2>9 DEF Kept, Spread
    <2>11. \A x \in Monster \ {m} : Dutiful(z, x)
      BY <2>9, KeptHalf DEF Dutiful, Whole, AllGood
    <2>12. Watches(z, m, None)
      BY <1>1, <2>9, KeptWatches
    <2>13. \A x \in Monster : Led(z, x)
      BY <2>10, LedKept, CreatureParts DEF Whole, Spread
    <2>14. y = Awoken(z, z.dazed \cup {m})
      <3>1. y = [z EXCEPT !.dazed = @ \cup {m}]
        BY <1>2, <1>4, <2>1, <2>4, <2>7 DEF DoAttacking
      <3> QED
        BY <2>10, <3>1 DEF Awoken, Intact, Books
    <2>15. {m} \in SUBSET Monster /\ \A x \in {m} : Here(z, x) => Watches(z, x, None)
      BY <2>12
    <2>16. Whole(y) /\ Spread(z, y)
      BY <2>10, <2>11, <2>13, <2>14, <2>15, DazedWhole
    <2> QED
      BY <2>10, <2>16, SpreadTrans
  <1> QED
    BY <1>3, <1>4

LEMMA FollowEffect ==
    ASSUME NEW b, Whole(b), NEW m \in Monster, Here(b, m), b.cr[m].creatureCheck = TRUE, NEW y \in FollowPath(b, m)
    PROVE  Whole(y) /\ Spread(b, y) /\ y.cr[m].creatureCheck = TRUE
  <1>1. Intact(b) /\ Watches(b, m, None) /\ m \in Creature /\ Dutiful(b, m)
    BY WholeWatches
  <1>2. CASE y = b
    BY <1>1, <1>2, SpreadSelf
  <1>3. CASE y # b
    <2>1. PICK c : c = b.cr[m].followCreature
      OBVIOUS
    <2>2. m \in Summon /\ c # None /\ y = RemoveTarget(b, m, c)
      BY <1>3, <2>1 DEF FollowPath
    <2>3. c \in Creature
      BY <1>1, <2>1, <2>2 DEF Watches, Looks
    <2>4. /\ Intact(y) /\ Tended(b, y, m) /\ y.cr[m].creatureCheck = b.cr[m].creatureCheck
      BY <1>1, <2>2, <2>3, GoneTarget
    <2>5. Kept(b, y, m)
      BY <2>4, TendedKept
    <2>6. Watches(y, m, None) /\ Here(y, m)
      BY <1>1, <2>5, KeptWatches, KeptHere
    <2>7. m \notin Wild
      BY <2>2, CreatureParts
    <2>8. Dutiful(y, m)
      BY <2>4, <2>6, <2>7 DEF Dutiful, Half, Knows, Watches
    <2>9. Whole(y) /\ Spread(b, y)
      BY <2>5, <2>8, WholeKept
    <2> QED
      BY <2>4, <2>9
  <1> QED
    BY <1>2, <1>3

LEMMA UpdateWhole ==
    ASSUME NEW b, Whole(b), NEW m \in Monster, Here(b, m), NEW y, y = UpdateIdleStatus(b, m)
    PROVE  Whole(y) /\ Spread(b, y)
  <1>1. Intact(b) /\ Watches(b, m, None) /\ m \in Creature /\ Dutiful(b, m)
    BY WholeWatches
  <1>2. Aware(b, m)
    BY <1>1 DEF Dutiful, Half, Aware, IsBusy
  <1>3. Kept(b, y, m) /\ Dutiful(y, m)
    BY <1>1, <1>2, UpdateAware
  <1> QED
    BY <1>3, WholeKept

LEMMA ReturnEffect ==
    ASSUME NEW b, Whole(b), NEW m \in Wild, Here(b, m), b.cr[m].alive = TRUE, b.cr[m].at \in TooFar,
           NEW y, y = ReturnHome(b, m)
    PROVE  /\ Whole(y) /\ y.rel = b.rel /\ Here(y, m)
  <1>1. m \in Monster /\ m \in Creature /\ m \notin Player /\ m \notin Summon
    BY CreatureParts
  <1>2. Intact(b) /\ AllGood(b) /\ Led(b, m)
    BY <1>1 DEF Whole
  <1>3. Home \in Place /\ Home # b.cr[m].at
    BY MonstersAssumption
  <1>4. PICK v : v = MoveCreature(b, m, Home)
    OBVIOUS
  <1>5. /\ Intact(v) /\ AllGood(v) /\ v.rel = b.rel
        /\ \A x \in Creature \ {m} : Stays(b, v, x)
        /\ Here(v, m) /\ v.cr[m].at = Home /\ v.cr[m].alive = b.cr[m].alive
        /\ v.cr[m].client = b.cr[m].client /\ v.cr[m].master = b.cr[m].master
    BY <1>1, <1>2, <1>3, <1>4, MoveEffect
  <1>6. PICK z : z = RemoveCreatureCheck(ClearTargetList(v, m), m)
    OBVIOUS
  <1>7. /\ Intact(z) /\ Tended(v, z, m) /\ z.cr[m].targetList = {} /\ ~ z.cr[m].creatureCheck
        /\ m \in z.dazed <=> m \in v.dazed
    BY <1>1, <1>5, <1>6, SleepEffect
  <1>8. SetIdle(v, m, TRUE) = z
    BY <1>5, <1>6 DEF SetIdle
  <1>9. Kept(v, z, m)
    BY <1>7, TendedKept
  <1>10. \A x \in Monster \ {m} : Dutiful(z, x)
    BY <1>5, <1>9, KeptHalf DEF Dutiful, AllGood
  <1>11. Here(z, m) /\ Watches(z, m, None)
    <2>1. Watches(v, m, None)
      BY <1>1, <1>5 DEF AllGood, Dutiful, Half, Watches
    <2> QED
      BY <1>1, <1>5, <1>9, <2>1, KeptWatches, KeptHere
  <1>12. \A x \in Monster : Led(z, x)
    <2>1. \A x \in Monster \ {m} : Led(v, x)
      BY <1>1, <1>5, LedKept, CreatureParts DEF Whole
    <2>2. Led(z, m)
      BY <1>1 DEF Led
    <2>3. \A x \in Monster : Stays(v, z, x)
      BY <1>9, CreatureParts DEF Kept
    <2> QED
      BY <2>1, <2>2, <2>3, LedKept
  <1>13. PICK O : O = {p \in Player : Here(b, p) /\ b.cr[p].at = Home}
    OBVIOUS
  <1>14. PICK D : D = IF O = {} THEN {} ELSE {m}
    OBVIOUS
  <1>15. y = Awoken(z, z.dazed \cup D)
    <2>1. y = [SetIdle(v, m, TRUE) EXCEPT !.dazed = IF O = {} THEN @ ELSE @ \cup {m}]
      BY <1>4, <1>13 DEF ReturnHome
    <2>2. y = [z EXCEPT !.dazed = IF O = {} THEN @ ELSE @ \cup {m}]
      BY <1>8, <2>1
    <2>3. z \in Books
      BY <1>7 DEF Intact
    <2>4. z.dazed \cup D = IF O = {} THEN z.dazed ELSE z.dazed \cup {m}
      BY <1>14
    <2> QED
      BY <2>2, <2>3, <2>4 DEF Awoken, Books
  <1>16. ASSUME O = {}
         PROVE  Dutiful(z, m)
    <2>1. ASSUME NEW p \in Player
          PROVE  ~ (Here(z, p) /\ Sees(z, m, p))
      <3>1. p \in Creature \ {m} /\ p \notin O
        BY <1>1, <1>16, CreatureParts
      <3>2. Stays(b, v, p) /\ Stays(v, z, p) /\ Stays(v, z, m)
        BY <1>1, <1>5, <1>9, <3>1 DEF Kept
      <3>3. z.cr[m].at = Home
        BY <1>5, <3>2 DEF Stays
      <3>4. ~ (Here(z, p) /\ z.cr[p].at = Home)
        BY <1>13, <3>1, <3>2 DEF Stays
      <3> QED
        BY <3>3, <3>4 DEF Sees
    <2>2. z.cr[m].alive /\ z.cr[m].master = None
      <3>1. Stays(v, z, m)
        BY <1>1, <1>9 DEF Kept
      <3>2. v.cr[m].master = None
        BY <1>1, <1>5 DEF Intact, Fit
      <3> QED
        BY <1>5, <3>1, <3>2 DEF Stays
    <2>3. Knows(z, m, None)
      BY <2>1 DEF Knows
    <2>4. ~ IsBusy(z, m)
      BY <1>7, <2>2 DEF IsBusy
    <2> QED
      BY <1>11, <2>3, <2>4 DEF Dutiful, Half, Watches
  <1>17. /\ D \in SUBSET Monster /\ \A x \in D : Here(z, x) => Watches(z, x, None)
         /\ \A x \in Monster \ D : Dutiful(z, x)
    BY <1>1, <1>10, <1>11, <1>14, <1>16
  <1>18. Whole(y) /\ Spread(z, y)
    BY <1>7, <1>12, <1>15, <1>17, DazedWhole
  <1>19. y.rel = b.rel /\ Here(y, m)
    BY <1>1, <1>5, <1>9, <1>11, <1>18 DEF Spread, Kept, Stays
  <1> QED
    BY <1>18, <1>19

-----------------------------------------------------------------------------
(***************************************************************************)
(* The check of a creature: what it does when it thinks.                   *)
(***************************************************************************)
LEMMA SelectWhole ==
    ASSUME NEW b, Whole(b), NEW m \in Monster, Here(b, m), NEW c, NEW y, y = SelectTarget(b, m, c)
    PROVE  Whole(y) /\ Spread(b, y)
  <1>1. Intact(b)
    BY WholeWatches
  <1>2. Kept(b, y, None)
    BY <1>1, SelectEffect
  <1> QED
    BY <1>2, WholeCalm

LEMMA SearchEffect ==
    ASSUME NEW b, Whole(b), NEW m \in Monster, Here(b, m), NEW y \in SearchTarget(b, m)
    PROVE  Whole(y) /\ Spread(b, y)
  <1>1. PICK others : others = {c \in b.cr[m].targetList \ {b.cr[m].followCreature} : IsTarget(b, c)}
    OBVIOUS
  <1>2. SearchTarget(b, m) = IF others = {} THEN {b} ELSE {SelectTarget(b, m, c) : c \in others}
    BY <1>1, Zenon DEF SearchTarget
  <1>3. CASE y = b
    BY <1>3, WholeWatches, SpreadSelf
  <1>4. CASE y # b
    <2>1. PICK c \in others : y = SelectTarget(b, m, c)
      BY <1>2, <1>4
    <2> QED
      BY <2>1, SelectWhole
  <1> QED
    BY <1>3, <1>4

LEMMA SummonThinks ==
    ASSUME NEW b, Whole(b), NEW m \in Monster, Here(b, m), b.cr[m].master # None, NEW y, y = ThinkAsSummon(b, m)
    PROVE  Whole(y) /\ Spread(b, y)
  <1>1. Intact(b) /\ Watches(b, m, None) /\ m \in Creature
    BY WholeWatches
  <1>2. ASSUME NEW c \in Creature, Here(b, c), y = SetFollowCreature(b, m, c)
        PROVE  Whole(y) /\ Spread(b, y)
    <2>1. Kept(b, y, None)
      BY <1>1, <1>2, SetFollowEffect
    <2> QED
      BY <2>1, WholeCalm
  <1>3. CASE b.cr[m].attackedCreature # None
    <2>1. y = SetFollowCreature(b, m, b.cr[m].attackedCreature)
      BY <1>3 DEF ThinkAsSummon
    <2>2. b.cr[m].attackedCreature \in Creature /\ Here(b, b.cr[m].attackedCreature)
      BY <1>1, <1>3 DEF Watches, Looks
    <2> QED
      BY <1>2, <2>1, <2>2
  <1>4. CASE b.cr[m].attackedCreature = None /\ b.cr[b.cr[m].master].attackedCreature # None
    <2>1. y = SelectTarget(b, m, b.cr[b.cr[m].master].attackedCreature)
      BY <1>4 DEF ThinkAsSummon
    <2> QED
      BY <2>1, SelectWhole
  <1>5. CASE b.cr[m].attackedCreature = None /\ b.cr[b.cr[m].master].attackedCreature = None
    <2>1. y = SetFollowCreature(b, m, b.cr[m].master)
      BY <1>5 DEF ThinkAsSummon
    <2>2. b.cr[m].master \in Creature /\ Here(b, b.cr[m].master)
      BY <1>1, ObjectParts, CreatureParts DEF Intact, Fit
    <2> QED
      BY <1>2, <2>1, <2>2
  <1> QED
    BY <1>3, <1>4, <1>5

\* The new summon gets its master.
Owned(o, m) == [o EXCEPT !.master = m]
LEMMA OwnedSound ==
    ASSUME NEW b, Intact(b), NEW s \in Summon, Here(b, s), b.cr[s].master = None, NEW m \in Wild, Here(b, m),
           NEW q, q = With(b, s, Owned(b.cr[s], m)), NEW y, y = Ref(q, s)
    PROVE  /\ Intact(y) /\ y.rel = b.rel /\ (\A x \in Creature : SameMind(b, y, x) /\ SameDuty(b, y, x))
           /\ \A x \in Creature \ {s} : Stays(b, y, x)
           /\ Here(y, s) /\ y.cr[s].master = m /\ y.cr[s].at = b.cr[s].at /\ y.cr[s].client = b.cr[s].client
           /\ y.cr[s].alive = b.cr[s].alive
  <1>1. b \in Books /\ s \in Creature /\ s \in Monster /\ m \in Creature /\ m # None
    BY CreatureParts DEF Intact
  <1>2. PICK o \in Object : o = b.cr[s]
    BY <1>1, ObjectParts
  <1>3. PICK r : r = Owned(o, m)
    OBVIOUS
  <1>4. /\ r \in Object /\ r.where = o.where /\ r.at = o.at /\ r.alive = o.alive /\ r.client = o.client
        /\ r.creatureCheck = o.creatureCheck /\ r.inCheckCreaturesVector = o.inCheckCreaturesVector
        /\ r.targetList = o.targetList /\ r.attackedCreature = o.attackedCreature
        /\ r.followCreature = o.followCreature /\ r.master = m /\ r.refs = o.refs
    BY <1>3 DEF Owned, Object
  <1>5. /\ q \in Books /\ q.cr[s] = r /\ \A x \in Creature \ {s} : q.cr[x] = b.cr[x]
        /\ q.rel = b.rel /\ q.tasks = b.tasks /\ q.dazed = b.dazed
    BY <1>1, <1>2, <1>3, <1>4, WithEffect
  <1>6. \A x \in Creature : Here(b, x) <=> Here(q, x)
    BY <1>2, <1>4, <1>5 DEF Here
  <1>7. \A x \in Creature : HeldIn(q, x) = HeldIn(b, x)
    <2>1. \A x \in Creature : q.cr[x].targetList = b.cr[x].targetList
      BY <1>2, <1>4, <1>5
    <2> QED
      BY <2>1, HeldKept, CreatureParts
  <1>8. \A x \in Creature \ {s} : Fit(q, x, 0)
    BY <1>1, <1>5, <1>6, <1>7, FitKept DEF Intact
  <1>9. Fit(q, s, -1)
    <2>1. Fit(b, s, 0)
      BY <1>1 DEF Intact
    <2>2. Holders(q, s) = Holders(b, s) + 1
      <3>1. CountOf(Here(q, s)) = 1 /\ CountOf(Here(b, s)) = 1
        BY <1>1, <1>6 DEF CountOf
      <3>2. PICK k \in Nat : k = CountOf(q.cr[s].inCheckCreaturesVector) /\ k = CountOf(b.cr[s].inCheckCreaturesVector)
        BY <1>2, <1>4, <1>5 DEF CountOf
      <3>3. CountOf(b.cr[s].master # None) = 0 /\ CountOf(q.cr[s].master # None) = 1
        BY <1>1, <1>4, <1>5 DEF CountOf
      <3>4. PICK h \in Nat, l \in Nat : h = HeldIn(b, s) /\ h = HeldIn(q, s) /\ l = b.rel[s] /\ l = q.rel[s]
        BY <1>1, <1>5, <1>7, HeldIsNat, ObjectParts
      <3>5. Holders(q, s) = 1 + k + 1 + l + h
        BY <3>1, <3>2, <3>3, <3>4 DEF Holders
      <3>6. Holders(b, s) = 1 + k + 0 + l + h
        BY <3>1, <3>2, <3>3, <3>4 DEF Holders
      <3> QED
        BY <3>5, <3>6
    <2>3. Holders(b, s) \in Nat
      BY <1>1, HoldersParts
    <2>4. q.cr[s].refs = Holders(q, s) + (-1)
      BY <1>2, <1>4, <1>5, <2>1, <2>2, <2>3 DEF Fit
    <2>5. o.where = "world" /\ q.cr[s].where = "world" /\ Here(q, s) /\ Here(q, m)
      BY <1>1, <1>2, <1>4, <1>5, <1>6 DEF Here
    <2> QED
      BY <1>1, <1>2, <1>4, <1>5, <2>1, <2>4, <2>5 DEF Fit
  <1>10. \A x \in Creature : Fit(q, x, IF x = s THEN -1 ELSE 0)
    BY <1>8, <1>9
  <1>11. q.cr[s].where # "new"
    BY <1>1, <1>6 DEF Here
  <1>12. Intact(y) /\ Tended(q, y, s) /\ SameDuty(q, y, s)
    BY <1>1, <1>5, <1>10, <1>11, RefSound
  <1>13. ASSUME NEW x \in Creature
         PROVE  SameMind(b, y, x) /\ SameDuty(b, y, x) /\ (x # s => Stays(b, y, x))
    <2>1. SameMind(b, q, x) /\ SameDuty(b, q, x) /\ (x # s => Stays(b, q, x))
      BY <1>2, <1>4, <1>5, <1>6 DEF SameMind, SameDuty, Stays
    <2>2. SameMind(q, y, x) /\ SameDuty(q, y, x) /\ Stays(q, y, x)
      BY <1>12 DEF Tended
    <2>3. Here(b, x) <=> Here(q, x)
      BY <1>6
    <2>4. SameMind(b, y, x) /\ SameDuty(b, y, x)
      BY <2>1, <2>2, <2>3 DEF SameMind, SameDuty
    <2> QED
      BY <2>1, <2>2, <2>4, StaysTrans
  <1>14. /\ Here(y, s) /\ y.cr[s].master = m /\ y.cr[s].at = b.cr[s].at /\ y.cr[s].client = b.cr[s].client
         /\ y.cr[s].alive = b.cr[s].alive
    <2>1. Stays(q, y, s) /\ Here(q, s)
      BY <1>1, <1>6, <1>12 DEF Tended
    <2> QED
      BY <1>2, <1>4, <1>5, <2>1 DEF Stays
  <1>15. y.rel = b.rel
    BY <1>5, <1>12 DEF Tended
  <1> QED
    BY <1>12, <1>13, <1>14, <1>15

\* Whatever a monster's thinking does, it is still there.
Thought(b, y, m) == Whole(y) /\ y.rel = b.rel /\ Here(y, m)
LEMMA SpreadThought ==
    ASSUME NEW b, NEW y, Whole(y), Spread(b, y), NEW m \in Creature, Here(b, m)
    PROVE  Thought(b, y, m)
  BY DEF Thought, Spread, Stays
LEMMA ThoughtTrans ==
    ASSUME NEW b, NEW d, NEW y, NEW m, d.rel = b.rel, Thought(d, y, m)
    PROVE  Thought(b, y, m)
  BY DEF Thought

LEMMA CreateEffect ==
    ASSUME NEW b, Whole(b), NEW m \in Wild, Here(b, m), NEW y \in CreateSummon(b, m)
    PROVE  Thought(b, y, m)
  <1>1. m \in Monster /\ m \in Creature /\ m \notin Player /\ m \notin Summon
    BY CreatureParts
  <1>2. Intact(b) /\ AllGood(b) /\ b \in Books
    BY <1>1, WholeWatches DEF Whole
  <1>3. CASE y = b
    BY <1>1, <1>2, <1>3 DEF Thought
  <1>4. CASE y # b
    <2>1. PICK s \in Summon : b.cr[s].where = "new" /\ y = Ref([PlaceCreature(b, s, b.cr[m].at) EXCEPT !.cr[s].master = m], s)
      BY <1>4 DEF CreateSummon
    <2>2. PICK place \in Place : place = b.cr[m].at
      BY <1>1, <1>2, ObjectParts
    <2>3. PICK p : p = PlaceCreature(b, s, place)
      OBVIOUS
    <2>4. s \in Creature /\ s \in Monster /\ s # m /\ s \notin Wild
      BY <1>1, CreatureParts
    <2>5. /\ Intact(p) /\ AllGood(p) /\ p.rel = b.rel
          /\ \A x \in Creature \ {s} : Stays(b, p, x)
          /\ Here(p, s) /\ p.cr[s].at = place /\ p.cr[s].alive /\ p.cr[s].client /\ p.cr[s].master = None
          /\ p.cr[s].creatureCheck
      BY <1>2, <2>1, <2>3, <2>4, PlaceEffect
    <2>6. Here(p, m) /\ p \in Books
      BY <1>1, <2>4, <2>5 DEF Stays, Intact
    <2>7. PICK q : q = With(p, s, Owned(p.cr[s], m))
      OBVIOUS
    <2>8. y = Ref(q, s)
      <3>1. q = [p EXCEPT !.cr[s].master = m]
        BY <2>4, <2>6, <2>7 DEF With, Owned
      <3> QED
        BY <2>1, <2>2, <2>3, <3>1
    <2>9. /\ Intact(y) /\ y.rel = p.rel /\ (\A x \in Creature : SameMind(p, y, x) /\ SameDuty(p, y, x))
          /\ \A x \in Creature \ {s} : Stays(p, y, x)
          /\ Here(y, s) /\ y.cr[s].master = m /\ y.cr[s].at = p.cr[s].at /\ y.cr[s].client = p.cr[s].client
          /\ y.cr[s].alive = p.cr[s].alive
      <3>1. Intact(p) /\ Here(p, s) /\ p.cr[s].master = None /\ Here(p, m)
        BY <2>5, <2>6
      <3> QED
        BY <2>7, <2>8, <3>1, OwnedSound
    <2>10. \A z \in Creature : /\ Here(p, z) <=> Here(y, z)
                               /\ Here(p, z) => y.cr[z].at = p.cr[z].at /\ y.cr[z].client = p.cr[z].client
      BY <2>5, <2>9 DEF Stays
    <2>11. ASSUME NEW x \in Monster \ {s}
           PROVE  Dutiful(y, x)
      <3>1. x \in Creature \ {s} /\ Half(p, x, None)
        BY <2>5, CreatureParts DEF AllGood, Dutiful
      <3>2. Attentive(p, y, x) /\ Stays(p, y, x) /\ SameDuty(p, y, x)
        BY <2>9, <3>1 DEF Attentive, SameMind
      <3>3. Half(y, x, None)
        BY <2>10, <3>1, <3>2, HalfKept
      <3> QED
        BY <3>3 DEF Dutiful
    <2>12. Dutiful(y, s)
      <3>1. Watches(p, s, None)
        BY <2>4, <2>5 DEF AllGood, Dutiful, Half, Watches
      <3>2. SameMind(p, y, s) /\ SameDuty(p, y, s)
        BY <2>4, <2>9
      <3>3. \A c : Looks(p, s, None, c) => Looks(y, s, None, c)
        BY <2>4, <2>5, <2>9, <2>10 DEF Looks, Sees
      <3>4. Watches(y, s, None)
        BY <2>5, <3>1, <3>2, <3>3 DEF Watches, SameMind
      <3>5. y.cr[s].creatureCheck
        BY <2>5, <3>2 DEF SameDuty
      <3> QED
        BY <2>4, <3>4, <3>5 DEF Dutiful, Half, Knows, Watches
    <2>13. ASSUME NEW x \in Monster
           PROVE  Led(y, x)
      <3>1. CASE x = s
        BY <1>1, <2>9, <3>1, CreatureParts DEF Led
      <3>2. CASE x # s
        <4>1. x \in Creature \ {s} /\ Led(b, x)
          BY <3>2, CreatureParts DEF Whole
        <4>2. Stays(b, p, x) /\ Stays(p, y, x)
          BY <2>5, <2>9, <4>1
        <4>3. Stays(b, y, x)
          BY <4>2, StaysTrans
        <4> QED
          BY <4>1, <4>3, LedKept
      <3> QED
        BY <3>1, <3>2
    <2>14. Whole(y)
      BY <2>9, <2>11, <2>12, <2>13 DEF Whole, AllGood
    <2>15. Here(y, m)
      BY <1>1, <2>6, <2>10
    <2> QED
      BY <2>5, <2>9, <2>14, <2>15 DEF Thought
  <1> QED
    BY <1>3, <1>4

LEMMA ActEffect ==
    ASSUME NEW b, Whole(b), NEW m \in Monster, Here(b, m), b.cr[m].alive = TRUE, NEW y \in Act(b, m)
    PROVE  Thought(b, y, m)
  <1>1. Intact(b) /\ Led(b, m) /\ m \in Creature
    BY WholeWatches
  <1>2. CASE y = b
    BY <1>2 DEF Thought
  <1>3. CASE y # b /\ b.cr[m].master # None
    <2>1. y = ThinkAsSummon(b, m)
      BY <1>3 DEF Act, IsIdle
    <2>2. Whole(y) /\ Spread(b, y)
      BY <1>3, <2>1, SummonThinks
    <2> QED
      BY <1>1, <2>2, SpreadThought
  <1>4. CASE y # b /\ b.cr[m].master = None
    <2>1. y \in ThinkAsWild(b, m)
      BY <1>4 DEF Act
    <2>2. m \in Wild
      BY <1>1, <1>4, CreatureParts DEF Led
    <2>3. PICK d \in SearchTarget(b, m) \cup {b} : y \in CreateSummon(d, m)
      BY <2>1 DEF ThinkAsWild
    <2>4. Whole(d) /\ Spread(b, d)
      BY <1>1, <2>3, SearchEffect, SpreadSelf
    <2>5. Here(d, m) /\ d.rel = b.rel
      BY <1>1, <2>4 DEF Spread, Stays
    <2>6. Thought(d, y, m)
      BY <2>2, <2>3, <2>4, <2>5, CreateEffect
    <2> QED
      BY <2>5, <2>6, ThoughtTrans
  <1> QED
    BY <1>2, <1>3, <1>4

LEMMA ThinkEffect ==
    ASSUME NEW b, Whole(b), NEW m \in Monster, Here(b, m), b.cr[m].alive = TRUE, b.cr[m].creatureCheck = TRUE,
           NEW y \in OnThink(b, m)
    PROVE  Thought(b, y, m)
  <1>1. m \in Creature
    BY CreatureParts
  <1>2. PICK d \in FollowPath(b, m) :
           y \in (IF m \in Wild /\ d.cr[m].at \in TooFar THEN {ReturnHome(d, m)} ELSE Act(UpdateIdleStatus(d, m), m))
    BY DEF OnThink
  <1>3. Whole(d) /\ Spread(b, d)
    BY FollowEffect
  <1>4. Here(d, m) /\ d.cr[m].alive = TRUE /\ d.rel = b.rel
    BY <1>1, <1>3 DEF Spread, Stays
  <1>5. CASE m \in Wild /\ d.cr[m].at \in TooFar
    <2>1. y = ReturnHome(d, m)
      BY <1>2, <1>5
    <2>2. Whole(y) /\ y.rel = d.rel /\ Here(y, m)
      BY <1>3, <1>4, <1>5, <2>1, ReturnEffect
    <2> QED
      BY <1>4, <2>2 DEF Thought
  <1>6. CASE ~ (m \in Wild /\ d.cr[m].at \in TooFar)
    <2>1. PICK u : u = UpdateIdleStatus(d, m)
      OBVIOUS
    <2>2. y \in Act(u, m)
      BY <1>2, <1>6, <2>1
    <2>3. Whole(u) /\ Spread(d, u)
      BY <1>3, <1>4, <2>1, UpdateWhole
    <2>4. Here(u, m) /\ u.cr[m].alive = TRUE /\ u.rel = b.rel
      BY <1>1, <1>4, <2>3 DEF Spread, Stays
    <2>5. Thought(u, y, m)
      BY <2>2, <2>3, <2>4, ActEffect
    <2> QED
      BY <2>4, <2>5, ThoughtTrans
  <1> QED
    BY <1>5, <1>6

-----------------------------------------------------------------------------
(***************************************************************************)
(* A monster dies, and its summons with it.                                *)
(***************************************************************************)
\* Everybody is where he was, and of his side.
InPlace(b, y) ==
    \A z \in Creature : /\ Here(b, z) <=> Here(y, z)
                        /\ Here(b, z) => y.cr[z].at = b.cr[z].at /\ y.cr[z].client = b.cr[z].client
\* A monster that has died, or lost its master after that.
LEMMA DeadGood ==
    ASSUME NEW b, NEW y, NEW s \in Monster, Dutiful(b, s), Here(b, s), IsBusy(b, s), y.cr[s].alive = FALSE,
           InPlace(b, y), SameMind(b, y, s), s \in y.dazed \/ y.cr[s].creatureCheck = b.cr[s].creatureCheck,
           s \in b.dazed => s \in y.dazed
    PROVE  Dutiful(y, s)
  <1>1. s \in Creature /\ Here(y, s)
    BY CreatureParts DEF InPlace
  <1>2. \A c : Looks(b, s, None, c) => Looks(y, s, None, c)
    BY <1>1 DEF Looks, Sees, InPlace
  <1>3. Watches(y, s, None)
    BY <1>2 DEF Dutiful, Half, Watches, SameMind
  <1>4. s \notin y.dazed => y.cr[s].creatureCheck
    BY DEF Dutiful, Half
  <1>5. Knows(y, s, None)
    BY DEF Knows
  <1> QED
    BY <1>3, <1>4, <1>5 DEF Dutiful, Half, Watches
\* The others.
LEMMA OthersGood ==
    ASSUME NEW b, NEW y, InPlace(b, y), NEW x \in Monster, Dutiful(b, x),
           SameMind(b, y, x), SameDuty(b, y, x), Stays(b, y, x)
    PROVE  Dutiful(y, x)
  <1>1. Attentive(b, y, x)
    BY DEF Attentive, SameMind
  <1>2. \A z \in Creature : /\ Here(b, z) <=> Here(y, z)
                            /\ Here(b, z) => y.cr[z].at = b.cr[z].at /\ y.cr[z].client = b.cr[z].client
    BY DEF InPlace
  <1>3. Half(y, x, None)
    BY <1>1, <1>2, HalfKept DEF Dutiful
  <1> QED
    BY <1>3 DEF Dutiful

\* A creature in the world without health.
Dead(o) == [o EXCEPT !.alive = FALSE]
LEMMA DeadEffect ==
    ASSUME NEW b, Intact(b), NEW s \in Monster, Here(b, s), NEW y, y = With(b, s, Dead(b.cr[s]))
    PROVE  /\ Intact(y) /\ InPlace(b, y) /\ y.rel = b.rel /\ y.tasks = b.tasks /\ y.dazed = b.dazed
           /\ y.cr[s].alive = FALSE /\ y.cr[s].master = b.cr[s].master
           /\ \A x \in Creature : SameMind(b, y, x) /\ SameDuty(b, y, x) /\ (x # s => Stays(b, y, x))
  <1>1. b \in Books /\ s \in Creature
    BY CreatureParts DEF Intact
  <1>2. PICK o \in Object : o = b.cr[s]
    BY <1>1, ObjectParts
  <1>3. PICK r : r = Dead(o)
    OBVIOUS
  <1>4. Lived(o, r) /\ r.at = o.at /\ r.alive = FALSE /\ r.client = o.client
    BY <1>3 DEF Lived, Object, Dead
  <1>5. /\ Intact(y) /\ y.cr[s] = r /\ y.rel = b.rel /\ y.tasks = b.tasks /\ y.dazed = b.dazed
        /\ \A x \in Creature \ {s} : y.cr[x] = b.cr[x]
        /\ \A x \in Creature : Here(b, x) <=> Here(y, x)
    BY <1>1, <1>2, <1>3, <1>4, LivedSound
  <1>6. InPlace(b, y)
    BY <1>2, <1>4, <1>5 DEF InPlace
  <1>7. ASSUME NEW x \in Creature
        PROVE  SameMind(b, y, x) /\ SameDuty(b, y, x) /\ (x # s => Stays(b, y, x))
    <2>1. CASE x = s
      BY <1>2, <1>4, <1>5, <2>1 DEF SameMind, SameDuty, Lived
    <2>2. CASE x # s
      BY <1>5, <2>2 DEF SameMind, SameDuty, Stays
    <2> QED
      BY <2>1, <2>2
  <1>8. y.cr[s].alive = FALSE /\ y.cr[s].master = b.cr[s].master
    BY <1>2, <1>4, <1>5 DEF Lived
  <1> QED
    BY <1>5, <1>6, <1>7, <1>8

\* A busy monster dies.
LEMMA DiesWhole ==
    ASSUME NEW b, Whole(b), NEW s \in Monster, Here(b, s), IsBusy(b, s), NEW y, y = With(b, s, Dead(b.cr[s]))
    PROVE  /\ Whole(y) /\ InPlace(b, y) /\ y.rel = b.rel
           /\ y.cr[s].alive = FALSE /\ y.cr[s].master = b.cr[s].master
           /\ \A x \in Creature \ {s} : Stays(b, y, x)
  <1>1. /\ Intact(y) /\ InPlace(b, y) /\ y.rel = b.rel /\ y.tasks = b.tasks /\ y.dazed = b.dazed
        /\ y.cr[s].alive = FALSE /\ y.cr[s].master = b.cr[s].master
        /\ \A x \in Creature : SameMind(b, y, x) /\ SameDuty(b, y, x) /\ (x # s => Stays(b, y, x))
    BY DeadEffect DEF Whole
  <1>2. s \in Creature /\ Dutiful(b, s)
    BY WholeWatches
  <1>3. Dutiful(y, s)
    <2>1. y.cr[s].creatureCheck = b.cr[s].creatureCheck /\ SameMind(b, y, s)
      BY <1>1, <1>2 DEF SameDuty
    <2> QED
      BY <1>1, <1>2, <2>1, DeadGood
  <1>4. ASSUME NEW x \in Monster \ {s}
        PROVE  Dutiful(y, x) /\ Led(y, x)
    <2>1. x \in Creature /\ Dutiful(b, x) /\ Led(b, x)
      BY CreatureParts DEF Whole, AllGood
    <2>2. SameMind(b, y, x) /\ SameDuty(b, y, x) /\ Stays(b, y, x)
      BY <1>1, <2>1
    <2> QED
      BY <1>1, <2>1, <2>2, OthersGood, LedKept
  <1>5. Led(y, s)
    BY <1>1 DEF Led
  <1> QED
    BY <1>1, <1>3, <1>4, <1>5 DEF Whole, AllGood

\* A dead monster loses its master.
LEMMA LoseMasterWhole ==
    ASSUME NEW b, Whole(b), NEW s \in Monster, Here(b, s), b.cr[s].alive = FALSE, NEW y, y = LoseMaster(b, s)
    PROVE  /\ Whole(y) /\ y.rel = b.rel /\ Here(y, s) /\ y.cr[s].alive = FALSE /\ y.cr[s].master = None
           /\ y.cr[s].targetList = b.cr[s].targetList
           /\ \A x \in Creature \ {s} : Stays(b, y, x)
  <1>1. Intact(b) /\ s \in Creature /\ Dutiful(b, s)
    BY WholeWatches
  <1>2. /\ Intact(y) /\ y.rel = b.rel
        /\ \A x \in Creature : SameMind(b, y, x) /\ SameDuty(b, y, x) /\ (x # s => Stays(b, y, x))
        /\ Here(y, s) /\ y.cr[s].master = None /\ y.cr[s].at = b.cr[s].at
        /\ y.cr[s].alive = b.cr[s].alive /\ y.cr[s].client = b.cr[s].client
    BY <1>1, LoseMasterEffect
  <1>3. InPlace(b, y)
    <2>1. ASSUME NEW z \in Creature
          PROVE  /\ Here(b, z) <=> Here(y, z)
                 /\ Here(b, z) => y.cr[z].at = b.cr[z].at /\ y.cr[z].client = b.cr[z].client
      <3>1. CASE z = s
        BY <1>2, <3>1
      <3>2. CASE z # s
        BY <1>2, <3>2 DEF Stays
      <3> QED
        BY <3>1, <3>2
    <2> QED
      BY <2>1 DEF InPlace
  <1>4. Dutiful(y, s)
    <2>1. y.cr[s].creatureCheck = b.cr[s].creatureCheck /\ SameMind(b, y, s) /\ (s \in b.dazed => s \in y.dazed)
      BY <1>1, <1>2 DEF SameDuty
    <2>2. y.cr[s].alive = FALSE /\ IsBusy(b, s)
      BY <1>2 DEF IsBusy
    <2> QED
      BY <1>1, <1>3, <2>1, <2>2, DeadGood
  <1>5. ASSUME NEW x \in Monster \ {s}
        PROVE  Dutiful(y, x) /\ Led(y, x)
    <2>1. x \in Creature /\ Dutiful(b, x) /\ Led(b, x)
      BY CreatureParts DEF Whole, AllGood
    <2>2. SameMind(b, y, x) /\ SameDuty(b, y, x) /\ Stays(b, y, x)
      BY <1>2, <2>1
    <2> QED
      BY <1>3, <2>1, <2>2, OthersGood, LedKept
  <1>6. Led(y, s)
    BY <1>2 DEF Led
  <1>7. y.cr[s].targetList = b.cr[s].targetList
    BY <1>1, <1>2 DEF SameDuty
  <1> QED
    BY <1>2, <1>4, <1>5, <1>6, <1>7 DEF Whole, AllGood

LEMMA KilledEffect ==
    ASSUME NEW b, Whole(b), NEW m \in Monster, NEW s \in Summons(b, m), NEW y, y = Killed(b, s)
    PROVE  /\ Whole(y) /\ y.rel = b.rel /\ y.cr[s].master = None
           /\ \A x \in Creature \ {s} : Stays(b, y, x)
  <1>1. Intact(b) /\ m # None
    BY CreatureParts DEF Whole
  <1>2. s \in Creature /\ s \in Monster /\ Here(b, s) /\ b.cr[s].master = m
    BY <1>1, MasterIsHere DEF Summons
  <1>3. b \in Books /\ IsBusy(b, s)
    BY <1>1, <1>2 DEF Intact, IsBusy
  <1>4. PICK d : d = With(b, s, Dead(b.cr[s]))
    OBVIOUS
  <1>5. y = LoseMaster(d, s)
    <2>1. d = [b EXCEPT !.cr[s].alive = FALSE]
      BY <1>2, <1>3, <1>4 DEF With, Dead
    <2> QED
      BY <2>1 DEF Killed
  <1>6. /\ Whole(d) /\ InPlace(b, d) /\ d.rel = b.rel /\ d.cr[s].alive = FALSE
        /\ \A x \in Creature \ {s} : Stays(b, d, x)
    BY <1>2, <1>3, <1>4, DiesWhole
  <1>7. Here(d, s)
    BY <1>2, <1>6 DEF InPlace
  <1>8. /\ Whole(y) /\ y.rel = d.rel /\ y.cr[s].master = None
        /\ \A x \in Creature \ {s} : Stays(d, y, x)
    <2>1. s \in Monster /\ Whole(d) /\ d.cr[s].alive = FALSE
      BY <1>2, <1>6
    <2> QED
      BY <1>5, <1>7, <2>1, LoseMasterWhole
  <1>9. \A x \in Creature \ {s} : Stays(b, y, x)
    BY <1>6, <1>8, StaysTrans
  <1> QED
    BY <1>6, <1>8, <1>9

Killing(b, m, T, d) ==
    /\ Whole(d) /\ d.rel = b.rel /\ Summons(d, m) = Summons(b, m) \ T
    /\ \A x \in Creature \ T : Stays(b, d, x)
LEMMA KillLoop ==
    ASSUME NEW b, Whole(b), NEW m \in Monster, NEW S, S = Summons(b, m)
    PROVE  Killing(b, m, S, KilledAll(b, S))
  <1> DEFINE K == [T \in SUBSET S |-> {d \in Books : Killing(b, m, T, d)}]
  <1>1. b \in Books /\ S \subseteq Creature /\ S \subseteq Summon /\ IsFiniteSet(S) /\ m # None
    <2>1. S \subseteq Summon
      BY DEF Summons
    <2> QED
      BY <2>1, CreatureParts, FS_Subset DEF Intact, Whole
  <1>2. b \in K[{}]
    BY <1>1 DEF Killing, Stays
  <1>3. ASSUME NEW T \in SUBSET S, T # {}, NEW d \in K[T \ {Pick(T)}]
        PROVE  Killed(d, Pick(T)) \in K[T]
    <2>1. PICK s \in T : s = Pick(T)
      BY <1>3, PickIn
    <2>2. PICK U : U = T \ {s}
      OBVIOUS
    <2>3. U \in SUBSET S /\ s \in Creature /\ s \in Summon /\ T = U \cup {s} /\ s \notin U /\ s \in S
      BY <1>1, <2>2
    <2>4. d \in Books /\ Killing(b, m, U, d)
      BY <1>3, <2>1, <2>2, <2>3
    <2>5. PICK y : y = Killed(d, s)
      OBVIOUS
    <2>6. s \in Summons(d, m) /\ Whole(d)
      BY <2>3, <2>4 DEF Killing
    <2>7. /\ Whole(y) /\ y.rel = d.rel /\ y.cr[s].master = None
          /\ \A x \in Creature \ {s} : Stays(d, y, x)
      BY <2>5, <2>6, KilledEffect
    <2>8. Summons(y, m) = Summons(d, m) \ {s}
      <3>1. ASSUME NEW x \in Summon, x # s
            PROVE  y.cr[x].master = m <=> d.cr[x].master = m
        <4>1. x \in Creature /\ Stays(d, y, x)
          BY <2>7, <3>1, CreatureParts
        <4>2. Fit(d, x, 0) /\ Fit(y, x, 0)
          BY <2>6, <2>7, <4>1 DEF Whole, Intact
        <4>3. CASE Here(d, x)
          BY <4>1, <4>3 DEF Stays
        <4>4. CASE ~ Here(d, x)
          BY <1>1, <4>1, <4>2, <4>4 DEF Stays, Fit
        <4> QED
          BY <4>3, <4>4
      <3> QED
        BY <1>1, <2>7, <3>1 DEF Summons
    <2>9. \A x \in Creature \ T : Stays(b, y, x)
      <3>1. ASSUME NEW x \in Creature \ T
            PROVE  Stays(b, y, x)
        <4>1. Stays(b, d, x) /\ Stays(d, y, x)
          BY <2>3, <2>4, <2>7, <3>1 DEF Killing
        <4> QED
          BY <4>1, StaysTrans
      <3> QED
        BY <3>1
    <2>10. Killing(b, m, T, y) /\ y \in Books
      BY <2>3, <2>4, <2>7, <2>8, <2>9 DEF Killing, Whole, Intact
    <2> QED
      BY <2>1, <2>5, <2>10
  <1>4. KilledAll(b, S) \in K[S]
    <2>1. \A T \in SUBSET S : K[T] \subseteq Books
      OBVIOUS
    <2> HIDE DEF K
    <2> QED
      BY <1>1, <1>2, <1>3, <2>1, KilledLoop
  <1> QED
    BY <1>4

-----------------------------------------------------------------------------
(***************************************************************************)
(* Check.                                                                  *)
(***************************************************************************)
\* A monster dies at its check, its summons before it.
LEMMA DeathEffect ==
    ASSUME NEW b, Whole(b), NEW m \in Monster, Here(b, m), b.cr[m].alive = FALSE, NEW y, y = OnDeath(b, m)
    PROVE  /\ Whole(y) /\ y.rel[m] = b.rel[m] + 1
           /\ \A x \in Creature \ {m} : y.rel[x] = b.rel[x]
  <1>1. Intact(b) /\ m \in Creature /\ m # None
    BY WholeWatches, CreatureParts
  <1>2. PICK calm : calm = SetAttackedCreature(b, m, None)
    OBVIOUS
  <1>3. Kept(b, calm, None)
    BY <1>1, <1>2, SetAttackedEffect
  <1>4. Whole(calm) /\ Spread(b, calm)
    BY <1>3, WholeCalm
  <1>5. Here(calm, m) /\ calm.cr[m].alive = FALSE /\ calm.rel = b.rel
    BY <1>1, <1>4 DEF Spread, Stays
  <1>6. PICK S : S = Summons(calm, m)
    OBVIOUS
  <1>7. PICK alone : alone = KilledAll(calm, S)
    OBVIOUS
  <1>8. Killing(calm, m, S, alone)
    BY <1>4, <1>6, <1>7, KillLoop
  <1>9. m \notin S
    BY <1>1, <1>4, <1>6, ObjectParts, CreatureParts DEF Summons, Whole, Intact
  <1>10. /\ Whole(alone) /\ alone.rel = b.rel /\ Summons(alone, m) = {} /\ Here(alone, m) /\ alone.cr[m].alive = FALSE
    BY <1>1, <1>5, <1>6, <1>8, <1>9 DEF Killing, Stays
  <1>11. Intact(alone) /\ Dutiful(alone, m)
    BY <1>10, WholeWatches
  <1>12. PICK e : e = ClearTargetList(alone, m)
    OBVIOUS
  <1>13. /\ Intact(e) /\ Tended(alone, e, m) /\ e.cr[m].targetList = {}
         /\ e.cr[m].creatureCheck = alone.cr[m].creatureCheck /\ (m \in e.dazed <=> m \in alone.dazed)
    BY <1>10, <1>11, <1>12, ClearTargetsEffect
  <1>14. Kept(alone, e, m)
    BY <1>13, TendedKept
  <1>15. Dutiful(e, m)
    <2>1. Stays(alone, e, m) /\ SameMind(alone, e, m)
      BY <1>1, <1>13 DEF Tended
    <2>2. InPlace(alone, e)
      BY <1>13 DEF InPlace, Tended, Stays
    <2>3. e.cr[m].alive = FALSE /\ IsBusy(alone, m)
      BY <1>10, <2>1 DEF Stays, IsBusy
    <2>4. m \in e.dazed \/ e.cr[m].creatureCheck = alone.cr[m].creatureCheck
      BY <1>13
    <2>5. m \in alone.dazed => m \in e.dazed
      BY <1>13
    <2> QED
      BY <1>10, <1>11, <2>1, <2>2, <2>3, <2>4, <2>5, DeadGood
  <1>16. Whole(e) /\ Spread(alone, e)
    BY <1>10, <1>14, <1>15, WholeKept
  <1>17. Here(e, m) /\ e.cr[m].alive = FALSE /\ e.rel = b.rel
    BY <1>1, <1>10, <1>16 DEF Spread, Stays
  <1>18. Summons(e, m) = {}
    <2>1. ASSUME NEW s \in Summons(e, m)
          PROVE  FALSE
      <3>1. s \in Summon /\ s \in Creature /\ Here(e, s) /\ e.cr[s].master = m
        BY <1>1, <1>13, MasterIsHere DEF Summons
      <3>2. Stays(alone, e, s)
        BY <1>16, <3>1 DEF Spread
      <3> QED
        BY <1>10, <3>1, <3>2 DEF Stays, Summons
    <2> QED
      BY <2>1
  <1>19. PICK l : l = LoseMaster(e, m)
    OBVIOUS
  <1>20. /\ Whole(l) /\ l.rel = e.rel /\ Here(l, m) /\ l.cr[m].alive = FALSE /\ l.cr[m].master = None
         /\ l.cr[m].targetList = e.cr[m].targetList
         /\ \A x \in Creature \ {m} : Stays(e, l, x)
    BY <1>16, <1>17, <1>19, LoseMasterWhole
  <1>21. Summons(l, m) = {}
    <2>1. ASSUME NEW s \in Summons(l, m)
          PROVE  FALSE
      <3>1. Intact(l)
        BY <1>20 DEF Whole
      <3>2. s \in Summon /\ s \in Creature /\ Here(l, s) /\ l.cr[s].master = m
        BY <1>1, <3>1, MasterIsHere DEF Summons
      <3>3. s # m
        BY <1>1, <1>20, <3>2
      <3>4. Stays(e, l, s)
        BY <1>20, <3>2, <3>3
      <3> QED
        BY <1>18, <3>2, <3>4 DEF Stays, Summons
    <2> QED
      BY <2>1
  <1>22. Leaver(l, m)
    BY <1>13, <1>20, <1>21 DEF Leaver
  <1>23. y = RemoveCreature(l, m)
    <2>1. alone = FoldSet(LAMBDA s, d : LoseMaster([d EXCEPT !.cr[s].alive = FALSE], s), calm, S)
      BY <1>7 DEF KilledAll, Killed
    <2> QED
      BY <1>2, <1>6, <1>12, <1>19, <2>1, Zenon DEF OnDeath
  <1>24. Intact(l) /\ AllGood(l)
    BY <1>20 DEF Whole
  <1>25. /\ Intact(y) /\ AllGood(y) /\ y.cr[m].where = "gone" /\ y.rel[m] = l.rel[m] + 1
         /\ \A x \in Creature \ {m} : Stays(l, y, x) /\ y.rel[x] = l.rel[x]
    BY <1>1, <1>22, <1>23, <1>24, RemoveEffect
  <1>26. \A x \in Monster : Led(y, x)
    <2>1. Led(y, m)
      BY <1>25 DEF Led, Here
    <2>2. \A x \in Monster \ {m} : Led(l, x) /\ Stays(l, y, x)
      BY <1>20, <1>25, CreatureParts DEF Whole
    <2> QED
      BY <2>1, <2>2, LedKept
  <1> QED
    BY <1>17, <1>20, <1>25, <1>26 DEF Whole

\* A creature that is not to be checked any more leaves the list.
Unlisted(o) == [o EXCEPT !.inCheckCreaturesVector = FALSE]
Listed(b, c) == b.cr[c].inCheckCreaturesVector
LEMMA UnlistedWhole ==
    ASSUME NEW b, Whole(b), NEW c \in Creature, Listed(b, c), b.cr[c].creatureCheck = FALSE,
           NEW y, y = Dismissed(b, c, Unlisted(b.cr[c]))
    PROVE  /\ Whole(y) /\ y.rel[c] = b.rel[c] + 1 /\ \A x \in Creature \ {c} : y.rel[x] = b.rel[x]
  <1>1. b \in Books /\ Intact(b)
    BY DEF Whole, Intact
  <1>2. PICK o \in Object : o = b.cr[c]
    BY <1>1, ObjectParts
  <1>3. PICK r : r = Unlisted(o)
    OBVIOUS
  <1>4. /\ r \in Object /\ r.where = o.where /\ r.at = o.at /\ r.alive = o.alive /\ r.client = o.client
        /\ r.creatureCheck = o.creatureCheck /\ r.inCheckCreaturesVector = FALSE
        /\ r.targetList = o.targetList /\ r.attackedCreature = o.attackedCreature
        /\ r.followCreature = o.followCreature /\ r.master = o.master /\ r.refs = o.refs
    BY <1>3 DEF Unlisted, Object
  <1>5. /\ y \in Books /\ y.cr[c] = r /\ \A x \in Creature \ {c} : y.cr[x] = b.cr[x] /\ y.rel[x] = b.rel[x]
        /\ y.rel[c] = b.rel[c] + 1 /\ y.dazed = b.dazed
    BY <1>1, <1>2, <1>3, <1>4, ReleasedEffect
  <1>6. \A x \in Creature : Here(y, x) <=> Here(b, x)
    BY <1>2, <1>4, <1>5 DEF Here
  <1>7. \A x \in Creature : HeldIn(y, x) = HeldIn(b, x)
    <2>1. \A x \in Creature : y.cr[x].targetList = b.cr[x].targetList
      BY <1>2, <1>4, <1>5
    <2> QED
      BY <2>1, HeldKept, CreatureParts
  <1>8. ASSUME NEW x \in Creature \ {c}
        PROVE  Fit(y, x, 0)
    <2>1. Fit(b, x, 0) /\ y.cr[x] = b.cr[x] /\ y.rel[x] = b.rel[x]
      BY <1>1, <1>5 DEF Intact
    <2> QED
      BY <1>1, <1>5, <1>6, <1>7, <2>1, FitKept
  <1>9. Fit(y, c, 0)
    <2>1. Fit(b, c, 0) /\ o.inCheckCreaturesVector = TRUE
      BY <1>1, <1>2, ObjectParts DEF Intact, Listed
    <2>2. o.where # "new" /\ r.where # "new"
      <3>1. o # NewCreature
        BY <2>1, NewParts
      <3> QED
        BY <1>2, <1>4, <2>1, <3>1 DEF Fit
    <2>3. PICK k \in Nat : k = CountOf(Here(b, c)) /\ k = CountOf(Here(y, c))
      BY <1>6 DEF CountOf
    <2>4. CountOf(b.cr[c].inCheckCreaturesVector) = 1 /\ CountOf(y.cr[c].inCheckCreaturesVector) = 0
      BY <1>4, <1>5 DEF CountOf, Listed
    <2>5. PICK f \in Nat : f = CountOf(b.cr[c].master # None) /\ f = CountOf(y.cr[c].master # None)
      BY <1>2, <1>4, <1>5 DEF CountOf
    <2>6. PICK h \in Nat, l \in Nat : h = HeldIn(b, c) /\ h = HeldIn(y, c) /\ l = b.rel[c] /\ l + 1 = y.rel[c]
      BY <1>1, <1>5, <1>7, HeldIsNat, ObjectParts
    <2>7. Holders(b, c) = k + 1 + f + l + h /\ Holders(y, c) = k + 0 + f + (l + 1) + h
      BY <2>3, <2>4, <2>5, <2>6 DEF Holders
    <2>8. b.cr[c].refs = Holders(b, c) + 0
      BY <2>1 DEF Fit
    <2>9. y.cr[c].refs = Holders(y, c) + 0
      BY <1>2, <1>4, <1>5, <2>7, <2>8
    <2>10. b.cr[c].master # None => Here(y, b.cr[c].master)
      BY <1>1, <1>6, <2>1, ObjectParts, CreatureParts DEF Fit
    <2>11. r.creatureCheck = FALSE
      BY <1>2, <1>4
    <2> QED
      BY <1>2, <1>4, <1>5, <1>6, <2>1, <2>2, <2>9, <2>10, <2>11 DEF Fit
  <1>10. Intact(y)
    BY <1>5, <1>8, <1>9 DEF Intact
  <1>11. \A x \in Creature : Stays(b, y, x) /\ SameMind(b, y, x) /\ SameDuty(b, y, x)
    <2>1. \A x \in Creature \ {c} : Stays(b, y, x) /\ SameMind(b, y, x) /\ SameDuty(b, y, x)
      BY <1>5, <1>6 DEF Stays, SameMind, SameDuty
    <2>2. Stays(b, y, c) /\ SameMind(b, y, c) /\ SameDuty(b, y, c)
      BY <1>2, <1>4, <1>5, <1>6 DEF Stays, SameMind, SameDuty
    <2> QED
      BY <2>1, <2>2
  <1>12. AllGood(y)
    BY <1>11, UntouchedGood DEF Whole
  <1>13. \A m \in Monster : Led(y, m)
    BY <1>11, LedKept, CreatureParts DEF Whole
  <1> QED
    BY <1>5, <1>10, <1>12, <1>13 DEF Whole

\* toRelease: everybody who waits in it has left the world.
RelOk(b) == \A c \in Creature : b.rel[c] <= 1 /\ (b.rel[c] > 0 => ~ Here(b, c))
LEMMA CheckEffect ==
    ASSUME NEW b, Whole(b), RelOk(b), NEW c \in Creature, Listed(b, c), NEW y \in Check(b, c)
    PROVE  Whole(y) /\ \A x \in Creature : y.rel[x] <= 2
  <1>1. Intact(b) /\ b \in Books /\ Fit(b, c, 0) /\ \A x \in Creature : b.rel[x] \in Nat /\ b.rel[x] <= 1
    BY ObjectParts DEF Whole, Intact, RelOk
  <1>2. CASE b.cr[c].creatureCheck = FALSE
    <2>1. y = [b EXCEPT !.cr[c].inCheckCreaturesVector = FALSE, !.rel[c] = @ + 1]
      BY <1>2 DEF Check
    <2>2. y = Dismissed(b, c, Unlisted(b.cr[c]))
      BY <1>1, <2>1 DEF Dismissed, Unlisted, Books
    <2>3. b.cr[c].creatureCheck = FALSE
      BY <1>1, <1>2, ObjectParts
    <2>4. /\ Whole(y) /\ y.rel[c] = b.rel[c] + 1 /\ \A x \in Creature \ {c} : y.rel[x] = b.rel[x]
      BY <2>2, <2>3, UnlistedWhole
    <2> QED
      BY <1>1, <2>4
  <1>3. CASE b.cr[c].creatureCheck = TRUE /\ c \in Player
    <2>1. y = b
      BY <1>3 DEF Check
    <2> QED
      BY <1>1, <2>1
  <1>4. CASE b.cr[c].creatureCheck = TRUE /\ c \notin Player /\ b.cr[c].alive = TRUE
    <2>1. PICK d \in OnThink(b, c) : y = DoAttacking(d, c)
      BY <1>4 DEF Check
    <2>2. c \in Monster /\ Here(b, c)
      BY <1>1, <1>4 DEF Fit, Creature
    <2>3. b.cr[c].alive = TRUE /\ b.cr[c].creatureCheck = TRUE
      BY <1>1, <1>4, ObjectParts
    <2>4. Thought(b, d, c)
      BY <2>1, <2>2, <2>3, ThinkEffect
    <2>5. Whole(d) /\ d.rel = b.rel /\ Here(d, c)
      BY <2>4 DEF Thought
    <2>6. Whole(y) /\ Spread(d, y)
      BY <2>1, <2>2, <2>5, DoAttackingEffect
    <2> QED
      BY <1>1, <2>5, <2>6 DEF Spread
  <1>5. CASE b.cr[c].creatureCheck = TRUE /\ c \notin Player /\ b.cr[c].alive = FALSE
    <2>1. y = OnDeath(b, c)
      BY <1>5 DEF Check
    <2>2. c \in Monster /\ Here(b, c)
      BY <1>1, <1>5 DEF Fit, Creature
    <2>3. b.cr[c].alive = FALSE
      BY <1>1, <1>5, ObjectParts
    <2>4. /\ Whole(y) /\ y.rel[c] = b.rel[c] + 1
          /\ \A x \in Creature \ {c} : y.rel[x] = b.rel[x]
      BY <2>1, <2>2, <2>3, DeathEffect
    <2> QED
      BY <1>1, <2>4
  <1>6. b.cr[c].creatureCheck \in {TRUE, FALSE} /\ b.cr[c].alive \in {TRUE, FALSE}
    BY <1>1, ObjectParts
  <1> QED
    BY <1>2, <1>3, <1>4, <1>5, <1>6

-----------------------------------------------------------------------------
(***************************************************************************)
(* The steps, of the books.                                                *)
(***************************************************************************)
Sane(b) == Whole(b) /\ RelOk(b)
LEMMA SaneParts ==
    ASSUME NEW b, Sane(b)
    PROVE  /\ Whole(b) /\ RelOk(b) /\ Intact(b) /\ AllGood(b) /\ b \in Books
           /\ \A m \in Monster : Led(b, m) /\ Dutiful(b, m)
           /\ \A c \in Creature : Fit(b, c, 0) /\ b.rel[c] \in Nat
  BY ObjectParts DEF Sane, Whole, Intact, AllGood
\* Who is new is in no list.
LEMMA NewIsFree ==
    ASSUME NEW b, Intact(b), NEW c \in Creature, b.cr[c].where = "new"
    PROVE  b.rel[c] = 0 /\ ~ Here(b, c)
  <1>1. b \in Books /\ Fit(b, c, 0) /\ b.rel[c] \in Nat
    BY ObjectParts DEF Intact
  <1>2. b.cr[c].refs = 0
    BY <1>1, NewParts DEF Fit
  <1>3. b.rel[c] <= Holders(b, c) /\ Holders(b, c) \in Nat
    BY <1>1, HoldersParts
  <1> QED
    BY <1>1, <1>2, <1>3 DEF Fit, Here

LEMMA MoveSane ==
    ASSUME NEW b, Sane(b), NEW c \in Creature, Here(b, c), NEW to \in Place, b.cr[c].at # to,
           NEW y, y = MoveCreature(b, c, to)
    PROVE  Sane(y)
  <1>1. Intact(b) /\ AllGood(b) /\ RelOk(b)
    BY SaneParts
  <1>2. /\ Intact(y) /\ AllGood(y) /\ y.rel = b.rel
        /\ \A x \in Creature \ {c} : Stays(b, y, x)
        /\ Here(y, c) /\ y.cr[c].at = to /\ y.cr[c].alive = b.cr[c].alive
        /\ y.cr[c].client = b.cr[c].client /\ y.cr[c].master = b.cr[c].master
    BY <1>1, MoveEffect
  <1>3. ASSUME NEW m \in Monster
        PROVE  Led(y, m)
    <2>1. Led(b, m) /\ m \in Creature
      BY SaneParts, CreatureParts
    <2>2. CASE m = c
      BY <1>2, <2>1, <2>2 DEF Led
    <2>3. CASE m # c
      BY <1>2, <2>1, <2>3, LedKept
    <2> QED
      BY <2>2, <2>3
  <1>4. \A x \in Creature : Here(y, x) => Here(b, x)
    BY <1>2 DEF Stays
  <1>5. RelOk(y)
    BY <1>1, <1>2, <1>4 DEF RelOk
  <1> QED
    BY <1>2, <1>3, <1>5 DEF Sane, Whole

LEMMA PlaceSane ==
    ASSUME NEW b, Sane(b), NEW c \in Player \cup Wild, b.cr[c].where = "new", NEW place \in Place,
           NEW y, y = PlaceCreature(b, c, place)
    PROVE  Sane(y)
  <1>1. Intact(b) /\ AllGood(b) /\ RelOk(b) /\ c \in Creature /\ c \notin Summon
    BY SaneParts, CreatureParts
  <1>2. /\ Intact(y) /\ AllGood(y) /\ y.rel = b.rel
        /\ \A x \in Creature \ {c} : Stays(b, y, x)
    BY <1>1, PlaceEffect
  <1>3. ASSUME NEW m \in Monster
        PROVE  Led(y, m)
    <2>1. Led(b, m) /\ m \in Creature
      BY SaneParts, CreatureParts
    <2>2. CASE m = c
      BY <1>1, <2>2 DEF Led
    <2>3. CASE m # c
      BY <1>2, <2>1, <2>3, LedKept
    <2> QED
      BY <2>2, <2>3
  <1>4. \A x \in Creature : Here(y, x) => Here(b, x) \/ b.rel[x] = 0
    BY <1>1, <1>2, NewIsFree DEF Stays
  <1>5. RelOk(y)
    BY <1>1, <1>2, <1>4 DEF RelOk
  <1> QED
    BY <1>2, <1>3, <1>5 DEF Sane, Whole

LEMMA LeaveSane ==
    ASSUME NEW b, Sane(b), NEW p \in Player, Here(b, p), NEW y, y = RemoveCreature(b, p)
    PROVE  Sane(y)
  <1>1. Intact(b) /\ AllGood(b) /\ RelOk(b) /\ p \in Creature /\ p \notin Monster /\ b \in Books
    BY SaneParts, CreatureParts
  <1>2. Leaver(b, p)
    <2>1. Fit(b, p, 0) /\ b.cr[p].master \in Wild \cup {None}
      BY <1>1, ObjectParts DEF Intact
    <2>2. b.cr[p].targetList = {} /\ b.cr[p].master = None
      BY <1>1, <2>1, CreatureParts DEF Fit
    <2>3. Summons(b, p) = {}
      <3>1. \A s \in Summon : s \in Creature
        BY CreatureParts
      <3>2. \A s \in Summon : b.cr[s].master \in Wild \cup {None}
        BY <1>1, <3>1, ObjectParts
      <3> QED
        BY <1>1, <3>2, CreatureParts DEF Summons
    <2> QED
      BY <1>1, <2>2, <2>3 DEF Leaver
  <1>3. /\ Intact(y) /\ AllGood(y) /\ y.cr[p].where = "gone" /\ y.rel[p] = b.rel[p] + 1
        /\ \A x \in Creature \ {p} : Stays(b, y, x) /\ y.rel[x] = b.rel[x]
    BY <1>1, <1>2, RemoveEffect
  <1>4. \A m \in Monster : Led(y, m)
    <2>1. \A m \in Monster : Led(b, m) /\ Stays(b, y, m)
      BY <1>1, <1>3, SaneParts, CreatureParts
    <2> QED
      BY <2>1, LedKept
  <1>5. b.rel[p] = 0
    BY <1>1, SaneParts DEF RelOk
  <1>6. RelOk(y)
    <2>1. \A x \in Creature \ {p} : y.rel[x] <= 1 /\ (y.rel[x] > 0 => ~ Here(y, x))
      BY <1>1, <1>3 DEF RelOk, Stays
    <2>2. y.rel[p] <= 1 /\ ~ Here(y, p)
      BY <1>3, <1>5 DEF Here
    <2> QED
      BY <2>1, <2>2 DEF RelOk
  <1> QED
    BY <1>3, <1>4, <1>6 DEF Sane, Whole

\* A player who loses his client or gets another.
LEMMA ServedEffect ==
    ASSUME NEW b, Sane(b), NEW p \in Player, Here(b, p), NEW r, Lived(b.cr[p], r), r.at = b.cr[p].at,
           NEW y, y = With(b, p, r)
    PROVE  /\ Intact(y) /\ RelOk(y) /\ y.dazed = b.dazed /\ y.cr[p] = r
           /\ \A m \in Monster : y.cr[m] = b.cr[m] /\ Led(y, m)
           /\ \A x \in Creature : (Here(y, x) <=> Here(b, x)) /\ y.cr[x].at = b.cr[x].at
           /\ \A x \in Player \ {p} : y.cr[x] = b.cr[x]
           /\ \A m \in Monster : Here(b, m) => Watches(y, m, None)
  <1>1. b \in Books /\ Intact(b) /\ RelOk(b) /\ p \in Creature /\ p \notin Monster
    BY SaneParts, CreatureParts
  <1>5. /\ Intact(y) /\ y.cr[p] = r /\ y.rel = b.rel /\ y.tasks = b.tasks /\ y.dazed = b.dazed
        /\ \A x \in Creature \ {p} : y.cr[x] = b.cr[x]
        /\ \A x \in Creature : Here(b, x) <=> Here(y, x)
    BY <1>1, LivedSound
  <1>6. RelOk(y)
    BY <1>1, <1>5 DEF RelOk
  <1>7. \A x \in Creature : y.cr[x].at = b.cr[x].at
    BY <1>5
  <1>8. \A m \in Monster : m \in Creature \ {p} /\ y.cr[m] = b.cr[m]
    BY <1>1, <1>5, CreatureParts
  <1>9. \A m \in Monster : Led(y, m)
    BY <1>5, <1>8, SaneParts DEF Led
  <1>10. ASSUME NEW m \in Monster, Here(b, m)
         PROVE  Watches(y, m, None)
    <2>1. Watches(b, m, None) /\ m \in Creature
      BY <1>10, WholeWatches DEF Sane
    <2>2. \A c : Looks(b, m, None, c) => Looks(y, m, None, c)
      BY <1>5, <1>7, <2>1 DEF Looks, Sees
    <2>3. y.cr[m] = b.cr[m]
      BY <1>8
    <2> QED
      BY <2>1, <2>2, <2>3 DEF Watches
  <1>11. \A x \in Player \ {p} : y.cr[x] = b.cr[x]
    BY <1>5, CreatureParts
  <1> QED
    BY <1>5, <1>6, <1>7, <1>8, <1>9, <1>10, <1>11

NoClient(o) == [o EXCEPT !.client = FALSE]
WithClient(o) == [o EXCEPT !.client = TRUE]
LEMMA ClientParts ==
    ASSUME NEW o \in Object
    PROVE  /\ Lived(o, NoClient(o)) /\ NoClient(o).at = o.at /\ NoClient(o).client = FALSE
           /\ Lived(o, WithClient(o)) /\ WithClient(o).at = o.at /\ WithClient(o).client = TRUE
  BY DEF Lived, Object, NoClient, WithClient

LEMMA LoseClientSane ==
    ASSUME NEW b, Sane(b), NEW p \in Player, Here(b, p), NEW y, y = With(b, p, NoClient(b.cr[p]))
    PROVE  Sane(y)
  <1>0. b.cr[p] \in Object /\ p \in Creature
    BY SaneParts, ObjectParts, CreatureParts
  <1>1. /\ Intact(y) /\ RelOk(y) /\ y.dazed = b.dazed
        /\ \A m \in Monster : y.cr[m] = b.cr[m] /\ Led(y, m)
        /\ \A x \in Creature : (Here(y, x) <=> Here(b, x)) /\ y.cr[x].at = b.cr[x].at
        /\ \A x \in Player \ {p} : y.cr[x] = b.cr[x]
        /\ y.cr[p] = NoClient(b.cr[p])
        /\ \A m \in Monster : Here(b, m) => Watches(y, m, None)
    <2>1. PICK r : r = NoClient(b.cr[p])
      OBVIOUS
    <2>2. Lived(b.cr[p], r) /\ r.at = b.cr[p].at
      BY <1>0, <2>1, ClientParts
    <2> QED
      BY <2>1, <2>2, ServedEffect
  <1>2. ASSUME NEW m \in Monster
        PROVE  Dutiful(y, m)
    <2>1. SUFFICES ASSUME Here(y, m)
                   PROVE  Dutiful(y, m)
      BY DEF Dutiful, Half
    <2>2. Half(b, m, None) /\ m \in Creature /\ Here(b, m) /\ y.cr[m] = b.cr[m]
      BY <1>1, <2>1, SaneParts, CreatureParts DEF Dutiful
    <2>3. \A q \in Player : Here(y, q) /\ y.cr[q].client /\ Sees(y, m, q) => Here(b, q) /\ b.cr[q].client /\ Sees(b, m, q)
      <3>1. y.cr[p].client = FALSE
        BY <1>0, <1>1, ClientParts
      <3> QED
        BY <1>1, <2>2, <3>1, CreatureParts DEF Sees
    <2>4. Knows(b, m, None) => Knows(y, m, None)
      BY <2>2, <2>3 DEF Knows
    <2>5. IsBusy(y, m) <=> IsBusy(b, m)
      BY <2>2 DEF IsBusy
    <2> QED
      BY <1>1, <2>2, <2>4, <2>5 DEF Dutiful, Half, Watches
  <1> QED
    BY <1>1, <1>2 DEF Sane, Whole, AllGood

\* The monsters that see a player and have not got him among their targets.
Overlooked(b, p) == {m \in MonstersAt(b, b.cr[p].at) : p \notin b.cr[m].targetList}
LEMMA TakeOverSane ==
    ASSUME NEW b, Sane(b), NEW p \in Player, Here(b, p), NEW d, d = With(b, p, WithClient(b.cr[p])),
           NEW D, D = Overlooked(b, p),
           NEW y, y = Awoken(d, d.dazed \cup D)
    PROVE  Sane(y)
  <1>0. b.cr[p] \in Object /\ p \in Creature
    BY SaneParts, ObjectParts, CreatureParts
  <1>1. /\ Intact(d) /\ RelOk(d) /\ d.dazed = b.dazed
        /\ \A m \in Monster : d.cr[m] = b.cr[m] /\ Led(d, m)
        /\ \A x \in Creature : (Here(d, x) <=> Here(b, x)) /\ d.cr[x].at = b.cr[x].at
        /\ \A x \in Player \ {p} : d.cr[x] = b.cr[x]
        /\ \A m \in Monster : Here(b, m) => Watches(d, m, None)
    <2>1. PICK r : r = WithClient(b.cr[p])
      OBVIOUS
    <2>2. Lived(b.cr[p], r) /\ r.at = b.cr[p].at
      BY <1>0, <2>1, ClientParts
    <2> QED
      BY <2>1, <2>2, ServedEffect
  <1>2. ASSUME NEW m \in Monster \ D
        PROVE  Dutiful(d, m)
    <2>1. SUFFICES ASSUME Here(d, m)
                   PROVE  Dutiful(d, m)
      BY DEF Dutiful, Half
    <2>2. Half(b, m, None) /\ m \in Creature /\ Here(b, m) /\ d.cr[m] = b.cr[m]
      BY <1>1, <2>1, SaneParts, CreatureParts DEF Dutiful
    <2>3. p \in b.cr[m].targetList \/ ~ Sees(b, m, p)
      BY <1>2, <2>2 DEF MonstersAt, Sees, Overlooked
    <2>4. \A q \in Player : Here(d, q) /\ d.cr[q].client /\ Sees(d, m, q) =>
              q \in b.cr[m].targetList \/ (Here(b, q) /\ b.cr[q].client /\ Sees(b, m, q))
      BY <1>1, <2>2, <2>3, CreatureParts DEF Sees
    <2>5. Knows(b, m, None) => Knows(d, m, None)
      BY <2>2, <2>4 DEF Knows
    <2>6. IsBusy(d, m) <=> IsBusy(b, m)
      BY <2>2 DEF IsBusy
    <2> QED
      BY <1>1, <2>2, <2>5, <2>6 DEF Dutiful, Half, Watches
  <1>3. D \in SUBSET Monster /\ \A m \in D : Here(d, m) => Watches(d, m, None)
    BY <1>1, CreatureParts DEF MonstersAt, Overlooked
  <1>4. \A m \in Monster : Led(d, m)
    BY <1>1
  <1>5. Whole(y) /\ Spread(d, y)
    BY <1>1, <1>2, <1>3, <1>4, DazedWhole
  <1>6. RelOk(y)
    BY <1>1, <1>5 DEF RelOk, Spread, Stays
  <1> QED
    BY <1>5, <1>6 DEF Sane

\* A monster dies that had overlooked somebody.
LEMMA OverlookedDies ==
    ASSUME NEW b, Sane(b), NEW m \in Monster \ Summon, Here(b, m), ~ Knows(b, m, None),
           NEW y, y = With(b, m, Dead(b.cr[m]))
    PROVE  Sane(y)
  <1>1. Whole(b) /\ RelOk(b) /\ m \in Creature
    BY SaneParts, CreatureParts
  <1>2. Dutiful(b, m) /\ Watches(b, m, None)
    BY <1>1, WholeWatches
  <1>3. m \in b.dazed
    BY <1>2 DEF Dutiful, Half
  <1>4. /\ Intact(y) /\ InPlace(b, y) /\ y.rel = b.rel /\ y.tasks = b.tasks /\ y.dazed = b.dazed
        /\ y.cr[m].alive = FALSE
        /\ \A x \in Creature : SameMind(b, y, x) /\ SameDuty(b, y, x) /\ (x # m => Stays(b, y, x))
    BY <1>1, DeadEffect DEF Whole
  <1>5. Dutiful(y, m)
    <2>1. Here(y, m)
      BY <1>1, <1>4 DEF InPlace
    <2>2. \A c : Looks(b, m, None, c) => Looks(y, m, None, c)
      BY <1>1, <1>4 DEF Looks, Sees, InPlace
    <2>3. Watches(y, m, None)
      BY <1>1, <1>2, <1>4, <2>2 DEF Watches, SameMind
    <2> QED
      BY <1>3, <1>4, <2>3 DEF Dutiful, Half, Watches
  <1>6. ASSUME NEW x \in Monster \ {m}
        PROVE  Dutiful(y, x) /\ Led(y, x)
    <2>1. x \in Creature /\ Dutiful(b, x) /\ Led(b, x)
      BY SaneParts, CreatureParts
    <2>2. SameMind(b, y, x) /\ SameDuty(b, y, x) /\ Stays(b, y, x)
      BY <1>4, <2>1
    <2> QED
      BY <1>4, <2>1, <2>2, OthersGood, LedKept
  <1>7. Led(y, m)
    BY <1>4 DEF Led
  <1>8. Whole(y)
    BY <1>4, <1>5, <1>6, <1>7 DEF Whole, AllGood
  <1> QED
    BY <1>1, <1>4, <1>8 DEF Sane, RelOk, InPlace

LEMMA SlaySane ==
    ASSUME NEW b, Sane(b), NEW p \in Player, Here(b, p), b.cr[p].client = TRUE, NEW m \in Monster, Here(b, m),
           b.cr[m].alive = TRUE, Sees(b, p, m), NEW y, y = With(b, m, Dead(b.cr[m]))
    PROVE  Sane(y)
  <1>1. Whole(b) /\ RelOk(b) /\ m \in Creature
    BY SaneParts, CreatureParts
  <1>2. CASE IsBusy(b, m)
    <2>1. Whole(y) /\ InPlace(b, y) /\ y.rel = b.rel
      BY <1>1, <1>2, DiesWhole
    <2> QED
      BY <1>1, <2>1 DEF Sane, RelOk, InPlace
  <1>3. CASE ~ IsBusy(b, m)
    <2>1. m \notin Summon /\ m \in Wild
      BY <1>1, <1>3, SaneParts, CreatureParts DEF Led, IsBusy
    <2>2. ~ Knows(b, m, None)
      <3>1. p # None /\ Sees(b, m, p) /\ b.cr[m].targetList = {} /\ m # None
        BY <1>3, CreatureParts DEF Sees, IsBusy
      <3> QED
        BY <2>1, <3>1 DEF Knows
    <2> QED
      BY <2>1, <2>2, OverlookedDies
  <1> QED
    BY <1>2, <1>3

LEMMA CleanSane ==
    ASSUME NEW b, Whole(b), \A x \in Creature : b.rel[x] <= 2, NEW y, y = Cleanup(b)
    PROVE  Sane(y)
  <1>1. /\ Intact(y) /\ AllGood(y)
        /\ \A x \in Creature : Stays(b, y, x) /\ y.rel[x] = 0
    BY CleanupEffect DEF Whole
  <1>2. \A m \in Monster : Led(y, m)
    BY <1>1, LedKept, CreatureParts DEF Whole
  <1>3. RelOk(y)
    BY <1>1 DEF RelOk
  <1> QED
    BY <1>1, <1>2, <1>3 DEF Sane, Whole

LEMMA AttackSane ==
    ASSUME NEW b, Sane(b), NEW m \in Monster, NEW d, d = Tasked(b, b.tasks \ {m}),
           NEW y, y = IF Here(d, m) /\ d.cr[m].alive THEN DoAttacking(d, m) ELSE d
    PROVE  Sane(y)
  <1>1. Whole(b) /\ Intact(b) /\ RelOk(b) /\ b.tasks \ {m} \in SUBSET Monster
    BY SaneParts DEF Books
  <1>2. Kept(b, d, None)
    BY <1>1, TaskedKept
  <1>3. Whole(d) /\ Spread(b, d)
    BY <1>1, <1>2, WholeCalm
  <1>4. Whole(y) /\ Spread(d, y)
    <2>1. CASE Here(d, m) /\ d.cr[m].alive
      <3>1. y = DoAttacking(d, m) /\ Here(d, m)
        BY <2>1
      <3> QED
        BY <1>3, <3>1, DoAttackingEffect
    <2>2. CASE ~ (Here(d, m) /\ d.cr[m].alive)
      <3>1. y = d /\ Intact(d)
        BY <1>3, <2>2 DEF Whole
      <3> QED
        BY <1>3, <3>1, SpreadSelf
    <2> QED
      BY <2>1, <2>2
  <1>5. RelOk(y)
    BY <1>1, <1>3, <1>4 DEF RelOk, Spread, Stays
  <1> QED
    BY <1>4, <1>5 DEF Sane

-----------------------------------------------------------------------------
(***************************************************************************)
(* The invariant.                                                          *)
(***************************************************************************)
MonstersInv == Sane(Book) /\ happened \in 0 .. MaxHappenings

LEMMA BookParts ==
    /\ Book.cr = creature /\ Book.rel = toRelease /\ Book.tasks = attackTasks /\ Book.dazed = dazed
  BY DEF Book
LEMMA WrittenBook ==
    ASSUME NEW b, b \in Books, Write(b)
    PROVE  Book' = b
  BY DEF Book, Write, Books

LEMMA MonstersStarts ==
    ASSUME MonstersInit
    PROVE  MonstersInv
  <1>1. PICK b : b = Book
    OBVIOUS
  <1>2. /\ b.cr = [c \in Creature |-> NewCreature] /\ b.rel = [c \in Creature |-> 0]
        /\ b.tasks = {} /\ b.dazed = {}
    BY <1>1, BookParts DEF MonstersInit
  <1>3. b \in Books
    <2>1. b = [cr |-> [c \in Creature |-> NewCreature], rel |-> [c \in Creature |-> 0], tasks |-> {}, dazed |-> {}]
      BY <1>1 DEF Book, MonstersInit
    <2> QED
      BY <2>1, NewParts DEF Books
  <1>4. \A c \in Creature : ~ Here(b, c) /\ HeldIn(b, c) = 0
    <2>1. ASSUME NEW c \in Creature
          PROVE  ~ Here(b, c) /\ HeldIn(b, c) = 0
      <3>1. ~ Here(b, c)
        BY <1>2, NewParts DEF Here
      <3>2. {m \in Monster : c \in b.cr[m].targetList} = {}
        BY <1>2, NewParts, CreatureParts
      <3>3. Cardinality({m \in Monster : c \in b.cr[m].targetList}) = 0
        BY <3>2, FS_EmptySet
      <3> QED
        BY <3>1, <3>3 DEF HeldIn
    <2> QED
      BY <2>1
  <1>5. ASSUME NEW c \in Creature
        PROVE  Fit(b, c, 0)
    <2>1. b.cr[c] = NewCreature /\ b.rel[c] = 0
      BY <1>2
    <2>2. Holders(b, c) = 0
      <3>1. CountOf(Here(b, c)) = 0
        BY <1>4 DEF CountOf
      <3>2. CountOf(b.cr[c].inCheckCreaturesVector) = 0
        BY <2>1, NewParts DEF CountOf
      <3>3. CountOf(b.cr[c].master # None) = 0
        BY <2>1, NewParts DEF CountOf
      <3> QED
        BY <1>4, <2>1, <3>1, <3>2, <3>3 DEF Holders
    <2> QED
      BY <2>1, <2>2, NewParts DEF Fit
  <1>6. \A m \in Monster : Dutiful(b, m) /\ Led(b, m)
    BY <1>4, CreatureParts DEF Dutiful, Half, Led
  <1>7. RelOk(b)
    BY <1>2 DEF RelOk
  <1>8. Sane(b)
    BY <1>3, <1>5, <1>6, <1>7 DEF Sane, Whole, Intact, AllGood
  <1> QED
    BY <1>1, <1>8, MonstersAssumption DEF MonstersInv, MonstersInit

LEMMA HappensKeeps ==
    ASSUME NEW b, b = Book, Sane(b), Happens
    PROVE  Sane(Book')
  <1>1. b \in Books /\ b.cr = creature
    BY SaneParts, BookParts
  <1>2. ASSUME NEW y, Sane(y), Write(y)
        PROVE  Sane(Book')
    BY <1>2, SaneParts, WrittenBook
  <1>3. ASSUME NEW c \in Creature, NEW place \in Place, StepTo(c, place)
        PROVE  Sane(Book')
    <2>1. PICK y : y = MoveCreature(b, c, place)
      OBVIOUS
    <2>2. Here(b, c) /\ b.cr[c].at # place /\ Write(y)
      BY <1>1, <1>3, <2>1 DEF StepTo
    <2>3. Sane(y)
      BY <2>1, <2>2, MoveSane
    <2> QED
      BY <1>2, <2>2, <2>3
  <1>4. ASSUME NEW m \in Wild, SpawnMonster(m)
        PROVE  Sane(Book')
    <2>1. PICK y : y = PlaceCreature(b, m, Home)
      OBVIOUS
    <2>2. b.cr[m].where = "new" /\ Write(y)
      BY <1>1, <1>4, <2>1 DEF SpawnMonster
    <2>3. Sane(y)
      BY <2>1, <2>2, PlaceSane, MonstersAssumption
    <2> QED
      BY <1>2, <2>2, <2>3
  <1>5. ASSUME NEW p \in Player, NEW place \in Place, PlayerComes(p, place)
        PROVE  Sane(Book')
    <2>1. PICK y : y = PlaceCreature(b, p, place)
      OBVIOUS
    <2>2. b.cr[p].where = "new" /\ Write(y)
      BY <1>1, <1>5, <2>1 DEF PlayerComes
    <2>3. Sane(y)
      BY <2>1, <2>2, PlaceSane
    <2> QED
      BY <1>2, <2>2, <2>3
  <1>6. ASSUME NEW p \in Player, PlayerGoes(p)
        PROVE  Sane(Book')
    <2>1. PICK y : y = RemoveCreature(b, p)
      OBVIOUS
    <2>2. Here(b, p) /\ Write(y)
      BY <1>1, <1>6, <2>1 DEF PlayerGoes
    <2>3. Sane(y)
      BY <2>1, <2>2, LeaveSane
    <2> QED
      BY <1>2, <2>2, <2>3
  <1>7. ASSUME NEW p \in Player, LoseClient(p)
        PROVE  Sane(Book')
    <2>1. PICK y : y = With(b, p, NoClient(b.cr[p]))
      OBVIOUS
    <2>2. p \in Creature
      BY CreatureParts
    <2>3. y = [b EXCEPT !.cr[p].client = FALSE]
      BY <1>1, <2>1, <2>2 DEF With, NoClient
    <2>4. Here(b, p) /\ Write(y)
      BY <1>1, <1>7, <2>3 DEF LoseClient
    <2>5. Sane(y)
      BY <2>1, <2>4, LoseClientSane
    <2> QED
      BY <1>2, <2>4, <2>5
  <1>8. ASSUME NEW p \in Player, TakeOver(p)
        PROVE  Sane(Book')
    <2>1. PICK d : d = With(b, p, WithClient(b.cr[p]))
      OBVIOUS
    <2>2. PICK D : D = Overlooked(b, p)
      OBVIOUS
    <2>3. PICK y : y = Awoken(d, d.dazed \cup D)
      OBVIOUS
    <2>4. p \in Creature
      BY CreatureParts
    <2>5. y = [b EXCEPT !.cr[p].client = TRUE, !.dazed = @ \cup D]
      <3>1. d = [b EXCEPT !.cr[p].client = TRUE] /\ d.dazed = b.dazed
        BY <1>1, <2>1, <2>4 DEF With, WithClient, Books
      <3> QED
        BY <1>1, <2>3, <3>1 DEF Awoken, Books
    <2>6. Here(b, p) /\ Write(y)
      <3>1. Write([Book EXCEPT !.cr[p].client = TRUE,
                               !.dazed = @ \cup {m \in MonstersAt(Book, creature[p].at) : p \notin creature[m].targetList}])
        BY <1>8 DEF TakeOver
      <3>2. D = {m \in MonstersAt(Book, creature[p].at) : p \notin creature[m].targetList}
        BY <1>1, <2>2 DEF Overlooked
      <3>3. Here(b, p)
        BY <1>8 DEF TakeOver
      <3> QED
        BY <2>5, <3>1, <3>2, <3>3
    <2>7. Sane(y)
      BY <2>1, <2>2, <2>3, <2>6, TakeOverSane
    <2> QED
      BY <1>2, <2>6, <2>7
  <1>9. ASSUME NEW p \in Player, NEW m \in Monster, Slay(p, m)
        PROVE  Sane(Book')
    <2>1. PICK y : y = With(b, m, Dead(b.cr[m]))
      OBVIOUS
    <2>2. m \in Creature /\ p \in Creature
      BY CreatureParts
    <2>3. y = [b EXCEPT !.cr[m].alive = FALSE]
      BY <1>1, <2>1, <2>2 DEF With, Dead
    <2>4. Here(b, p) /\ Here(b, m) /\ Sees(b, p, m) /\ Write(y)
      BY <1>1, <1>9, <2>3 DEF Slay
    <2>5. b.cr[p].client = TRUE /\ b.cr[m].alive = TRUE
      BY <1>1, <1>9, <2>2, ObjectParts DEF Slay
    <2>6. Sane(y)
      BY <2>1, <2>4, <2>5, SlaySane
    <2> QED
      BY <1>2, <2>4, <2>6
  <1> QED
    BY <1>3, <1>4, <1>5, <1>6, <1>7, <1>8, <1>9 DEF Happens

LEMMA ChecksKeep ==
    ASSUME NEW b, b = Book, Sane(b), NEW c \in Creature, CheckCreatures(c)
    PROVE  Sane(Book')
  <1>1. b.cr = creature /\ Whole(b) /\ RelOk(b)
    BY SaneParts, BookParts
  <1>2. PICK z \in Check(b, c) : Write(Cleanup(z))
    BY DEF CheckCreatures
  <1>3. Listed(b, c)
    BY <1>1 DEF CheckCreatures, Listed
  <1>4. Whole(z) /\ \A x \in Creature : z.rel[x] <= 2
    BY <1>1, <1>3, CheckEffect
  <1>5. PICK y : y = Cleanup(z)
    OBVIOUS
  <1>6. Sane(y)
    BY <1>4, <1>5, CleanSane
  <1> QED
    BY <1>2, <1>5, <1>6, SaneParts, WrittenBook

LEMMA AttacksKeep ==
    ASSUME NEW b, b = Book, Sane(b), NEW m \in Monster, CheckCreatureAttack(m)
    PROVE  Sane(Book')
  <1>1. b \in Books
    BY SaneParts
  <1>2. PICK d : d = Tasked(b, b.tasks \ {m})
    OBVIOUS
  <1>3. d = [Book EXCEPT !.tasks = @ \ {m}]
    BY <1>1, <1>2 DEF Tasked, Books
  <1>4. PICK y : y = IF Here(d, m) /\ d.cr[m].alive THEN DoAttacking(d, m) ELSE d
    OBVIOUS
  <1>5. Write(y)
    BY <1>3, <1>4 DEF CheckCreatureAttack
  <1>6. Sane(y)
    BY <1>2, <1>4, AttackSane
  <1> QED
    BY <1>5, <1>6, SaneParts, WrittenBook

LEMMA MonstersKeeps ==
    ASSUME MonstersInv, [MonstersNext]_monstersVars
    PROVE  MonstersInv'
  <1>1. PICK b : b = Book
    OBVIOUS
  <1>2. Sane(b)
    BY <1>1 DEF MonstersInv
  <1>3. CASE MonstersNext
    <2>1. Sane(Book')
      BY <1>1, <1>2, <1>3, HappensKeeps, ChecksKeep, AttacksKeep DEF MonstersNext
    <2>2. (happened \in 0 .. MaxHappenings)'
      BY <1>3, MonstersAssumption DEF MonstersNext, MonstersInv
    <2> QED
      BY <2>1, <2>2 DEF MonstersInv
  <1>4. CASE UNCHANGED monstersVars
    <2>1. Book' = Book /\ happened' = happened
      BY <1>4 DEF Book, monstersVars
    <2> QED
      BY <2>1 DEF MonstersInv
  <1> QED
    BY <1>3, <1>4

\* The books are sane between any two steps of the dispatcher: counts of
\* references, target lists, masters and checks agree, whatever the calls of
\* game.cpp, monster.cpp and creature.cpp that a step makes inside one another.
THEOREM MonstersInvCorrect == MonstersSpec => []MonstersInv
  <1> QED
    BY MonstersStarts, MonstersKeeps, PTL DEF MonstersSpec

LEMMA BookHas ==
    ASSUME MonstersInv
    PROVE  /\ Book \in Books /\ Intact(Book) /\ RelOk(Book)
           /\ \A m \in Monster : Dutiful(Book, m) /\ Led(Book, m)
           /\ \A c \in Creature : Fit(Book, c, 0) /\ creature[c] \in Object /\ toRelease[c] \in Nat
  BY SaneParts, BookParts, ObjectParts DEF MonstersInv

\* Creatures, lists and counts stay what they are declared to be; above all
\* no creature is in ToReleaseCreatures more than twice (Game::ReleaseCreature,
\* Game::cleanup), and no count of references falls below zero.
THEOREM MonstersTypeCorrect == MonstersSpec => []MonstersTypeOK
  <1>1. ASSUME MonstersInv
        PROVE  MonstersTypeOK
    <2>1. ASSUME NEW c \in Creature
          PROVE  /\ creature[c].where \in {"new", "world", "gone"} /\ creature[c].at \in Place
                 /\ creature[c].targetList \subseteq Creature /\ creature[c].refs \in Nat
                 /\ {creature[c].attackedCreature, creature[c].followCreature} \subseteq Creature \cup {None}
                 /\ creature[c].master \in Monster \cup {None}
                 /\ toRelease[c] \in 0 .. 2
      <3>1. Fit(Book, c, 0) /\ creature[c] \in Object /\ toRelease[c] \in Nat /\ Book \in Books
        BY <1>1, BookHas
      <3>2. Holders(Book, c) \in Nat
        BY <3>1, HoldersParts
      <3>3. creature[c].refs \in Nat
        BY <3>1, <3>2, BookParts DEF Fit
      <3>4. toRelease[c] <= 1
        BY <1>1, BookHas, BookParts DEF RelOk
      <3> QED
        BY <3>1, <3>3, <3>4, CreatureParts DEF Object
    <2>2. toRelease \in [Creature -> 0 .. 2]
      <3>1. toRelease \in [Creature -> Nat]
        BY <1>1, BookHas, BookParts DEF Books
      <3> QED
        BY <2>1, <3>1
    <2>3. attackTasks \subseteq Monster /\ dazed \subseteq Monster
      BY <1>1, BookHas, BookParts DEF Books
    <2> QED
      BY <1>1, <2>1, <2>2, <2>3 DEF MonstersTypeOK, MonstersInv
  <1> QED
    BY <1>1, MonstersInvCorrect, PTL

\* Creature::incrementReferenceCounter and decrementReferenceCounter are called
\* in pairs: a creature is counted once for the map, the check list, its master,
\* each target list it is in and each time it is to be released, so
\* that it is deleted when, and not before, the last of them has let go of it.
THEOREM CreatureRefsCorrect == MonstersSpec => []CreatureRefsExact
  <1>1. ASSUME MonstersInv
        PROVE  CreatureRefsExact
    <2>1. ASSUME NEW c \in Creature
          PROVE  creature[c].refs = CountOf(Here(Book, c)) + CountOf(creature[c].inCheckCreaturesVector)
                                    + CountOf(creature[c].master # None) + toRelease[c] + HeldBy(c)
      <3>1. Fit(Book, c, 0) /\ Book \in Books
        BY <1>1, BookHas
      <3>2. Holders(Book, c) \in Nat
        BY <3>1, HoldersParts
      <3>3. creature[c].refs = Holders(Book, c)
        BY <3>1, <3>2, BookParts DEF Fit
      <3>4. HeldIn(Book, c) = HeldBy(c)
        BY BookParts DEF HeldIn, HeldBy
      <3> QED
        BY <3>3, <3>4, BookParts DEF Holders
    <2> QED
      BY <2>1 DEF CreatureRefsExact
  <1> QED
    BY <1>1, MonstersInvCorrect, PTL

\* attackedCreature, followCreature and master hold plain pointers that nothing
\* counts: Game::removeCreature, Monster::onCreatureMove, Creature::onDeath and
\* Creature::setMaster leave none of them at a creature that is out of the world
\* or out of sight.
THEOREM PointersCorrect == MonstersSpec => []PointersAreLive
  <1>1. ASSUME MonstersInv
        PROVE  PointersAreLive
    <2>1. ASSUME NEW m \in Monster
          PROVE  /\ Here(Book, m) =>
                       \A c \in {creature[m].attackedCreature, creature[m].followCreature} \ {None} :
                           Here(Book, c) /\ Sees(Book, m, c)
                 /\ creature[m].master # None => creature[creature[m].master].where # "new"
      <3>1. Dutiful(Book, m) /\ m \in Creature /\ m # None
        BY <1>1, BookHas, CreatureParts
      <3>2. Fit(Book, m, 0)
        BY <1>1, <3>1, BookHas
      <3>3. ASSUME Here(Book, m), NEW c \in {creature[m].attackedCreature, creature[m].followCreature} \ {None}
            PROVE  Here(Book, c) /\ Sees(Book, m, c)
        BY <3>1, <3>3, BookParts DEF Dutiful, Half, Looks
      <3>4. creature[m].master # None => creature[creature[m].master].where # "new"
        BY <3>2, BookParts DEF Fit, Here
      <3> QED
        BY <3>3, <3>4
    <2> QED
      BY <2>1 DEF PointersAreLive
  <1> QED
    BY <1>1, MonstersInvCorrect, PTL

\* Monster::onCreatureEnter and updateIdleStatus miss nobody: a monster that
\* sees a player has it as a target and is in a check list, and so is one that
\* is dead and not yet cleaned up, or nobody would ever take it away.
THEOREM AwakeCorrect == MonstersSpec => []MonstersAreAwake
  <1>1. ASSUME MonstersInv
        PROVE  MonstersAreAwake
    <2>1. ASSUME NEW m \in Monster \ dazed, Here(Book, m)
          PROVE  /\ ~creature[m].alive => creature[m].creatureCheck
                 /\ m \in Wild /\ creature[m].alive =>
                      \A p \in Player :
                          Here(Book, p) /\ creature[p].client /\ Sees(Book, m, p)
                          => p \in creature[m].targetList /\ creature[m].creatureCheck
      <3>1. Dutiful(Book, m) /\ m # None /\ m \notin Book.dazed
        BY <1>1, <2>1, BookHas, CreatureParts, BookParts
      <3>2. Knows(Book, m, None) /\ (IsBusy(Book, m) => creature[m].creatureCheck)
        BY <2>1, <3>1, BookParts DEF Dutiful, Half
      <3>3. ~creature[m].alive => creature[m].creatureCheck
        BY <3>2, BookParts DEF IsBusy
      <3>4. ASSUME m \in Wild, creature[m].alive, NEW p \in Player, Here(Book, p), creature[p].client, Sees(Book, m, p)
            PROVE  p \in creature[m].targetList /\ creature[m].creatureCheck
        <4>1. p \in Player \ {None}
          BY CreatureParts
        <4>2. p \in creature[m].targetList
          BY <3>1, <3>2, <3>4, <4>1, BookParts DEF Knows
        <4> QED
          BY <3>2, <4>2, BookParts DEF IsBusy
      <3> QED
        BY <3>3, <3>4
    <2> QED
      BY <2>1 DEF MonstersAreAwake
  <1> QED
    BY <1>1, MonstersInvCorrect, PTL
=============================================================================
