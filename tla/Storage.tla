------------------------------- MODULE Storage -------------------------------
(***************************************************************************)
(* Saving the game (src/src/database.cpp, IOLoginData::savePlayer of       *)
(* src/src/iologindata.cpp, IOMapSerialize of src/src/iomapserialize.cpp,  *)
(* Game::saveGameState and Map::save).                                     *)
(*                                                                         *)
(* A player, the list of houses and the things in houses are each saved by *)
(* a transaction of several statements, one after the other in one task of *)
(* the dispatcher.  A statement may fail, the connection may be lost and   *)
(* taken up again by the client library, and the server may crash between  *)
(* any two statements.  The database is transactional: what is not         *)
(* committed when a connection goes is undone.                             *)
(***************************************************************************)
EXTENDS Players, Integers, SequencesExt

CONSTANTS
    Parts,          \* the tables of one record: 1 .. Parts
    Tries,          \* how often a logout and Map::save try
    MaxVersion,     \* bound: how often a record changes
    MaxLosses,      \* bound: how often the connection is lost
    MaxErrors       \* bound: how many statements fail

ASSUME StorageAssumption ==
    /\ IsFiniteSet(Player)
    /\ Parts \in Nat \ {0} /\ Tries \in Nat \ {0}
    /\ {MaxVersion, MaxLosses, MaxErrors} \subseteq Nat
    /\ Player \cap {"info", "items"} = {} /\ None \notin Player \cup {"info", "items"}

VARIABLES
    memory,     \* the version of each record in the server
    stored,     \* the committed version of each table of each record
    open,       \* the transaction the database has open: its tables, or None
    saver,      \* what the dispatcher is saving
    reported,   \* history: the last version a save has reported as saved
    mishaps,    \* bound: errors and losses so far
    torn        \* history: the records of which a save has gone on without a part

storageVars == <<memory, stored, open, saver, reported, mishaps, torn>>

Record == Player \cup {"info", "items"}
Table == 1 .. Parts
Version == 0 .. MaxVersion
Empty == -1         \* the rows of a record are deleted and not yet inserted
Contents == [Table -> Version \cup {Empty}]

\* The first table is updated; the rows of the others are deleted and inserted.
Statements == 2 * Parts - 1
TableOf(n) == n \div 2 + 1
Written(n, v) == IF n % 2 = 0 THEN Empty ELSE v

\* next: 0 before the transaction begins, then the next statement; tries: what
\* is left of them; queue: the records that follow, with their tries.
Saver == [record : Record, next : 0 .. Statements + 1, tries : 1 .. Tries,
          queue : Seq(Record \X (1 .. Tries))]

Transaction == [record : Record, tables : Contents]

\* nullptr is no object.
ASSUME NullAssumption == None \notin Transaction /\ None \notin Saver

StorageTypeOK ==
    /\ memory \in [Record -> Version] /\ reported \in [Record -> Version]
    /\ stored \in [Record -> Contents]
    /\ open = None \/ open \in Transaction
    /\ saver = None \/ saver \in Saver
    /\ mishaps \in [errors : 0 .. MaxErrors, losses : 0 .. MaxLosses]
    /\ torn \subseteq Record

StorageInit ==
    /\ memory = [r \in Record |-> 0]
    /\ stored = [r \in Record |-> [t \in Table |-> 0]]
    /\ open = None /\ saver = None
    /\ reported = [r \in Record |-> 0]
    /\ mishaps = [errors |-> 0, losses |-> 0]
    /\ torn = {}

-----------------------------------------------------------------------------
(* What the dispatcher is at.                                              *)

StartOn(queue) ==
    IF queue = <<>> THEN None
    ELSE [record |-> Head(queue)[1], next |-> 0, tries |-> Head(queue)[2], queue |-> Tail(queue)]

\* A save has failed: it is tried again, or given up.  The things in houses are
\* not saved when the list of houses was not.
AfterFailure(s) ==
    IF s.tries > 1 THEN [s EXCEPT !.next = 0, !.tries = @ - 1]
    ELSE IF s.record = "info" THEN None ELSE StartOn(s.queue)

Change(r) ==
    /\ saver = None /\ memory[r] < MaxVersion
    /\ memory' = [memory EXCEPT ![r] = @ + 1]
    /\ UNCHANGED <<stored, open, saver, reported, mishaps, torn>>

\* Player::onRemoveCreature
LogOutSaved(p) ==
    /\ saver = None
    /\ saver' = StartOn(<<<<p, Tries>>>>)
    /\ UNCHANGED <<memory, stored, open, reported, mishaps, torn>>

\* saveGameState: every player once, in any order, then Map::save.
SaveGameState ==
    /\ saver = None
    /\ \E order \in SetToSeqs(Player) :
          LET once == [i \in DOMAIN order |-> <<order[i], 1>>]
          IN saver' = StartOn(once \o <<<<"info", Tries>>, <<"items", Tries>>>>)
    /\ UNCHANGED <<memory, stored, open, reported, mishaps, torn>>

-----------------------------------------------------------------------------
(* The statements of a save.                                               *)

\* beginTransaction: a transaction that is still open is committed by the BEGIN
\* of the next one.
BeginTransaction ==
    /\ saver # None /\ saver.next = 0
    /\ stored' = IF open = None THEN stored ELSE [stored EXCEPT ![open.record] = open.tables]
    /\ open' = [record |-> saver.record, tables |-> stored'[saver.record]]
    /\ saver' = [saver EXCEPT !.next = 1]
    /\ UNCHANGED <<memory, reported, mishaps, torn>>

\* executeQuery; without a transaction a statement is committed by itself.
ExecuteQuery ==
    /\ saver # None /\ saver.next \in 1 .. Statements
    /\ LET r == saver.record
           t == TableOf(saver.next)
           v == Written(saver.next, memory[r])
       IN IF open = None
          THEN stored' = [stored EXCEPT ![r][t] = v] /\ UNCHANGED open
          ELSE open' = [open EXCEPT !.tables[t] = v] /\ UNCHANGED stored
    /\ saver' = [saver EXCEPT !.next = @ + 1]
    /\ UNCHANGED <<memory, reported, mishaps, torn>>

\* saveHouseInfo does not look at the result of the statements for the houses.
Unchecked(s) == s.record = "info" /\ s.next = 1

\* Faulty: the transaction does not know that it has begun and is left open.
QueryFails_LeftOpen ==
    /\ saver # None /\ saver.next \in 1 .. Statements /\ ~Unchecked(saver)
    /\ mishaps.errors < MaxErrors
    /\ mishaps' = [mishaps EXCEPT !.errors = @ + 1]
    /\ saver' = AfterFailure(saver)
    /\ UNCHANGED <<memory, stored, open, reported, torn>>
\* A statement fails, savePlayer returns and ~DBTransaction rolls back.
QueryFails ==
    /\ saver # None /\ saver.next \in 1 .. Statements /\ ~Unchecked(saver)
    /\ mishaps.errors < MaxErrors
    /\ mishaps' = [mishaps EXCEPT !.errors = @ + 1]
    /\ open' = None
    /\ saver' = AfterFailure(saver)
    /\ UNCHANGED <<memory, stored, reported, torn>>

\* The save goes on, without the statement.
UncheckedQueryFails ==
    /\ saver # None /\ Unchecked(saver)
    /\ mishaps.errors < MaxErrors
    /\ mishaps' = [mishaps EXCEPT !.errors = @ + 1]
    /\ saver' = [saver EXCEPT !.next = @ + 1]
    /\ torn' = torn \cup {"info"}
    /\ UNCHANGED <<memory, stored, open, reported>>

Commit ==
    /\ saver # None /\ saver.next = Statements + 1
    /\ stored' = IF open = None THEN stored ELSE [stored EXCEPT ![saver.record] = open.tables]
    /\ open' = None
    /\ reported' = [reported EXCEPT ![saver.record] = memory[saver.record]]
    /\ saver' = StartOn(saver.queue)
    /\ UNCHANGED <<memory, mishaps, torn>>

\* The connection goes while the commit is on its way: it may have been done.
CommitFails ==
    /\ saver # None /\ saver.next = Statements + 1
    /\ mishaps.losses < MaxLosses
    /\ mishaps' = [mishaps EXCEPT !.losses = @ + 1]
    /\ stored' \in {stored, IF open = None THEN stored ELSE [stored EXCEPT ![saver.record] = open.tables]}
    /\ open' = None
    /\ saver' = AfterFailure(saver)
    /\ UNCHANGED <<memory, reported, torn>>

\* The connection is lost; executeQuery waits for it and sends its statement again.
\* A transaction that was open is undone, and the rest of the save is not in one.
LoseConnection ==
    /\ mishaps.losses < MaxLosses
    /\ mishaps' = [mishaps EXCEPT !.losses = @ + 1]
    /\ open' = None
    /\ torn' = IF open = None THEN torn ELSE torn \cup {open.record}
    /\ UNCHANGED <<memory, stored, saver, reported>>

\* The server dies, and starts again with what the database has.
Crash ==
    /\ open' = None /\ saver' = None
    /\ memory' = [r \in Record |-> IF stored[r][1] = Empty THEN 0 ELSE stored[r][1]]
    /\ UNCHANGED <<stored, reported, mishaps, torn>>

StorageNext ==
    \/ \E r \in Record : Change(r)
    \/ \E p \in Player : LogOutSaved(p)
    \/ SaveGameState
    \/ BeginTransaction
    \/ ExecuteQuery
    \/ QueryFails
    \/ UncheckedQueryFails
    \/ Commit
    \/ CommitFails
    \/ LoseConnection
    \/ Crash

StorageSpec == StorageInit /\ [][StorageNext]_storageVars

-----------------------------------------------------------------------------
\* Whatever fails and whenever the server dies, the database holds each record
\* as it was at one time, whole, and not older than a save has reported: a
\* player does not come back with the money of today and the backpack of
\* yesterday.  A transaction is there to ensure it.  The exceptions are the records
\* of which a save lost its transaction with the connection and went on, and the
\* houses once a statement of theirs has failed and nobody has looked.
SavesAreWhole ==
    \A r \in Record \ torn : \E v \in Version :
        v >= reported[r] /\ stored[r] = [t \in Table |-> v]
=============================================================================
