----------------------------- MODULE Connection -----------------------------
(***************************************************************************)
(* One client connection (src/src/connection.cpp).  The network thread     *)
(* runs the completions of reads, writes and timers; the game thread sends *)
(* messages and closes.  Every handler holds connectionLock from its first *)
(* to its last line and is one step, with the calls it makes in between.   *)
(*                                                                         *)
(* The peer and the system decide when a read or a write completes and     *)
(* whether it fails.  A completion that is queued can no longer be taken   *)
(* back: closing the socket and cancelling a timer come too late for it.   *)
(***************************************************************************)
EXTENDS Sequences, FiniteSets, Naturals

CONSTANTS
    Message     \* the messages the game thread sends; each at most once

VARIABLES
    c,          \* the connection, see ConnectionRecord
    sent,       \* history: the messages that send accepted, in order
    failed,     \* history: a read or write failed or a timer fired
    limited     \* history: a packet exceeded the rate and was not read on

vars == <<c, sent, failed, limited>>

\* An operation is not started, under way, or completed and its handler queued.
Op == {"none", "going", "ok", "error"}
Timer == [armed : BOOLEAN, due : BOOLEAN]   \* due: expired, its handler queued

ConnectionRecord ==
    [open : BOOLEAN,                    \* connectionState
     managed : BOOLEAN,                 \* in ConnectionManager::connections
     socket : BOOLEAN,                  \* socket.is_open()
     up : BOOLEAN,                      \* the TCP connection stands
     protocol : BOOLEAN,                \* protocol is set
     queue : Seq(Message),              \* messageQueue
     write : Op,
     reads : {"header", "packet"},      \* what the outstanding read is for
     read : Op,
     readTimer : Timer,
     writeTimer : Timer,
     released : 0 .. 2]                 \* Protocol::release tasks queued

TypeOK ==
    /\ c \in ConnectionRecord
    /\ sent \in Seq(Message)
    /\ failed \in BOOLEAN /\ limited \in BOOLEAN

Idle == [armed |-> FALSE, due |-> FALSE]
Arm(t) == [t EXCEPT !.armed = TRUE]
Disarm(t) == [t EXCEPT !.armed = FALSE]

\* The state after ServicePort::onAccept; single says whether the service
\* speaks first (Connection::accept with a protocol).
Accepted(single) ==
    [open |-> TRUE, managed |-> TRUE, socket |-> TRUE, up |-> TRUE, protocol |-> single,
     queue |-> <<>>, write |-> "none", reads |-> "header", read |-> "going",
     readTimer |-> Arm(Idle), writeTimer |-> Idle, released |-> 0]

Init ==
    /\ \E single \in BOOLEAN : c = Accepted(single)
    /\ sent = <<>>
    /\ failed = FALSE /\ limited = FALSE

-----------------------------------------------------------------------------
(* The calls of a handler, as functions of the connection.                 *)

Aborted(op) == IF op = "going" THEN "error" ELSE op

CloseSocket(d) ==
    IF ~ d.socket THEN d
    ELSE [d EXCEPT !.socket = FALSE,
                   !.readTimer = Disarm(@), !.writeTimer = Disarm(@),
                   !.read = Aborted(@), !.write = Aborted(@)]

\* Faulty: every close queues a release.
AlreadyClosed_Never(d) == FALSE
AlreadyClosed(d) == ~ d.open

\* Faulty: a close that is not forced closes the socket under the writes.
ClosesNow_Always(d, force) == TRUE
ClosesNow(d, force) == d.queue = <<>> \/ force

Close(d, force) ==
    IF AlreadyClosed(d) THEN [d EXCEPT !.managed = FALSE]
    ELSE LET e == [d EXCEPT !.managed = FALSE, !.open = FALSE,
                            !.released = IF d.protocol THEN @ + 1 ELSE @]
         IN IF ClosesNow(d, force) THEN CloseSocket(e) ELSE e

\* An operation started on a closed or broken socket completes with an error.
Begun(d) == IF d.socket /\ d.up THEN "going" ELSE "error"

\* Faulty: the read timer is not started again.
StartRead_NoTimer(d, what) == [d EXCEPT !.reads = what, !.read = Begun(d)]
StartRead(d, what) ==
    [d EXCEPT !.readTimer = Arm(@), !.reads = what, !.read = Begun(d)]

InternalSend(d) ==
    [d EXCEPT !.writeTimer = Arm(@), !.write = Begun(d)]

Queued(d, m) == Append(d.queue, m)

SendTo(d, m) ==
    LET e == [d EXCEPT !.queue = Queued(d, m)]
    IN IF d.queue = <<>> THEN InternalSend(e) ELSE e

-----------------------------------------------------------------------------
(* The game thread.                                                        *)

Unsent(m) == \A i \in DOMAIN sent : sent[i] # m

Send(m) ==
    /\ c.protocol /\ c.open /\ Unsent(m)
    /\ c' = SendTo(c, m)
    /\ sent' = Append(sent, m)
    /\ UNCHANGED <<failed, limited>>

\* Protocol::disconnect
Disconnect ==
    /\ c.open
    /\ c' = Close(c, FALSE)
    /\ UNCHANGED <<sent, failed, limited>>

\* ConnectionManager::closeAll closes the sockets and nothing else.
CloseAll ==
    /\ c.managed
    /\ c' = [c EXCEPT !.managed = FALSE, !.socket = FALSE,
                      !.read = Aborted(@), !.write = Aborted(@)]
    /\ failed' = TRUE
    /\ UNCHANGED <<sent, limited>>

-----------------------------------------------------------------------------
(* The network thread: reading.  Each handler cancels the read timer first.*)

ReadDone(what) == c.read \in {"ok", "error"} /\ c.reads = what

Received(d) == [d EXCEPT !.read = "none", !.readTimer = Disarm(@)]

\* An error, or a header with a size that is out of bounds.
ReadFails(what) ==
    /\ ReadDone(what)
    /\ what = "packet" => c.read = "error"
    /\ c' = Close(Received(c), TRUE)
    /\ failed' = TRUE
    /\ UNCHANGED <<sent, limited>>

Reads(what) == ReadDone(what) /\ c.read = "ok" /\ c.open

ReadAfterClose(what) ==
    /\ ReadDone(what) /\ c.read = "ok" /\ ~ c.open
    /\ c' = Received(c)
    /\ UNCHANGED <<sent, failed, limited>>

ParseHeader ==
    /\ Reads("header")
    /\ c' = StartRead(Received(c), "packet")
    /\ UNCHANGED <<sent, failed, limited>>

\* MAX_PACKETS_PER_SECOND: the handler returns and reads no more.
ExceedRate ==
    /\ Reads("header")
    /\ c' = Received(c)
    /\ limited' = TRUE
    /\ UNCHANGED <<sent, failed>>

\* A packet: the first one may find no protocol; the protocol may answer
\* and may disconnect; then the next header is read, closed or not.
Answered(d, reply) == IF reply = {} THEN d ELSE SendTo(d, CHOOSE m \in reply : TRUE)
Handled(d, reply, leaves) ==
    LET e == Answered([d EXCEPT !.protocol = TRUE], reply)
    IN IF leaves THEN Close(e, FALSE) ELSE e

ParsePacket ==
    /\ Reads("packet")
    /\ \E reply \in {{}} \cup {{m} : m \in {n \in Message : Unsent(n)}}, leaves \in BOOLEAN :
        /\ c' = StartRead(Handled(Received(c), reply, leaves), "header")
        /\ sent' = IF reply = {} THEN sent ELSE Append(sent, CHOOSE m \in reply : TRUE)
    /\ UNCHANGED <<failed, limited>>

Rejected(d) == Close(d, TRUE)

NoProtocol ==
    /\ Reads("packet") /\ ~ c.protocol
    /\ c' = Rejected(Received(c))
    /\ UNCHANGED <<sent, failed, limited>>

-----------------------------------------------------------------------------
(* The network thread: writing and timers.                                 *)

Written(d) ==
    [d EXCEPT !.queue = Tail(@), !.write = "none", !.writeTimer = Disarm(@)]

\* Faulty: the socket of a closed connection is left to the destructor.
AfterLastWrite_Open(d) == d
AfterLastWrite(d) == IF d.open THEN d ELSE CloseSocket(d)

\* Faulty: the next message waits for the next send.
AfterWrite_Waits(d) == AfterLastWrite(d)
AfterWrite(d) == IF d.queue # <<>> THEN InternalSend(d) ELSE AfterLastWrite(d)

OnWriteOperation ==
    /\ c.write = "ok"
    /\ c' = AfterWrite(Written(c))
    /\ UNCHANGED <<sent, failed, limited>>

OnWriteError ==
    /\ c.write = "error"
    /\ c' = Close([Written(c) EXCEPT !.queue = <<>>], TRUE)
    /\ failed' = TRUE
    /\ UNCHANGED <<sent, limited>>

HandleTimeout ==
    /\ \/ c.readTimer.due /\ c' = Close([c EXCEPT !.readTimer.due = FALSE], TRUE)
       \/ c.writeTimer.due /\ c' = Close([c EXCEPT !.writeTimer.due = FALSE], TRUE)
    /\ failed' = TRUE
    /\ UNCHANGED <<sent, limited>>

\* Nothing refers to the connection any more: ~Connection.
Destroyed ==
    /\ ~ c.managed /\ c.read = "none" /\ c.write = "none" /\ c.socket
    /\ c' = CloseSocket(c)
    /\ UNCHANGED <<sent, failed, limited>>

NetworkThread ==
    \/ \E what \in {"header", "packet"} : ReadFails(what) \/ ReadAfterClose(what)
    \/ ParseHeader \/ ExceedRate \/ ParsePacket \/ NoProtocol
    \/ OnWriteOperation \/ OnWriteError
    \/ HandleTimeout
    \/ Destroyed

-----------------------------------------------------------------------------
(* The peer and the clock.                                                 *)

ReadCompletes ==
    /\ c.read = "going"
    /\ \E r \in {"ok", "error"} : c' = [c EXCEPT !.read = r]
    /\ UNCHANGED <<sent, failed, limited>>

\* A write fails when the TCP connection is gone; reads then fail too.
WriteCompletes ==
    /\ c.write = "going"
    /\ \/ c' = [c EXCEPT !.write = "ok"]
       \/ c' = [c EXCEPT !.write = "error", !.read = Aborted(@), !.up = FALSE]
    /\ UNCHANGED <<sent, failed, limited>>

TimerExpires ==
    /\ \/ c.readTimer.armed /\ ~ c.readTimer.due
          /\ c' = [c EXCEPT !.readTimer = [armed |-> FALSE, due |-> TRUE]]
       \/ c.writeTimer.armed /\ ~ c.writeTimer.due
          /\ c' = [c EXCEPT !.writeTimer = [armed |-> FALSE, due |-> TRUE]]
    /\ UNCHANGED <<sent, failed, limited>>

Next ==
    \/ \E m \in Message : Send(m)
    \/ Disconnect \/ CloseAll
    \/ NetworkThread
    \/ ReadCompletes \/ WriteCompletes \/ TimerExpires

\* The network thread runs the handlers that are queued and timers expire.
\* The peer owes nothing.
Fairness == WF_vars(NetworkThread) /\ WF_vars(TimerExpires)
Spec == Init /\ [][Next]_vars /\ Fairness

\* As Spec, for a peer that takes what is written to it.
SpecPeerReads == Spec /\ WF_vars(WriteCompletes)

-----------------------------------------------------------------------------
(* Properties.                                                             *)

IsPrefixOf(s, t) == Len(s) <= Len(t) /\ s = SubSeq(t, 1, Len(s))

(***************************************************************************)
(* A queued message always has a write under way: send starts one only for *)
(* an empty queue, so a queue without a write would never move again.      *)
(***************************************************************************)
NoStalledQueue == c.queue # <<>> <=> c.write # "none"

(***************************************************************************)
(* The protocol is released once, when the connection that has one closes, *)
(* however many of peer, timers and game close it.                         *)
(***************************************************************************)
ReleasedOnce ==
    /\ c.released <= 1
    /\ ~ c.open /\ sent # <<>> => c.released = 1

(***************************************************************************)
(* A connection that is closed without force first delivers what is queued *)
(* unless the network fails: the message that says why reaches the player. *)
(***************************************************************************)
FlushedBeforeClose ==
    [][c.socket /\ ~ c'.socket => c'.queue = <<>> \/ failed']_vars

(***************************************************************************)
(* The socket of a closed connection is closed "by the destructor or       *)
(* onWriteOperation".                                                      *)
(***************************************************************************)
SocketCloses == ~ c.open ~> ~ c.socket

(***************************************************************************)
(* A peer that is silent does not keep an open connection for ever, unless *)
(* the rate limit took the connection out of the hands of the timer.       *)
(***************************************************************************)
SilentPeerGoes == (c.read = "going") ~> (c.read # "going" \/ ~ c.open)
=============================================================================
