--------------------------- MODULE SerialExecutor ---------------------------
(***************************************************************************)
(* What the rest of the server relies on when it hands work to the         *)
(* dispatcher: tasks queued by any thread are performed one at a time, in  *)
(* the order they were queued, each once.  A task that expired counts as   *)
(* performed.  Nothing is promised about tasks queued after the shutdown   *)
(* task, so performing is a possibility, not an obligation.                *)
(***************************************************************************)
EXTENDS Sequences

CONSTANT AnyTask

VARIABLES pending, done

Init == pending = <<>> /\ done = <<>>

Submit(t) ==
    /\ pending' = Append(pending, t)
    /\ UNCHANGED done

Perform ==
    /\ pending # <<>>
    /\ pending' = Tail(pending)
    /\ done' = Append(done, Head(pending))

Next == (\E t \in AnyTask : Submit(t)) \/ Perform

Spec == Init /\ [][Next]_<<pending, done>>
=============================================================================
