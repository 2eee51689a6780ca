----------------------------- MODULE DecisionLog -----------------------------
(***************************************************************************)
(* What an episode's history promises RL-Engine, independent of rewards,   *)
(* coalescing and Python: a log of segments [state, next_state] of the     *)
(* frames seen, in order, without gap or overlap, that only ever grows at  *)
(* its end.  A log that is closed accounts for every frame; one that is    *)
(* aborted may lack the decision that was open.                            *)
(***************************************************************************)
EXTENDS Naturals, Sequences

VARIABLES
    seen,    \* number of frames consumed
    log,     \* the segments recorded, the open one included
    status   \* "open", "closed" or "aborted"

logVars == <<seen, log, status>>

Segment(first, last) == [state |-> first, next_state |-> last]

Start ==
    /\ seen = 0
    /\ log = <<>>
    /\ status = "open"

\* the next frame starts a segment or lengthens the last one
Observe ==
    /\ status = "open"
    /\ seen' = seen + 1
    /\ \/ log' = Append(log, Segment(seen + 1, seen + 1))
       \/ /\ log # <<>>
          /\ log' = [log EXCEPT ![Len(log)] = Segment(@.state, seen + 1)]
    /\ status' \in {"open", "closed"}

Close ==
    /\ status = "open"
    /\ status' = "closed"
    /\ UNCHANGED <<seen, log>>

Abort ==
    /\ status = "open"
    /\ status' = "aborted"
    /\ \/ log' = log
       \/ log # <<>> /\ log' = SubSeq(log, 1, Len(log) - 1)
    /\ UNCHANGED seen

LogNext == Observe \/ Close \/ Abort

LogSpec == Start /\ [][LogNext]_logVars
=============================================================================
