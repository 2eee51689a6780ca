----------------------------- MODULE EpisodeLoop -----------------------------
(***************************************************************************)
(* One run of Runner.__run_episode_loop (lynch/runner.py): frames are      *)
(* pulled, evaluated, shaped and, when the scenario asks for it, coalesced *)
(* into one record per held action before Recorder.put writes them.        *)
(*                                                                         *)
(* A record (schema.Transition) names the states it holds by the frames    *)
(* they come from: `state` is the frame whose cur_state it has and         *)
(* `next_state` the frame whose next_state it has, so <<i, i>> is frame i  *)
(* itself and <<i, j>> the coalesced frames i..j.                          *)
(***************************************************************************)
EXTENDS Rewards, Sequences

CONSTANTS
    Actions,     \* values of a frame's `actions`
    NoActions,   \* held_actions before the first decision
    Distances,   \* striker-ball distances of a frame
    Outcomes,    \* terminal rewards assessments give
    MaxFrames,   \* bound: frames one episode pulls
    Signals      \* TRUE: SIGINT/SIGTERM may arrive (main() installs handlers)

ASSUME LoopAssumption ==
    /\ NoActions \notin Actions
    /\ Distances \subseteq Int
    /\ Outcomes \subseteq Reward
    /\ MaxFrames \in Nat
    /\ Signals \in BOOLEAN

VARIABLES
    scenario,    \* the scenario's configuration: coalesce_frames, a shaping provider
    pc,          \* where the loop is, and how it was left
    shutdown,    \* Runner.__shutdown_event
    prev,        \* prev_frame: <<>> for None, <<distance>> otherwise
    pending,     \* <<>> for None, <<record>> otherwise
    held,        \* held_actions
    file,        \* the lines Recorder.put wrote in the episode's file
    frames       \* history: every frame the loop has consumed

vars == <<scenario, pc, shutdown, prev, pending, held, file, frames>>

(***************************************************************************)
(* "loop"         in the while loop                                        *)
(* "terminated"   left by break on a terminal frame                        *)
(* "interrupted"  left because the shutdown event was set                  *)
(* "failed"       left by an exception: frame timeout, bad frame, bad put  *)
(* "exited"       left by SystemExit, raised by the signal handler         *)
(***************************************************************************)
Left == {"terminated", "interrupted", "failed", "exited"}

Running == Scalar(0)   \* reward of the registry's non-terminal default

Line == [state : Nat \ {0}, next_state : Nat \ {0}, actions : Actions,
         rewards : Reward, done : BOOLEAN]

Frame == [actions : Actions, distance : Distances, rewards : Reward]

Init ==
    /\ scenario \in [coalesce : BOOLEAN, shaped : BOOLEAN]
    /\ pc = "loop"
    /\ shutdown = FALSE
    /\ prev = <<>>
    /\ pending = <<>>
    /\ held = NoActions
    /\ file = <<>>
    /\ frames = <<>>

-----------------------------------------------------------------------------
\* flush_pending() followed by the given puts
FlushThenPut(lines) == file' = file \o pending \o lines

(***************************************************************************)
(* transition.rewards of a non-terminal frame: shaped against the previous *)
(* frame when there is one and a provider is loaded, the registry's scalar *)
(* default otherwise.                                                      *)
(***************************************************************************)
FrameRewards(distance) ==
    IF scenario.shaped /\ prev # <<>> THEN Shape(prev[1], distance) ELSE Running

Transition(actions, rewards, done) ==
    [state |-> Len(frames) + 1, next_state |-> Len(frames) + 1,
     actions |-> actions, rewards |-> rewards, done |-> done]

\* mutant: prev_frame = frame is forgotten
PullKeepsPrev(actions, distance, rewards) ==
    /\ pc = "loop" /\ ~shutdown
    /\ Len(frames) < MaxFrames
    /\ frames' = Append(frames, [actions |-> actions, distance |-> distance,
                                 rewards |-> rewards])
    /\ prev' = IF prev = <<>> THEN <<distance>> ELSE prev
    /\ UNCHANGED <<scenario, shutdown>>

\* buffer.pull() returned a frame; the loop condition was tested just before
Pull(actions, distance, rewards) ==
    /\ pc = "loop" /\ ~shutdown
    /\ Len(frames) < MaxFrames
    /\ frames' = Append(frames, [actions |-> actions, distance |-> distance,
                                 rewards |-> rewards])
    /\ prev' = <<distance>>
    /\ UNCHANGED <<scenario, shutdown>>

\* a non-terminal frame, coalesce_frames off: one line per frame
RecordFrame(actions, distance) ==
    /\ ~scenario.coalesce
    /\ Pull(actions, distance, FrameRewards(distance))
    /\ file' = Append(file, Transition(actions, FrameRewards(distance), FALSE))
    /\ UNCHANGED <<pc, pending, held>>

\* a non-terminal frame that repeats the held action: merged into pending
HoldDecision(actions, distance) ==
    /\ scenario.coalesce
    /\ pending # <<>> /\ actions = held
    /\ Pull(actions, distance, FrameRewards(distance))
    /\ pending' = <<[pending[1] EXCEPT
                        !.next_state = Len(frames) + 1,
                        !.rewards = MergeRewards(@, FrameRewards(distance))]>>
    /\ UNCHANGED <<pc, held, file>>

\* mutant: pending is put, but not set to None first
NewDecisionKeepsPending(actions, distance) ==
    /\ scenario.coalesce
    /\ pending = <<>> \/ actions # held
    /\ Pull(actions, distance, FrameRewards(distance))
    /\ pending' = Append(pending, Transition(actions, FrameRewards(distance), FALSE))
    /\ held' = actions
    /\ UNCHANGED <<pc, file>>

\* mutant: held_actions is not updated
NewDecisionKeepsHeld(actions, distance) ==
    /\ scenario.coalesce
    /\ pending = <<>> \/ actions # held
    /\ Pull(actions, distance, FrameRewards(distance))
    /\ FlushThenPut(<<>>)
    /\ pending' = <<Transition(actions, FrameRewards(distance), FALSE)>>
    /\ UNCHANGED <<pc, held>>

\* a non-terminal frame with another action: a new decision opens
NewDecision(actions, distance) ==
    /\ scenario.coalesce
    /\ pending = <<>> \/ actions # held
    /\ Pull(actions, distance, FrameRewards(distance))
    /\ FlushThenPut(<<>>)
    /\ pending' = <<Transition(actions, FrameRewards(distance), FALSE)>>
    /\ held' = actions
    /\ UNCHANGED pc

\* mutant: the terminal frame is put without flush_pending()
TerminalFrameNoFlush(actions, distance, outcome) ==
    /\ Pull(actions, distance, outcome)
    /\ file' = Append(file, Transition(actions, outcome, TRUE))
    /\ pending' = <<>>
    /\ pc' = "terminated"
    /\ UNCHANGED held

\* mutant: a terminal frame that repeats the held action is merged like any other
TerminalFrameMerged(actions, distance, outcome) ==
    /\ Pull(actions, distance, outcome)
    /\ file' = IF pending # <<>> /\ actions = held
               THEN Append(file, [pending[1] EXCEPT
                                     !.next_state = Len(frames) + 1,
                                     !.rewards = MergeRewards(@, outcome),
                                     !.done = TRUE])
               ELSE file \o pending \o <<Transition(actions, outcome, TRUE)>>
    /\ pending' = <<>>
    /\ pc' = "terminated"
    /\ UNCHANGED held

\* a terminal frame: pending is flushed in front of it, then it is put as it is
TerminalFrame(actions, distance, outcome) ==
    /\ Pull(actions, distance, outcome)
    /\ FlushThenPut(<<Transition(actions, outcome, TRUE)>>)
    /\ pending' = <<>>
    /\ pc' = "terminated"
    /\ UNCHANGED held

-----------------------------------------------------------------------------
\* mutant: the flush behind the loop is missing
LeaveOnShutdownNoFlush ==
    /\ pc = "loop" /\ shutdown
    /\ pending' = <<>>
    /\ pc' = "interrupted"
    /\ UNCHANGED <<scenario, shutdown, prev, held, file, frames>>

\* the while condition fails: the flush behind the loop runs
LeaveOnShutdown ==
    /\ pc = "loop" /\ shutdown
    /\ FlushThenPut(<<>>)
    /\ pending' = <<>>
    /\ pc' = "interrupted"
    /\ UNCHANGED <<scenario, shutdown, prev, held, frames>>

\* TimeoutError: no frame for frame_timeout; the local `pending` is gone
FrameTimeout ==
    /\ pc = "loop" /\ ~shutdown
    /\ pending' = <<>>
    /\ pc' = "failed"
    /\ UNCHANGED <<scenario, shutdown, prev, held, file, frames>>

(***************************************************************************)
(* A pulled frame raises: evaluate or shape on a state the parser could    *)
(* not read (None), to_recorder_json on it in a put, or a failing write.   *)
(* The put of the frame itself comes after the flush, all others before.   *)
(***************************************************************************)
FrameError ==
    /\ pc = "loop" /\ ~shutdown
    /\ file' \in {file, file \o pending}
    /\ pending' = <<>>
    /\ pc' = "failed"
    /\ UNCHANGED <<scenario, shutdown, prev, held, frames>>

\* Runner.close() called from another thread
CloseCalled ==
    /\ ~shutdown
    /\ shutdown' = TRUE
    /\ UNCHANGED <<scenario, pc, prev, pending, held, file, frames>>

(***************************************************************************)
(* main()'s handler runs in this thread, between any two bytecodes:        *)
(* runner.close(), then sys.exit(0).  SystemExit passes __execute_single_  *)
(* episode's `except Exception`; a flush may or may not have been done for *)
(* a frame that was being handled.                                         *)
(***************************************************************************)
Interrupt ==
    /\ Signals
    /\ pc = "loop"
    /\ shutdown' = TRUE
    /\ file' \in {file, file \o pending}
    /\ pending' = <<>>
    /\ pc' = "exited"
    /\ UNCHANGED <<scenario, prev, held, frames>>

NextFrame ==
    \E actions \in Actions, distance \in Distances :
        \/ RecordFrame(actions, distance)
        \/ HoldDecision(actions, distance)
        \/ NewDecision(actions, distance)
        \/ \E outcome \in Outcomes : TerminalFrame(actions, distance, outcome)

Next ==
    \/ NextFrame
    \/ FrameTimeout
    \/ FrameError
    \/ LeaveOnShutdown
    \/ CloseCalled
    \/ Interrupt

Spec == Init /\ [][Next]_vars

-----------------------------------------------------------------------------
(***************************************************************************)
(* Types, and pending is only used by a scenario that coalesces.           *)
(***************************************************************************)
TypeOK ==
    /\ scenario \in [coalesce : BOOLEAN, shaped : BOOLEAN]
    /\ pc \in {"loop"} \cup Left
    /\ shutdown \in BOOLEAN
    /\ prev \in Seq(Distances) /\ Len(prev) <= 1
    /\ pending \in Seq(Line) /\ Len(pending) <= 1
    /\ pending # <<>> => scenario.coalesce
    /\ held \in Actions \cup {NoActions}
    /\ file \in Seq(Line)
    /\ frames \in Seq(Frame)

\* the lines of the episode: those written and the one still open
Log == file \o pending

\* each record starts right behind the one before it
Chain(log) ==
    \A i \in DOMAIN log :
        /\ log[i].state <= log[i].next_state
        /\ log[i].state = IF i = 1 THEN 1 ELSE log[i - 1].next_state + 1

\* the last frame a chain accounts for
Reach(log) == IF log = <<>> THEN 0 ELSE log[Len(log)].next_state

(***************************************************************************)
(* The records form one contiguous (s, a, s') chain from the first frame,  *)
(* none lost and none recorded twice, and as long as the loop has not been *)
(* left by an exception they reach the last frame pulled (the flushes of   *)
(* runner.py:286, 296 and 302).                                            *)
(***************************************************************************)
Contiguous ==
    /\ Chain(Log)
    /\ pc \in {"loop", "terminated", "interrupted"} => Reach(Log) = Len(frames)

(***************************************************************************)
(* One record per decision: all the frames of a record held its action,    *)
(* and with coalescing on the next record has another action, unless it is *)
(* the terminal one; with coalescing off a record is a frame.              *)
(***************************************************************************)
OneDecisionPerRecord ==
    /\ \A i \in 1..Len(Log) :
          \A k \in Log[i].state..Log[i].next_state :
             k \in DOMAIN frames /\ frames[k].actions = Log[i].actions
    /\ \A i \in 1..Len(Log) - 1 :
          scenario.coalesce /\ Log[i].actions = Log[i + 1].actions => Log[i + 1].done
    /\ ~scenario.coalesce => \A i \in 1..Len(Log) : Log[i].state = Log[i].next_state

\* the frame a record's shaping starts from: frame 1 has no predecessor
Before(line) == IF line.state = 1 THEN 1 ELSE line.state - 1

(***************************************************************************)
(* The shaping telescopes (runner.py:236, test_config.yaml:87): what a     *)
(* non-terminal record gives the striker is the distance closed from the   *)
(* frame before the record to its last one, however many frames were       *)
(* merged; the other robots get nothing.                                   *)
(***************************************************************************)
Telescopes ==
    \A i \in 1..Len(Log) : ~Log[i].done =>
        \A rid \in Robots :
            Worth(Log[i].rewards, rid) =
                IF scenario.shaped /\ rid = Striker
                THEN frames[Before(Log[i])].distance - frames[Log[i].next_state].distance
                ELSE 0

(***************************************************************************)
(* The recorder scores an episode by its last line, so a terminal frame is *)
(* a line of its own, the last one, with the outcome the assessment gave;  *)
(* no other line is done (runner.py:280-288).                              *)
(***************************************************************************)
OutcomeStandsAlone ==
    /\ \A i \in 1..Len(Log) : Log[i].done =>
          /\ i = Len(Log) /\ pc = "terminated"
          /\ Log[i].state = Log[i].next_state
          /\ Log[i].rewards = frames[Log[i].next_state].rewards
    /\ pc = "terminated" => file # <<>> /\ file[Len(file)].done

(***************************************************************************)
(* "Leaving the loop without a terminal frame (shutdown event) would drop  *)
(* the last decision's record; don't." (runner.py:300).  The flush runs    *)
(* only when the loop condition is what ends the loop.                     *)
(***************************************************************************)
ShutdownKeepsLastDecision ==
    pc \in {"interrupted", "exited"} => Reach(file) = Len(frames)

-----------------------------------------------------------------------------
(***************************************************************************)
(* The loop writes the log DecisionLog promises.                           *)
(***************************************************************************)
Segments(log) ==
    [i \in DOMAIN log |-> [state |-> log[i].state, next_state |-> log[i].next_state]]

Status ==
    CASE pc = "loop" -> "open"
      [] pc \in {"terminated", "interrupted"} -> "closed"
      [] OTHER -> "aborted"

Abstract == INSTANCE DecisionLog WITH
    seen <- Len(frames), log <- Segments(Log), status <- Status

(***************************************************************************)
(* Every step of the loop starts a segment, lengthens the open one, closes *)
(* the log or aborts it with at most the open segment lost: a line already *)
(* written is never changed and none is left out (runner.py:250-302).      *)
(***************************************************************************)
ImplementsDecisionLog == Abstract!LogSpec
=============================================================================
