------------------------------ MODULE Evaluation ------------------------------
(***************************************************************************)
(* What ends an episode: AssessmentRegistry.evaluate                       *)
(* (lynch/evaluator/registry.py) over the assessments of a scenario        *)
(* (lynch/evaluator/assessments), on the frames of the episode loop        *)
(* (lynch/runner.py), with the window of recorded transitions the recorder *)
(* keeps and the clock.  A batch loads its assessments once and plays any  *)
(* number of episodes with them.                                           *)
(*                                                                         *)
(* Lengths are centimetres; of a speed only counts whether it is below     *)
(* BallStopped's threshold.  Ages are whole seconds and saturate above     *)
(* every limit they are compared with.                                     *)
(***************************************************************************)
EXTENDS Integers, SequencesExt

CONSTANTS
    Suites,        \* the lists of assessments a scenario may name
    Waits,         \* values of BallStopped's frame_to_wait
    Balls,         \* what a state vector of NeonFC may say of the ball
    Tracked,       \* the lists of balls a tracked frame may hold
    RobotSets,     \* the robots of DistanceToCenter's team a frame may show
    Targets,       \* DistanceToCenter's robot_ids
    Limit,         \* TimeLimit's limit
    FrameLimit,    \* frame_timeout
    MaxHistory,    \* max_history_size
    TimeoutReward, \* TimeLimit's reward
    OutReward      \* BallOutOfBounds' reward

BallState == [seen : BOOLEAN, x : Int, y : Int, fast : BOOLEAN]

\* a tracked ball's velocity is optional
TrackedBall == [x : Int, y : Int] \cup [x : Int, y : Int, fast : BOOLEAN]

\* load() raises for a name that no class registered
Registered == {"GoalScored", "BallOutOfBounds", "BallStopped", "TimeLimit",
               "DistanceToCenter", "BallProgress"}

ASSUME EvaluationAssumption ==
    /\ Suites \subseteq Seq(Registered)
    /\ Balls \subseteq {b \in BallState : b.seen}
    /\ Tracked \subseteq Seq(TrackedBall)
    /\ Waits \subseteq Nat \ {0} /\ MaxHistory \in Nat
    /\ Limit \in Nat /\ FrameLimit \in Nat
    /\ {TimeoutReward, OutReward} \subseteq Int

VARIABLES
    paired,        \* frames carry a next_state (NEONFC); without, DIRECT
    loaded,        \* _loaded: names in order
    wait,          \* frame_to_wait
    coalesce,      \* coalesce_frames
    phase,         \* "idle", "running" the loop, "stopping" behind a terminal frame
    open,          \* the recorder has a file open
    history,       \* the recorder's window: is the ball of a record's state still?
    pending,       \* the same of the pending record, if there is one
    timer,         \* age of TimeLimit.start_time; None is -1
    lastFrame,     \* age of last_frame
    ball,          \* the ball in the last frame
    verdict,       \* what ended the episode being stopped, and its rewards
    sinceFirst,    \* history: age of the episode's first frame, -1 before it
    frames,        \* history: frames of the episode, up to the wait
    seen           \* history: was the ball still, in the last moments shown

batch == <<paired, loaded, wait, coalesce>>
locals == <<pending, lastFrame, sinceFirst, frames, seen>>
vars == <<batch, phase, open, verdict, history, timer, ball, locals>>

None == -1

Least(a, b) == IF a < b THEN a ELSE b
LastOf(seq, n) == SubSeq(seq, Len(seq) - Least(n, Len(seq)) + 1, Len(seq))

Loads(name) == \E i \in DOMAIN loaded : loaded[i] = name

-----------------------------------------------------------------------------
(***************************************************************************)
(* The assessments: is_triggered.                                          *)
(***************************************************************************)
\* goal_x 4.5, tolerance 0.03, goal_y 0.5
InGoal(b) == b.seen /\ b.x >= 450 - 3 /\ b.y \in -50 .. 50

\* field_half_x 4.5, field_half_y 3.0
Outside(b) == b.seen /\ ~(b.x \in -450 .. 450 /\ b.y \in -300 .. 300)

\* _get_speed(state) < speed_threshold; without a ball the speed is infinite
Still(b) == b.seen /\ ~b.fast

\* mutant: one record of the window is not looked at
StoppedShort(b) ==
    /\ Len(history) >= wait
    /\ LET recent == LastOf(history, wait)
       IN  Still(b) /\ \A i \in DOMAIN recent : recent[i]

\* history[-(frame_to_wait - 1):]; -0 takes all of it
Stopped(b) ==
    /\ Len(history) >= wait - 1
    /\ LET recent == IF wait = 1 THEN history ELSE LastOf(history, wait - 1)
       IN  Still(b) /\ \A i \in DOMAIN recent : recent[i]

Expired == timer > Limit

\* DistanceToCenter and BallProgress never trigger
Triggered(name, b) ==
    \/ name = "GoalScored" /\ InGoal(b)
    \/ name = "BallOutOfBounds" /\ Outside(b)
    \/ name = "BallStopped" /\ Stopped(b)
    \/ name = "TimeLimit" /\ Expired

(***************************************************************************)
(* AssessmentRegistry.evaluate.                                            *)
(***************************************************************************)
\* mutant: the last one triggered wins
WinnerLast(b) == SelectLastInSeq(loaded, LAMBDA name : Triggered(name, b))

\* the place in the list of the first one triggered, or 0
Winner(b) == SelectInSeq(loaded, LAMBDA name : Triggered(name, b))

OwnReward(name) ==
    CASE name = "GoalScored" -> 1
      [] name = "BallStopped" -> -1
      [] name = "BallOutOfBounds" -> OutReward
      [] name = "TimeLimit" -> TimeoutReward

\* mutant: a provider replaces every terminal reward
OverridesAlways(name) == Loads("DistanceToCenter")

\* allows_terminal_reward_override, and someone has get_terminal_reward
Overrides(name) == name = "TimeLimit" /\ Loads("DistanceToCenter")

\* a scalar, or a dict with an entry for each robot of `robots`
Rewards(name, robots) ==
    IF Overrides(name) THEN [kind |-> "dict", value |-> 0, robots |-> robots \cap Targets]
                       ELSE [kind |-> "scalar", value |-> OwnReward(name), robots |-> {}]

Verdict(name, robots) == [by |-> name, rewards |-> Rewards(name, robots)]

NoVerdict == [by |-> "none", rewards |-> [kind |-> "scalar", value |-> 0, robots |-> {}]]

\* the first question starts the timer, the one that triggers starts it again;
\* assessments behind the winner are not asked
TimerAsked(b) ==
    LET w == Winner(b)
        asked == \E i \in DOMAIN loaded : loaded[i] = "TimeLimit" /\ (w = 0 \/ i <= w)
    IN  IF asked /\ (timer = None \/ Expired) THEN 0 ELSE timer

-----------------------------------------------------------------------------
NoBall == [seen |-> FALSE, x |-> 0, y |-> 0, fast |-> FALSE]

Init ==
    /\ paired \in BOOLEAN
    /\ loaded \in Suites /\ wait \in Waits /\ coalesce \in BOOLEAN
    /\ phase = "idle" /\ open = FALSE /\ verdict = NoVerdict
    /\ history = <<>> /\ pending = <<>> /\ timer = None /\ lastFrame = 0
    /\ ball = NoBall
    /\ sinceFirst = None /\ frames = 0 /\ seen = <<>>

\* the next command: load() makes new assessments, the context a new recorder
LoadBatch ==
    /\ phase = "idle"
    /\ loaded' \in Suites /\ wait' \in Waits /\ coalesce' \in BOOLEAN
    /\ timer' = None
    /\ history' = <<>> /\ open' = FALSE
    /\ UNCHANGED <<paired, phase, verdict, ball, locals>>

\* mutant: assessments are not reset between episodes
ArmKeepsTimer ==
    /\ phase = "idle"
    /\ phase' = "running"
    /\ history' = (IF open THEN <<>> ELSE history)
    /\ open' = TRUE
    /\ UNCHANGED <<batch, ball, verdict, timer, locals>>

\* mutant: a file left open is taken over with its window
ArmKeepsWindow ==
    /\ phase = "idle"
    /\ phase' = "running"
    /\ timer' = None
    /\ open' = TRUE
    /\ UNCHANGED <<batch, ball, verdict, history, locals>>

\* reset(); start_scenario() ends the one a failed episode left open
Arm ==
    /\ phase = "idle"
    /\ phase' = "running"
    /\ timer' = None
    /\ history' = (IF open THEN <<>> ELSE history)
    /\ open' = TRUE
    /\ UNCHANGED <<batch, ball, verdict, locals>>

(***************************************************************************)
(* A frame: the loop judges next_state if there is one, state otherwise.   *)
(* NeonFC's frames follow each other: the next one starts where this ended.*)
(***************************************************************************)
\* the first of a tracked frame's balls; one without a velocity is at rest
ExtractBall(balls) ==
    IF balls = <<>> THEN NoBall
    ELSE [seen |-> TRUE, x |-> balls[1].x, y |-> balls[1].y,
          fast |-> "fast" \in DOMAIN balls[1] /\ balls[1].fast]

\* JSONParser's vectors always have a ball
Received == IF paired THEN Balls ELSE {ExtractBall(balls) : balls \in Tracked}

Judged(state, next) == IF paired THEN next ELSE state

StartsAt(state) == paired /\ frames > 0 => state = ball

\* mutant: a window without a maxlen
PutForever(window, state) == Append(window, state)

Put(window, state) == LastOf(Append(window, state), MaxHistory)

Flushed == IF pending = <<>> THEN history ELSE Put(history, pending[1])

Evaluated(state, next) ==
    LET b == Judged(state, next)
        before == IF paired /\ frames = 0 THEN <<Still(state)>> ELSE seen
    IN  /\ phase = "running"
        /\ StartsAt(state)
        /\ timer' = TimerAsked(b)
        /\ lastFrame' = 0
        /\ ball' = b
        /\ sinceFirst' = (IF sinceFirst = None THEN 0 ELSE sinceFirst)
        /\ frames' = Least(frames + 1, wait)
        /\ seen' = LastOf(Append(before, Still(b)), wait + 1)
        /\ UNCHANGED <<batch, open>>

\* recorded at once, or merged with the decision it holds to, or a new decision
RunningFrame(state, next, held) ==
    /\ Evaluated(state, next)
    /\ Winner(Judged(state, next)) = 0
    /\ IF ~coalesce
       THEN history' = Put(history, Still(state)) /\ UNCHANGED pending
       ELSE IF pending # <<>> /\ held
       THEN UNCHANGED <<history, pending>>
       ELSE history' = Flushed /\ pending' = <<Still(state)>>
    /\ UNCHANGED <<phase, verdict>>

TerminalFrame(state, next, robots) ==
    /\ Evaluated(state, next)
    /\ LET w == Winner(Judged(state, next))
       IN  w # 0 /\ verdict' = Verdict(loaded[w], robots)
    /\ phase' = "stopping"
    /\ history' = Put(Flushed, Still(state))
    /\ pending' = <<>>

\* the loop's variables go with it
LoopLeft ==
    /\ pending' = <<>> /\ lastFrame' = 0
    /\ sinceFirst' = None /\ frames' = 0 /\ seen' = <<>>

\* mutant: no frame timeout
FrameTimeoutNever ==
    /\ FALSE
    /\ UNCHANGED vars

\* pull() returned None for too long; the episode fails, its file stays open
FrameTimeout ==
    /\ phase = "running" /\ lastFrame > FrameLimit
    /\ phase' = "idle"
    /\ LoopLeft
    /\ UNCHANGED <<batch, open, verdict, history, timer, ball>>

\* end_scenario() clears the window
StopEpisode ==
    /\ phase = "stopping"
    /\ phase' = "idle"
    /\ open' = FALSE
    /\ history' = <<>>
    /\ verdict' = NoVerdict
    /\ LoopLeft
    /\ UNCHANGED <<batch, timer, ball>>

Older(age, most) == IF age = None THEN None ELSE Least(age + 1, most + 1)

Tick ==
    /\ phase = "running"
    /\ timer' = Older(timer, Limit)
    /\ sinceFirst' = Older(sinceFirst, Limit)
    /\ lastFrame' = Older(lastFrame, FrameLimit)
    /\ UNCHANGED <<batch, phase, open, verdict, history, pending, ball, frames, seen>>

-----------------------------------------------------------------------------
Frame ==
    \E state, next \in Received :
        /\ paired \/ next = state
        /\ \/ \E held \in BOOLEAN : RunningFrame(state, next, held)
           \/ \E robots \in RobotSets : TerminalFrame(state, next, robots)

Next == LoadBatch \/ Arm \/ Frame \/ FrameTimeout \/ StopEpisode \/ Tick

Spec == Init /\ [][Next]_vars

(***************************************************************************)
(* The loop polls all the time, and time passes.  Nothing is assumed of    *)
(* the frames: they may come at any rate, or not at all.                   *)
(***************************************************************************)
FairSpec == Spec /\ WF_vars(FrameTimeout) /\ WF_vars(Tick)

-----------------------------------------------------------------------------
Names == {"GoalScored", "BallOutOfBounds", "BallStopped", "TimeLimit"}

TypeOK ==
    /\ paired \in BOOLEAN /\ coalesce \in BOOLEAN /\ open \in BOOLEAN
    /\ loaded \in Suites /\ wait \in Waits /\ ball \in BallState
    /\ phase \in {"idle", "running", "stopping"} /\ frames \in 0 .. wait
    /\ {history, pending, seen} \subseteq Seq(BOOLEAN)
    /\ Len(history) <= MaxHistory /\ Len(pending) <= 1
    /\ pending # <<>> => coalesce
    /\ {timer, sinceFirst} \subseteq None .. Limit + 1
    /\ lastFrame \in 0 .. FrameLimit + 1
    /\ verdict.by \in Names \cup {"none"}

\* the loop has seen the ball still for the whole wait, and a moment more where
\* frames carry a next_state; records come as frames do, the window holds them
Rested ==
    LET moments == IF paired THEN wait + 1 ELSE wait
        last == LastOf(seen, moments)
    IN  /\ ~coalesce /\ wait <= MaxHistory + 1
        /\ Len(seen) >= moments /\ \A i \in DOMAIN last : last[i]

(***************************************************************************)
(* "Order matters: the first triggered assessment wins. A goal on the      *)
(* final frame counts as a goal, not as a timeout." (test_config.yaml:72): *)
(* nothing listed before the winner was true of the final frame: neither a *)
(* goal nor a ball out of bounds, no time limit was over, and, unless the  *)
(* wait is 1 (see WaitIsEnough), no ball had rested for it.                *)
(***************************************************************************)
OrderDecides ==
    phase = "stopping" =>
        \A i \in 1 .. SelectInSeq(loaded, LAMBDA name : name = verdict.by) - 1 :
            /\ loaded[i] = "GoalScored" => ~InGoal(ball)
            /\ loaded[i] = "BallOutOfBounds" => ~Outside(ball)
            /\ loaded[i] = "TimeLimit" => sinceFirst <= Limit
            /\ loaded[i] = "BallStopped" /\ wait # 1 => ~Rested

(***************************************************************************)
(* "A goal, an out-of-bounds or a stopped ball is an outcome, and          *)
(* overwriting it would turn +1.0 into a proximity score."                 *)
(* (registry.py:109): with a DistanceToCenter loaded anywhere in the list  *)
(* a timeout is scored by it, an outcome by its own scalar.                *)
(***************************************************************************)
OutcomeKept ==
    phase = "stopping" =>
        LET rewards == verdict.rewards
        IN  IF verdict.by = "TimeLimit" /\ Loads("DistanceToCenter")
            THEN rewards.kind = "dict" /\ rewards.robots \subseteq Targets
            ELSE rewards.kind = "scalar" /\ rewards.value = OwnReward(verdict.by)

(***************************************************************************)
(* "An episode can end for any reason, so a timer started in one episode   *)
(* would otherwise still be running in the next." (registry.py:67):        *)
(* TimeLimit ends an episode on the first frame more than the limit behind *)
(* that episode's own first frame, unless something listed before it does, *)
(* and never sooner.                                                       *)
(***************************************************************************)
TimerHonest ==
    [][Frame =>
         /\ phase' = "stopping" /\ verdict'.by = "TimeLimit" => sinceFirst > Limit
         /\ Loads("TimeLimit") /\ sinceFirst > Limit => phase' = "stopping"]_vars

(***************************************************************************)
(* "Need self.frame_to_wait total frames" (ball_stopped.py:20): however    *)
(* the episodes before ended, BallStopped ends none before it has had that *)
(* many frames of its own, nor on a moving ball; and without a next_state  *)
(* the ball was still in every one of them.                                *)
(***************************************************************************)
StoppedWaits ==
    phase = "stopping" /\ verdict.by = "BallStopped" =>
        /\ frames = wait /\ Still(ball)
        /\ ~paired /\ ~coalesce =>
               LET last == LastOf(seen, wait) IN \A i \in DOMAIN last : last[i]

(***************************************************************************)
(* An episode does not go on over a ball that lies still, for any wait     *)
(* from 2 to what the window can hold: with records as frames come, the    *)
(* loop never goes on once it has seen the ball still for the whole wait   *)
(* and, where frames carry a next_state, a moment more                     *)
(* (ball_stopped.py:16-24).  A wait of 1 is left out: see WaitIsEnough.    *)
(***************************************************************************)
StillNoticed ==
    phase = "running" /\ Loads("BallStopped") /\ wait # 1 => ~Rested

(***************************************************************************)
(* "Need self.frame_to_wait total frames (recent_frames + current)"        *)
(* (ball_stopped.py:20): that many frames of a ball at rest are enough,    *)
(* for a wait of 1 as for any other.                                       *)
(***************************************************************************)
WaitIsEnough == phase = "running" /\ Loads("BallStopped") => ~Rested

(***************************************************************************)
(* "Need self.frame_to_wait total frames (recent_frames + current)"        *)
(* (ball_stopped.py:20): the ball was still in the last frame_to_wait      *)
(* frames of an episode BallStopped ends.                                  *)
(***************************************************************************)
StoppedIsStill ==
    phase = "stopping" /\ verdict.by = "BallStopped" =>
        LET last == LastOf(seen, wait) IN \A i \in DOMAIN last : last[i]

(***************************************************************************)
(* An episode with a TimeLimit ends, whether frames keep coming, come now  *)
(* and then or stop: the time limit or the frame timeout ends it           *)
(* (runner.py:250).                                                        *)
(***************************************************************************)
EpisodeEnds == (phase = "running" /\ Loads("TimeLimit")) ~> phase # "running"
=============================================================================
