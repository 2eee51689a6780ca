-------------------------- MODULE EpisodeLoopProofs --------------------------
(***************************************************************************)
(* The episode loop for every scenario, every set of robots, actions and   *)
(* distances and any number of frames: its types, the contiguity of the    *)
(* records, and that it implements DecisionLog.                            *)
(***************************************************************************)
EXTENDS EpisodeLoop, SequenceTheorems, TLAPS

(***************************************************************************)
(* Elementary facts about sequences the provers find one at a time.        *)
(***************************************************************************)
LEMMA LineSequences ==
    /\ <<>> \in Seq(Line) /\ Len(<<>>) = 0
    /\ \A line \in Line : <<line>> \in Seq(Line) /\ Len(<<line>>) = 1
    /\ \A s \in Seq(Line), line \in Line : Append(s, line) \in Seq(Line)
    /\ \A s, t \in Seq(Line) : s \o t \in Seq(Line)
    /\ \A s \in Seq(Line) : s # <<>> => s[1] \in Line /\ Len(s) \in Nat /\ Len(s) # 0
OBVIOUS

\* prev_frame, when there is one, has a distance
LEMMA FirstDistance ==
    /\ <<>> \in Seq(Distances) /\ Len(<<>>) = 0
    /\ \A s \in Seq(Distances) : s # <<>> => s[1] \in Distances
OBVIOUS

(***************************************************************************)
(* Rewards are closed under what the registry and the runner do to them.   *)
(***************************************************************************)
LEMMA ShapeType ==
    \A p, d \in Int : Shape(p, d) \in Reward
BY DEF Shape, Progress, Dict, Reward

\* merging two frames' rewards gives a reward again
LEMMA MergeType ==
    \A acc, addend \in Reward : MergeRewards(acc, addend) \in Reward
<1> SUFFICES ASSUME NEW acc \in Reward, NEW addend \in Reward
             PROVE  MergeRewards(acc, addend) \in Reward
  OBVIOUS
<1>1. Spread(acc) \in [Robots -> Int]
  BY DEF Spread, Reward
<1>2. AddTables(Spread(acc), addend.entries) \in [Robots -> Int]
  BY <1>1 DEF AddTables, Reward
<1>3. Dict(AddTables(Spread(acc), addend.entries)) \in Reward
  BY <1>2 DEF Dict, Reward
<1>4. Dict([rid \in Robots |-> acc.entries[rid] + addend.value]) \in Reward
  BY DEF Dict, Reward
<1>5. Scalar(acc.value + addend.value) \in Reward
  BY DEF Scalar, Reward
<1> QED
  BY <1>3, <1>4, <1>5 DEF MergeRewards

\* a non-terminal frame carries a reward, shaped or not
LEMMA FrameRewardsType ==
    ASSUME TypeOK, NEW distance \in Distances
    PROVE  FrameRewards(distance) \in Reward
<1>1. Running \in Reward
  BY DEF Running, Scalar, Reward
<1>2. ASSUME prev # <<>>
      PROVE  Shape(prev[1], distance) \in Reward
  BY <1>2, ShapeType, FirstDistance, LoopAssumption DEF TypeOK
<1> QED
  BY <1>1, <1>2 DEF FrameRewards

\* a record stays one when a frame is merged into it
LEMMA LineExtended ==
    \A line \in Line, r \in Reward, n \in Nat \ {0} :
        [line EXCEPT !.next_state = n, !.rewards = r] \in Line
BY DEF Line

\* the record a pulled frame becomes is a line
LEMMA TransitionType ==
    ASSUME TypeOK, NEW actions \in Actions, NEW rewards \in Reward, NEW done \in BOOLEAN
    PROVE  Transition(actions, rewards, done) \in Line
BY DEF TypeOK, Transition, Line

\* pulling a frame keeps the types of what it writes
LEMMA PullType ==
    ASSUME TypeOK, NEW actions \in Actions, NEW distance \in Distances,
           NEW rewards \in Reward, Pull(actions, distance, rewards)
    PROVE  /\ frames' \in Seq(Frame)
           /\ prev' \in Seq(Distances) /\ Len(prev') <= 1
           /\ UNCHANGED <<scenario, shutdown>>
BY DEF TypeOK, Pull, Frame

\* the exceptional exits may or may not have flushed pending
LEMMA LeaveLossyType ==
    ASSUME TypeOK, file' \in {file, file \o pending}, pending' = <<>>
    PROVE  /\ file' \in Seq(Line)
           /\ pending' \in Seq(Line) /\ Len(pending') <= 1
<1>1. CASE file' = file
  BY <1>1, LineSequences DEF TypeOK
<1>2. CASE file' = file \o pending
  BY <1>2, LineSequences DEF TypeOK
<1> QED
  BY <1>1, <1>2

(***************************************************************************)
(* Every step keeps the types, and pending holds at most one record.       *)
(***************************************************************************)
LEMMA TypeStep ==
    ASSUME TypeOK, [Next]_vars
    PROVE  TypeOK'
<1> USE DEF TypeOK
<1>1. ASSUME NEW actions \in Actions, NEW distance \in Distances,
             RecordFrame(actions, distance)
      PROVE  TypeOK'
  <2>1. FrameRewards(distance) \in Reward
    BY FrameRewardsType
  <2>2. Transition(actions, FrameRewards(distance), FALSE) \in Line
    BY <2>1, TransitionType
  <2>3. file' \in Seq(Line)
    BY <1>1, <2>2, LineSequences DEF RecordFrame
  <2> QED
    BY <1>1, <2>1, <2>3, PullType DEF RecordFrame
<1>2. ASSUME NEW actions \in Actions, NEW distance \in Distances,
             HoldDecision(actions, distance)
      PROVE  TypeOK'
  <2>1. FrameRewards(distance) \in Reward
    BY FrameRewardsType
  <2>2. pending[1] \in Line
    BY <1>2, LineSequences DEF HoldDecision
  <2>3. MergeRewards(pending[1].rewards, FrameRewards(distance)) \in Reward
    BY <2>1, <2>2, MergeType DEF Line
  <2>4. [pending[1] EXCEPT !.next_state = Len(frames) + 1,
                           !.rewards = MergeRewards(@, FrameRewards(distance))] \in Line
    <3>1. Len(frames) + 1 \in Nat \ {0}
      OBVIOUS
    <3> QED
      BY <2>2, <2>3, <3>1, LineExtended
  <2>5. pending' \in Seq(Line) /\ Len(pending') <= 1
    BY <1>2, <2>4, LineSequences DEF HoldDecision
  <2> QED
    BY <1>2, <2>1, <2>5, PullType DEF HoldDecision
<1>3. ASSUME NEW actions \in Actions, NEW distance \in Distances,
             NewDecision(actions, distance)
      PROVE  TypeOK'
  <2>1. FrameRewards(distance) \in Reward
    BY FrameRewardsType
  <2>2. Transition(actions, FrameRewards(distance), FALSE) \in Line
    BY <2>1, TransitionType
  <2>3. pending' = <<Transition(actions, FrameRewards(distance), FALSE)>>
    BY <1>3 DEF NewDecision
  <2>5. pending' \in Seq(Line) /\ Len(pending') <= 1
    <3>1. pending' \in Seq(Line) 
      BY <2>2, <2>3, LineSequences
    <3>2. Len(pending') <= 1
      BY <2>2, <2>3, LineSequences
    <3> QED
      BY <3>1, <3>2
  <2>4. file' \in Seq(Line)
    BY <1>3, LineSequences DEF NewDecision, FlushThenPut
  <2> QED
    BY <1>3, <2>1, <2>4, <2>5, PullType DEF NewDecision
<1>4. ASSUME NEW actions \in Actions, NEW distance \in Distances,
             NEW outcome \in Outcomes, TerminalFrame(actions, distance, outcome)
      PROVE  TypeOK'
  <2>1. outcome \in Reward
    BY LoopAssumption
  <2>2. Transition(actions, outcome, TRUE) \in Line
    BY <2>1, TransitionType
  <2>3. file' \in Seq(Line)
    BY <1>4, <2>2, LineSequences DEF TerminalFrame, FlushThenPut
  <2> QED
    BY <1>4, <2>1, <2>3, PullType DEF TerminalFrame, Left
<1>5. CASE FrameTimeout
  BY <1>5, LineSequences DEF FrameTimeout, Left
<1>6. CASE FrameError
  <2>1. pc' \in {"loop"} \cup Left
    BY <1>6 DEF FrameError, Left
  <2> QED
    BY <1>6, <2>1, LeaveLossyType DEF FrameError
<1>7. CASE LeaveOnShutdown
  BY <1>7, LineSequences DEF LeaveOnShutdown, FlushThenPut, Left
<1>8. CASE CloseCalled
  BY <1>8 DEF CloseCalled
<1>9. CASE Interrupt
  <2>1. pc' \in {"loop"} \cup Left
    BY <1>9 DEF Interrupt, Left
  <2> QED
    BY <1>9, <2>1, LeaveLossyType DEF Interrupt
<1>10. CASE UNCHANGED vars
  BY <1>10 DEF vars
<1> QED
  BY <1>1, <1>2, <1>3, <1>4, <1>5, <1>6, <1>7, <1>8, <1>9, <1>10 DEF Next, NextFrame

\* the loop starts with the types right
LEMMA TypeInit == Init => TypeOK
<1> SUFFICES ASSUME Init
             PROVE  TypeOK
  OBVIOUS
<1>1. frames \in Seq(Frame)
  BY DEF Init
<1>2. file \in Seq(Line) /\ pending \in Seq(Line) /\ Len(pending) <= 1
  BY LineSequences DEF Init
<1>3. prev \in Seq(Distances) /\ Len(prev) <= 1
  BY FirstDistance DEF Init
<1> QED
  BY <1>1, <1>2, <1>3 DEF Init, TypeOK

(***************************************************************************)
(* The loop's variables keep their types: in particular a record's rewards *)
(* stay a scalar or a dict over all robots however many frames are merged  *)
(* into it (Runner.__merge_rewards).                                       *)
(***************************************************************************)
THEOREM TypeCorrect == Spec => []TypeOK
BY TypeInit, TypeStep, PTL DEF Spec

-----------------------------------------------------------------------------
(***************************************************************************)
(* How the record under construction and the written ones make up the log. *)
(***************************************************************************)
LEMMA LogShape ==
    ASSUME TypeOK
    PROVE  /\ Log \in Seq(Line)
           /\ pending = <<>> => Log = file
           /\ pending # <<>> => /\ pending[1] \in Line
                               /\ pending = <<pending[1]>>
                               /\ Log = Append(file, pending[1])
<1>1. Log \in Seq(Line)
  BY LineSequences DEF Log, TypeOK
<1>2. ASSUME pending = <<>>
      PROVE  Log = file
  BY <1>2 DEF Log, TypeOK
<1>3. ASSUME pending # <<>>
      PROVE  /\ pending[1] \in Line
             /\ pending = <<pending[1]>>
             /\ Log = Append(file, pending[1])
  <2>1. pending[1] \in Line
    BY <1>3, LineSequences DEF TypeOK
  <2>2. pending = <<pending[1]>>
    <3>1. pending \in Seq(Line) /\ <<pending[1]>> \in Seq(Line)
      BY <2>1, LineSequences DEF TypeOK
    <3>2. Len(pending) = 1
      <4> SUFFICES ASSUME NEW n, n = Len(pending)
                   PROVE  n = 1
        OBVIOUS
      <4>1. n \in Nat /\ n # 0
        BY <1>3, LineSequences DEF TypeOK
      <4>2. n <= 1
        BY DEF TypeOK
      <4> QED
        BY <4>1, <4>2
    <3>3. Len(<<pending[1]>>) = 1
      BY <2>1, LineSequences
    <3>4. \A i \in 1..Len(pending) : pending[i] = <<pending[1]>>[i]
      BY <3>2
    <3> QED
      BY <3>1, <3>2, <3>3, <3>4, SeqEqual
  <2>3. file \o <<pending[1]>> = Append(file, pending[1])
    BY <2>1 DEF TypeOK
  <2> QED
    BY <2>1, <2>2, <2>3 DEF Log
<1> QED
  BY <1>1, <1>2, <1>3

(***************************************************************************)
(* What a step can do to the log.                                          *)
(***************************************************************************)
Grows ==
    /\ pc = "loop" /\ pc' \in {"loop", "terminated"}
    /\ Len(frames') = Len(frames) + 1
    /\ \E line \in Line :
          /\ line.state = Len(frames) + 1
          /\ line.next_state = Len(frames) + 1
          /\ Log' = Append(Log, line)

Lengthens ==
    /\ pc = "loop" /\ pc' = "loop"
    /\ Len(frames') = Len(frames) + 1
    /\ Log # <<>>
    /\ \E line \in Line :
          /\ line.state = Log[Len(Log)].state
          /\ line.next_state = Len(frames) + 1
          /\ Log' = [Log EXCEPT ![Len(Log)] = line]

Finishes ==
    /\ pc = "loop" /\ pc' = "interrupted"
    /\ UNCHANGED <<Log, frames>>

Breaks ==
    /\ pc = "loop" /\ pc' \in {"failed", "exited"}
    /\ frames' = frames
    /\ \/ Log' = Log
       \/ Log # <<>> /\ Log' = SubSeq(Log, 1, Len(Log) - 1)

\* pulling a frame is done in the loop and counts one frame
LEMMA PullCounts ==
    ASSUME TypeOK, NEW actions \in Actions, NEW distance \in Distances,
           NEW rewards \in Reward, Pull(actions, distance, rewards)
    PROVE  pc = "loop" /\ Len(frames') = Len(frames) + 1
BY DEF Pull, TypeOK

\* with coalescing off, a frame adds its record to the log
LEMMA RecordGrows ==
    ASSUME TypeOK, NEW actions \in Actions, NEW distance \in Distances,
           RecordFrame(actions, distance)
    PROVE  /\ Grows
           /\ Log' = Append(Log, Transition(actions, FrameRewards(distance), FALSE))
<1> DEFINE line == Transition(actions, FrameRewards(distance), FALSE)
<1>1. FrameRewards(distance) \in Reward
  BY FrameRewardsType
<1>2. line \in Line
  BY <1>1, TransitionType
<1>3. line.state = Len(frames) + 1 /\ line.next_state = Len(frames) + 1
  BY DEF Transition
<1>4. pending = <<>> /\ pending' = <<>> /\ pc' = pc
  BY DEF RecordFrame, TypeOK
<1>5. file' = Append(file, line)
  BY DEF RecordFrame
<1>6. Log' = Append(Log, line)
  <2>1. Log = file
    BY <1>4, LogShape
  <2>2. file' \in Seq(Line)
    BY <1>2, <1>5, LineSequences DEF TypeOK
  <2>3. file' \o <<>> = file'
    BY <2>2
  <2> QED
    BY <1>4, <1>5, <2>1, <2>3 DEF Log
<1>7. pc = "loop" /\ Len(frames') = Len(frames) + 1
  BY <1>1, PullCounts DEF RecordFrame
<1>8. Grows
  <2> HIDE DEF line
  <2> QED
    BY <1>2, <1>3, <1>4, <1>6, <1>7 DEF Grows
<1> QED
  BY <1>6, <1>8

\* flushing pending and starting afresh with one line appends that line
LEMMA FlushGrows ==
    ASSUME TypeOK, NEW line \in Line
    PROVE  /\ (file \o pending \o <<>>) \o <<line>> = Append(Log, line)
           /\ (file \o pending \o <<line>>) \o <<>> = Append(Log, line)
<1>1. Log \in Seq(Line) /\ <<line>> \in Seq(Line)
  BY LogShape, LineSequences
<1>2. Log \o <<>> = Log
  BY <1>1
<1>3. Log \o <<line>> = Append(Log, line)
  BY <1>1
<1>4. Append(Log, line) \o <<>> = Append(Log, line)
  BY <1>1, LineSequences, ConcatEmptySeq
<1> QED
  BY <1>2, <1>3, <1>4 DEF Log

\* replacing what was just appended is appending the replacement
LEMMA ReplaceLast ==
    ASSUME NEW s \in Seq(Line), NEW a \in Line, NEW b \in Line
    PROVE  [Append(s, a) EXCEPT ![Len(s) + 1] = b] = Append(s, b)
<1> DEFINE old == Append(s, a)  new == [old EXCEPT ![Len(s) + 1] = b]
<1>1. old \in Seq(Line) /\ Len(old) = Len(s) + 1
  OBVIOUS
<1>2. /\ new \in Seq(Line) /\ Len(new) = Len(old)
      /\ \A j \in 1..Len(old) : new[j] = IF j = Len(s) + 1 THEN b ELSE old[j]
  <2>1. Len(s) + 1 \in 1..Len(old)
    BY <1>1
  <2> HIDE DEF old
  <2> QED
    BY <1>1, <2>1, ExceptSeq
<1>3. Append(s, b) \in Seq(Line) /\ Len(Append(s, b)) = Len(s) + 1
  OBVIOUS
<1>4. \A j \in 1..Len(old) : new[j] = Append(s, b)[j]
  BY <1>1, <1>2
<1> QED
  BY <1>1, <1>2, <1>3, <1>4, SeqEqual

\* a frame that holds the action replaces the last record by a longer one
LEMMA HoldLengthens ==
    ASSUME TypeOK, NEW actions \in Actions, NEW distance \in Distances,
           HoldDecision(actions, distance)
    PROVE  /\ Lengthens
           /\ Log # <<>> /\ Log[Len(Log)] = pending[1]
           /\ Log' = [Log EXCEPT ![Len(Log)] =
                        [pending[1] EXCEPT
                            !.next_state = Len(frames) + 1,
                            !.rewards = MergeRewards(@, FrameRewards(distance))]]
<1> DEFINE line == [pending[1] EXCEPT
                       !.next_state = Len(frames) + 1,
                       !.rewards = MergeRewards(@, FrameRewards(distance))]
<1>1. FrameRewards(distance) \in Reward
  BY FrameRewardsType
<1>2. pending # <<>> /\ pending' = <<line>> /\ file' = file /\ pc' = pc
  BY DEF HoldDecision
<1>3. /\ pending[1] \in Line
      /\ Log = Append(file, pending[1])
  BY <1>2, LogShape
<1>4. line.state = pending[1].state /\ line.next_state = Len(frames) + 1
  BY <1>3 DEF Line
<1>5. line \in Line
  <2>1. MergeRewards(pending[1].rewards, FrameRewards(distance)) \in Reward
    BY <1>1, <1>3, MergeType DEF Line
  <2> QED
    <3>1. Len(frames) + 1 \in Nat \ {0}
      BY DEF TypeOK
    <3> QED
      BY <1>3, <2>1, <3>1, LineExtended
<1> HIDE DEF line
<1>6. Log' = Append(file, line)
  BY <1>2, <1>5 DEF Log, TypeOK
<1>7. Log \in Seq(Line) /\ Len(Log) = Len(file) + 1 /\ Log[Len(Log)] = pending[1]
  BY <1>3, LogShape DEF TypeOK
<1>8. Log' = [Log EXCEPT ![Len(Log)] = line]
  <2>1. file \in Seq(Line) /\ pending[1] \in Line
    BY <1>3 DEF TypeOK
  <2>2. [Append(file, pending[1]) EXCEPT ![Len(file) + 1] = line] = Append(file, line)
    BY <1>5, <2>1, ReplaceLast
  <2> QED
    BY <1>3, <1>6, <1>7, <2>2
<1>9. pc = "loop" /\ Len(frames') = Len(frames) + 1
  BY <1>1, PullCounts DEF HoldDecision
<1>10. Log # <<>>
  BY <1>7
<1>11. Lengthens
  BY <1>2, <1>4, <1>5, <1>7, <1>8, <1>9, <1>10 DEF Lengthens
<1> QED
  BY <1>7, <1>8, <1>10, <1>11 DEF line

\* a frame with a new action adds its record, the pending one being written
LEMMA NewGrows ==
    ASSUME TypeOK, NEW actions \in Actions, NEW distance \in Distances,
           NewDecision(actions, distance)
    PROVE  /\ Grows
           /\ Log' = Append(Log, Transition(actions, FrameRewards(distance), FALSE))
<1> DEFINE line == Transition(actions, FrameRewards(distance), FALSE)
<1>1. FrameRewards(distance) \in Reward
  BY FrameRewardsType
<1>2. line \in Line
  BY <1>1, TransitionType
<1>3. line.state = Len(frames) + 1 /\ line.next_state = Len(frames) + 1
  BY DEF Transition
<1>4. file' = file \o pending \o <<>> /\ pending' = <<line>> /\ pc' = pc
  BY DEF NewDecision, FlushThenPut
<1> HIDE DEF line
<1>5. Log' = Append(Log, line)
  BY <1>2, <1>4, FlushGrows DEF Log
<1>6. pc = "loop" /\ Len(frames') = Len(frames) + 1
  BY <1>1, PullCounts DEF NewDecision
<1>7. Grows
  BY <1>2, <1>3, <1>4, <1>5, <1>6 DEF Grows
<1> QED
  BY <1>5, <1>7 DEF line

\* a terminal frame adds its record behind the pending one
LEMMA TerminalGrows ==
    ASSUME TypeOK, NEW actions \in Actions, NEW distance \in Distances,
           NEW outcome \in Outcomes, TerminalFrame(actions, distance, outcome)
    PROVE  /\ Grows
           /\ Log' = Append(Log, Transition(actions, outcome, TRUE))
<1> DEFINE line == Transition(actions, outcome, TRUE)
<1>1. outcome \in Reward
  BY LoopAssumption
<1>2. line \in Line
  BY <1>1, TransitionType
<1>3. line.state = Len(frames) + 1 /\ line.next_state = Len(frames) + 1
  BY DEF Transition
<1>4. file' = file \o pending \o <<line>> /\ pending' = <<>> /\ pc' = "terminated"
  BY DEF TerminalFrame, FlushThenPut
<1> HIDE DEF line
<1>5. Log' = Append(Log, line)
  BY <1>2, <1>4, FlushGrows DEF Log
<1>6. pc = "loop" /\ Len(frames') = Len(frames) + 1
  BY <1>1, PullCounts DEF TerminalFrame
<1>7. Grows
  BY <1>2, <1>3, <1>4, <1>5, <1>6 DEF Grows
<1> QED
  BY <1>5, <1>7 DEF line

\* leaving on the shutdown event loses nothing
LEMMA LeaveFinishes ==
    ASSUME TypeOK, LeaveOnShutdown
    PROVE  Finishes
<1>1. file' = file \o pending \o <<>> /\ pending' = <<>>
  BY DEF LeaveOnShutdown, FlushThenPut
<1>2. Log' = Log
  <2>1. Log \in Seq(Line)
    BY LogShape
  <2>2. Log \o <<>> = Log
    BY <2>1
  <2> QED
    BY <1>1, <2>2 DEF Log
<1> QED
  BY <1>2 DEF LeaveOnShutdown, Finishes

\* an exceptional exit keeps the log or loses the record that was open
LEMMA LossyBreaks ==
    ASSUME TypeOK, file' \in {file, file \o pending}, pending' = <<>>
    PROVE  \/ Log' = Log
           \/ Log # <<>> /\ Log' = SubSeq(Log, 1, Len(Log) - 1)
<1>1. Log' = file'
  <2>1. file' \in Seq(Line)
    BY LeaveLossyType
  <2>2. file' \o <<>> = file'
    BY <2>1
  <2> QED
    BY <2>2 DEF Log
<1>2. CASE file' = file \o pending
  BY <1>1, <1>2 DEF Log
<1>3. CASE file' = file /\ pending = <<>>
  BY <1>1, <1>3, LogShape
<1>4. CASE file' = file /\ pending # <<>>
  <2>1. pending[1] \in Line /\ Log = Append(file, pending[1])
    BY <1>4, LogShape
  <2>2. file \in Seq(Line)
    BY DEF TypeOK
  <2>3. Log # <<>> /\ Len(Log) - 1 = Len(file)
    BY <2>1, <2>2
  <2>4. SubSeq(Append(file, pending[1]), 1, Len(file)) = file
    BY <2>1, <2>2
  <2> QED
    BY <1>1, <1>4, <2>1, <2>3, <2>4
<1> QED
  BY <1>2, <1>3, <1>4

\* every step of the loop grows, lengthens, finishes or breaks the log, or leaves it
LEMMA LogSteps ==
    ASSUME TypeOK, [Next]_vars
    PROVE  \/ Grows \/ Lengthens \/ Finishes \/ Breaks
           \/ UNCHANGED <<pc, Log, frames>>
<1>1. CASE FrameTimeout
  BY <1>1, LossyBreaks DEF FrameTimeout, Breaks
<1>2. CASE FrameError
  BY <1>2, LossyBreaks DEF FrameError, Breaks
<1>3. CASE Interrupt
  BY <1>3, LossyBreaks DEF Interrupt, Breaks
<1>4. CASE CloseCalled
  BY <1>4 DEF CloseCalled, Log
<1>5. CASE UNCHANGED vars
  BY <1>5 DEF vars, Log
<1>6. CASE NextFrame
  BY <1>6, RecordGrows, HoldLengthens, NewGrows, TerminalGrows DEF NextFrame
<1> QED
  BY <1>1, <1>2, <1>3, <1>4, <1>5, <1>6, LeaveFinishes DEF Next

-----------------------------------------------------------------------------
(***************************************************************************)
(* Chains: appending the next frame and lengthening the last record keep   *)
(* them, and a prefix of a chain is one.                                   *)
(***************************************************************************)
LEMMA ChainAppend ==
    ASSUME NEW log \in Seq(Line), Chain(log),
           NEW line \in Line,
           line.state = Reach(log) + 1, line.next_state = Reach(log) + 1
    PROVE  /\ Chain(Append(log, line))
           /\ Reach(Append(log, line)) = Reach(log) + 1
<1> DEFINE longer == Append(log, line)
<1>1. /\ longer \in Seq(Line) /\ Len(longer) = Len(log) + 1
      /\ longer[Len(log) + 1] = line
      /\ \A i \in 1..Len(log) : longer[i] = log[i]
  OBVIOUS
<1>2. DOMAIN longer = 1..(Len(log) + 1) /\ DOMAIN log = 1..Len(log)
  BY <1>1
<1>3. longer # <<>>
  BY <1>1
<1> HIDE DEF longer
<1>4. Reach(longer) = Reach(log) + 1
  BY <1>1, <1>3 DEF Reach
<1>5. ASSUME NEW i \in 1..Len(log)
      PROVE  /\ longer[i].state <= longer[i].next_state
             /\ longer[i].state = IF i = 1 THEN 1 ELSE longer[i - 1].next_state + 1
  <2>1. longer[i] = log[i]
    BY <1>1
  <2>2. i # 1 => longer[i - 1] = log[i - 1]
    BY <1>1
  <2> QED
    BY <1>2, <2>1, <2>2 DEF Chain
<1>6. LET i == Len(log) + 1
      IN  /\ longer[i].state <= longer[i].next_state
          /\ longer[i].state = IF i = 1 THEN 1 ELSE longer[i - 1].next_state + 1
  <2>1. line.state \in Nat
    BY DEF Line
  <2>2. CASE log = <<>>
    BY <1>1, <2>1, <2>2 DEF Reach
  <2>3. CASE log # <<>>
    <3>1. longer[Len(log)] = log[Len(log)]
      BY <1>1, <2>3
    <3> QED
      BY <1>1, <2>1, <2>3, <3>1 DEF Reach
  <2> QED
    BY <2>2, <2>3
<1>7. Chain(longer)
  BY <1>2, <1>5, <1>6 DEF Chain
<1> QED
  BY <1>4, <1>7 DEF longer

\* a chain stays one when its last record takes in the next frame
LEMMA ChainLengthen ==
    ASSUME NEW log \in Seq(Line), Chain(log), log # <<>>,
           NEW line \in Line,
           line.state = log[Len(log)].state, line.next_state = Reach(log) + 1
    PROVE  /\ Chain([log EXCEPT ![Len(log)] = line])
           /\ Reach([log EXCEPT ![Len(log)] = line]) = Reach(log) + 1
<1> DEFINE other == [log EXCEPT ![Len(log)] = line]
<1>1. Len(log) \in 1..Len(log) /\ DOMAIN log = 1..Len(log)
  OBVIOUS
<1>2. /\ other \in Seq(Line) /\ Len(other) = Len(log)
      /\ \A i \in 1..Len(log) : other[i] = IF i = Len(log) THEN line ELSE log[i]
  BY <1>1, ExceptSeq
<1>3. other # <<>> /\ DOMAIN other = 1..Len(log)
  BY <1>1, <1>2
<1> HIDE DEF other
<1>4. other[Len(log)] = line
  BY <1>1, <1>2
<1>5. Reach(other) = Reach(log) + 1
  BY <1>2, <1>3, <1>4 DEF Reach
<1>6. ASSUME NEW i \in 1..Len(log)
      PROVE  /\ other[i].state <= other[i].next_state
             /\ other[i].state = IF i = 1 THEN 1 ELSE other[i - 1].next_state + 1
  <2>1. /\ log[i].state <= log[i].next_state
        /\ log[i].state = IF i = 1 THEN 1 ELSE log[i - 1].next_state + 1
    BY <1>1 DEF Chain
  <2>2. i # 1 => other[i - 1] = log[i - 1]
    BY <1>2
  <2>3. CASE i = Len(log)
    <3>1. log[i].state \in Int /\ log[i].next_state \in Int
      <4>1. log[i] \in Line
        BY <1>1
      <4> QED
        BY <4>1 DEF Line
    <3>2. line.state <= line.next_state
      <4>1. line.state = log[i].state /\ line.next_state = log[i].next_state + 1
        BY <2>3 DEF Reach
      <4> QED
        BY <2>1, <3>1, <4>1
    <3> QED
      BY <1>4, <2>1, <2>2, <2>3, <3>2
  <2>4. CASE i # Len(log)
    BY <1>2, <2>1, <2>2, <2>4
  <2> QED
    BY <2>3, <2>4
<1>7. Chain(other)
  BY <1>3, <1>6 DEF Chain
<1> QED
  BY <1>5, <1>7 DEF other

\* a chain without its last record is a chain
LEMMA ChainPrefix ==
    ASSUME NEW log \in Seq(Line), Chain(log), log # <<>>
    PROVE  Chain(SubSeq(log, 1, Len(log) - 1))
<1> DEFINE front == SubSeq(log, 1, Len(log) - 1)
<1>1. Len(log) \in Nat /\ Len(log) >= 1 /\ DOMAIN log = 1..Len(log)
  OBVIOUS
<1>2. /\ DOMAIN front = 1..(Len(log) - 1)
      /\ \A i \in 1..(Len(log) - 1) : front[i] = log[i]
  BY <1>1
<1> HIDE DEF front
<1>3. ASSUME NEW i \in 1..(Len(log) - 1)
      PROVE  /\ front[i].state <= front[i].next_state
             /\ front[i].state = IF i = 1 THEN 1 ELSE front[i - 1].next_state + 1
  <2>1. i \in DOMAIN log /\ front[i] = log[i]
    BY <1>1, <1>2
  <2>2. i # 1 => front[i - 1] = log[i - 1]
    BY <1>1, <1>2
  <2> QED
    BY <2>1, <2>2 DEF Chain
<1> QED
  BY <1>2, <1>3 DEF Chain, front

\* every step keeps the records contiguous
LEMMA ContiguousStep ==
    ASSUME TypeOK, Contiguous, [Next]_vars
    PROVE  Contiguous'
<1>1. Log \in Seq(Line) /\ Len(frames) \in Nat
  BY LogShape DEF TypeOK
<1>2. CASE Grows
  <2>1. PICK line \in Line : /\ line.state = Len(frames) + 1
                             /\ line.next_state = Len(frames) + 1
                             /\ Log' = Append(Log, line)
    BY <1>2 DEF Grows
  <2>2. Reach(Log) = Len(frames) /\ Chain(Log)
    BY <1>2 DEF Grows, Contiguous
  <2>3. Chain(Append(Log, line)) /\ Reach(Append(Log, line)) = Reach(Log) + 1
    BY <1>1, <2>1, <2>2, ChainAppend
  <2> QED
    BY <1>2, <2>1, <2>2, <2>3 DEF Grows, Contiguous, Chain, Reach
<1>3. CASE Lengthens
  <2>1. PICK line \in Line : /\ line.state = Log[Len(Log)].state
                             /\ line.next_state = Len(frames) + 1
                             /\ Log' = [Log EXCEPT ![Len(Log)] = line]
    BY <1>3 DEF Lengthens
  <2>2. Reach(Log) = Len(frames) /\ Chain(Log) /\ Log # <<>>
    BY <1>3 DEF Lengthens, Contiguous
  <2>3. /\ Chain([Log EXCEPT ![Len(Log)] = line])
        /\ Reach([Log EXCEPT ![Len(Log)] = line]) = Reach(Log) + 1
    BY <1>1, <2>1, <2>2, ChainLengthen
  <2> QED
    BY <1>3, <2>1, <2>2, <2>3 DEF Lengthens, Contiguous, Chain, Reach
<1>4. CASE Finishes
  BY <1>4 DEF Finishes, Contiguous, Chain, Reach
<1>5. CASE Breaks
  <2>1. pc' \in {"failed", "exited"}
    BY <1>5 DEF Breaks
  <2>2. CASE Log' = Log
    BY <2>1, <2>2 DEF Contiguous, Chain
  <2>3. CASE Log # <<>> /\ Log' = SubSeq(Log, 1, Len(Log) - 1)
    <3>1. Chain(SubSeq(Log, 1, Len(Log) - 1))
      BY <1>1, <2>3, ChainPrefix DEF Contiguous
    <3> QED
      BY <2>1, <2>3, <3>1 DEF Contiguous, Chain
  <2> QED
    BY <1>5, <2>2, <2>3 DEF Breaks
<1>6. CASE UNCHANGED <<pc, Log, frames>>
  BY <1>6 DEF Contiguous, Chain, Reach
<1> QED
  BY <1>2, <1>3, <1>4, <1>5, <1>6, LogSteps

(***************************************************************************)
(* The records of every episode form one contiguous chain that reaches the *)
(* last frame pulled (runner.py:286, 296, 302).  Contiguous is inductive   *)
(* relative to TypeOK, whose part about `pending` it needs: only with at   *)
(* most one open record, and none when the scenario does not coalesce, is  *)
(* the next line of the file the next record.                              *)
(***************************************************************************)
THEOREM AlwaysContiguous == Spec => []Contiguous
<1>1. Init => Contiguous
  <2> SUFFICES ASSUME Init
               PROVE  Contiguous
    OBVIOUS
  <2>1. TypeOK
    BY TypeInit
  <2>2. Log = <<>>
    BY <2>1, LogShape DEF Init
  <2> QED
    BY <2>2 DEF Init, Contiguous, Chain, Reach
<1>2. TypeOK /\ Contiguous /\ [Next]_vars => Contiguous'
  BY ContiguousStep
<1> QED
  BY <1>1, <1>2, TypeCorrect, PTL DEF Spec

-----------------------------------------------------------------------------
(***************************************************************************)
(* Forgetting all but the segments commutes with what a step does.         *)
(***************************************************************************)
Bounds(line) == [state |-> line.state, next_state |-> line.next_state]

Piece == [state : Nat, next_state : Nat]

\* the segments of a log, one for one
LEMMA SegmentsType ==
    ASSUME NEW log \in Seq(Line)
    PROVE  /\ Segments(log) \in Seq(Piece)
           /\ Len(Segments(log)) = Len(log)
           /\ \A i \in 1..Len(log) : Segments(log)[i] = Bounds(log[i])
<1>1. DOMAIN log = 1..Len(log) /\ Len(log) \in Nat
  OBVIOUS
<1>2. ASSUME NEW i \in 1..Len(log)
      PROVE  Bounds(log[i]) \in Piece
  <2>1. log[i] \in Line
    OBVIOUS
  <2> QED
    BY <2>1 DEF Bounds, Piece, Line
<1>3. Segments(log) = [i \in 1..Len(log) |-> Bounds(log[i])]
  BY <1>1 DEF Segments, Bounds
<1> QED
  BY <1>1, <1>2, <1>3

\* appending a record appends its segment
LEMMA SegmentsAppend ==
    ASSUME NEW log \in Seq(Line), NEW line \in Line
    PROVE  Segments(Append(log, line)) = Append(Segments(log), Bounds(line))
<1> DEFINE longer == Append(log, line)  left == Segments(longer)
           right == Append(Segments(log), Bounds(line))
<1>1. /\ longer \in Seq(Line) /\ Len(longer) = Len(log) + 1 /\ Len(log) \in Nat
      /\ \A i \in 1..Len(log) + 1 : longer[i] = IF i = Len(log) + 1 THEN line ELSE log[i]
  OBVIOUS
<1>2. Bounds(line) \in Piece
  BY DEF Bounds, Piece, Line
<1>3. /\ right \in Seq(Piece) /\ Len(right) = Len(log) + 1
      /\ \A i \in 1..Len(log) + 1 :
            right[i] = IF i = Len(log) + 1 THEN Bounds(line) ELSE Segments(log)[i]
  BY <1>2, SegmentsType
<1> HIDE DEF longer
<1>4. /\ left \in Seq(Piece) /\ Len(left) = Len(log) + 1
      /\ \A i \in 1..Len(log) + 1 : left[i] = Bounds(longer[i])
  BY <1>1, SegmentsType
<1> HIDE DEF left, right
<1>5. \A i \in 1..Len(log) : Segments(log)[i] = Bounds(log[i])
  BY SegmentsType
<1>6. \A i \in 1..Len(left) : left[i] = right[i]
  BY <1>1, <1>3, <1>4, <1>5
<1>7. left = right
  BY <1>3, <1>4, <1>6, SeqEqual
<1> QED
  BY <1>7 DEF left, right, longer

\* replacing a record replaces its segment
LEMMA SegmentsReplace ==
    ASSUME NEW log \in Seq(Line), NEW line \in Line, NEW n \in 1..Len(log)
    PROVE  Segments([log EXCEPT ![n] = line]) = [Segments(log) EXCEPT ![n] = Bounds(line)]
<1> DEFINE other == [log EXCEPT ![n] = line]  left == Segments(other)
           right == [Segments(log) EXCEPT ![n] = Bounds(line)]
<1>1. /\ other \in Seq(Line) /\ Len(other) = Len(log)
      /\ \A i \in 1..Len(log) : other[i] = IF i = n THEN line ELSE log[i]
  BY ExceptSeq
<1>2. Bounds(line) \in Piece
  BY DEF Bounds, Piece, Line
<1>3. /\ Segments(log) \in Seq(Piece) /\ Len(Segments(log)) = Len(log)
      /\ \A i \in 1..Len(log) : Segments(log)[i] = Bounds(log[i])
  BY SegmentsType
<1>4. /\ right \in Seq(Piece) /\ Len(right) = Len(log)
      /\ \A i \in 1..Len(log) : right[i] = IF i = n THEN Bounds(line) ELSE Segments(log)[i]
  BY <1>2, <1>3, ExceptSeq
<1> HIDE DEF other
<1>5. /\ left \in Seq(Piece) /\ Len(left) = Len(log)
      /\ \A i \in 1..Len(log) : left[i] = Bounds(other[i])
  BY <1>1, SegmentsType
<1> HIDE DEF left, right
<1>6. \A i \in 1..Len(left) : left[i] = right[i]
  BY <1>1, <1>3, <1>4, <1>5
<1>7. left = right
  BY <1>4, <1>5, <1>6, SeqEqual
<1> QED
  BY <1>7 DEF left, right, other

\* dropping the last record drops the last segment
LEMMA SegmentsFront ==
    ASSUME NEW log \in Seq(Line), log # <<>>
    PROVE  Segments(SubSeq(log, 1, Len(log) - 1))
             = SubSeq(Segments(log), 1, Len(Segments(log)) - 1)
<1> DEFINE front == SubSeq(log, 1, Len(log) - 1)  left == Segments(front)
           right == SubSeq(Segments(log), 1, Len(log) - 1)
<1>1. Len(log) \in Nat /\ Len(log) >= 1
  OBVIOUS
<1>2. /\ front \in Seq(Line) /\ Len(front) = Len(log) - 1
      /\ \A i \in 1..Len(log) - 1 : front[i] = log[i]
  <2>1. \A i \in 1..Len(log) - 1 : log[i] \in Line
    BY <1>1
  <2>2. 1 \in Int /\ Len(log) - 1 \in Int
    BY <1>1
  <2>3. /\ front \in Seq(Line)
        /\ Len(front) = IF 1 <= Len(log) - 1 THEN Len(log) - 1 - 1 + 1 ELSE 0
        /\ \A i \in 1..Len(log) - 1 - 1 + 1 : front[i] = log[1 + i - 1]
    BY <2>1, <2>2, SubSeqProperties
  <2> HIDE DEF front
  <2>4. Len(front) = Len(log) - 1
    <3> SUFFICES ASSUME NEW n, n = Len(front), NEW m \in Nat, m = Len(log)
                 PROVE  n = m - 1
      BY <1>1
    <3>1. n = IF 1 <= m - 1 THEN m - 1 - 1 + 1 ELSE 0
      BY <2>3
    <3>2. m >= 1
      BY <1>1
    <3> QED
      BY <3>1, <3>2
  <2>5. \A i \in 1..Len(log) - 1 : front[i] = log[i]
    <3> TAKE i \in 1..Len(log) - 1
    <3>1. i \in 1..Len(log) - 1 - 1 + 1 /\ 1 + i - 1 = i
      BY <1>1
    <3> QED
      BY <2>3, <3>1
  <2> QED
    BY <2>3, <2>4, <2>5
<1>3. /\ Segments(log) \in Seq(Piece) /\ Len(Segments(log)) = Len(log)
      /\ \A i \in 1..Len(log) : Segments(log)[i] = Bounds(log[i])
  BY SegmentsType
<1>4. /\ right \in Seq(Piece) /\ Len(right) = Len(log) - 1
      /\ \A i \in 1..Len(log) - 1 : right[i] = Segments(log)[i]
  BY <1>1, <1>3
<1> HIDE DEF front
<1>5. /\ left \in Seq(Piece) /\ Len(left) = Len(log) - 1
      /\ \A i \in 1..Len(log) - 1 : left[i] = Bounds(front[i])
  BY <1>2, SegmentsType
<1> HIDE DEF left, right
<1>6. \A i \in 1..Len(left) : left[i] = right[i]
  BY <1>1, <1>2, <1>3, <1>4, <1>5
<1>7. left = right
  BY <1>4, <1>5, <1>6, SeqEqual
<1> QED
  BY <1>3, <1>7 DEF left, right, front

\* every step of the loop is a step of DecisionLog or leaves it unchanged
LEMMA RefinesStep ==
    ASSUME TypeOK, Contiguous, [Next]_vars
    PROVE  [Abstract!LogNext]_(Abstract!logVars)
<1> USE DEF Abstract!LogNext, Abstract!logVars
<1>1. /\ Log \in Seq(Line) /\ DOMAIN Log = 1..Len(Log)
      /\ Segments(Log) \in Seq(Piece) /\ Len(Segments(Log)) = Len(Log)
  BY LogShape, SegmentsType
<1>2. CASE Grows
  <2>1. PICK line \in Line : /\ line.state = Len(frames) + 1
                             /\ line.next_state = Len(frames) + 1
                             /\ Log' = Append(Log, line)
    BY <1>2 DEF Grows
  <2>2. Segments(Log)' = Append(Segments(Log), Abstract!Segment(Len(frames) + 1, Len(frames) + 1))
    <3>1. Segments(Log)' = Segments(Append(Log, line))
      BY <2>1 DEF Segments
    <3>2. Segments(Append(Log, line)) = Append(Segments(Log), Bounds(line))
      BY <1>1, SegmentsAppend
    <3> QED
      BY <2>1, <3>1, <3>2 DEF Bounds, Abstract!Segment
  <2>3. Status = "open" /\ Status' \in {"open", "closed"}
    BY <1>2 DEF Grows, Status
  <2> QED
    BY <1>2, <2>2, <2>3 DEF Grows, Abstract!Observe
<1>3. CASE Lengthens
  <2>1. PICK line \in Line : /\ line.state = Log[Len(Log)].state
                             /\ line.next_state = Len(frames) + 1
                             /\ Log' = [Log EXCEPT ![Len(Log)] = line]
    BY <1>3 DEF Lengthens
  <2>2. Log # <<>> /\ Len(Log) \in 1..Len(Log)
    BY <1>1, <1>3 DEF Lengthens
  <2>3. Segments(Log)' = [Segments(Log) EXCEPT ![Len(Log)] = Bounds(line)]
    <3>1. Segments(Log)' = Segments([Log EXCEPT ![Len(Log)] = line])
      BY <2>1 DEF Segments
    <3> QED
      BY <1>1, <2>2, <3>1, SegmentsReplace
  <2>4. Bounds(line) = Abstract!Segment(Segments(Log)[Len(Log)].state, Len(frames) + 1)
    <3>1. Segments(Log)[Len(Log)] = Bounds(Log[Len(Log)])
      BY <1>1, <2>2, SegmentsType
    <3>2. Bounds(Log[Len(Log)]).state = line.state
      BY <2>1 DEF Bounds
    <3> QED
      BY <2>1, <3>1, <3>2 DEF Bounds, Abstract!Segment
  <2>5. Segments(Log)' = [Segments(Log) EXCEPT ![Len(Segments(Log))] =
                             Abstract!Segment(@.state, Len(frames) + 1)]
    BY <1>1, <2>3, <2>4
  <2>6. Segments(Log) # <<>>
    BY <1>1, <2>2
  <2>7. Status = "open" /\ Status' \in {"open", "closed"}
    BY <1>3 DEF Lengthens, Status
  <2> QED
    BY <1>3, <2>5, <2>6, <2>7 DEF Lengthens, Abstract!Observe
<1>4. CASE Finishes
  <2>1. Status = "open" /\ Status' = "closed"
    BY <1>4 DEF Finishes, Status
  <2> QED
    BY <1>4, <2>1 DEF Finishes, Segments, Abstract!Close
<1>5. CASE Breaks
  <2>1. Status = "open" /\ Status' = "aborted" /\ Len(frames') = Len(frames)
    BY <1>5 DEF Breaks, Status
  <2>2. CASE Log' = Log
    BY <2>1, <2>2 DEF Segments, Abstract!Abort
  <2>3. CASE Log # <<>> /\ Log' = SubSeq(Log, 1, Len(Log) - 1)
    <3>1. Segments(Log)' = SubSeq(Segments(Log), 1, Len(Segments(Log)) - 1)
      BY <1>1, <2>3, SegmentsFront DEF Segments
    <3>2. Segments(Log) # <<>>
      BY <1>1, <2>3
    <3> QED
      BY <2>1, <3>1, <3>2 DEF Abstract!Abort
  <2> QED
    BY <1>5, <2>2, <2>3 DEF Breaks
<1>6. CASE UNCHANGED <<pc, Log, frames>>
  BY <1>6 DEF Segments, Status
<1> QED
  BY <1>2, <1>3, <1>4, <1>5, <1>6, LogSteps

(***************************************************************************)
(* The loop implements DecisionLog: written lines are final, and only an   *)
(* exceptional exit loses anything, the record still open (runner.py:250). *)
(***************************************************************************)
THEOREM Implementation == Spec => ImplementsDecisionLog
<1>1. Init => Abstract!Start
  <2> SUFFICES ASSUME Init
               PROVE  Abstract!Start
    OBVIOUS
  <2>1. Log = <<>>
    BY TypeInit, LogShape DEF Init
  <2>2. Segments(Log) = <<>>
    BY <2>1 DEF Segments
  <2> QED
    BY <2>2 DEF Init, Status, Abstract!Start
<1>2. TypeOK /\ Contiguous /\ [Next]_vars => [Abstract!LogNext]_(Abstract!logVars)
  BY RefinesStep
<1> QED
  BY <1>1, <1>2, TypeCorrect, AlwaysContiguous, PTL
     DEF Spec, ImplementsDecisionLog, Abstract!LogSpec
=============================================================================
