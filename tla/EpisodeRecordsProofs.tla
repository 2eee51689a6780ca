------------------------- MODULE EpisodeRecordsProofs -------------------------
(***************************************************************************)
(* What the records of an episode say, for every scenario, every set of    *)
(* robots, actions and distances and any number of frames: one decision    *)
(* each, shaping that telescopes, and an outcome that stands alone.        *)
(***************************************************************************)
EXTENDS EpisodeLoopProofs

(***************************************************************************)
(* The arithmetic of rewards, as one robot sees it.                        *)
(***************************************************************************)
\* what a merged reward gives a robot is the sum of what the two give it
LEMMA MergeAdds ==
    ASSUME NEW acc \in Reward, NEW addend \in Reward, NEW rid \in Robots
    PROVE  Worth(MergeRewards(acc, addend), rid) = Worth(acc, rid) + Worth(addend, rid)
<1>1. CASE ~IsDict(acc) /\ ~IsDict(addend)
  BY <1>1 DEF MergeRewards, Worth, Scalar, IsDict
<1>2. CASE IsDict(acc) /\ IsDict(addend)
  BY <1>2 DEF MergeRewards, Worth, Dict, IsDict, AddTables, Spread
<1>3. CASE ~IsDict(acc) /\ IsDict(addend)
  BY <1>3 DEF MergeRewards, Worth, Dict, IsDict, AddTables, Spread
<1>4. CASE IsDict(acc) /\ ~IsDict(addend)
  BY <1>4 DEF MergeRewards, Worth, Dict, IsDict
<1> QED
  BY <1>1, <1>2, <1>3, <1>4

\* a robot's share of a reward is a number
LEMMA WorthType ==
    ASSUME NEW reward \in Reward, NEW rid \in Robots
    PROVE  Worth(reward, rid) \in Int
BY DEF Worth, Reward, IsDict

\* shaping gives the striker the distance closed, the others nothing
LEMMA ShapeWorth ==
    ASSUME NEW p \in Int, NEW d \in Int, NEW rid \in Robots
    PROVE  Worth(Shape(p, d), rid) = IF rid = Striker THEN p - d ELSE 0
BY DEF Worth, Shape, Dict, IsDict, Progress

\* the registry's default gives nobody anything
LEMMA RunningWorth ==
    ASSUME NEW rid \in Robots
    PROVE  Worth(Running, rid) = 0
BY DEF Worth, Running, Scalar, IsDict

-----------------------------------------------------------------------------
(***************************************************************************)
(* The inductive invariant.  A record is Faithful when it is about frames  *)
(* that were pulled, all of them of its action, and is worth what the      *)
(* properties say; Lone says that records of one decision are one record;  *)
(* Open ties the loop's locals to the records and frames.                  *)
(***************************************************************************)
\* the distance closed from the frame before a record to its last one
Closed(line, rid) ==
    IF scenario.shaped /\ rid = Striker
    THEN frames[Before(line)].distance - frames[line.next_state].distance
    ELSE 0

Faithful(line) ==
    /\ 1 <= line.state /\ line.state <= line.next_state /\ line.next_state <= Len(frames)
    /\ \A k \in line.state..line.next_state : frames[k].actions = line.actions
    /\ ~scenario.coalesce => line.state = line.next_state
    /\ ~line.done => \A rid \in Robots : Worth(line.rewards, rid) = Closed(line, rid)
    /\ line.done => /\ pc = "terminated"
                    /\ line.state = line.next_state
                    /\ line.rewards = frames[line.next_state].rewards

Lone ==
    \A i \in 1..Len(Log) - 1 :
        /\ ~Log[i].done
        /\ scenario.coalesce /\ Log[i].actions = Log[i + 1].actions => Log[i + 1].done

\* prev_frame, the pending record and held_actions are of the last frame
Open ==
    /\ pc = "loop" =>
         /\ prev = IF frames = <<>> THEN <<>> ELSE <<frames[Len(frames)].distance>>
         /\ pending # <<>> => pending[1].actions = held
         /\ scenario.coalesce /\ pending = <<>> => Log = <<>>
    /\ pc = "terminated" => file # <<>> /\ pending = <<>> /\ file[Len(file)].done

RecordsInv ==
    /\ \A i \in 1..Len(Log) : Faithful(Log[i])
    /\ Lone
    /\ Open

-----------------------------------------------------------------------------
(***************************************************************************)
(* What a pulled frame does to the frames and to the records there are.    *)
(***************************************************************************)
\* the frame comes behind the others and becomes prev_frame
LEMMA PulledFrame ==
    ASSUME TypeOK, NEW actions \in Actions, NEW distance \in Distances,
           NEW rewards \in Reward, Pull(actions, distance, rewards)
    PROVE  /\ frames' \in Seq(Frame) /\ Len(frames') = Len(frames) + 1
           /\ Len(frames) \in Nat /\ frames' # <<>>
           /\ \A k \in 1..Len(frames) : frames'[k] = frames[k]
           /\ frames'[Len(frames) + 1] =
                [actions |-> actions, distance |-> distance, rewards |-> rewards]
           /\ frames'[Len(frames')].distance = distance
           /\ prev' = <<distance>>
           /\ pc = "loop" /\ scenario' = scenario
<1> DEFINE frame == [actions |-> actions, distance |-> distance, rewards |-> rewards]
<1>1. frame \in Frame
  BY DEF Frame
<1>2. /\ frames' = Append(frames, frame) /\ prev' = <<distance>>
      /\ pc = "loop" /\ scenario' = scenario
  BY DEF Pull
<1>3. frames \in Seq(Frame)
  BY DEF TypeOK
<1> HIDE DEF frame
<1>4. /\ Append(frames, frame) \in Seq(Frame) /\ Len(Append(frames, frame)) = Len(frames) + 1
      /\ \A k \in 1..Len(frames) : Append(frames, frame)[k] = frames[k]
      /\ Append(frames, frame)[Len(frames) + 1] = frame
  BY <1>1, <1>3, AppendProperties
<1>5. Len(frames) \in Nat /\ Append(frames, frame) # <<>>
  BY <1>1, <1>3
<1> QED
  BY <1>2, <1>4, <1>5 DEF frame

\* the distance of a frame is a number
LEMMA FrameDistance ==
    ASSUME TypeOK, NEW k \in 1..Len(frames)
    PROVE  frames[k].distance \in Distances /\ frames[k].distance \in Int
<1>1. frames[k] \in Frame
  BY DEF TypeOK
<1> QED
  BY <1>1, LoopAssumption DEF Frame

\* a record of earlier frames stays faithful
LEMMA FaithfulKept ==
    ASSUME TypeOK, NEW actions \in Actions, NEW distance \in Distances,
           NEW rewards \in Reward, Pull(actions, distance, rewards),
           NEW line \in Line, Faithful(line)
    PROVE  Faithful(line)'
<1>1. /\ Len(frames') = Len(frames) + 1 /\ Len(frames) \in Nat
      /\ \A k \in 1..Len(frames) : frames'[k] = frames[k]
      /\ pc = "loop" /\ scenario' = scenario
  BY PulledFrame
<1>2. /\ line.state \in 1..Len(frames) /\ line.next_state \in 1..Len(frames)
      /\ line.state..line.next_state \subseteq 1..Len(frames)
      /\ ~line.done
  BY <1>1 DEF Faithful, Line
<1>3. Before(line) \in 1..Len(frames)
  BY <1>1, <1>2 DEF Before
<1>4. ASSUME NEW rid \in Robots
      PROVE  Closed(line, rid)' = Closed(line, rid)
  BY <1>1, <1>2, <1>3 DEF Closed, Before
<1>5. \A rid \in Robots : Worth(line.rewards, rid) = Closed(line, rid)'
  BY <1>2, <1>4 DEF Faithful
<1>6. \A k \in line.state..line.next_state : frames'[k].actions = line.actions
  BY <1>1, <1>2 DEF Faithful
<1>7. /\ 1 <= line.state /\ line.state <= line.next_state
      /\ line.next_state <= Len(frames')
      /\ ~scenario'.coalesce => line.state = line.next_state
  BY <1>1, <1>2 DEF Faithful
<1> QED
  BY <1>2, <1>5, <1>6, <1>7 DEF Faithful

\* the shaping of a frame is the distance closed since the frame before it
LEMMA FrameWorth ==
    ASSUME TypeOK, Open, pc = "loop", NEW distance \in Distances, NEW rid \in Robots
    PROVE  Worth(FrameRewards(distance), rid) =
             IF scenario.shaped /\ rid = Striker /\ frames # <<>>
             THEN frames[Len(frames)].distance - distance
             ELSE 0
<1>1. CASE frames = <<>>
  <2>1. FrameRewards(distance) = Running
    BY <1>1 DEF Open, FrameRewards
  <2> QED
    BY <1>1, <2>1, RunningWorth
<1>2. CASE frames # <<>>
  <2>1. Len(frames) \in 1..Len(frames)
    BY <1>2 DEF TypeOK
  <2>2. frames[Len(frames)].distance \in Int /\ distance \in Int
    BY <2>1, FrameDistance, LoopAssumption
  <2>3. prev # <<>> /\ prev[1] = frames[Len(frames)].distance
    BY <1>2 DEF Open
  <2>4. CASE scenario.shaped
    <3>1. FrameRewards(distance) = Shape(frames[Len(frames)].distance, distance)
      BY <2>3, <2>4 DEF FrameRewards
    <3> QED
      BY <1>2, <2>2, <2>4, <3>1, ShapeWorth
  <2>5. CASE ~scenario.shaped
    BY <2>5, RunningWorth DEF FrameRewards
  <2> QED
    BY <2>4, <2>5
<1> QED
  BY <1>1, <1>2

\* the record a frame becomes is faithful
LEMMA NewFaithful ==
    ASSUME TypeOK, Open, NEW actions \in Actions, NEW distance \in Distances,
           NEW rewards \in Reward, NEW done \in BOOLEAN,
           Pull(actions, distance, rewards),
           done => pc' = "terminated",
           ~done => rewards = FrameRewards(distance),
           NEW line, line = Transition(actions, rewards, done)
    PROVE  Faithful(line)'
<1>1. /\ Len(frames') = Len(frames) + 1 /\ Len(frames) \in Nat
      /\ \A k \in 1..Len(frames) : frames'[k] = frames[k]
      /\ frames'[Len(frames) + 1] =
            [actions |-> actions, distance |-> distance, rewards |-> rewards]
      /\ pc = "loop" /\ scenario' = scenario
  BY PulledFrame
<1>2. /\ line.state = Len(frames) + 1 /\ line.next_state = Len(frames) + 1
      /\ line.actions = actions /\ line.rewards = rewards /\ line.done = done
  BY DEF Transition
<1>3. ASSUME ~done, NEW rid \in Robots
      PROVE  Worth(rewards, rid) = Closed(line, rid)'
  <2>1. Worth(rewards, rid) =
          IF scenario.shaped /\ rid = Striker /\ frames # <<>>
          THEN frames[Len(frames)].distance - distance
          ELSE 0
    BY <1>1, <1>3, FrameWorth
  <2>2. distance \in Int
    BY LoopAssumption
  <2>3. CASE frames = <<>>
    <3>1. Before(line) = 1 /\ frames'[1].distance = distance /\ line.next_state = 1
      BY <1>1, <1>2, <2>3 DEF Before
    <3>2. Closed(line, rid)' = 0
      BY <2>2, <3>1 DEF Closed, Before
    <3> QED
      BY <2>1, <2>3, <3>2
  <2>4. CASE frames # <<>>
    <3>1. Before(line) = Len(frames) /\ Len(frames) \in 1..Len(frames)
      BY <1>1, <1>2, <2>4 DEF Before, TypeOK
    <3>2. /\ frames'[Before(line)].distance = frames[Len(frames)].distance
          /\ frames'[line.next_state].distance = distance
      BY <1>1, <1>2, <3>1
    <3> QED
      BY <1>1, <2>1, <2>4, <3>2 DEF Closed, Before
  <2> QED
    BY <2>3, <2>4
<1>4. \A k \in line.state..line.next_state : frames'[k].actions = line.actions
  BY <1>1, <1>2
<1>5. frames'[line.next_state].rewards = rewards
  BY <1>1, <1>2
<1> QED
  BY <1>1, <1>2, <1>3, <1>4, <1>5 DEF Faithful

\* a record a frame is merged into stays faithful
LEMMA MergedFaithful ==
    ASSUME TypeOK, Open, pc' = "loop",
           NEW actions \in Actions, NEW distance \in Distances,
           Pull(actions, distance, FrameRewards(distance)), scenario.coalesce,
           NEW old \in Line, Faithful(old), ~old.done, old.actions = actions,
           old.next_state = Len(frames),
           NEW line,
           line = [old EXCEPT !.next_state = Len(frames) + 1,
                              !.rewards = MergeRewards(@, FrameRewards(distance))]
    PROVE  Faithful(line)'
<1>1. FrameRewards(distance) \in Reward
  BY FrameRewardsType
<1>2. /\ Len(frames') = Len(frames) + 1 /\ Len(frames) \in Nat
      /\ \A k \in 1..Len(frames) : frames'[k] = frames[k]
      /\ frames'[Len(frames) + 1] = [actions |-> actions, distance |-> distance,
                                     rewards |-> FrameRewards(distance)]
      /\ pc = "loop" /\ scenario' = scenario
  BY <1>1, PulledFrame
<1>3. /\ line.state = old.state /\ line.next_state = Len(frames) + 1
      /\ line.actions = actions /\ line.done = FALSE
      /\ line.rewards = MergeRewards(old.rewards, FrameRewards(distance))
  BY DEF Line
<1>4. /\ old.state \in 1..Len(frames) /\ Len(frames) \in 1..Len(frames)
      /\ old.rewards \in Reward
  BY <1>2 DEF Faithful, Line
<1>5. Before(old) \in 1..Len(frames) /\ Before(line) = Before(old)
  BY <1>2, <1>3, <1>4 DEF Before
<1>6. ASSUME NEW rid \in Robots
      PROVE  Worth(line.rewards, rid) = Closed(line, rid)'
  <2>1. Worth(line.rewards, rid)
          = Worth(old.rewards, rid) + Worth(FrameRewards(distance), rid)
    BY <1>1, <1>3, <1>4, MergeAdds
  <2>2. Worth(FrameRewards(distance), rid) =
          IF scenario.shaped /\ rid = Striker
          THEN frames[Len(frames)].distance - distance
          ELSE 0
    BY <1>2, <1>4, FrameWorth
  <2>3. Worth(old.rewards, rid) = Closed(old, rid)
    BY DEF Faithful
  <2>4. CASE scenario.shaped /\ rid = Striker
    <3>1. /\ frames[Before(old)].distance \in Int /\ frames[Len(frames)].distance \in Int
          /\ distance \in Int
      BY <1>4, <1>5, FrameDistance, LoopAssumption
    <3>2. Worth(old.rewards, rid)
            = frames[Before(old)].distance - frames[Len(frames)].distance
      BY <2>3, <2>4 DEF Closed
    <3>3. /\ frames'[Before(line)].distance = frames[Before(old)].distance
          /\ frames'[line.next_state].distance = distance
      BY <1>2, <1>3, <1>5
    <3>4. Closed(line, rid)' = frames[Before(old)].distance - distance
      BY <1>2, <2>4, <3>3 DEF Closed, Before
    <3> QED
      BY <2>1, <2>2, <2>4, <3>1, <3>2, <3>4
  <2>5. CASE ~(scenario.shaped /\ rid = Striker)
    BY <1>2, <2>1, <2>2, <2>3, <2>5 DEF Closed
  <2> QED
    BY <2>4, <2>5
<1>7. \A k \in line.state..line.next_state : frames'[k].actions = line.actions
  <2> TAKE k \in line.state..line.next_state
  <2>1. CASE k = Len(frames) + 1
    BY <1>2, <1>3, <2>1
  <2>2. CASE k # Len(frames) + 1
    <3>1. k \in old.state..old.next_state /\ k \in 1..Len(frames)
      BY <1>2, <1>3, <1>4, <2>2
    <3> QED
      BY <1>2, <1>3, <3>1 DEF Faithful
  <2> QED
    BY <2>1, <2>2
<1> QED
  BY <1>2, <1>3, <1>4, <1>6, <1>7 DEF Faithful

-----------------------------------------------------------------------------
(***************************************************************************)
(* What a step does to all the records.                                    *)
(***************************************************************************)
\* a record of frames that do not change stays faithful
LEMMA FaithfulStays ==
    ASSUME UNCHANGED <<scenario, frames>>, pc = "loop" \/ pc' = pc,
           NEW line \in Line, Faithful(line)
    PROVE  Faithful(line)'
BY DEF Faithful, Closed, Before, Line

\* while the loop runs, no record is a terminal one
LEMMA NoneDone ==
    ASSUME RecordsInv, pc = "loop"
    PROVE  \A i \in 1..Len(Log) : ~Log[i].done
BY DEF RecordsInv, Faithful

Records == (\A i \in 1..Len(Log) : Faithful(Log[i])) /\ Lone

\* a frame becomes the next record, unless it holds the last one's action
LEMMA RecordsAppended ==
    ASSUME TypeOK, RecordsInv, NEW actions \in Actions, NEW distance \in Distances,
           NEW rewards \in Reward, NEW done \in BOOLEAN,
           Pull(actions, distance, rewards),
           done => pc' = "terminated",
           ~done => rewards = FrameRewards(distance),
           Log' = Append(Log, Transition(actions, rewards, done)),
           scenario.coalesce /\ Log # <<>> => done \/ Log[Len(Log)].actions # actions
    PROVE  Records'
<1> SUFFICES ASSUME NEW line, line = Transition(actions, rewards, done)
             PROVE  Records'
  OBVIOUS
<1>1. line \in Line /\ Log \in Seq(Line) /\ Len(Log) \in Nat
  BY TransitionType, LogShape
<1>2. line.actions = actions /\ line.done = done
  BY DEF Transition
<1>3. Faithful(line)'
  BY NewFaithful DEF RecordsInv
<1>4. pc = "loop" /\ scenario' = scenario
  BY PulledFrame
<1>5. /\ Log' = Append(Log, line) /\ Len(Log') = Len(Log) + 1
      /\ Log'[Len(Log) + 1] = line
      /\ \A i \in 1..Len(Log) : Log'[i] = Log[i]
  <2>1. /\ Len(Append(Log, line)) = Len(Log) + 1
        /\ Append(Log, line)[Len(Log) + 1] = line
        /\ \A i \in 1..Len(Log) : Append(Log, line)[i] = Log[i]
    BY <1>1, AppendProperties
  <2> QED
    BY <2>1
<1>6. ASSUME NEW i \in 1..Len(Log')
      PROVE  Faithful(Log[i])'
  <2>1. CASE i = Len(Log) + 1
    BY <1>3, <1>5, <2>1
  <2>2. CASE i # Len(Log) + 1
    <3>1. i \in 1..Len(Log)
      BY <1>1, <1>5, <2>2
    <3> SUFFICES ASSUME NEW old, old = Log[i]
                 PROVE  Faithful(Log[i])'
      OBVIOUS
    <3>2. old \in Line /\ Faithful(old) /\ Log'[i] = old
      BY <1>1, <1>5, <3>1 DEF RecordsInv
    <3>3. Faithful(old)'
      BY <3>2, FaithfulKept
    <3> QED
      BY <3>2, <3>3
  <2> QED
    BY <2>1, <2>2
<1>7. ASSUME NEW i \in 1..Len(Log') - 1
      PROVE  /\ ~Log'[i].done
             /\ scenario'.coalesce /\ Log'[i].actions = Log'[i + 1].actions => Log'[i + 1].done
  <2>1. i \in 1..Len(Log) /\ Log'[i] = Log[i] /\ ~Log[i].done
    BY <1>1, <1>4, <1>5, NoneDone
  <2>2. CASE i = Len(Log)
    <3>1. Log'[i + 1] = line /\ Log # <<>>
      BY <1>1, <1>5, <2>2
    <3> QED
      BY <1>2, <1>4, <2>1, <2>2, <3>1
  <2>3. CASE i # Len(Log)
    <3>1. i \in 1..Len(Log) - 1 /\ Log'[i + 1] = Log[i + 1]
      BY <1>1, <1>5, <2>1, <2>3
    <3> QED
      BY <1>4, <2>1, <3>1 DEF RecordsInv, Lone
  <2> QED
    BY <2>2, <2>3
<1> QED
  BY <1>6, <1>7 DEF Records, Lone

\* a frame that holds the action makes the last record longer
LEMMA RecordsLengthened ==
    ASSUME TypeOK, Contiguous, RecordsInv,
           NEW actions \in Actions, NEW distance \in Distances,
           HoldDecision(actions, distance)
    PROVE  Records'
<1> SUFFICES ASSUME NEW old, old = pending[1],
                    NEW line,
                    line = [old EXCEPT !.next_state = Len(frames) + 1,
                                       !.rewards = MergeRewards(@, FrameRewards(distance))]
             PROVE  Records'
  OBVIOUS
<1>1. /\ Pull(actions, distance, FrameRewards(distance)) /\ pc' = pc
      /\ scenario.coalesce /\ pending # <<>> /\ actions = held
  BY DEF HoldDecision
<1>2. FrameRewards(distance) \in Reward
  BY FrameRewardsType
<1>3. pc = "loop" /\ scenario' = scenario
  BY <1>1, <1>2, PulledFrame
<1>4. /\ old \in Line /\ Log \in Seq(Line) /\ Len(Log) \in 1..Len(Log)
      /\ Log[Len(Log)] = old /\ Log' = [Log EXCEPT ![Len(Log)] = line]
  <2>1. /\ Log # <<>> /\ Log[Len(Log)] = old
        /\ Log' = [Log EXCEPT ![Len(Log)] = line]
    BY HoldLengthens
  <2>2. Log \in Seq(Line) /\ old \in Line
    BY <1>1, LogShape
  <2> QED
    BY <2>1, <2>2
<1>5. old.next_state = Len(frames)
  BY <1>3, <1>4 DEF Contiguous, Reach
<1>6. /\ Faithful(old) /\ ~old.done /\ old.actions = actions
  BY <1>1, <1>3, <1>4, NoneDone DEF RecordsInv, Open
<1>7. Faithful(line)' /\ line.actions = old.actions /\ line.done = old.done
  <2>1. Open
    BY DEF RecordsInv
  <2>2. Faithful(line)'
    BY <1>1, <1>3, <1>4, <1>5, <1>6, <2>1, MergedFaithful
  <2> QED
    BY <1>4, <2>2 DEF Line
<1>8. /\ Len(Log') = Len(Log) /\ DOMAIN Log = 1..Len(Log)
      /\ \A i \in 1..Len(Log) : Log'[i] = IF i = Len(Log) THEN line ELSE Log[i]
  BY <1>4
<1>9. ASSUME NEW i \in 1..Len(Log')
      PROVE  Faithful(Log[i])'
  <2>1. CASE i = Len(Log)
    BY <1>4, <1>7, <1>8, <2>1
  <2>2. CASE i # Len(Log)
    <3> SUFFICES ASSUME NEW other, other = Log[i]
                 PROVE  Faithful(Log[i])'
      OBVIOUS
    <3>1. other \in Line /\ Faithful(other) /\ Log'[i] = other
      BY <1>4, <1>8, <2>2 DEF RecordsInv
    <3>2. Faithful(other)'
      BY <1>1, <1>2, <3>1, FaithfulKept
    <3> QED
      BY <3>1, <3>2
  <2> QED
    BY <2>1, <2>2
<1>10. ASSUME NEW i \in 1..Len(Log') - 1
       PROVE  /\ ~Log'[i].done
              /\ scenario'.coalesce /\ Log'[i].actions = Log'[i + 1].actions => Log'[i + 1].done
  <2>1. i \in 1..Len(Log) - 1 /\ i # Len(Log) /\ i \in 1..Len(Log) /\ i + 1 \in 1..Len(Log)
    BY <1>4, <1>8
  <2>2. /\ Log'[i] = Log[i]
        /\ Log'[i + 1].actions = Log[i + 1].actions /\ Log'[i + 1].done = Log[i + 1].done
    BY <1>4, <1>7, <1>8, <2>1
  <2> QED
    BY <1>3, <2>1, <2>2 DEF RecordsInv, Lone
<1> QED
  BY <1>9, <1>10 DEF Records, Lone

\* a step that pulls nothing keeps the records, all of them or all but the last
LEMMA RecordsKept ==
    ASSUME TypeOK, RecordsInv, UNCHANGED <<scenario, frames>>, pc = "loop" \/ pc' = pc,
           \/ Log' = Log
           \/ Log # <<>> /\ Log' = SubSeq(Log, 1, Len(Log) - 1)
    PROVE  Records'
<1>1. Log \in Seq(Line) /\ Len(Log) \in Nat
  BY LogShape
<1>2. /\ Len(Log') \in Nat /\ Len(Log') <= Len(Log)
      /\ \A i \in 1..Len(Log') : Log'[i] = Log[i]
  <2>1. CASE Log' = Log
    BY <1>1, <2>1
  <2>2. CASE Log # <<>> /\ Log' = SubSeq(Log, 1, Len(Log) - 1)
    BY <1>1, <2>2
  <2> QED
    BY <2>1, <2>2
<1>3. ASSUME NEW i \in 1..Len(Log')
      PROVE  Faithful(Log[i])'
  <2> SUFFICES ASSUME NEW old, old = Log[i]
               PROVE  Faithful(Log[i])'
    OBVIOUS
  <2>1. old \in Line /\ Faithful(old) /\ Log'[i] = old
    <3>1. i \in 1..Len(Log)
      BY <1>1, <1>2
    <3> QED
      BY <1>1, <1>2, <3>1 DEF RecordsInv
  <2>2. Faithful(old)'
    BY <2>1, FaithfulStays
  <2> QED
    BY <2>1, <2>2
<1>4. ASSUME NEW i \in 1..Len(Log') - 1
      PROVE  /\ ~Log'[i].done
             /\ scenario'.coalesce /\ Log'[i].actions = Log'[i + 1].actions => Log'[i + 1].done
  <2>1. i \in 1..Len(Log) - 1 /\ i \in 1..Len(Log') /\ i + 1 \in 1..Len(Log')
    BY <1>1, <1>2
  <2> QED
    BY <1>2, <2>1 DEF RecordsInv, Lone
<1> QED
  BY <1>3, <1>4 DEF Records, Lone

\* an exit by an exception, a timeout or a signal keeps the invariant
LEMMA RecordsLossy ==
    ASSUME TypeOK, RecordsInv, UNCHANGED <<scenario, frames>>,
           pc = "loop", pc' \in {"failed", "exited"},
           file' \in {file, file \o pending}, pending' = <<>>
    PROVE  RecordsInv'
<1>1. Records'
  BY LossyBreaks, RecordsKept
<1>2. Open'
  BY DEF Open
<1> QED
  BY <1>1, <1>2 DEF Records, RecordsInv

(***************************************************************************)
(* Every step keeps RecordsInv.                                            *)
(***************************************************************************)
LEMMA RecordsStep ==
    ASSUME TypeOK, Contiguous, RecordsInv, [Next]_vars
    PROVE  RecordsInv'
<1> SUFFICES Records' /\ Open'
  BY DEF Records, RecordsInv
<1>1. ASSUME NEW actions \in Actions, NEW distance \in Distances,
             RecordFrame(actions, distance)
      PROVE  Records' /\ Open'
  <2>1. /\ Pull(actions, distance, FrameRewards(distance))
        /\ ~scenario.coalesce /\ UNCHANGED <<pc, pending, held>>
    BY <1>1 DEF RecordFrame
  <2>2. FrameRewards(distance) \in Reward
    BY FrameRewardsType
  <2>3. Log' = Append(Log, Transition(actions, FrameRewards(distance), FALSE))
    BY <1>1, RecordGrows
  <2>4. Records'
    BY <2>1, <2>2, <2>3, RecordsAppended
  <2>5. /\ frames' # <<>> /\ frames'[Len(frames')].distance = distance
        /\ prev' = <<distance>> /\ pc = "loop" /\ scenario' = scenario
    BY <2>1, <2>2, PulledFrame
  <2>6. pending = <<>>
    BY <2>1 DEF TypeOK
  <2> QED
    BY <2>1, <2>4, <2>5, <2>6 DEF Open
<1>2. ASSUME NEW actions \in Actions, NEW distance \in Distances,
             HoldDecision(actions, distance)
      PROVE  Records' /\ Open'
  <2>1. /\ Pull(actions, distance, FrameRewards(distance))
        /\ pending # <<>> /\ actions = held /\ UNCHANGED <<pc, held>>
        /\ pending' = <<[pending[1] EXCEPT
                            !.next_state = Len(frames) + 1,
                            !.rewards = MergeRewards(@, FrameRewards(distance))]>>
    BY <1>2 DEF HoldDecision
  <2>2. FrameRewards(distance) \in Reward
    BY FrameRewardsType
  <2>3. Records'
    BY <1>2, RecordsLengthened
  <2>4. /\ frames' # <<>> /\ frames'[Len(frames')].distance = distance
        /\ prev' = <<distance>> /\ pc = "loop" /\ scenario' = scenario
    BY <2>1, <2>2, PulledFrame
  <2>5. pending[1] \in Line /\ pending[1].actions = held
    BY <2>1, <2>4, LogShape DEF RecordsInv, Open
  <2>6. pending' # <<>> /\ pending'[1].actions = held'
    BY <2>1, <2>5 DEF Line
  <2> QED
    BY <2>1, <2>3, <2>4, <2>6 DEF Open
<1>3. ASSUME NEW actions \in Actions, NEW distance \in Distances,
             NewDecision(actions, distance)
      PROVE  Records' /\ Open'
  <2>1. /\ Pull(actions, distance, FrameRewards(distance))
        /\ pending = <<>> \/ actions # held
        /\ scenario.coalesce /\ pc' = pc /\ held' = actions
        /\ pending' = <<Transition(actions, FrameRewards(distance), FALSE)>>
    BY <1>3 DEF NewDecision
  <2>2. FrameRewards(distance) \in Reward
    BY FrameRewardsType
  <2>3. Log' = Append(Log, Transition(actions, FrameRewards(distance), FALSE))
    BY <1>3, NewGrows
  <2>4. /\ frames' # <<>> /\ frames'[Len(frames')].distance = distance
        /\ prev' = <<distance>> /\ pc = "loop" /\ scenario' = scenario
    BY <2>1, <2>2, PulledFrame
  <2>5. Log # <<>> => Log[Len(Log)].actions # actions
    <3>1. CASE pending = <<>>
      BY <2>1, <2>4, <3>1 DEF RecordsInv, Open
    <3>2. CASE pending # <<>>
      <4>1. pending[1].actions = held
        BY <2>4, <3>2 DEF RecordsInv, Open
      <4>2. Log = Append(file, pending[1]) /\ pending[1] \in Line /\ file \in Seq(Line)
        BY <3>2, LogShape DEF TypeOK
      <4>3. Log[Len(Log)] = pending[1]
        BY <4>2
      <4> QED
        BY <2>1, <3>2, <4>1, <4>3
    <3> QED
      BY <3>1, <3>2
  <2>6. Records'
    BY <2>1, <2>2, <2>3, <2>5, RecordsAppended
  <2>7. pending' # <<>> /\ pending'[1].actions = held'
    BY <2>1 DEF Transition
  <2> QED
    BY <2>1, <2>4, <2>6, <2>7 DEF Open
<1>4. ASSUME NEW actions \in Actions, NEW distance \in Distances,
             NEW outcome \in Outcomes, TerminalFrame(actions, distance, outcome)
      PROVE  Records' /\ Open'
  <2>1. /\ Pull(actions, distance, outcome) /\ pc' = "terminated" /\ pending' = <<>>
    BY <1>4 DEF TerminalFrame
  <2>2. outcome \in Reward
    BY LoopAssumption
  <2>3. Log' = Append(Log, Transition(actions, outcome, TRUE))
    BY <1>4, TerminalGrows
  <2>4. Records'
    BY <2>1, <2>2, <2>3, RecordsAppended
  <2>5. file' # <<>> /\ file'[Len(file')].done
    <3>1. Transition(actions, outcome, TRUE) \in Line /\ Log \in Seq(Line)
      BY <2>2, TransitionType, LogShape
    <3>2. Transition(actions, outcome, TRUE).done
      BY DEF Transition
    <3>3. file' = Append(Log, Transition(actions, outcome, TRUE))
      <4>1. file' = file \o pending \o <<Transition(actions, outcome, TRUE)>>
        BY <1>4 DEF TerminalFrame, FlushThenPut
      <4>2. Log \o <<Transition(actions, outcome, TRUE)>>
              = Append(Log, Transition(actions, outcome, TRUE))
        BY <3>1, AppendIsConcat
      <4> QED
        BY <4>1, <4>2 DEF Log
    <3>4. \A s \in Seq(Line), line \in Line :
             Append(s, line) # <<>> /\ Append(s, line)[Len(Append(s, line))] = line
      OBVIOUS
    <3> QED
      BY <3>1, <3>2, <3>3, <3>4
  <2> QED
    BY <2>1, <2>4, <2>5 DEF Open
<1>5. CASE FrameTimeout
  BY <1>5, RecordsLossy DEF FrameTimeout, RecordsInv, Records
<1>6. CASE FrameError
  BY <1>6, RecordsLossy DEF FrameError, RecordsInv, Records
<1>7. CASE LeaveOnShutdown
  <2>1. pc = "loop" /\ pc' = "interrupted" /\ UNCHANGED <<scenario, Log, frames>>
    BY <1>7, LeaveFinishes DEF LeaveOnShutdown, Finishes
  <2> QED
    BY <2>1, RecordsKept DEF Open
<1>8. CASE CloseCalled
  <2>1. UNCHANGED <<scenario, pc, prev, pending, held, file, frames, Log>>
    BY <1>8 DEF CloseCalled, Log
  <2> QED
    BY <2>1, RecordsKept DEF RecordsInv, Open
<1>9. CASE Interrupt
  BY <1>9, RecordsLossy DEF Interrupt, RecordsInv, Records
<1>10. CASE UNCHANGED vars
  <2>1. UNCHANGED <<scenario, pc, prev, pending, held, file, frames, Log>>
    BY <1>10 DEF vars, Log
  <2> QED
    BY <2>1, RecordsKept DEF RecordsInv, Open
<1> QED
  BY <1>1, <1>2, <1>3, <1>4, <1>5, <1>6, <1>7, <1>8, <1>9, <1>10 DEF Next, NextFrame

\* RecordsInv holds of every state of the loop
LEMMA AlwaysRecords == Spec => []RecordsInv
<1>1. Init => RecordsInv
  <2> SUFFICES ASSUME Init
               PROVE  RecordsInv
    OBVIOUS
  <2>1. Log = <<>>
    BY TypeInit, LogShape DEF Init
  <2> QED
    BY <2>1 DEF Init, RecordsInv, Lone, Open
<1>2. TypeOK /\ Contiguous /\ RecordsInv /\ [Next]_vars => RecordsInv'
  BY RecordsStep
<1> QED
  BY <1>1, <1>2, TypeCorrect, AlwaysContiguous, PTL DEF Spec

-----------------------------------------------------------------------------
(***************************************************************************)
(* One record per decision, for every episode: a record's frames all held  *)
(* its action, and coalescing leaves no two records in a row with the same *)
(* one but for a terminal frame (runner.py:263-302).                       *)
(***************************************************************************)
THEOREM DecisionsRecorded == Spec => []OneDecisionPerRecord
<1>1. TypeOK /\ RecordsInv => OneDecisionPerRecord
  <2> SUFFICES ASSUME TypeOK, RecordsInv
               PROVE  OneDecisionPerRecord
    OBVIOUS
  <2>1. DOMAIN frames = 1..Len(frames) /\ Len(frames) \in Nat /\ Log \in Seq(Line)
    BY LogShape DEF TypeOK
  <2>2. ASSUME NEW i \in 1..Len(Log)
        PROVE  /\ \A k \in Log[i].state..Log[i].next_state :
                     k \in DOMAIN frames /\ frames[k].actions = Log[i].actions
               /\ ~scenario.coalesce => Log[i].state = Log[i].next_state
    <3>1. Log[i] \in Line /\ Faithful(Log[i])
      BY <2>1 DEF RecordsInv
    <3> QED
      BY <2>1, <3>1 DEF Faithful, Line
  <2> QED
    BY <2>2 DEF OneDecisionPerRecord, RecordsInv, Lone
<1> QED
  BY <1>1, TypeCorrect, AlwaysRecords, PTL

(***************************************************************************)
(* The shaping telescopes over any number of merged frames: what a record  *)
(* gives the striker is the distance closed from the frame before it to    *)
(* its last, for any distances (runner.py:236, 276).                       *)
(***************************************************************************)
THEOREM ShapingTelescopes == Spec => []Telescopes
<1>1. RecordsInv => Telescopes
  BY DEF RecordsInv, Faithful, Closed, Telescopes
<1> QED
  BY <1>1, AlwaysRecords, PTL

(***************************************************************************)
(* A terminal frame is the last line of its episode, alone, with the       *)
(* reward the assessment gave, whatever was pending (runner.py:280-288).   *)
(***************************************************************************)
THEOREM OutcomesStandAlone == Spec => []OutcomeStandsAlone
<1>1. TypeOK /\ RecordsInv => OutcomeStandsAlone
  <2> SUFFICES ASSUME TypeOK, RecordsInv
               PROVE  OutcomeStandsAlone
    OBVIOUS
  <2>1. ASSUME NEW i \in 1..Len(Log), Log[i].done
        PROVE  i = Len(Log)
    <3>1. Len(Log) \in Nat
      BY LogShape
    <3>2. i \notin 1..Len(Log) - 1
      BY <2>1 DEF RecordsInv, Lone
    <3> QED
      BY <3>1, <3>2
  <2> QED
    BY <2>1 DEF RecordsInv, Faithful, Open, OutcomeStandsAlone
<1> QED
  BY <1>1, TypeCorrect, AlwaysRecords, PTL
=============================================================================
