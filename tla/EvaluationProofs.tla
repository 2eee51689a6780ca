---------------------------- MODULE EvaluationProofs ----------------------------
(***************************************************************************)
(* What ends an episode, for all lists of assessments, waits, limits and   *)
(* windows: the first one listed that is true of the frame does, with its  *)
(* own reward; TimeLimit counts from the episode's own first frame, and    *)
(* BallStopped's window holds the episode's own frames.                    *)
(***************************************************************************)
EXTENDS Evaluation, SequenceTheorems, WellFoundedInduction, TLAPS

\* a moment shows the ball still, or not
Moments == BOOLEAN

\* between episodes nothing is left of the loop, nor of a file that is closed
Rest ==
    /\ phase = "idle" => /\ pending = <<>> /\ lastFrame = 0 /\ sinceFirst = None
                         /\ frames = 0 /\ seen = <<>>
    /\ ~open => phase = "idle" /\ history = <<>>

\* TimeLimit's timer is as old as the episode's first frame
Timed ==
    phase = "running" => IF Loads("TimeLimit") THEN timer = sinceFirst ELSE timer = None

\* the window holds no more than the episode's own frames
OwnRecords ==
    phase = "running" => Len(history) + Len(pending) <= frames \/ frames = wait

\* how far the window is behind what was seen
Lag == IF paired THEN 1 ELSE 0

\* from its end, the window holds what was seen, a lag behind
Follows(window, moments, lag) ==
    \A k \in Nat : k + lag <= wait /\ k < Len(window) =>
        /\ k + lag < Len(moments)
        /\ window[Len(window) - k] = moments[Len(moments) - (k + lag)]

\* recorded as they come, the frames of the window are the last ones seen
Aligned ==
    phase = "running" /\ ~coalesce =>
        /\ Follows(history, seen, Lag)
        /\ Len(seen) <= Len(history) + Lag \/ Len(history) = MaxHistory
        /\ frames = 0 => seen = <<>> /\ history = <<>>
        /\ frames # 0 => seen # <<>> /\ seen[Len(seen)] = Still(ball)

-----------------------------------------------------------------------------
(***************************************************************************)
(* Lists and windows.                                                      *)
(***************************************************************************)
\* there is a first place
LEMMA FirstPlace ==
    ASSUME NEW places \in SUBSET Nat, places # {}
    PROVE  Min(places) \in places /\ \A i \in places : Min(places) <= i
<1>1. \E x \in places : \A y \in places : ~(<<y, x>> \in OpToRel(<, Nat))
  BY NatLessThanWellFounded, WFMin
<1>2. PICK x \in places : \A y \in places : ~(<<y, x>> \in OpToRel(<, Nat))
  BY <1>1
<1>3. \A y \in places : ~(y < x)
  <2> SUFFICES ASSUME NEW y \in places, y < x
               PROVE  FALSE
    OBVIOUS
  <2>1. <<y, x>> \in OpToRel(<, Nat)
    BY DEF OpToRel
  <2> QED
    BY <1>2, <2>1
<1>4. \A y \in places : x <= y
  BY <1>3
<1>5. Min(places) = CHOOSE m \in places : \A y \in places : m <= y
  BY DEF Min
<1> QED
  BY <1>4, <1>5

\* the winner is triggered, and nobody listed before it is
LEMMA WinnerIsFirst ==
    ASSUME NEW b, loaded \in Seq(Registered)
    PROVE  \/ /\ Winner(b) = 0
              /\ \A i \in 1 .. Len(loaded) : ~Triggered(loaded[i], b)
           \/ /\ Winner(b) \in 1 .. Len(loaded) /\ Triggered(loaded[Winner(b)], b)
              /\ \A i \in 1 .. Winner(b) - 1 :
                    i \in 1 .. Len(loaded) /\ ~Triggered(loaded[i], b)
<1> DEFINE places == {i \in 1 .. Len(loaded) : Triggered(loaded[i], b)}
<1>1. Winner(b) = IF places # {} THEN Min(places) ELSE 0
  BY DEF Winner, SelectInSeq
<1>2. CASE places = {}
  BY <1>1, <1>2
<1>3. CASE places # {}
  <2>1. places \in SUBSET Nat
    OBVIOUS
  <2> HIDE DEF places
  <2>2. Winner(b) \in places /\ \A i \in places : Winner(b) <= i
    BY <1>1, <1>3, <2>1, FirstPlace
  <2>3. Winner(b) \in 1 .. Len(loaded) /\ Triggered(loaded[Winner(b)], b)
    BY <2>2 DEF places
  <2>4. \A i \in 1 .. Winner(b) - 1 : i \in 1 .. Len(loaded) /\ ~(Winner(b) <= i)
    BY <2>3
  <2>5. \A i \in 1 .. Winner(b) - 1 : i \notin places
    BY <2>2, <2>4
  <2> QED
    BY <2>3, <2>4, <2>5 DEF places
<1> QED
  BY <1>2, <1>3

\* the place a name is first listed at
LEMMA NamedFirst ==
    ASSUME NEW list \in Seq(Registered), NEW w \in 1 .. Len(list),
           NEW places, places = {i \in 1 .. Len(list) : list[i] = list[w]}
    PROVE  places # {} /\ Min(places) \in 1 .. w
<1>1. w \in places /\ places \in SUBSET Nat /\ places \subseteq 1 .. Len(list)
  OBVIOUS
<1>2. Min(places) \in places /\ Min(places) <= w
  BY <1>1, FirstPlace
<1> QED
  BY <1>1, <1>2

\* the last of a sequence
LEMMA LastOfFields ==
    ASSUME NEW S, NEW seq \in Seq(S), NEW n \in Nat
    PROVE  /\ LastOf(seq, n) \in Seq(S) /\ Len(LastOf(seq, n)) = Least(n, Len(seq))
           /\ Least(n, Len(seq)) \in 0 .. Len(seq)
           /\ \A i \in 1 .. Least(n, Len(seq)) :
                 /\ Len(seq) - Least(n, Len(seq)) + i \in 1 .. Len(seq)
                 /\ LastOf(seq, n)[i] = seq[Len(seq) - Least(n, Len(seq)) + i]
<1> DEFINE m == Least(n, Len(seq))
           start == Len(seq) - m + 1
           tail == SubSeq(seq, start, Len(seq))
<1>1. m \in 0 .. Len(seq) /\ Len(seq) \in Nat
  BY DEF Least
<1>2. tail = LastOf(seq, n)
  BY DEF LastOf
<1>3. start \in 1 .. Len(seq) + 1 /\ Len(seq) - start + 1 = m
  <2> HIDE DEF m
  <2> QED
    BY <1>1
<1>4. /\ tail \in Seq(S) /\ Len(tail) = m
      /\ \A i \in 1 .. m : tail[i] = seq[start + i - 1]
  <2>1. start \in Int /\ Len(seq) \in Int /\ \A i \in start .. Len(seq) : seq[i] \in S
    <3>1. \A i \in start .. Len(seq) : i \in 1 .. Len(seq)
      BY <1>1, <1>3
    <3> HIDE DEF start
    <3> QED
      BY <1>1, <1>3, <3>1
  <2> HIDE DEF m, start
  <2>2. (IF start <= Len(seq) THEN Len(seq) - start + 1 ELSE 0) = m
    BY <1>1, <1>3
  <2>3. /\ tail \in Seq(S)
        /\ Len(tail) = IF start <= Len(seq) THEN Len(seq) - start + 1 ELSE 0
        /\ \A i \in 1 .. Len(seq) - start + 1 : tail[i] = seq[start + i - 1]
    BY <2>1, SubSeqProperties
  <2> QED
    BY <1>3, <2>2, <2>3
<1>5. \A i \in 1 .. m : start + i - 1 = Len(seq) - m + i /\ Len(seq) - m + i \in 1 .. Len(seq)
  <2> HIDE DEF m
  <2> QED
    BY <1>1
<1> HIDE DEF tail, start
<1> QED
  BY <1>1, <1>2, <1>4, <1>5

\* one more at the end of a window, seen from its end
Grown(window, seq, value, n) ==
    /\ Len(window) = Least(n, Len(seq) + 1)
    /\ n > 0 => Len(window) > 0 /\ window[Len(window)] = value
    /\ \A k \in Nat : k + 1 < Len(window) =>
          k < Len(seq) /\ window[Len(window) - (k + 1)] = seq[Len(seq) - k]

LEMMA WindowGrows ==
    ASSUME NEW S, NEW seq \in Seq(S), NEW value \in S, NEW n \in Nat
    PROVE  /\ LastOf(Append(seq, value), n) \in Seq(S)
           /\ Grown(LastOf(Append(seq, value), n), seq, value, n)
<1> DEFINE longer == Append(seq, value)
           m == Least(n, Len(seq) + 1)
           window == LastOf(longer, n)
<1>1. /\ longer \in Seq(S) /\ Len(longer) = Len(seq) + 1 /\ longer[Len(seq) + 1] = value
      /\ \A i \in 1 .. Len(seq) : longer[i] = seq[i]
      /\ Len(seq) \in Nat
  BY AppendProperties
<1> HIDE DEF longer
<1>2. /\ window \in Seq(S) /\ Len(window) = m /\ m \in 0 .. Len(seq) + 1
      /\ \A i \in 1 .. m : window[i] = longer[Len(seq) + 1 - m + i]
  <2>1. window = LastOf(longer, n) /\ m = Least(n, Len(longer))
    BY <1>1
  <2> HIDE DEF m
  <2>2. /\ LastOf(longer, n) \in Seq(S) /\ Len(LastOf(longer, n)) = m
        /\ m \in 0 .. Len(longer)
        /\ \A i \in 1 .. m : LastOf(longer, n)[i] = longer[Len(longer) - m + i]
    BY <1>1, <2>1, LastOfFields
  <2> HIDE DEF window
  <2>3. /\ window \in Seq(S) /\ Len(window) = m /\ m \in 0 .. Len(longer)
        /\ \A i \in 1 .. m : window[i] = longer[Len(longer) - m + i]
    BY <2>1, <2>2
  <2>4. Len(longer) = Len(seq) + 1
    BY <1>1
  <2> QED
    BY <2>3, <2>4
<1>3. n > 0 => m > 0
  BY <1>1 DEF Least
<1> HIDE DEF m, window
<1>4. ASSUME n > 0
      PROVE  Len(window) > 0 /\ window[Len(window)] = value
  <2>1. m \in 1 .. m /\ Len(seq) + 1 - m + m = Len(seq) + 1
    BY <1>1, <1>2, <1>3, <1>4
  <2> QED
    BY <1>1, <1>2, <2>1
<1>5. ASSUME NEW k \in Nat, k + 1 < Len(window)
      PROVE  k < Len(seq) /\ window[Len(window) - (k + 1)] = seq[Len(seq) - k]
  <2>1. /\ k < Len(seq) /\ m - (k + 1) \in 1 .. m
        /\ Len(seq) + 1 - m + (m - (k + 1)) = Len(seq) - k /\ Len(seq) - k \in 1 .. Len(seq)
    BY <1>1, <1>2, <1>5
  <2>2. window[m - (k + 1)] = longer[Len(seq) - k]
    BY <1>2, <2>1
  <2> QED
    BY <1>1, <1>2, <2>1, <2>2
<1> QED
  BY <1>2, <1>4, <1>5 DEF m, window, longer, Grown

-----------------------------------------------------------------------------
(***************************************************************************)
(* A frame, and the variables' types.                                      *)
(***************************************************************************)
\* a frame shows a ball or none
LEMMA ReceivedType ==
    ASSUME NEW b \in Received
    PROVE  b \in BallState /\ Still(b) \in Moments
<1>1. NoBall \in BallState
  BY DEF NoBall, BallState
<1>2. ASSUME NEW balls \in Tracked
      PROVE  ExtractBall(balls) \in BallState
  <2>1. balls \in Seq(TrackedBall)
    BY EvaluationAssumption
  <2>2. CASE balls = <<>>
    BY <1>1, <2>2 DEF ExtractBall
  <2>3. CASE balls # <<>>
    <3>1. balls[1] \in TrackedBall
      BY <2>1, <2>3
    <3>2. PICK first \in TrackedBall : first = balls[1]
      BY <3>1
    <3>3. first.x \in Int /\ first.y \in Int
      BY DEF TrackedBall
    <3>4. ("fast" \in DOMAIN first /\ first.fast) \in BOOLEAN
      OBVIOUS
    <3>5. ExtractBall(balls) = [seen |-> TRUE, x |-> first.x, y |-> first.y,
                                fast |-> "fast" \in DOMAIN first /\ first.fast]
      BY <2>3, <3>2 DEF ExtractBall
    <3>6. PICK fast \in BOOLEAN : fast = ("fast" \in DOMAIN first /\ first.fast)
      BY <3>4
    <3> QED
      BY <3>3, <3>5, <3>6 DEF BallState
  <2> QED
    BY <2>2, <2>3
<1>3. b \in BallState
  BY <1>2, EvaluationAssumption DEF Received
<1>4. Still(b) \in Moments
  BY DEF Still, Moments
<1> QED
  BY <1>3, <1>4

\* a record more in the window
LEMMA PutFields ==
    ASSUME NEW window \in Seq(Moments), NEW value \in Moments
    PROVE  /\ Put(window, value) \in Seq(Moments)
           /\ Grown(Put(window, value), window, value, MaxHistory)
           /\ Len(Put(window, value)) <= MaxHistory
           /\ Len(Put(window, value)) <= Len(window) + 1
<1>1. MaxHistory \in Nat /\ Len(window) \in Nat
  BY EvaluationAssumption
<1>2. /\ Put(window, value) \in Seq(Moments)
      /\ Grown(Put(window, value), window, value, MaxHistory)
  BY <1>1, WindowGrows DEF Put
<1>3. /\ Least(MaxHistory, Len(window) + 1) <= MaxHistory
      /\ Least(MaxHistory, Len(window) + 1) <= Len(window) + 1
  BY <1>1 DEF Least
<1> QED
  BY <1>2, <1>3 DEF Grown

\* the types of the windows
LEMMA WindowTypes ==
    ASSUME TypeOK
    PROVE  /\ history \in Seq(Moments) /\ pending \in Seq(Moments) /\ seen \in Seq(Moments)
           /\ Len(history) \in Nat /\ Len(pending) \in Nat /\ Len(pending) <= 1 /\ Len(seen) \in Nat
           /\ Len(history) <= MaxHistory /\ MaxHistory \in Nat
           /\ pending # <<>> <=> Len(pending) = 1
           /\ pending # <<>> => pending[1] \in Moments
           /\ wait \in Nat /\ wait > 0 /\ frames \in 0 .. wait
           /\ loaded \in Seq(Registered)
<1>1. history \in Seq(Moments) /\ pending \in Seq(Moments) /\ seen \in Seq(Moments)
  BY DEF TypeOK, Moments
<1>2. Len(history) <= MaxHistory /\ Len(pending) <= 1 /\ frames \in 0 .. wait
  BY DEF TypeOK
<1>3. wait \in Nat /\ wait > 0 /\ loaded \in Seq(Registered) /\ MaxHistory \in Nat
  BY EvaluationAssumption DEF TypeOK
<1>4. Len(history) \in Nat /\ Len(pending) \in Nat /\ Len(seen) \in Nat
  BY <1>1
<1>5. Len(pending) = 0 \/ Len(pending) = 1
  <2>1. \A n \in Nat : n <= 1 => n = 0 \/ n = 1
    OBVIOUS
  <2> QED
    BY <1>2, <1>4, <2>1
<1>6. pending # <<>> <=> Len(pending) = 1
  BY <1>1, <1>5
<1>7. pending # <<>> => pending[1] \in Moments
  BY <1>1, <1>6
<1> QED
  BY <1>1, <1>2, <1>3, <1>4, <1>5, <1>6, <1>7

\* the pending record goes into the window
LEMMA FlushedFields ==
    ASSUME TypeOK, NEW flushed, flushed = Flushed
    PROVE  /\ flushed \in Seq(Moments) /\ Len(flushed) <= MaxHistory
           /\ Len(flushed) <= Len(history) + Len(pending)
           /\ pending = <<>> => flushed = history
<1>1. /\ history \in Seq(Moments) /\ Len(history) \in Nat /\ Len(pending) \in Nat /\ Len(pending) <= 1
      /\ Len(history) <= MaxHistory
      /\ pending # <<>> => Len(pending) = 1 /\ pending[1] \in Moments
      /\ pending = <<>> => Len(pending) = 0
  BY WindowTypes
<1>2. CASE pending = <<>>
  <2>1. flushed = history
    BY <1>2 DEF Flushed
  <2> QED
    BY <1>1, <1>2, <2>1
<1>3. CASE pending # <<>>
  <2>1. flushed = Put(history, pending[1])
    BY <1>3 DEF Flushed
  <2>2. /\ flushed \in Seq(Moments) /\ Len(flushed) <= MaxHistory
        /\ Len(flushed) <= Len(history) + 1
    BY <1>1, <1>3, <2>1, PutFields
  <2> QED
    BY <1>1, <1>3, <2>2
<1> QED
  BY <1>2, <1>3

\* the timer is asked, or not
LEMMA TimerValues ==
    ASSUME NEW b
    PROVE  TimerAsked(b) \in {0, timer}
  BY DEF TimerAsked

\* what the loop makes of a frame before it knows whether the episode ends
LEMMA EvaluatedFields ==
    ASSUME TypeOK, NEW state \in Received, NEW next \in Received, Evaluated(state, next),
           NEW b, b = Judged(state, next)
    PROVE  /\ b \in BallState /\ Still(b) \in Moments /\ Still(state) \in Moments
           /\ phase = "running" /\ ball' = b /\ lastFrame' = 0
           /\ timer' = TimerAsked(b)
           /\ sinceFirst' = (IF sinceFirst = None THEN 0 ELSE sinceFirst)
           /\ frames' = Least(frames + 1, wait) /\ frames' \in 1 .. wait
           /\ seen' \in Seq(Moments)
           /\ UNCHANGED <<paired, loaded, wait, coalesce, open>>
<1>1. b = state \/ b = next
  BY DEF Judged
<1>2. b \in BallState /\ Still(b) \in Moments /\ Still(state) \in Moments
  BY <1>1, ReceivedType
<1>3. /\ phase = "running" /\ ball' = b /\ lastFrame' = 0
      /\ timer' = TimerAsked(b)
      /\ sinceFirst' = (IF sinceFirst = None THEN 0 ELSE sinceFirst)
      /\ frames' = Least(frames + 1, wait)
      /\ UNCHANGED <<paired, loaded, wait, coalesce, open>>
  BY DEF Evaluated, batch
<1>4. frames' \in 1 .. wait
  <2>1. wait \in Nat /\ wait > 0 /\ frames \in 0 .. wait
    BY WindowTypes
  <2> QED
    BY <1>3, <2>1 DEF Least
<1>5. seen' \in Seq(Moments)
  <2> DEFINE before == IF paired /\ frames = 0 THEN <<Still(state)>> ELSE seen
  <2>1. before \in Seq(Moments)
    BY <1>2, WindowTypes
  <2>2. seen' = LastOf(Append(before, Still(b)), wait + 1)
    BY DEF Evaluated
  <2> HIDE DEF before
  <2>3. wait + 1 \in Nat
    BY WindowTypes
  <2> QED
    BY <1>2, <2>1, <2>2, <2>3, WindowGrows
<1> QED
  BY <1>2, <1>3, <1>4, <1>5

\* a frame the episode goes on behind
LEMMA RunningFields ==
    ASSUME TypeOK, NEW state \in Received, NEW next \in Received, NEW held,
           RunningFrame(state, next, held)
    PROVE  /\ Evaluated(state, next) /\ Winner(Judged(state, next)) = 0
           /\ UNCHANGED <<phase, verdict>>
           /\ \/ ~coalesce /\ history' = Put(history, Still(state)) /\ pending' = pending
              \/ coalesce /\ history' = history /\ pending' = pending
              \/ coalesce /\ history' = Flushed /\ pending' = <<Still(state)>>
           /\ history' \in Seq(Moments) /\ Len(history') <= MaxHistory
           /\ pending' \in Seq(Moments) /\ Len(pending') <= 1
           /\ pending' # <<>> => coalesce
           /\ Len(history') + Len(pending') <= Len(history) + Len(pending) + 1
<1>1. /\ Evaluated(state, next) /\ Winner(Judged(state, next)) = 0
      /\ UNCHANGED <<phase, verdict>>
      /\ \/ ~coalesce /\ history' = Put(history, Still(state)) /\ pending' = pending
         \/ coalesce /\ history' = history /\ pending' = pending
         \/ coalesce /\ history' = Flushed /\ pending' = <<Still(state)>>
  BY DEF RunningFrame
<1>2. /\ history \in Seq(Moments) /\ pending \in Seq(Moments)
      /\ Len(history) \in Nat /\ Len(pending) \in Nat /\ Len(pending) <= 1 /\ Len(history) <= MaxHistory
  BY WindowTypes
<1>3. pending # <<>> => coalesce
  BY DEF TypeOK
<1>4. Still(state) \in Moments
  BY ReceivedType
<1>5. ASSUME ~coalesce /\ history' = Put(history, Still(state)) /\ pending' = pending
      PROVE  /\ history' \in Seq(Moments) /\ Len(history') <= MaxHistory
             /\ pending' \in Seq(Moments) /\ Len(pending') <= 1
             /\ pending' # <<>> => coalesce
             /\ Len(history') + Len(pending') <= Len(history) + Len(pending) + 1
  <2>1. /\ Put(history, Still(state)) \in Seq(Moments)
        /\ Len(Put(history, Still(state))) <= MaxHistory
        /\ Len(Put(history, Still(state))) <= Len(history) + 1
    BY <1>2, <1>4, PutFields
  <2>2. Len(Put(history, Still(state))) \in Nat
    BY <2>1
  <2>3. Len(history') + Len(pending') <= Len(history) + Len(pending) + 1
    BY <1>2, <1>5, <2>1, <2>2
  <2>4. Len(pending') <= 1
    BY <1>2, <1>5
  <2> QED
    BY <1>2, <1>3, <1>5, <2>1, <2>3, <2>4
<1>6. ASSUME coalesce /\ history' = history /\ pending' = pending
      PROVE  /\ history' \in Seq(Moments) /\ Len(history') <= MaxHistory
             /\ pending' \in Seq(Moments) /\ Len(pending') <= 1
             /\ pending' # <<>> => coalesce
             /\ Len(history') + Len(pending') <= Len(history) + Len(pending) + 1
  <2>1. Len(history') + Len(pending') <= Len(history) + Len(pending) + 1 /\ Len(pending') <= 1
    BY <1>2, <1>6
  <2> QED
    BY <1>2, <1>3, <1>6, <2>1
<1>7. ASSUME coalesce /\ history' = Flushed /\ pending' = <<Still(state)>>
      PROVE  /\ history' \in Seq(Moments) /\ Len(history') <= MaxHistory
             /\ pending' \in Seq(Moments) /\ Len(pending') <= 1
             /\ pending' # <<>> => coalesce
             /\ Len(history') + Len(pending') <= Len(history) + Len(pending) + 1
  <2>1. /\ Flushed \in Seq(Moments) /\ Len(Flushed) <= MaxHistory
        /\ Len(Flushed) <= Len(history) + Len(pending)
    BY FlushedFields
  <2>2. <<Still(state)>> \in Seq(Moments) /\ Len(<<Still(state)>>) = 1
    BY <1>4
  <2>3. Len(Flushed) \in Nat
    BY <2>1
  <2>4. Len(history') + Len(pending') <= Len(history) + Len(pending) + 1
    BY <1>2, <1>7, <2>1, <2>2, <2>3
  <2>5. Len(pending') <= 1
    BY <1>7, <2>2
  <2> QED
    BY <1>7, <2>1, <2>2, <2>4, <2>5
<1> QED
  BY <1>1, <1>5, <1>6, <1>7

\* the frame that ends it
LEMMA TerminalFields ==
    ASSUME TypeOK, NEW state \in Received, NEW next \in Received, NEW robots,
           TerminalFrame(state, next, robots), NEW b, b = Judged(state, next)
    PROVE  /\ Evaluated(state, next)
           /\ Winner(b) \in 1 .. Len(loaded)
           /\ Triggered(loaded[Winner(b)], b)
           /\ \A i \in 1 .. Winner(b) - 1 : i \in 1 .. Len(loaded) /\ ~Triggered(loaded[i], b)
           /\ verdict' = Verdict(loaded[Winner(b)], robots)
           /\ phase' = "stopping" /\ pending' = <<>>
           /\ history' \in Seq(Moments) /\ Len(history') <= MaxHistory
<1>1. /\ Evaluated(state, next) /\ Winner(b) # 0
      /\ verdict' = Verdict(loaded[Winner(b)], robots)
      /\ phase' = "stopping" /\ pending' = <<>> /\ history' = Put(Flushed, Still(state))
  BY DEF TerminalFrame
<1>2. loaded \in Seq(Registered)
  BY WindowTypes
<1>3. /\ Winner(b) \in 1 .. Len(loaded)
      /\ Triggered(loaded[Winner(b)], b)
      /\ \A i \in 1 .. Winner(b) - 1 : i \in 1 .. Len(loaded) /\ ~Triggered(loaded[i], b)
  BY <1>1, <1>2, WinnerIsFirst
<1>4. Flushed \in Seq(Moments) /\ Still(state) \in Moments
  BY FlushedFields, ReceivedType
<1>5. history' \in Seq(Moments) /\ Len(history') <= MaxHistory
  BY <1>1, <1>4, PutFields
<1> QED
  BY <1>1, <1>3, <1>5

\* a step that is no frame
LEMMA OtherSteps ==
    ASSUME TypeOK, Rest, [Next]_vars, ~Frame
    PROVE  \/ /\ phase = "idle" /\ LoadBatch
           \/ /\ phase = "idle" /\ Arm
           \/ phase = "running" /\ FrameTimeout
           \/ phase = "stopping" /\ StopEpisode
           \/ phase = "running" /\ Tick
           \/ UNCHANGED vars
  BY DEF Next, LoadBatch, Arm, FrameTimeout, StopEpisode, Tick

\* what a step that is no frame does to the windows
LEMMA OtherWindows ==
    ASSUME TypeOK, Rest, [Next]_vars, ~Frame
    PROVE  /\ history' \in {history, <<>>} /\ pending' \in {pending, <<>>}
           /\ seen' \in {seen, <<>>} /\ frames' \in {frames, 0}
           /\ wait' = wait \/ frames' = 0
           /\ pending' # <<>> => (coalesce => coalesce')
<1>1. phase = "idle" => pending = <<>> /\ frames = 0
  BY DEF Rest
<1>2. \/ /\ phase = "idle" /\ UNCHANGED locals
         /\ history' \in {history, <<>>}
      \/ /\ UNCHANGED batch /\ history' \in {history, <<>>} /\ pending' \in {pending, <<>>}
         /\ seen' \in {seen, <<>>} /\ frames' \in {frames, 0}
  BY DEF Next, LoadBatch, Arm, FrameTimeout, StopEpisode, LoopLeft, Tick, vars, locals
<1>3. CASE phase = "idle" /\ UNCHANGED locals /\ history' \in {history, <<>>}
  BY <1>1, <1>3 DEF locals
<1>4. CASE /\ UNCHANGED batch /\ history' \in {history, <<>>} /\ pending' \in {pending, <<>>}
           /\ seen' \in {seen, <<>>} /\ frames' \in {frames, 0}
  <2>1. coalesce => coalesce'
    BY <1>4, Zenon DEF batch
  <2> QED
    BY <1>4, <2>1 DEF batch
<1> QED
  BY <1>2, <1>3, <1>4

LEMMA WindowsTyped ==
    ASSUME TypeOK, Rest, [Next]_vars
    PROVE  /\ history' \in Seq(Moments) /\ Len(history') <= MaxHistory
           /\ pending' \in Seq(Moments) /\ Len(pending') <= 1
           /\ pending' # <<>> => coalesce'
           /\ seen' \in Seq(Moments) /\ frames' \in 0 .. wait'
<1>1. /\ history \in Seq(Moments) /\ pending \in Seq(Moments) /\ seen \in Seq(Moments)
      /\ Len(history) <= MaxHistory /\ MaxHistory \in Nat /\ Len(pending) \in Nat /\ Len(pending) <= 1
      /\ frames \in 0 .. wait
  BY WindowTypes
<1>2. CASE Frame
  <2>1. PICK state \in Received, next \in Received :
           \/ \E held \in BOOLEAN : RunningFrame(state, next, held)
           \/ \E robots \in RobotSets : TerminalFrame(state, next, robots)
    BY <1>2 DEF Frame
  <2>2. Evaluated(state, next)
    BY <2>1 DEF RunningFrame, TerminalFrame
  <2>3. /\ seen' \in Seq(Moments) /\ frames' \in 1 .. wait
        /\ UNCHANGED <<wait, coalesce>>
    BY <2>2, EvaluatedFields
  <2>4. /\ history' \in Seq(Moments) /\ Len(history') <= MaxHistory
        /\ pending' \in Seq(Moments) /\ Len(pending') <= 1
        /\ pending' # <<>> => coalesce
    <3>1. CASE \E held \in BOOLEAN : RunningFrame(state, next, held)
      BY <3>1, RunningFields
    <3>2. CASE \E robots \in RobotSets : TerminalFrame(state, next, robots)
      <4>1. /\ history' \in Seq(Moments) /\ Len(history') <= MaxHistory
            /\ pending' = <<>>
        BY <3>2, TerminalFields
      <4>2. <<>> \in Seq(Moments) /\ Len(<<>>) = 0
        OBVIOUS
      <4> QED
        BY <4>1, <4>2
    <3> QED
      BY <2>1, <3>1, <3>2
  <2>5. pending' # <<>> => coalesce'
    BY <2>3, <2>4, Zenon
  <2>6. frames' \in 0 .. wait'
    BY <1>1, <2>3
  <2> QED
    BY <2>3, <2>4, <2>5, <2>6
<1>3. CASE ~Frame
  <2>1. /\ history' \in {history, <<>>} /\ pending' \in {pending, <<>>}
        /\ seen' \in {seen, <<>>} /\ frames' \in {frames, 0}
        /\ wait' = wait \/ frames' = 0
        /\ pending' # <<>> => (coalesce => coalesce')
    BY <1>3, OtherWindows
  <2>2. pending # <<>> => coalesce
    BY DEF TypeOK
  <2>3. pending' # <<>> => coalesce'
    <3>1. pending' # <<>> => pending # <<>>
      BY <2>1
    <3> QED
      BY <2>1, <2>2, <3>1, Zenon
  <2>4. <<>> \in Seq(Moments) /\ Len(<<>>) = 0
    OBVIOUS
  <2>5. /\ history' \in Seq(Moments) /\ Len(history') <= MaxHistory
        /\ pending' \in Seq(Moments) /\ Len(pending') <= 1
        /\ seen' \in Seq(Moments)
    <3>1. history' \in Seq(Moments) /\ pending' \in Seq(Moments) /\ seen' \in Seq(Moments)
      BY <1>1, <2>1, <2>4
    <3>2. Len(history') <= MaxHistory
      BY <1>1, <2>1, <2>4
    <3>3. Len(pending') <= 1
      BY <1>1, <2>1, <2>4
    <3> QED
      BY <3>1, <3>2, <3>3
  <2>6. wait' \in Nat
    BY <1>3, EvaluationAssumption DEF Next, LoadBatch, Arm, FrameTimeout, StopEpisode, Tick,
       batch, vars, TypeOK
  <2>7. frames' \in 0 .. wait'
    BY <1>1, <2>1, <2>6
  <2> QED
    BY <2>3, <2>5, <2>7
<1> QED
  BY <1>2, <1>3

\* only these four ever end an episode
LEMMA TriggeredNames ==
    ASSUME NEW name, NEW b, Triggered(name, b)
    PROVE  name \in Names
  BY DEF Triggered, Names

\* a frame, from either of its two sides
LEMMA FrameIs ==
    ASSUME Frame
    PROVE  \E state, next \in Received :
              /\ paired \/ next = state
              /\ Evaluated(state, next)
              /\ \/ \E held \in BOOLEAN : RunningFrame(state, next, held)
                 \/ \E robots \in RobotSets : TerminalFrame(state, next, robots)
  BY DEF Frame, RunningFrame, TerminalFrame

\* an age saturates above what it is compared with
LEMMA OlderType ==
    ASSUME NEW most \in Nat, NEW age \in None .. most + 1
    PROVE  /\ Older(age, most) \in None .. most + 1
           /\ age # None => Older(age, most) \in 0 .. most + 1
  BY DEF Older, None, Least

\* ages stay within their bounds
LEMMA AgesTyped ==
    ASSUME TypeOK, Rest, [Next]_vars
    PROVE  /\ timer' \in None .. Limit + 1 /\ sinceFirst' \in None .. Limit + 1
           /\ lastFrame' \in 0 .. FrameLimit + 1
<1>1. /\ timer \in None .. Limit + 1 /\ sinceFirst \in None .. Limit + 1
      /\ lastFrame \in 0 .. FrameLimit + 1
  BY DEF TypeOK
<1>2. Limit \in Nat /\ FrameLimit \in Nat /\ None \in None .. Limit + 1 /\ 0 \in None .. Limit + 1
      /\ 0 \in 0 .. FrameLimit + 1
  BY EvaluationAssumption DEF None
<1>3. CASE Frame
  <2>1. PICK state \in Received, next \in Received : Evaluated(state, next)
    BY <1>3, FrameIs
  <2>2. /\ timer' \in {0, timer} /\ sinceFirst' \in {0, sinceFirst} /\ lastFrame' = 0
    BY <2>1, TimerValues DEF Evaluated
  <2> QED
    BY <1>1, <1>2, <2>2
<1>4. CASE Tick
  <2>1. /\ timer' = Older(timer, Limit) /\ sinceFirst' = Older(sinceFirst, Limit)
        /\ lastFrame' = Older(lastFrame, FrameLimit)
    BY <1>4 DEF Tick
  <2>2. lastFrame \in None .. FrameLimit + 1 /\ lastFrame # None
    BY <1>1, <1>2 DEF None
  <2> QED
    BY <1>1, <1>2, <2>1, <2>2, OlderType
<1>5. CASE ~Frame /\ ~Tick
  <2>1. /\ timer' \in {timer, None} /\ sinceFirst' \in {sinceFirst, None}
        /\ lastFrame' \in {lastFrame, 0}
    BY <1>5 DEF Next, LoadBatch, Arm, FrameTimeout, StopEpisode, LoopLeft, vars, locals
  <2> QED
    BY <1>1, <1>2, <2>1
<1> QED
  BY <1>3, <1>4, <1>5

\* and the rest what it is
LEMMA ScalarsTyped ==
    ASSUME TypeOK, Rest, [Next]_vars
    PROVE  /\ paired' \in BOOLEAN /\ coalesce' \in BOOLEAN /\ open' \in BOOLEAN
           /\ loaded' \in Suites /\ wait' \in Waits /\ ball' \in BallState
           /\ phase' \in {"idle", "running", "stopping"}
           /\ verdict'.by \in Names \cup {"none"}
<1>1. /\ paired \in BOOLEAN /\ coalesce \in BOOLEAN /\ open \in BOOLEAN
      /\ loaded \in Suites /\ wait \in Waits /\ ball \in BallState
      /\ phase \in {"idle", "running", "stopping"}
      /\ verdict.by \in Names \cup {"none"}
  BY DEF TypeOK
<1>2. CASE Frame
  <2>1. PICK state \in Received, next \in Received :
           /\ Evaluated(state, next)
           /\ \/ \E held \in BOOLEAN : RunningFrame(state, next, held)
              \/ \E robots \in RobotSets : TerminalFrame(state, next, robots)
    BY <1>2, FrameIs
  <2>2. ball' \in BallState /\ UNCHANGED <<paired, loaded, wait, coalesce, open>>
    BY <2>1, EvaluatedFields
  <2>3. phase' \in {"idle", "running", "stopping"} /\ verdict'.by \in Names \cup {"none"}
    <3>1. CASE \E held \in BOOLEAN : RunningFrame(state, next, held)
      BY <1>1, <3>1 DEF RunningFrame
    <3>2. CASE \E robots \in RobotSets : TerminalFrame(state, next, robots)
      <4>1. PICK robots \in RobotSets : TerminalFrame(state, next, robots)
        BY <3>2
      <4>2. PICK b : b = Judged(state, next)
        OBVIOUS
      <4>3. /\ Triggered(loaded[Winner(b)], b) /\ phase' = "stopping"
            /\ verdict' = Verdict(loaded[Winner(b)], robots)
        BY <4>1, <4>2, TerminalFields
      <4>4. verdict'.by \in Names
        BY <4>3, TriggeredNames DEF Verdict
      <4> QED
        BY <4>3, <4>4
    <3> QED
      BY <2>1, <3>1, <3>2
  <2> QED
    BY <1>1, <2>2, <2>3
<1>3. CASE LoadBatch
  BY <1>1, <1>3 DEF LoadBatch
<1>4. CASE Arm
  BY <1>1, <1>4 DEF Arm, batch
<1>5. CASE FrameTimeout
  BY <1>1, <1>5 DEF FrameTimeout, batch
<1>6. CASE StopEpisode
  BY <1>1, <1>6 DEF StopEpisode, batch, NoVerdict
<1>7. CASE Tick
  BY <1>1, <1>7 DEF Tick, batch
<1>8. CASE UNCHANGED vars
  BY <1>1, <1>8 DEF vars, batch
<1> QED
  BY <1>2, <1>3, <1>4, <1>5, <1>6, <1>7, <1>8 DEF Next

\* what the loop keeps goes with it, and a window with its file
LEMMA RestKept ==
    ASSUME TypeOK, Rest, [Next]_vars
    PROVE  Rest'
<1>1. CASE Frame
  <2>1. PICK state \in Received, next \in Received :
           /\ Evaluated(state, next)
           /\ \/ \E held \in BOOLEAN : RunningFrame(state, next, held)
              \/ \E robots \in RobotSets : TerminalFrame(state, next, robots)
    BY <1>1, FrameIs
  <2>2. phase = "running" /\ open' = open
    BY <2>1 DEF Evaluated
  <2>3. phase' \in {"running", "stopping"}
    BY <2>1, <2>2 DEF RunningFrame, TerminalFrame
  <2>4. open
    BY <2>2 DEF Rest
  <2>5. open'
    BY <2>2, <2>4, Zenon
  <2> QED
    BY <2>3, <2>5 DEF Rest
<1>2. CASE LoadBatch
  BY <1>2 DEF LoadBatch, locals, Rest
<1>3. CASE Arm
  BY <1>3 DEF Arm, Rest
<1>4. CASE FrameTimeout
  <2>1. open /\ open' = open /\ phase' = "idle" /\ LoopLeft
    BY <1>4 DEF FrameTimeout, Rest
  <2>2. open'
    BY <2>1, Zenon
  <2> QED
    BY <2>1, <2>2 DEF LoopLeft, Rest
<1>5. CASE StopEpisode
  BY <1>5 DEF StopEpisode, LoopLeft, Rest
<1>6. CASE Tick
  <2>1. open /\ open' = open /\ phase' = "running"
    BY <1>6 DEF Tick, Rest
  <2>2. open'
    BY <2>1, Zenon
  <2> QED
    BY <2>1, <2>2 DEF Rest
<1>7. CASE UNCHANGED vars
  <2>1. ~open' => ~open
    BY <1>7, Zenon DEF vars
  <2> QED
    BY <1>7, <2>1 DEF vars, locals, Rest
<1> QED
  BY <1>1, <1>2, <1>3, <1>4, <1>5, <1>6, <1>7 DEF Next

\* the variables keep their types
LEMMA AlwaysTyped == Spec => [](TypeOK /\ Rest)
<1>1. Init => TypeOK /\ Rest
  <2> SUFFICES ASSUME Init
               PROVE  TypeOK /\ Rest
    OBVIOUS
  <2>1. /\ paired \in BOOLEAN /\ loaded \in Suites /\ wait \in Waits /\ coalesce \in BOOLEAN
        /\ phase = "idle" /\ open = FALSE /\ verdict = NoVerdict
        /\ history = <<>> /\ pending = <<>> /\ timer = None /\ lastFrame = 0
        /\ ball = NoBall /\ sinceFirst = None /\ frames = 0 /\ seen = <<>>
    BY DEF Init
  <2>2. Rest
    BY <2>1 DEF Rest
  <2>3. ball \in BallState /\ verdict.by = "none"
    BY <2>1 DEF NoBall, BallState, NoVerdict
  <2>4. /\ None \in None .. Limit + 1 /\ 0 \in 0 .. FrameLimit + 1 /\ 0 \in 0 .. wait
        /\ 0 <= MaxHistory
    BY <2>1, EvaluationAssumption DEF None
  <2>5. /\ {history, pending, seen} \subseteq Seq(BOOLEAN)
        /\ Len(history) <= MaxHistory /\ Len(pending) <= 1
    <3>1. <<>> \in Seq(BOOLEAN) /\ Len(<<>>) = 0
      OBVIOUS
    <3> QED
      BY <2>1, <2>4, <3>1
  <2>6. /\ {timer, sinceFirst} \subseteq None .. Limit + 1
        /\ lastFrame \in 0 .. FrameLimit + 1 /\ frames \in 0 .. wait
    BY <2>1, <2>4
  <2>7. TypeOK
    BY <2>1, <2>3, <2>5, <2>6, Zenon DEF TypeOK
  <2> QED
    BY <2>2, <2>7
<1>2. TypeOK /\ Rest /\ [Next]_vars => TypeOK' /\ Rest'
  <2> SUFFICES ASSUME TypeOK, Rest, [Next]_vars
               PROVE  TypeOK' /\ Rest'
    OBVIOUS
  <2>1. TypeOK'
    BY WindowsTyped, AgesTyped, ScalarsTyped DEF TypeOK, Moments
  <2> QED
    BY <2>1, RestKept
<1> QED
  BY <1>1, <1>2, PTL DEF Spec

(***************************************************************************)
(* The evaluation's variables keep their types, whatever the list, the     *)
(* wait and the limits; the window never holds more than                   *)
(* max_history_size records (recorder.py:31).                              *)
(***************************************************************************)
THEOREM EvaluationTypeCorrect == Spec => []TypeOK
  BY AlwaysTyped, PTL

-----------------------------------------------------------------------------
(***************************************************************************)
(* Time: TimeLimit's timer is as old as the episode's first frame.         *)
(***************************************************************************)
\* a name is loaded at a place of the list
LEMMA LoadedAt ==
    ASSUME TypeOK, NEW name
    PROVE  Loads(name) <=> \E i \in 1 .. Len(loaded) : loaded[i] = name
<1>1. loaded \in Seq(Registered)
  BY WindowTypes
<1>2. DOMAIN loaded = 1 .. Len(loaded)
  BY <1>1
<1> QED
  BY <1>2 DEF Loads

\* a frame that does not end the episode starts the timer, or leaves it
LEMMA NotExpired ==
    ASSUME TypeOK, NEW b, Winner(b) = 0
    PROVE  /\ Loads("TimeLimit") =>
                 ~Expired /\ TimerAsked(b) = (IF timer = None THEN 0 ELSE timer)
           /\ ~Loads("TimeLimit") => TimerAsked(b) = timer
           /\ Loads("BallStopped") => ~Stopped(b)
<1>1. loaded \in Seq(Registered)
  BY WindowTypes
<1>2. \A i \in 1 .. Len(loaded) : ~Triggered(loaded[i], b)
  BY <1>1, WinnerIsFirst
<1>3. Loads("TimeLimit") => ~Expired
  BY <1>2, LoadedAt DEF Triggered
<1>4. Loads("BallStopped") => ~Stopped(b)
  BY <1>2, LoadedAt DEF Triggered
<1>5. TimerAsked(b) = IF Loads("TimeLimit") /\ (timer = None \/ Expired) THEN 0 ELSE timer
  BY DEF TimerAsked, Loads
<1> QED
  BY <1>3, <1>4, <1>5

LEMMA TimedKept ==
    ASSUME TypeOK, Rest, Timed, [Next]_vars
    PROVE  Timed'
<1>1. CASE Frame
  <2>1. PICK state \in Received, next \in Received :
           /\ Evaluated(state, next)
           /\ \/ \E held \in BOOLEAN : RunningFrame(state, next, held)
              \/ \E robots \in RobotSets : TerminalFrame(state, next, robots)
    BY <1>1, FrameIs
  <2>2. CASE \E held \in BOOLEAN : RunningFrame(state, next, held)
    <3>1. PICK b : b = Judged(state, next)
      OBVIOUS
    <3>2. Winner(b) = 0
      BY <2>2, <3>1 DEF RunningFrame
    <3>3. /\ phase = "running" /\ timer' = TimerAsked(b) /\ loaded' = loaded
          /\ sinceFirst' = (IF sinceFirst = None THEN 0 ELSE sinceFirst)
      BY <2>1, <3>1 DEF Evaluated, batch
    <3>4. IF Loads("TimeLimit") THEN timer = sinceFirst ELSE timer = None
      BY <3>3 DEF Timed
    <3>5. IF Loads("TimeLimit") THEN timer' = sinceFirst' ELSE timer' = None
      BY <3>2, <3>3, <3>4, NotExpired
    <3>6. Loads("TimeLimit")' <=> Loads("TimeLimit")
      BY <3>3 DEF Loads
    <3> QED
      BY <3>5, <3>6 DEF Timed
  <2>3. CASE \E robots \in RobotSets : TerminalFrame(state, next, robots)
    BY <2>3 DEF TerminalFrame, Timed
  <2> QED
    BY <2>1, <2>2, <2>3
<1>2. CASE Arm
  BY <1>2 DEF Arm, Rest, locals, Timed, None
<1>3. CASE Tick
  <2>1. /\ phase = "running" /\ loaded' = loaded
        /\ timer' = Older(timer, Limit) /\ sinceFirst' = Older(sinceFirst, Limit)
    BY <1>3 DEF Tick, batch
  <2>2. IF Loads("TimeLimit") THEN timer = sinceFirst ELSE timer = None
    BY <2>1 DEF Timed
  <2>3. IF Loads("TimeLimit") THEN timer' = sinceFirst' ELSE timer' = None
    BY <2>1, <2>2 DEF Older
  <2>4. Loads("TimeLimit")' <=> Loads("TimeLimit")
    BY <2>1 DEF Loads
  <2> QED
    BY <2>3, <2>4 DEF Timed
<1>4. CASE LoadBatch \/ FrameTimeout \/ StopEpisode
  BY <1>4 DEF LoadBatch, FrameTimeout, StopEpisode, Timed
<1>5. CASE UNCHANGED vars
  <2>1. UNCHANGED <<phase, loaded, timer, sinceFirst>>
    BY <1>5 DEF vars, batch, locals
  <2> QED
    BY <2>1 DEF Timed, Loads
<1> QED
  BY <1>1, <1>2, <1>3, <1>4, <1>5 DEF Next

-----------------------------------------------------------------------------
(***************************************************************************)
(* The window: it holds frames of the episode alone, and without           *)
(* coalescing the last ones.                                               *)
(***************************************************************************)
LEMMA OwnRecordsKept ==
    ASSUME TypeOK, Rest, OwnRecords, [Next]_vars
    PROVE  OwnRecords'
<1>1. /\ Len(history) \in Nat /\ Len(pending) \in Nat /\ wait \in Nat /\ frames \in 0 .. wait
      /\ Len(<<>>) = 0
  BY WindowTypes
<1>2. CASE Frame
  <2>1. PICK state \in Received, next \in Received :
           /\ Evaluated(state, next)
           /\ \/ \E held \in BOOLEAN : RunningFrame(state, next, held)
              \/ \E robots \in RobotSets : TerminalFrame(state, next, robots)
    BY <1>2, FrameIs
  <2>2. CASE \E held \in BOOLEAN : RunningFrame(state, next, held)
    <3>1. /\ Len(history') + Len(pending') <= Len(history) + Len(pending) + 1
          /\ history' \in Seq(Moments) /\ pending' \in Seq(Moments)
      BY <2>2, RunningFields
    <3>2. /\ phase = "running" /\ frames' = Least(frames + 1, wait) /\ wait' = wait
      BY <2>1 DEF Evaluated, batch
    <3>3. Len(history) + Len(pending) <= frames \/ frames = wait
      BY <3>2 DEF OwnRecords
    <3>4. Len(history') \in Nat /\ Len(pending') \in Nat
      BY <3>1
    <3>5. frames' = frames + 1 \/ frames' = wait
      BY <1>1, <3>2 DEF Least
    <3>6. frames = wait => frames' = wait
      BY <1>1, <3>2 DEF Least
    <3>7. Len(history') + Len(pending') <= frames' \/ frames' = wait
      BY <1>1, <3>1, <3>3, <3>4, <3>5, <3>6
    <3> QED
      BY <3>2, <3>7 DEF OwnRecords
  <2>3. CASE \E robots \in RobotSets : TerminalFrame(state, next, robots)
    BY <2>3 DEF TerminalFrame, OwnRecords
  <2> QED
    BY <2>1, <2>2, <2>3
<1>3. CASE Arm
  <2>1. /\ history' = <<>> /\ pending' = <<>> /\ frames' = 0
    BY <1>3 DEF Arm, Rest, locals
  <2> QED
    BY <1>1, <2>1 DEF OwnRecords
<1>4. CASE Tick
  <2>1. UNCHANGED <<phase, wait, history, pending, frames>>
    BY <1>4 DEF Tick, batch
  <2> QED
    BY <2>1 DEF OwnRecords
<1>5. CASE LoadBatch \/ FrameTimeout \/ StopEpisode
  BY <1>5 DEF LoadBatch, FrameTimeout, StopEpisode, OwnRecords
<1>6. CASE UNCHANGED vars
  <2>1. UNCHANGED <<phase, wait, history, pending, frames>>
    BY <1>6 DEF vars, batch, locals
  <2> QED
    BY <2>1 DEF OwnRecords
<1> QED
  BY <1>2, <1>3, <1>4, <1>5, <1>6 DEF Next

\* both grow by the same frame, or the window by the one seen before
LEMMA FollowsOn ==
    ASSUME TypeOK, NEW window \in Seq(Moments), NEW moments \in Seq(Moments), NEW lag \in {0, 1},
           Follows(window, moments, lag),
           NEW recorded \in Moments, NEW shown \in Moments,
           lag = 0 => shown = recorded,
           lag = 1 => moments # <<>> /\ moments[Len(moments)] = recorded
    PROVE  Follows(Put(window, recorded), LastOf(Append(moments, shown), wait + 1), lag)
<1> DEFINE longer == Put(window, recorded)
           later == LastOf(Append(moments, shown), wait + 1)
<1>1. wait \in Nat /\ MaxHistory \in Nat /\ Len(window) \in Nat /\ Len(moments) \in Nat
      /\ wait > 0
  BY WindowTypes
<1>2. longer \in Seq(Moments) /\ Grown(longer, window, recorded, MaxHistory)
  BY PutFields
<1>3. later \in Seq(Moments) /\ Grown(later, moments, shown, wait + 1)
  <2>1. PICK n \in Nat : n = wait + 1
    BY <1>1
  <2>2. /\ LastOf(Append(moments, shown), n) \in Seq(Moments)
        /\ Grown(LastOf(Append(moments, shown), n), moments, shown, n)
    BY WindowGrows
  <2> QED
    BY <2>1, <2>2
<1> HIDE DEF longer, later
<1>4. Len(longer) \in Nat /\ Len(later) \in Nat
  BY <1>2, <1>3
<1>5. /\ Len(longer) = Least(MaxHistory, Len(window) + 1)
      /\ MaxHistory > 0 => Len(longer) > 0 /\ longer[Len(longer)] = recorded
      /\ \A k \in Nat : k + 1 < Len(longer) =>
            k < Len(window) /\ longer[Len(longer) - (k + 1)] = window[Len(window) - k]
  BY <1>2 DEF Grown
<1>6. /\ Len(later) = Least(wait + 1, Len(moments) + 1)
      /\ Len(later) > 0 /\ later[Len(later)] = shown
      /\ \A k \in Nat : k + 1 < Len(later) =>
            k < Len(moments) /\ later[Len(later) - (k + 1)] = moments[Len(moments) - k]
  BY <1>1, <1>3 DEF Grown
<1>7. \A n \in Nat : n <= wait /\ n <= Len(moments) => n < Len(later)
  BY <1>1, <1>6 DEF Least
<1>8. ASSUME NEW k \in Nat, k + lag <= wait, k < Len(longer)
      PROVE  /\ k + lag < Len(later)
             /\ longer[Len(longer) - k] = later[Len(later) - (k + lag)]
  <2>1. CASE k = 0
    <3>1. MaxHistory > 0
      BY <1>1, <1>5, <1>8, <2>1 DEF Least
    <3>2. longer[Len(longer) - k] = recorded
      BY <1>4, <1>5, <2>1, <3>1
    <3>3. CASE lag = 0
      <4>1. k + lag = 0 /\ Len(later) - (k + lag) = Len(later)
        BY <1>4, <2>1, <3>3
      <4> QED
        BY <1>6, <3>2, <3>3, <4>1
    <3>4. CASE lag = 1
      <4>1. Len(moments) # 0 /\ moments[Len(moments)] = recorded
        BY <3>4
      <4>2. k + lag = 1 /\ 1 < Len(later) /\ Len(moments) - 0 = Len(moments) /\ 0 + 1 = 1
        BY <1>1, <1>7, <2>1, <3>4, <4>1
      <4>3. later[Len(later) - (0 + 1)] = moments[Len(moments) - 0]
        BY <1>6, <4>2
      <4> QED
        BY <3>2, <4>1, <4>2, <4>3
    <3> QED
      BY <3>3, <3>4
  <2>2. CASE k # 0
    <3>1. PICK j \in Nat : k = j + 1
      <4>1. k - 1 \in Nat /\ k = (k - 1) + 1
        BY <2>2
      <4> QED
        BY <4>1
    <3>2. j < Len(window) /\ longer[Len(longer) - k] = window[Len(window) - j]
      BY <1>5, <1>8, <3>1
    <3>3. j + lag <= wait /\ j + lag \in Nat /\ k + lag = (j + lag) + 1
      BY <1>1, <1>8, <3>1
    <3>4. /\ j + lag < Len(moments)
          /\ window[Len(window) - j] = moments[Len(moments) - (j + lag)]
      BY <3>2, <3>3 DEF Follows
    <3>5. k + lag \in Nat /\ k + lag <= Len(moments)
      BY <1>1, <3>3, <3>4
    <3>6. k + lag < Len(later)
      BY <1>7, <1>8, <3>5
    <3>7. later[Len(later) - ((j + lag) + 1)] = moments[Len(moments) - (j + lag)]
      BY <1>6, <3>3, <3>6
    <3> QED
      BY <3>2, <3>3, <3>4, <3>6, <3>7
  <2> QED
    BY <2>1, <2>2
<1> QED
  BY <1>8 DEF Follows, longer, later

\* what was seen before a frame: where the first one starts is seen with it
Before(state) == IF paired /\ frames = 0 THEN <<Still(state)>> ELSE seen

\* what a frame adds to what was seen
LEMMA SeenGrows ==
    ASSUME TypeOK, NEW state \in Received, NEW next \in Received, Evaluated(state, next)
    PROVE  /\ Before(state) \in Seq(Moments) /\ Len(Before(state)) \in Nat
           /\ Still(Judged(state, next)) \in Moments /\ Still(state) \in Moments
           /\ seen' = LastOf(Append(Before(state), Still(Judged(state, next))), wait + 1)
           /\ Grown(seen', Before(state), Still(Judged(state, next)), wait + 1)
           /\ Len(seen') \in Nat /\ wait + 1 > 0
<1>1. PICK b : b = Judged(state, next)
  OBVIOUS
<1>2. PICK before : before = Before(state)
  OBVIOUS
<1>3. Still(b) \in Moments /\ Still(state) \in Moments /\ seen' \in Seq(Moments)
  BY <1>1, EvaluatedFields
<1>4. before \in Seq(Moments)
  BY <1>2, <1>3, WindowTypes DEF Before
<1>5. seen' = LastOf(Append(before, Still(b)), wait + 1)
  BY <1>1, <1>2 DEF Evaluated, Before
<1>6. PICK n \in Nat : n = wait + 1 /\ n > 0
  BY WindowTypes
<1>7. Grown(LastOf(Append(before, Still(b)), n), before, Still(b), n)
  BY <1>3, <1>4, WindowGrows
<1>8. Grown(seen', before, Still(b), wait + 1)
  BY <1>5, <1>6, <1>7
<1>9. Len(before) \in Nat /\ Len(seen') \in Nat
  BY <1>3, <1>4
<1> QED
  BY <1>1, <1>2, <1>3, <1>4, <1>5, <1>6, <1>8, <1>9

\* a frame the episode goes on behind keeps window and sight together
LEMMA AlignedOnFrame ==
    ASSUME TypeOK, Rest, Aligned, NEW state \in Received, NEW next \in Received,
           paired \/ next = state, NEW held, RunningFrame(state, next, held)
    PROVE  Aligned'
<1> SUFFICES ASSUME ~coalesce
             PROVE  Aligned'
  <2>1. Evaluated(state, next)
    BY DEF RunningFrame
  <2>2. coalesce => coalesce'
    BY <2>1, Zenon DEF Evaluated, batch
  <2> QED
    BY <2>2 DEF Aligned
<1>1. /\ history \in Seq(Moments) /\ seen \in Seq(Moments) /\ Len(history) \in Nat
      /\ Len(seen) \in Nat /\ wait \in Nat /\ wait > 0 /\ frames \in 0 .. wait
      /\ MaxHistory \in Nat /\ Len(history) <= MaxHistory
  BY WindowTypes
<1>2. PICK b : b = Judged(state, next)
  OBVIOUS
<1>3. PICK before : before = Before(state)
  OBVIOUS
<1>4. /\ Evaluated(state, next) /\ history' = Put(history, Still(state))
  BY RunningFields
<1>5. /\ phase = "running" /\ ball' = b /\ frames' \in 1 .. wait
      /\ paired' = paired /\ wait' = wait /\ (paired /\ frames > 0 => state = ball)
  BY <1>2, <1>4, EvaluatedFields DEF Evaluated, StartsAt
<1>6. /\ before \in Seq(Moments) /\ Still(b) \in Moments /\ Still(state) \in Moments
      /\ seen' = LastOf(Append(before, Still(b)), wait + 1)
      /\ Len(before) \in Nat /\ Len(seen') \in Nat
      /\ Len(seen') = Least(wait + 1, Len(before) + 1)
      /\ Len(seen') > 0 /\ seen'[Len(seen')] = Still(b)
  BY <1>2, <1>3, <1>4, SeenGrows DEF Grown
<1>7. /\ Follows(history, seen, Lag)
      /\ Len(seen) <= Len(history) + Lag \/ Len(history) = MaxHistory
      /\ frames = 0 => seen = <<>> /\ history = <<>>
      /\ frames # 0 => seen # <<>> /\ seen[Len(seen)] = Still(ball)
  BY <1>5 DEF Aligned
<1>8. PICK lag \in {0, 1} : lag = Lag
  BY DEF Lag
<1>9. /\ Follows(history, before, lag)
      /\ Len(before) <= Len(history) + lag \/ Len(history) = MaxHistory
      /\ lag = 0 => Still(b) = Still(state)
      /\ lag = 1 => before # <<>> /\ before[Len(before)] = Still(state)
  <2>1. CASE ~paired
    <3>1. b = state /\ before = seen /\ lag = 0
      BY <1>2, <1>3, <1>8, <2>1 DEF Judged, Lag, Before
    <3> QED
      BY <1>7, <1>8, <3>1
  <2>2. CASE paired /\ frames # 0
    <3>1. before = seen /\ lag = 1 /\ state = ball
      BY <1>1, <1>3, <1>5, <1>8, <2>2 DEF Lag, Before
    <3> QED
      BY <1>7, <1>8, <2>2, <3>1
  <2>3. CASE paired /\ frames = 0
    <3>1. before = <<Still(state)>> /\ lag = 1 /\ history = <<>>
      BY <1>3, <1>7, <1>8, <2>3 DEF Lag, Before
    <3>2. Len(before) = 1 /\ before[1] = Still(state) /\ before # <<>> /\ Len(history) = 0
      BY <3>1
    <3>3. Follows(history, before, lag)
      BY <3>2 DEF Follows
    <3> QED
      BY <3>1, <3>2, <3>3
  <2> QED
    BY <2>1, <2>2, <2>3
<1>10. Follows(Put(history, Still(state)), LastOf(Append(before, Still(b)), wait + 1), lag)
  BY <1>1, <1>6, <1>9, FollowsOn
<1>11. PICK window \in Seq(Moments), moments \in Seq(Moments) :
          window = history' /\ moments = seen'
  <2>1. history' \in Seq(Moments)
    BY RunningFields
  <2>2. seen' \in Seq(Moments)
    BY <1>2, <1>4, EvaluatedFields
  <2> QED
    BY <2>1, <2>2
<1>12. Follows(window, moments, lag)
  BY <1>4, <1>6, <1>10, <1>11
<1>13. Follows(history, seen, Lag)'
  <2>1. Lag' = lag
    BY <1>5, <1>8 DEF Lag
  <2> QED
    BY <1>5, <1>11, <1>12, <2>1 DEF Follows
<1>14. Len(seen') <= Len(history') + lag \/ Len(history') = MaxHistory
  <2>1. Len(history') = Least(MaxHistory, Len(history) + 1)
    BY <1>1, <1>4, <1>6, PutFields DEF Grown
  <2>2. Len(seen') <= Len(before) + 1
    BY <1>1, <1>6 DEF Least
  <2>3. CASE Len(history) + 1 < MaxHistory
    <3>1. Len(history') = Len(history) + 1
      BY <1>1, <2>1, <2>3 DEF Least
    <3>2. Len(before) <= Len(history) + lag
      BY <1>1, <1>9, <2>3
    <3> QED
      BY <1>1, <1>6, <2>2, <3>1, <3>2
  <2>4. CASE ~(Len(history) + 1 < MaxHistory)
    BY <1>1, <2>1, <2>4 DEF Least
  <2> QED
    BY <2>3, <2>4
<1>15. Lag' = lag /\ frames' # 0 /\ Still(ball)' = Still(b) /\ seen' # <<>>
  <2>1. Still(ball)' = Still(b)
    BY <1>5 DEF Still
  <2>2. seen' # <<>>
    BY <1>6
  <2> QED
    BY <1>5, <1>8, <2>1, <2>2 DEF Lag
<1> QED
  BY <1>6, <1>13, <1>14, <1>15 DEF Aligned

LEMMA AlignedKept ==
    ASSUME TypeOK, Rest, Aligned, [Next]_vars
    PROVE  Aligned'
<1>1. CASE Frame
  <2>1. PICK state \in Received, next \in Received :
           /\ paired \/ next = state
           /\ \/ \E held \in BOOLEAN : RunningFrame(state, next, held)
              \/ \E robots \in RobotSets : TerminalFrame(state, next, robots)
    BY <1>1, FrameIs
  <2>2. CASE \E held \in BOOLEAN : RunningFrame(state, next, held)
    BY <2>1, <2>2, AlignedOnFrame
  <2>3. CASE \E robots \in RobotSets : TerminalFrame(state, next, robots)
    BY <2>3 DEF TerminalFrame, Aligned
  <2> QED
    BY <2>1, <2>2, <2>3
<1>2. CASE Arm
  <2>1. /\ history' = <<>> /\ seen' = <<>> /\ frames' = 0 /\ paired' = paired
    BY <1>2 DEF Arm, Rest, locals, batch
  <2>2. Len(<<>>) = 0
    OBVIOUS
  <2>3. Follows(history, seen, Lag)'
    BY <2>1, <2>2 DEF Follows
  <2>4. Len(seen') <= Len(history') + Lag'
    BY <2>1, <2>2 DEF Lag
  <2> QED
    BY <2>1, <2>3, <2>4 DEF Aligned
<1>3. CASE Tick \/ UNCHANGED vars
  <2>1. UNCHANGED <<phase, paired, wait, coalesce, history, frames, seen, ball>>
    BY <1>3 DEF Tick, batch, vars, locals
  <2> QED
    BY <2>1 DEF Aligned, Follows, Lag, Still
<1>4. CASE LoadBatch \/ FrameTimeout \/ StopEpisode
  BY <1>4 DEF LoadBatch, FrameTimeout, StopEpisode, Aligned
<1> QED
  BY <1>1, <1>2, <1>3, <1>4 DEF Next

\* the invariant the properties follow from
EvaluationInv == TypeOK /\ Rest /\ Timed /\ OwnRecords /\ Aligned

LEMMA AlwaysEvaluated == Spec => []EvaluationInv
<1>1. Init => Timed /\ OwnRecords /\ Aligned
  BY DEF Init, Timed, OwnRecords, Aligned
<1>2. TypeOK /\ Rest /\ Timed /\ [Next]_vars => Timed'
  BY TimedKept
<1>3. TypeOK /\ Rest /\ OwnRecords /\ [Next]_vars => OwnRecords'
  BY OwnRecordsKept
<1>4. TypeOK /\ Rest /\ Aligned /\ [Next]_vars => Aligned'
  BY AlignedKept
<1>5. EvaluationInv <=> TypeOK /\ Rest /\ Timed /\ OwnRecords /\ Aligned
  BY DEF EvaluationInv
<1> QED
  BY <1>1, <1>2, <1>3, <1>4, <1>5, AlwaysTyped, PTL DEF Spec

-----------------------------------------------------------------------------
(***************************************************************************)
(* A ball that lies still.                                                 *)
(***************************************************************************)
AllStill(moments) == \A i \in DOMAIN moments : moments[i]

\* counted from the end
StillFor(moments, n) ==
    \A k \in Nat : k < n /\ k < Len(moments) => moments[Len(moments) - k]

LEMMA LastStill ==
    ASSUME NEW moments \in Seq(Moments), NEW n \in Nat
    PROVE  AllStill(LastOf(moments, n)) <=> StillFor(moments, n)
<1> DEFINE m == Least(n, Len(moments))
           last == LastOf(moments, n)
<1>1. /\ last \in Seq(Moments) /\ Len(last) = m /\ m \in 0 .. Len(moments)
      /\ \A i \in 1 .. m : last[i] = moments[Len(moments) - m + i]
  BY LastOfFields
<1>2. \A k \in Nat : k < n /\ k < Len(moments) <=> k < m
  BY DEF Least
<1> HIDE DEF m, last
<1>3. DOMAIN last = 1 .. m /\ m \in Nat /\ Len(moments) \in Nat
  BY <1>1
<1>4. ASSUME AllStill(last)
      PROVE  StillFor(moments, n)
  <2>1. ASSUME NEW k \in Nat, k < m
        PROVE  moments[Len(moments) - k]
    <3>1. m - k \in 1 .. m /\ Len(moments) - m + (m - k) = Len(moments) - k
      BY <1>3, <2>1
    <3>2. last[m - k]
      BY <1>3, <1>4, <3>1, Zenon DEF AllStill
    <3>3. last[m - k] = moments[Len(moments) - k]
      BY <1>1, <3>1
    <3> QED
      BY <3>2, <3>3, Zenon
  <2> QED
    BY <1>2, <2>1, Zenon DEF StillFor
<1>5. ASSUME StillFor(moments, n)
      PROVE  AllStill(last)
  <2>1. ASSUME NEW i \in 1 .. m
        PROVE  last[i]
    <3>1. m - i \in Nat /\ m - i < m /\ Len(moments) - (m - i) = Len(moments) - m + i
      BY <1>3
    <3>2. moments[Len(moments) - (m - i)]
      BY <1>2, <1>5, <3>1, Zenon DEF StillFor
    <3>3. last[i] = moments[Len(moments) - (m - i)]
      BY <1>1, <3>1
    <3> QED
      BY <3>2, <3>3, Zenon
  <2> QED
    BY <1>3, <2>1, Zenon DEF AllStill
<1> QED
  BY <1>4, <1>5 DEF last

\* what BallStopped looks at
LEMMA StoppedIs ==
    ASSUME TypeOK, NEW b
    PROVE  /\ Stopped(b) => /\ Len(history) >= wait - 1 /\ Still(b)
                            /\ StillFor(history, wait - 1)
           /\ wait > 1 /\ Len(history) >= wait - 1 /\ Still(b) /\ StillFor(history, wait - 1)
                 => Stopped(b)
<1>1. history \in Seq(Moments) /\ wait \in Nat /\ wait > 0
  BY WindowTypes
<1>2. CASE wait = 1
  <2>1. StillFor(history, wait - 1)
    <3>1. \A k \in Nat : ~(k < wait - 1)
      BY <1>2
    <3> QED
      BY <3>1 DEF StillFor
  <2>2. ~(wait > 1)
    BY <1>2
  <2> QED
    BY <2>1, <2>2, Zenon DEF Stopped
<1>3. CASE wait # 1
  <2>1. wait - 1 \in Nat
    BY <1>1, <1>3
  <2>2. AllStill(LastOf(history, wait - 1)) <=> StillFor(history, wait - 1)
    BY <1>1, <2>1, LastStill
  <2>3. Stopped(b) <=> /\ Len(history) >= wait - 1
                       /\ Still(b) /\ AllStill(LastOf(history, wait - 1))
    BY <1>3, Zenon DEF Stopped, AllStill
  <2> QED
    BY <2>2, <2>3, Zenon
<1> QED
  BY <1>2, <1>3

\* a ball seen still for the wait and the lag has been still in the window
LEMMA StillBehind ==
    ASSUME EvaluationInv, NEW state \in Received, NEW next \in Received,
           Evaluated(state, next), ~coalesce,
           wait \in 2 .. MaxHistory + 1, Len(seen') >= wait + Lag,
           StillFor(seen', wait + Lag)
    PROVE  Stopped(Judged(state, next))
<1>1. PICK b : b = Judged(state, next)
  OBVIOUS
<1>2. TypeOK /\ Aligned /\ Evaluated(state, next)
  BY DEF EvaluationInv
<1>3. /\ Len(history) \in Nat /\ Len(seen) \in Nat /\ wait \in Nat /\ MaxHistory \in Nat
  BY <1>2, WindowTypes
<1>4. PICK before : before = Before(state)
  OBVIOUS
<1>5. /\ Len(before) \in Nat /\ Len(seen') \in Nat
      /\ Len(seen') = Least(wait + 1, Len(before) + 1)
      /\ Len(seen') > 0 /\ seen'[Len(seen')] = Still(b)
      /\ \A k \in Nat : k + 1 < Len(seen') =>
            k < Len(before) /\ seen'[Len(seen') - (k + 1)] = before[Len(before) - k]
  BY <1>1, <1>2, <1>4, SeenGrows DEF Grown
<1>6. PICK lag \in {0, 1} : lag = Lag /\ (paired => lag = 1)
  BY DEF Lag
<1>7. before = seen
  <2>1. CASE paired /\ frames = 0
    <3>1. Len(before) = 1
      BY <1>4, <2>1 DEF Before
    <3>2. Len(seen') <= 2
      BY <1>5, <3>1, <1>3 DEF Least
    <3> QED
      BY <1>3, <1>5, <1>6, <2>1, <3>2
  <2> QED
    BY <1>4, <2>1 DEF Before
<1>8. /\ Follows(history, seen, lag)
      /\ Len(seen) <= Len(history) + lag \/ Len(history) = MaxHistory
  BY <1>2, <1>6 DEF Aligned, Evaluated
<1>9. Len(history) >= wait - 1
  <2>1. Len(seen') <= Len(seen) + 1
    BY <1>3, <1>5, <1>7 DEF Least
  <2> QED
    BY <1>3, <1>5, <1>6, <1>8, <2>1
<1>10. Still(b)
  <2>1. 0 \in Nat /\ 0 < wait + Lag /\ 0 < Len(seen') /\ Len(seen') - 0 = Len(seen')
    BY <1>3, <1>5, <1>6
  <2>2. seen'[Len(seen') - 0]
    BY <2>1, Zenon DEF StillFor
  <2>3. seen'[Len(seen') - 0] = Still(b)
    BY <1>5, <2>1
  <2> QED
    BY <2>2, <2>3, Zenon
<1>11. ASSUME NEW k \in Nat, k < wait - 1, k < Len(history)
       PROVE  history[Len(history) - k]
  <2>1. PICK j \in Nat : j = k + lag
    <3>1. k + lag \in Nat
      OBVIOUS
    <3> QED
      BY <3>1
  <2>2. /\ k + lag <= wait
        /\ j + 1 \in Nat /\ j + 1 < wait + Lag /\ j + 1 < Len(seen')
    BY <1>3, <1>5, <1>6, <1>11, <2>1
  <2>3. history[Len(history) - k] = seen[Len(seen) - j]
    BY <1>8, <1>11, <2>1, <2>2 DEF Follows
  <2>4. seen'[Len(seen') - (j + 1)] = seen[Len(seen) - j]
    BY <1>5, <1>7, <2>2
  <2>5. seen'[Len(seen') - (j + 1)]
    BY <2>2, Zenon DEF StillFor
  <2> QED
    BY <2>3, <2>4, <2>5, Zenon
<1>12. StillFor(history, wait - 1)
  BY <1>11, Zenon DEF StillFor
<1>13. wait > 1
  BY <1>3
<1>14. Stopped(b)
  BY <1>2, <1>9, <1>10, <1>12, <1>13, StoppedIs, Zenon
<1> QED
  BY <1>1, <1>14, Zenon

\* a frame behind which the ball has rested triggers BallStopped
LEMMA RestedIsStopped ==
    ASSUME EvaluationInv, NEW state \in Received, NEW next \in Received,
           Evaluated(state, next), wait # 1, Rested'
    PROVE  Stopped(Judged(state, next))
<1>1. TypeOK /\ UNCHANGED <<paired, wait, coalesce>>
  BY DEF EvaluationInv, Evaluated, batch
<1>2. /\ ~coalesce' /\ wait' <= MaxHistory + 1
      /\ Len(seen') >= (IF paired' THEN wait' + 1 ELSE wait')
      /\ AllStill(LastOf(seen', IF paired' THEN wait' + 1 ELSE wait'))
  BY Zenon DEF Rested, AllStill
<1>3. wait \in Nat /\ wait > 0 /\ wait' = wait /\ MaxHistory \in Nat
  BY <1>1, WindowTypes
<1>4. wait \in 2 .. MaxHistory + 1
  BY <1>2, <1>3
<1>5. (IF paired' THEN wait' + 1 ELSE wait') = wait + Lag
  BY <1>1, <1>3 DEF Lag
<1>6. PICK moments \in Nat : moments = wait + Lag
  BY <1>3 DEF Lag
<1>7. PICK shown \in Seq(Moments) : shown = seen'
  BY <1>1, EvaluatedFields
<1>8. AllStill(LastOf(shown, moments))
  BY <1>2, <1>5, <1>6, <1>7
<1>9. StillFor(shown, moments)
  BY <1>8, LastStill
<1>10. StillFor(seen', wait + Lag) /\ Len(seen') >= wait + Lag
  BY <1>2, <1>5, <1>6, <1>7, <1>9
<1>11. ~coalesce
  BY <1>1, <1>2, Zenon
<1> QED
  BY <1>4, <1>10, <1>11, StillBehind

-----------------------------------------------------------------------------
(***************************************************************************)
(* What ends an episode.                                                   *)
(***************************************************************************)
\* the verdict stands until the episode is stopped
LEMMA VerdictStands ==
    ASSUME TypeOK, [Next]_vars, phase' = "stopping"
    PROVE  \/ UNCHANGED vars
           \/ \E state, next \in Received :
                 /\ paired \/ next = state
                 /\ \E robots \in RobotSets : TerminalFrame(state, next, robots)
<1>1. CASE Frame
  <2>1. PICK state \in Received, next \in Received :
           /\ paired \/ next = state
           /\ Evaluated(state, next)
           /\ \/ \E held \in BOOLEAN : RunningFrame(state, next, held)
              \/ \E robots \in RobotSets : TerminalFrame(state, next, robots)
    BY <1>1, FrameIs
  <2>2. ~(\E held \in BOOLEAN : RunningFrame(state, next, held))
    BY <2>1 DEF RunningFrame, Evaluated
  <2> QED
    BY <2>1, <2>2
<1>2. CASE ~Frame
  BY <1>2 DEF Next, LoadBatch, Arm, FrameTimeout, StopEpisode, Tick
<1> QED
  BY <1>1, <1>2

(***************************************************************************)
(* "The first triggered assessment wins" (test_config.yaml:72): whatever   *)
(* the list, nothing listed before the winner was true of the final frame, *)
(* a TimeLimit listed before it had time left, and before a BallStopped    *)
(* listed before it, with a wait of 2 or more that the window can hold,    *)
(* the ball had not rested.                                                *)
(***************************************************************************)
THEOREM FirstListedDecides == Spec => []OrderDecides
<1>1. Init => OrderDecides
  BY DEF Init, OrderDecides
<1>2. ASSUME EvaluationInv, OrderDecides, [Next]_vars
      PROVE  OrderDecides'
  <2> SUFFICES ASSUME phase' = "stopping"
               PROVE  OrderDecides'
    BY DEF OrderDecides
  <2>1. CASE UNCHANGED vars
    <3>1. UNCHANGED <<phase, loaded, verdict, ball, sinceFirst, wait>>
      BY <2>1 DEF vars, batch, locals
    <3>2. {i \in 1 .. Len(loaded') : loaded'[i] = verdict'.by}
             = {i \in 1 .. Len(loaded) : loaded[i] = verdict.by}
      BY <3>1
    <3>3. InGoal(ball)' = InGoal(ball) /\ Outside(ball)' = Outside(ball)
      BY <3>1 DEF InGoal, Outside
    <3>4. Rested' <=> Rested
      BY <2>1 DEF Rested, LastOf, vars, batch, locals
    <3> QED
      BY <1>2, <3>1, <3>2, <3>3, <3>4 DEF OrderDecides, SelectInSeq
  <2>2. ASSUME NEW state \in Received, NEW next \in Received, NEW robots,
               TerminalFrame(state, next, robots)
        PROVE  OrderDecides'
    <3>1. PICK b : b = Judged(state, next)
      OBVIOUS
    <3>2. TypeOK /\ Timed /\ loaded \in Seq(Registered)
      BY <1>2, WindowTypes DEF EvaluationInv
    <3>3. PICK w \in 1 .. Len(loaded) : w = Winner(b)
      BY <2>2, <3>1, <3>2, TerminalFields
    <3>4. /\ Evaluated(state, next)
          /\ \A i \in 1 .. w - 1 : i \in 1 .. Len(loaded) /\ ~Triggered(loaded[i], b)
          /\ verdict' = Verdict(loaded[w], robots)
      BY <2>2, <3>1, <3>2, <3>3, TerminalFields
    <3>5. /\ phase = "running" /\ ball' = b /\ loaded' = loaded /\ wait' = wait
          /\ sinceFirst' = (IF sinceFirst = None THEN 0 ELSE sinceFirst)
      BY <3>1, <3>2, <3>4, EvaluatedFields
    <3>6. verdict'.by = loaded[w]
      BY <3>4 DEF Verdict
    <3> DEFINE places == {i \in 1 .. Len(loaded) : loaded[i] = loaded[w]}
    <3>7. places # {} /\ Min(places) \in 1 .. w
      BY <3>2, NamedFirst
    <3>8. {i \in 1 .. Len(loaded') : loaded'[i] = verdict'.by} = places
      BY <3>5, <3>6
    <3> HIDE DEF places
    <3>9. \A i \in 1 .. Min(places) - 1 : i \in 1 .. w - 1
      BY <3>7
    <3>10. ASSUME NEW i \in 1 .. w - 1
           PROVE  /\ loaded[i] = "GoalScored" => ~InGoal(b)
                  /\ loaded[i] = "BallOutOfBounds" => ~Outside(b)
                  /\ loaded[i] = "TimeLimit" => sinceFirst' <= Limit
                  /\ loaded[i] = "BallStopped" /\ wait' # 1 => ~Rested'
      <4>1. i \in 1 .. Len(loaded) /\ ~Triggered(loaded[i], b)
        BY <3>4
      <4>2. ASSUME loaded[i] = "TimeLimit"
            PROVE  sinceFirst' <= Limit
        <5>1. ~Expired /\ Loads("TimeLimit")
          BY <3>2, <4>1, <4>2, LoadedAt DEF Triggered
        <5>2. timer = sinceFirst
          BY <3>2, <3>5, <5>1 DEF Timed
        <5>3. sinceFirst \in None .. Limit + 1 /\ Limit \in Nat
          BY <3>2, EvaluationAssumption DEF TypeOK
        <5> QED
          BY <3>5, <5>1, <5>2, <5>3 DEF Expired, None
      <4>3. ASSUME loaded[i] = "BallStopped", wait' # 1, Rested'
            PROVE  FALSE
        <5>1. Stopped(b)
          BY <1>2, <3>1, <3>4, <3>5, <4>3, RestedIsStopped
        <5> QED
          BY <4>1, <4>3, <5>1 DEF Triggered
      <4> QED
        BY <4>1, <4>2, <4>3 DEF Triggered
    <3>11. InGoal(ball)' = InGoal(b) /\ Outside(ball)' = Outside(b)
      BY <3>5 DEF InGoal, Outside
    <3> QED
      BY <3>5, <3>7, <3>8, <3>9, <3>10, <3>11 DEF OrderDecides, SelectInSeq
  <2> QED
    BY <1>2, <2>1, <2>2, VerdictStands DEF EvaluationInv
<1> QED
  BY <1>1, <1>2, AlwaysEvaluated, PTL DEF Spec

(***************************************************************************)
(* "A goal, an out-of-bounds or a stopped ball is an outcome"              *)
(* (registry.py:109): whatever the list and the rewards, only a timeout is *)
(* scored by a DistanceToCenter, for its own robots alone; an outcome has  *)
(* the scalar of what triggered.                                           *)
(***************************************************************************)
THEOREM OutcomesKept == Spec => []OutcomeKept
<1>1. Init => OutcomeKept
  BY DEF Init, OutcomeKept
<1>2. ASSUME EvaluationInv, OutcomeKept, [Next]_vars
      PROVE  OutcomeKept'
  <2> SUFFICES ASSUME phase' = "stopping"
               PROVE  OutcomeKept'
    BY DEF OutcomeKept
  <2>1. CASE UNCHANGED vars
    <3>1. UNCHANGED <<phase, loaded, verdict>>
      BY <2>1 DEF vars, batch
    <3> QED
      BY <1>2, <3>1 DEF OutcomeKept, Loads, OwnReward
  <2>2. ASSUME NEW state \in Received, NEW next \in Received, NEW robots,
               TerminalFrame(state, next, robots)
        PROVE  OutcomeKept'
    <3>1. PICK b : b = Judged(state, next)
      OBVIOUS
    <3>2. TypeOK
      BY <1>2 DEF EvaluationInv
    <3>3. PICK name : name = loaded[Winner(b)]
      OBVIOUS
    <3>4. /\ Evaluated(state, next) /\ name \in Names
          /\ verdict' = Verdict(name, robots)
      BY <2>2, <3>1, <3>2, <3>3, TerminalFields, TriggeredNames
    <3>5. Loads("DistanceToCenter")' <=> Loads("DistanceToCenter")
      BY <3>4 DEF Evaluated, batch, Loads
    <3>6. CASE name = "TimeLimit" /\ Loads("DistanceToCenter")
      BY <3>4, <3>5, <3>6 DEF OutcomeKept, Verdict, Rewards, Overrides
    <3>7. CASE ~(name = "TimeLimit" /\ Loads("DistanceToCenter"))
      <4>1. verdict'.by = name /\ verdict'.rewards.kind = "scalar"
            /\ verdict'.rewards.value = OwnReward(name)
        BY <3>4, <3>7 DEF Verdict, Rewards, Overrides
      <4>2. OwnReward(verdict.by)' = OwnReward(name)
        BY <4>1 DEF OwnReward
      <4> QED
        BY <3>5, <3>7, <4>1, <4>2 DEF OutcomeKept
    <3> QED
      BY <3>6, <3>7
  <2> QED
    BY <1>2, <2>1, <2>2, VerdictStands DEF EvaluationInv
<1> QED
  BY <1>1, <1>2, AlwaysEvaluated, PTL DEF Spec

(***************************************************************************)
(* "A timer started in one episode would otherwise still be running in the *)
(* next" (registry.py:67): whatever the limit, TimeLimit ends an episode   *)
(* more than the limit behind that episode's first frame, never sooner,    *)
(* and no frame that late leaves it running.                               *)
(***************************************************************************)
THEOREM TimeoutHonest == Spec => TimerHonest
<1>1. ASSUME EvaluationInv, Frame
      PROVE  /\ phase' = "stopping" /\ verdict'.by = "TimeLimit" => sinceFirst > Limit
             /\ Loads("TimeLimit") /\ sinceFirst > Limit => phase' = "stopping"
  <2>1. PICK state \in Received, next \in Received :
           /\ Evaluated(state, next)
           /\ \/ \E held \in BOOLEAN : RunningFrame(state, next, held)
              \/ \E robots \in RobotSets : TerminalFrame(state, next, robots)
    BY <1>1, FrameIs
  <2>2. TypeOK /\ phase = "running"
    BY <1>1, <2>1 DEF EvaluationInv, Evaluated
  <2>3. Loads("TimeLimit") => timer = sinceFirst
    BY <1>1, <2>2 DEF EvaluationInv, Timed
  <2>4. PICK b : b = Judged(state, next)
    OBVIOUS
  <2>5. CASE \E held \in BOOLEAN : RunningFrame(state, next, held)
    <3>1. Winner(b) = 0 /\ phase' = "running"
      BY <2>2, <2>4, <2>5 DEF RunningFrame
    <3>2. Loads("TimeLimit") => ~Expired
      BY <2>2, <3>1, NotExpired
    <3> QED
      BY <2>3, <3>1, <3>2 DEF Expired
  <2>6. ASSUME NEW robots, TerminalFrame(state, next, robots)
        PROVE  /\ phase' = "stopping"
               /\ verdict'.by = "TimeLimit" => sinceFirst > Limit
    <3>1. /\ phase' = "stopping" /\ Winner(b) \in 1 .. Len(loaded)
          /\ Triggered(loaded[Winner(b)], b)
          /\ verdict' = Verdict(loaded[Winner(b)], robots)
      BY <2>2, <2>4, <2>6, TerminalFields
    <3>2. verdict'.by = loaded[Winner(b)]
      BY <3>1 DEF Verdict
    <3>3. ASSUME loaded[Winner(b)] = "TimeLimit"
          PROVE  sinceFirst > Limit
      <4>1. Expired
        BY <3>1, <3>3 DEF Triggered
      <4>2. Loads("TimeLimit")
        BY <2>2, <3>1, <3>3, LoadedAt
      <4> QED
        BY <2>3, <4>1, <4>2 DEF Expired
    <3> QED
      BY <3>1, <3>2, <3>3
  <2> QED
    BY <2>1, <2>5, <2>6
<1>2. EvaluationInv /\ [Next]_vars =>
         [Frame =>
            /\ phase' = "stopping" /\ verdict'.by = "TimeLimit" => sinceFirst > Limit
            /\ Loads("TimeLimit") /\ sinceFirst > Limit => phase' = "stopping"]_vars
  BY <1>1
<1> QED
  BY <1>2, AlwaysEvaluated, PTL DEF Spec, TimerHonest

(***************************************************************************)
(* "Need self.frame_to_wait total frames" (ball_stopped.py:20): whatever   *)
(* the wait and the window, BallStopped ends no episode before it has had  *)
(* that many frames of its own, nor on a moving ball; and without a        *)
(* next_state the ball was still in every one of them.                     *)
(***************************************************************************)
THEOREM StoppedEpisodesWaited == Spec => []StoppedWaits
<1>1. Init => StoppedWaits
  BY DEF Init, StoppedWaits
<1>2. ASSUME EvaluationInv, StoppedWaits, [Next]_vars
      PROVE  StoppedWaits'
  <2> SUFFICES ASSUME phase' = "stopping", verdict'.by = "BallStopped"
               PROVE  StoppedWaits'
    BY DEF StoppedWaits
  <2>1. CASE UNCHANGED vars
    <3>1. UNCHANGED <<phase, paired, coalesce, wait, verdict, ball, frames, seen>>
      BY <2>1 DEF vars, batch, locals
    <3> QED
      BY <1>2, <3>1 DEF StoppedWaits, Still, LastOf, Least
  <2>2. ASSUME NEW state \in Received, NEW next \in Received, paired \/ next = state,
               NEW robots, TerminalFrame(state, next, robots)
        PROVE  StoppedWaits'
    <3>1. PICK b : b = Judged(state, next)
      OBVIOUS
    <3>2. TypeOK /\ OwnRecords /\ Aligned
      BY <1>2 DEF EvaluationInv
    <3>3. /\ Evaluated(state, next)
          /\ Triggered(loaded[Winner(b)], b)
          /\ verdict' = Verdict(loaded[Winner(b)], robots)
      BY <2>2, <3>1, <3>2, TerminalFields
    <3>4. Stopped(b)
      BY <3>3 DEF Verdict, Triggered
    <3>5. /\ Len(history) >= wait - 1 /\ Still(b) /\ StillFor(history, wait - 1)
      BY <3>2, <3>4, StoppedIs
    <3>6. /\ phase = "running" /\ ball' = b /\ frames' = Least(frames + 1, wait)
          /\ UNCHANGED <<paired, wait, coalesce>>
      BY <3>1, <3>2, <3>3, EvaluatedFields
    <3>7. /\ history \in Seq(Moments) /\ Len(history) \in Nat /\ Len(pending) \in Nat
          /\ wait \in Nat /\ wait > 0 /\ frames \in 0 .. wait
      BY <3>2, WindowTypes
    <3>8. frames' = wait
      <4>1. Len(history) + Len(pending) <= frames \/ frames = wait
        BY <3>2, <3>6 DEF OwnRecords
      <4> QED
        BY <3>5, <3>6, <3>7, <4>1 DEF Least
    <3>9. ASSUME ~paired, ~coalesce
          PROVE  AllStill(LastOf(seen', wait))
      <4>1. b = state
        BY <2>2, <3>1, <3>9 DEF Judged
      <4>2. PICK before : before = Before(state)
        OBVIOUS
      <4>3. /\ Len(seen') \in Nat /\ seen'[Len(seen')] = Still(b)
            /\ \A k \in Nat : k + 1 < Len(seen') =>
                  k < Len(before) /\ seen'[Len(seen') - (k + 1)] = before[Len(before) - k]
        BY <3>1, <3>2, <3>3, <4>2, SeenGrows DEF Grown
      <4>4. before = seen
        BY <3>9, <4>2 DEF Before
      <4>5. Follows(history, seen, Lag) /\ Lag = 0
        BY <3>2, <3>6, <3>9 DEF Aligned, Lag
      <4>6. ASSUME NEW k \in Nat, k < wait, k < Len(seen')
            PROVE  seen'[Len(seen') - k]
        <5>1. CASE k = 0
          <6>1. seen'[Len(seen') - k] = Still(b)
            BY <4>3, <5>1
          <6> QED
            BY <3>5, <6>1, Zenon
        <5>2. CASE k # 0
          <6>1. PICK j \in Nat : k = j + 1
            <7>1. k - 1 \in Nat /\ k = (k - 1) + 1
              BY <5>2
            <7> QED
              BY <7>1
          <6>2. /\ j < wait - 1 /\ j < Len(history) /\ j + 0 <= wait /\ j + 0 = j
            BY <3>5, <3>7, <4>6, <6>1
          <6>3. history[Len(history) - j] = seen[Len(seen) - j]
            BY <4>5, <6>2 DEF Follows
          <6>4. history[Len(history) - j]
            BY <3>5, <6>2, Zenon DEF StillFor
          <6>5. seen'[Len(seen') - k] = seen[Len(seen) - j]
            BY <4>3, <4>4, <4>6, <6>1
          <6> QED
            BY <6>3, <6>4, <6>5, Zenon
        <5> QED
          BY <5>1, <5>2
      <4>7. StillFor(seen', wait)
        BY <4>6, Zenon DEF StillFor
      <4>8. seen' \in Seq(Moments)
        BY <3>1, <3>2, <3>3, EvaluatedFields
      <4> QED
        BY <3>7, <4>7, <4>8, LastStill
    <3>10. Still(ball)' <=> Still(b)
      BY <3>6, Zenon DEF Still
    <3>11. ~paired' /\ ~coalesce' => ~paired /\ ~coalesce
      BY <3>6, Zenon
    <3>12. ~paired' /\ ~coalesce' =>
              \A i \in DOMAIN LastOf(seen', wait') : LastOf(seen', wait')[i]
      BY <3>6, <3>9, <3>11, Zenon DEF AllStill
    <3> QED
      BY <3>5, <3>6, <3>8, <3>10, <3>12, Zenon DEF StoppedWaits
  <2> QED
    BY <1>2, <2>1, <2>2, VerdictStands DEF EvaluationInv
<1> QED
  BY <1>1, <1>2, AlwaysEvaluated, PTL DEF Spec

(***************************************************************************)
(* An episode does not go on over a ball that lies still                   *)
(* (ball_stopped.py:16-24): for every wait of 2 or more that the window    *)
(* can hold, with records as frames come, the loop never goes on once it   *)
(* has seen the ball still for the whole wait and, where frames carry a    *)
(* next_state, a moment more.  With a wait of 1 the slice takes the whole  *)
(* window and this is false: the run of WaitIsEnough refutes it.           *)
(***************************************************************************)
THEOREM StillBallNoticed == Spec => []StillNoticed
<1>1. Init => StillNoticed
  BY DEF Init, StillNoticed
<1>2. ASSUME EvaluationInv, StillNoticed, [Next]_vars
      PROVE  StillNoticed'
  <2>1. TypeOK /\ Rest
    BY <1>2 DEF EvaluationInv
  <2>2. ASSUME NEW state \in Received, NEW next \in Received, NEW held,
               RunningFrame(state, next, held)
        PROVE  StillNoticed'
    <3>1. Evaluated(state, next) /\ Winner(Judged(state, next)) = 0
      BY <2>2 DEF RunningFrame
    <3>2. UNCHANGED <<loaded, wait>>
      BY <3>1 DEF Evaluated, batch
    <3>3. Loads("BallStopped") => ~Stopped(Judged(state, next))
      BY <2>1, <3>1, NotExpired
    <3>4. wait # 1 /\ Rested' => Stopped(Judged(state, next))
      BY <1>2, <3>1, RestedIsStopped
    <3>5. Loads("BallStopped")' <=> Loads("BallStopped")
      BY <3>2 DEF Loads
    <3> QED
      BY <3>2, <3>3, <3>4, <3>5 DEF StillNoticed
  <2>3. CASE Tick \/ UNCHANGED vars
    <3>1. UNCHANGED <<phase, paired, loaded, wait, coalesce, seen>>
      BY <2>3 DEF Tick, batch, vars, locals
    <3>2. Rested' <=> Rested
      BY <3>1 DEF Rested, LastOf
    <3> QED
      BY <1>2, <3>1, <3>2 DEF StillNoticed, Loads
  <2>4. CASE Arm
    <3>1. Len(seen') = 0 /\ UNCHANGED <<paired, wait>> /\ wait \in Nat /\ wait > 0
      BY <2>1, <2>4, WindowTypes DEF Arm, Rest, locals, batch
    <3>2. ~(Len(seen') >= (IF paired' THEN wait' + 1 ELSE wait'))
      BY <3>1
    <3> QED
      BY <3>2 DEF StillNoticed, Rested
  <2>5. CASE LoadBatch \/ FrameTimeout \/ StopEpisode
    BY <2>5 DEF LoadBatch, FrameTimeout, StopEpisode, StillNoticed
  <2>6. CASE Frame
    <3>1. PICK state \in Received, next \in Received :
             \/ \E held \in BOOLEAN : RunningFrame(state, next, held)
             \/ \E robots \in RobotSets : TerminalFrame(state, next, robots)
      BY <2>6, FrameIs
    <3>2. CASE \E robots \in RobotSets : TerminalFrame(state, next, robots)
      BY <3>2 DEF TerminalFrame, StillNoticed
    <3> QED
      BY <2>2, <3>1, <3>2
  <2> QED
    BY <1>2, <2>3, <2>4, <2>5, <2>6 DEF Next
<1> QED
  BY <1>1, <1>2, AlwaysEvaluated, PTL DEF Spec
=============================================================================
