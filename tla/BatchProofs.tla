------------------------------ MODULE BatchProofs ------------------------------
(***************************************************************************)
(* The main thread for any number of commands, episodes and frames and any *)
(* window of history: what an episode records, is held to and is judged by *)
(* is its own, what the client is handed is finished, and NeonFC plays on  *)
(* between commands only where the code says so.                           *)
(***************************************************************************)
EXTENDS Batch, FiniteSetTheorems, SequenceTheorems, TLAPS

(***************************************************************************)
(* The Recorder's methods, one field at a time.                            *)
(***************************************************************************)
File == [seed : Nat, lines : Seq(Line)]

RecorderType == [files : Seq(File), current : Nat, history : Seq(Line),
                 closed : Seq(Nat), seeds : Seq(Nat)]

\* a new Recorder has no file
LEMMA NewFields ==
    /\ NewRecorder \in RecorderType
    /\ NewRecorder.files = <<>> /\ NewRecorder.current = NoFile
    /\ NewRecorder.history = <<>> /\ NewRecorder.closed = <<>>
BY DEF NewRecorder, RecorderType, NoFile

\* end_scenario closes the file and empties the window
LEMMA EndFields ==
    ASSUME NEW r \in RecorderType
    PROVE  /\ EndScenario(r) \in RecorderType
           /\ EndScenario(r).files = r.files /\ EndScenario(r).current = NoFile
           /\ EndScenario(r).history = <<>>
           /\ EndScenario(r).closed =
                IF r.current = NoFile THEN r.closed ELSE Append(r.closed, r.current)
<1>1. (IF r.current = NoFile THEN r.closed ELSE Append(r.closed, r.current)) \in Seq(Nat)
  BY DEF RecorderType
<1>2. <<>> \in Seq(Line)
  OBVIOUS
<1> QED
  BY <1>1, <1>2 DEF EndScenario, RecorderType, NoFile

\* a scenario that is open is ended first
LEMMA EndOpenFields ==
    ASSUME NEW r \in RecorderType
    PROVE  /\ EndOpenScenario(r) \in RecorderType
           /\ EndOpenScenario(r).files = r.files /\ EndOpenScenario(r).current = NoFile
           /\ EndOpenScenario(r).history = IF r.current = NoFile THEN r.history ELSE <<>>
           /\ EndOpenScenario(r).closed =
                IF r.current = NoFile THEN r.closed ELSE Append(r.closed, r.current)
BY EndFields DEF EndOpenScenario

\* start_scenario opens a new file behind the others
LEMMA StartFields ==
    ASSUME NEW r \in RecorderType, NEW seed \in Nat
    PROVE  /\ StartScenario(r, seed) \in RecorderType
           /\ Len(StartScenario(r, seed).files) = Len(r.files) + 1
           /\ StartScenario(r, seed).files[Len(r.files) + 1] = [seed |-> seed, lines |-> <<>>]
           /\ \A i \in 1..Len(r.files) : StartScenario(r, seed).files[i] = r.files[i]
           /\ StartScenario(r, seed).current = Len(r.files) + 1
           /\ StartScenario(r, seed).history = IF r.current = NoFile THEN r.history ELSE <<>>
           /\ StartScenario(r, seed).closed =
                IF r.current = NoFile THEN r.closed ELSE Append(r.closed, r.current)
<1> DEFINE ended == EndOpenScenario(r)
           files == Append(ended.files, [seed |-> seed, lines |-> <<>>])
           seeds == IF ended.seeds = <<>> THEN <<seed, seed>> ELSE <<ended.seeds[1], seed>>
<1>1. ended \in RecorderType /\ ended.files = r.files
  BY EndOpenFields
<1>2. /\ files \in Seq(File) /\ Len(files) = Len(r.files) + 1
      /\ files[Len(r.files) + 1] = [seed |-> seed, lines |-> <<>>]
      /\ \A i \in 1..Len(r.files) : files[i] = r.files[i]
  <2>1. [seed |-> seed, lines |-> <<>>] \in File
    BY DEF File
  <2>2. r.files \in Seq(File)
    BY DEF RecorderType
  <2> QED
    BY <1>1, <2>1, <2>2, AppendProperties
<1>3. seeds \in Seq(Nat)
  <2>1. ended.seeds # <<>> => ended.seeds[1] \in Nat
    BY <1>1 DEF RecorderType
  <2> QED
    BY <2>1
<1>4. Len(ended.files) + 1 \in Nat
  BY <1>1 DEF RecorderType
<1>5. StartScenario(r, seed) = [ended EXCEPT !.files = files,
                                             !.current = Len(ended.files) + 1,
                                             !.seeds = seeds]
  BY DEF StartScenario
<1> HIDE DEF ended, files, seeds
<1>6. /\ StartScenario(r, seed) \in RecorderType
      /\ StartScenario(r, seed).files = files
      /\ StartScenario(r, seed).current = Len(ended.files) + 1
      /\ StartScenario(r, seed).history = ended.history
      /\ StartScenario(r, seed).closed = ended.closed
  BY <1>1, <1>2, <1>3, <1>4, <1>5 DEF RecorderType
<1> QED
  BY <1>1, <1>2, <1>6, EndOpenFields DEF ended

\* the window is bounded and takes lines only
LEMMA SlideType ==
    ASSUME NEW window \in Seq(Line), NEW line \in Line
    PROVE  Slide(window, line) \in Seq(Line)
<1>1. CASE Len(window) < MaxHistory
  BY <1>1 DEF Slide
<1>2. CASE ~(Len(window) < MaxHistory)
  <2>1. window # <<>>
    BY <1>2, HistoryAssumption
  <2>2. Tail(window) \in Seq(Line)
    BY <2>1
  <2> QED
    BY <1>2, <2>2 DEF Slide
<1> QED
  BY <1>1, <1>2

\* put appends to the current file alone and slides the window
LEMMA PutFields ==
    ASSUME NEW r \in RecorderType, NEW line \in Line, r.current \in 1..Len(r.files)
    PROVE  /\ Put(r, line) \in RecorderType
           /\ Len(Put(r, line).files) = Len(r.files)
           /\ \A i \in 1..Len(r.files) :
                 /\ Put(r, line).files[i].seed = r.files[i].seed
                 /\ Put(r, line).files[i].lines =
                       IF i = r.current THEN Append(r.files[i].lines, line)
                       ELSE r.files[i].lines
           /\ Put(r, line).current = r.current
           /\ Put(r, line).history = Slide(r.history, line)
           /\ Put(r, line).closed = r.closed
<1> DEFINE file == r.files[r.current]
           longer == [file EXCEPT !.lines = Append(file.lines, line)]
           files == [r.files EXCEPT ![r.current] = longer]
<1>1. r.files \in Seq(File) /\ r.history \in Seq(Line) /\ file \in File /\ r.current # NoFile
  BY DEF RecorderType, NoFile
<1>2. /\ longer \in File /\ longer.seed = file.seed
      /\ longer.lines = Append(file.lines, line)
  <2>1. Append(file.lines, line) \in Seq(Line)
    BY <1>1 DEF File
  <2> QED
    BY <1>1, <2>1 DEF File
<1> HIDE DEF longer
<1>3. /\ files \in Seq(File) /\ Len(files) = Len(r.files)
      /\ \A i \in 1..Len(r.files) : files[i] = IF i = r.current THEN longer ELSE r.files[i]
  BY <1>1, <1>2, ExceptSeq
<1>4. Slide(r.history, line) \in Seq(Line)
  BY <1>1, SlideType
<1>5. files = Written(r.files, r.current, line)
  BY DEF Written, longer
<1> HIDE DEF files
<1>6. Put(r, line) = [r EXCEPT !.files = files, !.history = Slide(r.history, line)]
  BY <1>1, <1>5 DEF Put
<1>7. /\ Put(r, line) \in RecorderType /\ Put(r, line).files = files
      /\ Put(r, line).current = r.current /\ Put(r, line).closed = r.closed
      /\ Put(r, line).history = Slide(r.history, line)
  BY <1>3, <1>4, <1>6 DEF RecorderType
<1> QED
  BY <1>2, <1>3, <1>7

\* the summary counts files
LEMMA SummaryType ==
    ASSUME NEW r \in RecorderType
    PROVE  Summary(r) \in [tests_ran : Nat, tests_passed : Nat, seeds : Seq(Nat)]
<1>1. DOMAIN r.closed = 1..Len(r.closed) /\ Len(r.closed) \in Nat /\ r.seeds \in Seq(Nat)
  BY DEF RecorderType
<1>2. IsFiniteSet(1..Len(r.closed))
  BY <1>1, FS_Interval
<1>3. Scored(r) \subseteq 1..Len(r.closed) /\ Passed(r) \subseteq 1..Len(r.closed)
  BY <1>1 DEF Scored, Passed
<1>4. Cardinality(Scored(r)) \in Nat /\ Cardinality(Passed(r)) \in Nat
  BY <1>2, <1>3, FS_Subset, FS_CardinalityType
<1> QED
  BY <1>1, <1>4 DEF Summary

-----------------------------------------------------------------------------
(***************************************************************************)
(* Types, and the count of episodes: one that is under way is within the   *)
(* batch, so the count of those done never passes its size.                *)
(***************************************************************************)
Underway == {"setup", "settle", "play", "start", "loop", "stop"}

Within == pc \in Underway => index < size

\* an episode that is looped has a file, and an open file is the last one
Opened ==
    /\ rec.current # NoFile => rec.current = Len(rec.files)
    /\ pc \in {"loop", "stop"} => rec.current # NoFile

Known == TypeOK /\ Within /\ Opened

\* every step is one of these
LEMMA BatchSteps ==
    ASSUME [Next]_vars
    PROVE  \/ UNCHANGED vars
           \/ MakeFrame \/ Deliver \/ LoseFrames \/ BreakControl
           \/ TestShutdown \/ Accept \/ AcceptNothing
           \/ Receive \/ BuildContext \/ Connect \/ SendMetadataAndLoad \/ CommandRaises
           \/ NextEpisode \/ Setup \/ ClearAndReset \/ Play \/ Start
           \/ \E worth \in Worths : RunningFrame(worth)
           \/ \E worth \in Worths : Terminate(worth)
           \/ \E worth \in Worths : TimeLimitExpires(worth)
           \/ LeaveLoop
           \/ SetupRaises \/ PlayRaises \/ StartRaises \/ FrameTimeout \/ FrameRaises
           \/ StopEpisode \/ Summarize \/ Respond
           \/ CloseCalled \/ Interrupt
BY DEF Next, Environment, Serve

\* a shutdown is never taken back
LEMMA ShutdownStays ==
    ASSUME [Next]_vars
    PROVE  shutdown => shutdown'
BY BatchSteps, Zenon DEF MakeFrame, Deliver, LoseFrames, BreakControl, TestShutdown, Accept,
   AcceptNothing, Receive, BuildContext, Connect, SendMetadataAndLoad, CommandRaises,
   NextEpisode, Setup, ClearAndReset, Play, Start, RunningFrame, Terminate, TimeLimitExpires,
   GiveUp, StartRaises, StopEpisode, LeaveLoop, SetupRaises, PlayRaises,
   FrameTimeout, FrameRaises, Summarize, Respond, CloseCalled, Interrupt, vars, runner

\* a step that leaves the Recorder alone neither opens a file nor ends one
Quiet ==
    /\ UNCHANGED <<rec, handed>>
    /\ shutdown => shutdown'
    /\ pc' = "loop" => pc = "loop" /\ UNCHANGED era
    /\ pc' = "stop" => pc = "stop" \/ (pc = "loop" /\ shutdown')

\* what a step can do to the Recorder
LEMMA RecorderSteps ==
    ASSUME [Next]_vars
    PROVE  \/ Quiet
           \/ BuildContext \/ Start \/ StartRaises \/ StopEpisode
           \/ \E worth \in Worths : RunningFrame(worth)
           \/ \E worth \in Worths : Terminate(worth)
           \/ \E worth \in Worths : TimeLimitExpires(worth)
<1> DEFINE writes == \/ BuildContext \/ Start \/ StartRaises \/ StopEpisode
                     \/ \E worth \in Worths : RunningFrame(worth)
                     \/ \E worth \in Worths : Terminate(worth)
                     \/ \E worth \in Worths : TimeLimitExpires(worth)
<1>1. ~writes => UNCHANGED <<rec, handed>>
  BY BatchSteps DEF MakeFrame, Deliver, LoseFrames, BreakControl, TestShutdown, Accept,
     AcceptNothing, Receive, Connect, SendMetadataAndLoad, CommandRaises, NextEpisode, Setup,
     ClearAndReset, Play, LeaveLoop, SetupRaises, PlayRaises, FrameTimeout, FrameRaises,
     Summarize, Respond, CloseCalled, Interrupt, vars, runner
<1>2. shutdown => shutdown'
  BY ShutdownStays
<1>3. ~writes => /\ pc' = "loop" => pc = "loop" /\ UNCHANGED era
                 /\ pc' = "stop" => pc = "stop" \/ (pc = "loop" /\ shutdown)
  BY BatchSteps DEF MakeFrame, Deliver, LoseFrames, BreakControl, TestShutdown, Accept,
     AcceptNothing, Receive, Connect, SendMetadataAndLoad, CommandRaises, NextEpisode, Setup,
     ClearAndReset, Play, LeaveLoop, SetupRaises, PlayRaises, FrameTimeout, FrameRaises,
     Summarize, Respond, CloseCalled, Interrupt, vars, runner, world, GiveUp, Stopped
<1> QED
  BY <1>1, <1>2, <1>3 DEF Quiet

\* the line a frame becomes
LEMMA LineType ==
    ASSUME TypeOK, buffer # <<>>, NEW worth \in Worths, NEW done \in BOOLEAN
    PROVE  [era |-> Head(buffer), worth |-> worth, done |-> done] \in Line
<1>1. Head(buffer) \in Nat
  <2>1. buffer \in Seq(Nat)
    BY DEF TypeOK
  <2> QED
    BY <2>1
<1> QED
  BY <1>1, BatchAssumption DEF Line

Puts(line) ==
    /\ pc = "loop" /\ ~shutdown /\ pc' \in {"loop", "stop"}
    /\ buffer # <<>> /\ line.era = Head(buffer)
    /\ line.done = (pc' = "stop")
    /\ UNCHANGED <<shutdown, handed, era>>
    /\ rec' = Put(rec, line)

\* a frame that is evaluated is put, as the episode's end or before it
LEMMA FramePuts ==
    ASSUME Known, NEW worth \in Worths,
           RunningFrame(worth) \/ Terminate(worth) \/ TimeLimitExpires(worth)
    PROVE  \E line \in Line : Puts(line)
<1>1. CASE RunningFrame(worth)
  <2> DEFINE line == [era |-> Head(buffer), worth |-> worth, done |-> FALSE]
  <2>1. /\ pc = "loop" /\ ~shutdown /\ pc' = pc /\ buffer # <<>> /\ rec' = Put(rec, line)
        /\ UNCHANGED <<shutdown, handed, era>>
    BY <1>1 DEF RunningFrame, PullFrame, Record, world
  <2>2. line \in Line
    BY <2>1, LineType DEF Known
  <2>3. line.era = Head(buffer) /\ line.done = FALSE
    OBVIOUS
  <2> HIDE DEF line
  <2> QED
    BY <2>1, <2>2, <2>3 DEF Puts
<1>2. CASE Terminate(worth) \/ TimeLimitExpires(worth)
  <2> DEFINE line == [era |-> Head(buffer), worth |-> worth, done |-> TRUE]
  <2>1. /\ pc = "loop" /\ ~shutdown /\ pc' = "stop" /\ buffer # <<>> /\ rec' = Put(rec, line)
        /\ UNCHANGED <<shutdown, handed, era>>
    BY <1>2 DEF Terminate, TimeLimitExpires, PullFrame, Record, world
  <2>2. line \in Line
    BY <2>1, LineType DEF Known
  <2>3. line.era = Head(buffer) /\ line.done = TRUE
    OBVIOUS
  <2> HIDE DEF line
  <2> QED
    BY <2>1, <2>2, <2>3 DEF Puts
<1> QED
  BY <1>1, <1>2

\* the Recorder has a file to put to
LEMMA CurrentFile ==
    ASSUME Known, pc \in {"loop", "stop"}
    PROVE  /\ rec \in RecorderType /\ rec.files \in Seq(File) /\ Len(rec.files) \in Nat
           /\ rec.current \in 1..Len(rec.files) /\ rec.current = Len(rec.files)
           /\ rec.files[rec.current].lines \in Seq(Line)
<1>1. rec \in RecorderType /\ rec.current \in Nat /\ rec.files \in Seq(File)
  BY DEF Known, TypeOK, RecorderType, File
<1>2. rec.current # 0 /\ rec.current = Len(rec.files)
  BY DEF Known, Opened, NoFile
<1>3. rec.current \in 1..Len(rec.files)
  BY <1>1, <1>2
<1>4. rec.files[rec.current] \in File
  BY <1>1, <1>3
<1> QED
  BY <1>1, <1>2, <1>3, <1>4 DEF File, RecorderType

\* the Recorder stays one, and its open file the last one
LEMMA RecorderKnown ==
    ASSUME Known, [Next]_vars
    PROVE  rec' \in RecorderType /\ Opened'
<1>1. rec \in RecorderType /\ era \in Nat /\ Opened
  BY DEF Known, TypeOK, RecorderType, File
<1>2. CASE Quiet
  BY <1>1, <1>2 DEF Quiet, Opened
<1>3. CASE BuildContext
  BY <1>3, NewFields DEF BuildContext, Opened
<1>4. CASE Start
  <2>1. rec' = StartScenario(rec, era)
    BY <1>4 DEF Start
  <2>2. rec' \in RecorderType /\ rec'.current = Len(rec.files) + 1
    BY <1>1, <2>1, StartFields
  <2>3. Len(rec'.files) = Len(rec.files) + 1
    BY <1>1, <2>1, StartFields
  <2>4. Len(rec.files) \in Nat
    BY <1>1 DEF RecorderType
  <2> QED
    BY <2>2, <2>3, <2>4 DEF Opened, NoFile
<1>5. CASE StartRaises
  BY <1>1, <1>5, EndOpenFields DEF StartRaises, GiveUp, Opened
<1>6. CASE StopEpisode
  BY <1>1, <1>6, EndFields DEF StopEpisode, Opened
<1>7. ASSUME NEW line \in Line, Puts(line)
      PROVE  rec' \in RecorderType /\ Opened'
  <2>1. /\ rec.current \in 1..Len(rec.files) /\ rec.current = Len(rec.files)
        /\ Len(rec.files) \in Nat
    BY <1>7, CurrentFile DEF Puts
  <2>2. rec' \in RecorderType /\ rec'.current = rec.current /\ Len(rec'.files) = Len(rec.files)
    BY <1>1, <1>7, <2>1, PutFields DEF Puts
  <2> QED
    BY <2>1, <2>2 DEF Opened, NoFile
<1> QED
  BY <1>2, <1>3, <1>4, <1>5, <1>6, <1>7, RecorderSteps, FramePuts

\* the values a step may give to what is not a sequence
LEMMA ScalarsKnown ==
    ASSUME Known, [Next]_vars
    PROVE  /\ pc' \in {"serve", "accept", "receive", "build", "connect", "metadata",
                      "episode", "setup", "settle", "play", "start", "loop", "stop",
                      "summarize", "respond"} \cup Stopped
           /\ shutdown' \in BOOLEAN
           /\ control' \in {"down", "up", "broken"} /\ playing' \in BOOLEAN
           /\ ending' \in {"none", "running", "terminated", "interrupted", "failed",
                          "stop lost"}
<1> USE DEF MakeFrame, Deliver, LoseFrames, BreakControl, TestShutdown, Accept, AcceptNothing,
   Receive, BuildContext, Connect, SendMetadataAndLoad, CommandRaises, NextEpisode, Setup,
   ClearAndReset, Play, Start, RunningFrame, Terminate, TimeLimitExpires, PullFrame, GiveUp,
   StartRaises, StopEpisode, LeaveLoop, SetupRaises, PlayRaises, FrameTimeout, FrameRaises,
   Summarize, Respond, CloseCalled, Interrupt, vars, runner, Stopped, Send, SendRaises
<1>1. /\ pc \in {"serve", "accept", "receive", "build", "connect", "metadata",
                 "episode", "setup", "settle", "play", "start", "loop", "stop",
                 "summarize", "respond"} \cup Stopped
      /\ shutdown \in BOOLEAN
      /\ control \in {"down", "up", "broken"} /\ playing \in BOOLEAN
      /\ ending \in {"none", "running", "terminated", "interrupted", "failed",
                     "stop lost"}
  BY DEF Known, TypeOK
<1>2. pc' \in {"serve", "accept", "receive", "build", "connect", "metadata",
              "episode", "setup", "settle", "play", "start", "loop", "stop",
              "summarize", "respond"} \cup Stopped
  BY <1>1, BatchSteps
<1>3. shutdown' \in BOOLEAN
  BY <1>1, BatchSteps
<1>4. control' \in {"down", "up", "broken"} /\ playing' \in BOOLEAN
  BY <1>1, BatchSteps
<1>5. ending' \in {"none", "running", "terminated", "interrupted", "failed", "stop lost"}
  BY <1>1, BatchSteps
<1> QED
  BY <1>2, <1>3, <1>4, <1>5

\* the counters stay within their bounds
LEMMA CountersKnown ==
    ASSUME Known, [Next]_vars
    PROVE  /\ served' \in 0..MaxBatches /\ size' \in 1..MaxEpisodes
           /\ index' \in 0..MaxEpisodes
           /\ timer' \in Nat /\ era' \in Nat /\ made' \in 0..MaxFrames
           /\ Within'
<1> USE DEF MakeFrame, Deliver, LoseFrames, BreakControl, TestShutdown, Accept, AcceptNothing,
   Receive, BuildContext, Connect, SendMetadataAndLoad, CommandRaises, NextEpisode, Setup,
   ClearAndReset, Play, Start, RunningFrame, Terminate, TimeLimitExpires, PullFrame, GiveUp,
   StartRaises, StopEpisode, LeaveLoop, SetupRaises, PlayRaises, FrameTimeout, FrameRaises,
   Summarize, Respond, CloseCalled, Interrupt, vars, runner, world, Stopped, TimerStarted,
   LoadAssessments, ResetAssessments
<1>1. /\ served \in 0..MaxBatches /\ size \in 1..MaxEpisodes /\ index \in 0..MaxEpisodes
      /\ timer \in Nat /\ era \in Nat /\ made \in 0..MaxFrames /\ Within
  BY DEF Known, TypeOK
<1>2. MaxBatches \in Nat /\ MaxEpisodes \in Nat \ {0} /\ MaxFrames \in Nat
  BY BatchAssumption
<1>3. served' \in 0..MaxBatches
  <2>1. served' = served \/ (served < MaxBatches /\ served' = served + 1)
    BY BatchSteps
  <2> QED
    BY <1>1, <1>2, <2>1
<1>4. size' \in 1..MaxEpisodes
  BY <1>1, BatchSteps
<1>5. index' \in 0..MaxEpisodes
  <2>1. index' = index \/ index' = 0 \/ (index' = index + 1 /\ pc \in Underway)
    BY BatchSteps DEF Underway
  <2> QED
    BY <1>1, <1>2, <2>1 DEF Within
<1>6. timer' \in Nat
  <2>1. timer' \in {timer, 0, era}
    BY BatchSteps
  <2> QED
    BY <1>1, <2>1
<1>7. era' \in Nat
  <2>1. era' = era \/ era' = era + 1
    BY BatchSteps
  <2> QED
    BY <1>1, <2>1
<1>8. made' \in 0..MaxFrames
  <2>1. made' = made \/ made' = 0 \/ (made < MaxFrames /\ made' = made + 1)
    BY BatchSteps
  <2> QED
    BY <1>1, <1>2, <2>1
<1>9. Within'
  <2>1. pc' \in Underway =>
           /\ index' = index /\ size' = size
           /\ pc \in Underway \/ index < size
    BY BatchSteps DEF Underway
  <2> QED
    BY <1>1, <2>1 DEF Within
<1> QED
  BY <1>3, <1>4, <1>5, <1>6, <1>7, <1>8, <1>9

\* what a step can do to frames, files handed and answers
LEMMA SequenceSteps ==
    ASSUME [Next]_vars
    PROVE  /\ handed' = handed \/ handed' = <<>> \/ handed' = Append(handed, rec.current)
           /\ \/ link' = link \/ link' = <<>> \/ link' = Append(link, era)
              \/ link # <<>> /\ link' = Tail(link)
           /\ \/ buffer' = buffer \/ buffer' = <<>>
              \/ link # <<>> /\ buffer' = Append(buffer, Head(link))
              \/ buffer # <<>> /\ buffer' = Tail(buffer)
           /\ \/ reply' \in {reply, NoReply, ErrorReply}
              \/ reply' = [status |-> "success", history_files |-> handed,
                           summary |-> Summary(rec)]
<1> USE BatchSteps DEF MakeFrame, Deliver, LoseFrames, BreakControl, TestShutdown, Accept,
   AcceptNothing, Receive, BuildContext, Connect, SendMetadataAndLoad, CommandRaises,
   NextEpisode, Setup, ClearAndReset, Play, Start, RunningFrame, Terminate, TimeLimitExpires,
   PullFrame, GiveUp, StartRaises, StopEpisode, LeaveLoop, SetupRaises, PlayRaises,
   FrameTimeout, FrameRaises, Summarize, Respond, CloseCalled, Interrupt, vars, runner, world
<1>1. handed' = handed \/ handed' = <<>> \/ handed' = Append(handed, rec.current)
  OBVIOUS
<1>2. \/ link' = link \/ link' = <<>> \/ link' = Append(link, era)
      \/ link # <<>> /\ link' = Tail(link)
  OBVIOUS
<1>3. \/ buffer' = buffer \/ buffer' = <<>>
      \/ link # <<>> /\ buffer' = Append(buffer, Head(link))
      \/ buffer # <<>> /\ buffer' = Tail(buffer)
  OBVIOUS
<1>4. \/ reply' \in {reply, NoReply, ErrorReply}
      \/ reply' = [status |-> "success", history_files |-> handed, summary |-> Summary(rec)]
  OBVIOUS
<1> QED
  BY ONLY <1>1, <1>2, <1>3, <1>4

\* a queue of numbers stays one
LEMMA QueueType ==
    ASSUME NEW queue \in Seq(Nat), NEW e \in Nat
    PROVE  /\ <<>> \in Seq(Nat) /\ Append(queue, e) \in Seq(Nat)
           /\ queue # <<>> => Head(queue) \in Nat /\ Tail(queue) \in Seq(Nat)
OBVIOUS

\* frames, files handed and answers
LEMMA SequencesKnown ==
    ASSUME Known, [Next]_vars
    PROVE  /\ handed' \in Seq(Nat) /\ link' \in Seq(Nat) /\ buffer' \in Seq(Nat)
           /\ reply' \in {NoReply, ErrorReply}
                \cup [status : {"success"}, history_files : Seq(Nat),
                      summary : [tests_ran : Nat, tests_passed : Nat, seeds : Seq(Nat)]]
<1>1. handed \in Seq(Nat) /\ link \in Seq(Nat) /\ buffer \in Seq(Nat) /\ era \in Nat
  BY DEF Known, TypeOK
<1>2. rec \in RecorderType /\ rec.current \in Nat
  BY DEF Known, TypeOK, RecorderType, File
<1>3. handed' \in Seq(Nat)
  <2>1. handed' = handed \/ handed' = <<>> \/ handed' = Append(handed, rec.current)
    BY SequenceSteps
  <2>2. rec.current \in Nat
    BY <1>2
  <2>3. Append(handed, rec.current) \in Seq(Nat) /\ <<>> \in Seq(Nat)
    BY <1>1, <2>2, QueueType
  <2> QED
    BY <1>1, <2>1, <2>3, Zenon
<1>4. link' \in Seq(Nat)
  <2>1. \/ link' = link \/ link' = <<>> \/ link' = Append(link, era)
        \/ link # <<>> /\ link' = Tail(link)
    BY SequenceSteps
  <2>2. /\ Append(link, era) \in Seq(Nat) /\ <<>> \in Seq(Nat)
        /\ link # <<>> => Tail(link) \in Seq(Nat)
    BY <1>1, QueueType
  <2> QED
    BY <1>1, <2>1, <2>2, Zenon
<1>5. buffer' \in Seq(Nat)
  <2>1. \/ buffer' = buffer \/ buffer' = <<>>
        \/ link # <<>> /\ buffer' = Append(buffer, Head(link))
        \/ buffer # <<>> /\ buffer' = Tail(buffer)
    BY SequenceSteps
  <2>2. link # <<>> => Append(buffer, Head(link)) \in Seq(Nat)
    <3>1. link # <<>> => Head(link) \in Nat
      BY <1>1, QueueType
    <3> QED
      BY <1>1, <3>1, QueueType
  <2>3. <<>> \in Seq(Nat) /\ (buffer # <<>> => Tail(buffer) \in Seq(Nat))
    BY <1>1, QueueType
  <2> QED
    BY <1>1, <2>1, <2>2, <2>3, Zenon
<1>6. reply' \in {NoReply, ErrorReply}
          \cup [status : {"success"}, history_files : Seq(Nat),
                summary : [tests_ran : Nat, tests_passed : Nat, seeds : Seq(Nat)]]
  <2>1. \/ reply' \in {reply, NoReply, ErrorReply}
        \/ reply' = [status |-> "success", history_files |-> handed, summary |-> Summary(rec)]
    BY SequenceSteps
  <2>2. reply \in {NoReply, ErrorReply}
            \cup [status : {"success"}, history_files : Seq(Nat),
                  summary : [tests_ran : Nat, tests_passed : Nat, seeds : Seq(Nat)]]
    BY DEF Known, TypeOK
  <2>3. Summary(rec) \in [tests_ran : Nat, tests_passed : Nat, seeds : Seq(Nat)]
    BY <1>2, SummaryType
  <2> QED
    BY <1>1, <2>1, <2>2, <2>3
<1> QED
  BY <1>3, <1>4, <1>5, <1>6

\* Known holds of every state of the runner
LEMMA AlwaysKnown == Spec => []Known
<1>1. Init => Known
  <2> SUFFICES ASSUME Init
               PROVE  Known
    OBVIOUS
  <2>1. rec \in RecorderType /\ rec.current = NoFile /\ Opened
    BY NewFields DEF Init, Opened
  <2>2. /\ size \in 1..MaxEpisodes /\ served \in 0..MaxBatches /\ index \in 0..MaxEpisodes
        /\ made \in 0..MaxFrames
    <3>1. MaxBatches \in Nat /\ MaxEpisodes \in Nat \ {0} /\ MaxFrames \in Nat
      BY BatchAssumption
    <3> QED
      BY <3>1 DEF Init
  <2>3. pc = "serve" /\ shutdown = FALSE /\ handed = <<>> /\ reply = NoReply /\ timer = 0
        /\ control = "down" /\ playing = FALSE /\ era = 0 /\ link = <<>> /\ buffer = <<>>
        /\ ending = "none"
    BY DEF Init
  <2>4. handed \in Seq(Nat) /\ link \in Seq(Nat) /\ buffer \in Seq(Nat)
    BY <2>3
  <2>5. Within
    BY <2>3 DEF Within, Underway
  <2>6. TypeOK
    BY <2>1, <2>2, <2>3, <2>4 DEF TypeOK, RecorderType, File
  <2> QED
    BY <2>1, <2>5, <2>6 DEF Known
<1>2. Known /\ [Next]_vars => Known'
  <2> SUFFICES ASSUME Known, [Next]_vars
               PROVE  Known'
    OBVIOUS
  <2> QED
    BY RecorderKnown, ScalarsKnown, CountersKnown, SequencesKnown
       DEF Known, TypeOK, RecorderType, File
<1> QED
  BY <1>1, <1>2, PTL DEF Spec

(***************************************************************************)
(* The variables of the main thread keep their types: in particular no     *)
(* batch runs more episodes than it was asked for (runner.py:102).         *)
(***************************************************************************)
THEOREM BatchTypeCorrect == Spec => []TypeOK
<1>1. Known => TypeOK
  BY DEF Known
<1> QED
  BY <1>1, AlwaysKnown, PTL

-----------------------------------------------------------------------------
(***************************************************************************)
(* Frames.  From the clear to the end of the loop everything on its way to *)
(* the buffer was made in this episode, and so was the time the limit is   *)
(* counted from.  After a shutdown the buffer thread is gone and what is   *)
(* on the link does not matter.                                            *)
(***************************************************************************)
Made(queue, e) == \A i \in 1..Len(queue) : queue[i] = e

Armed == {"play", "start", "loop"}

OwnFrames ==
    pc \in Armed =>
        Made(buffer, era) /\ (shutdown \/ Made(link, era)) /\ timer \in {0, era}

\* frames of one episode stay so when one joins or leaves
LEMMA MadeQueue ==
    ASSUME NEW queue \in Seq(Nat), NEW e \in Nat, Made(queue, e)
    PROVE  /\ Made(<<>>, e) /\ Made(Append(queue, e), e)
           /\ queue # <<>> => Head(queue) = e /\ Made(Tail(queue), e)
<1>1. Made(<<>>, e)
  BY DEF Made
<1>2. Made(Append(queue, e), e)
  BY AppendProperties DEF Made
<1>3. queue # <<>> => Head(queue) = e /\ Made(Tail(queue), e)
  BY DEF Made
<1> QED
  BY <1>1, <1>2, <1>3

\* what happens to frames between the clear and the end of the loop
LEMMA FrameSteps ==
    ASSUME [Next]_vars, pc' \in Armed, ~ClearAndReset
    PROVE  /\ pc \in Armed /\ era' = era /\ timer' \in {timer, era}
           /\ shutdown => shutdown'
           /\ \/ UNCHANGED <<link, buffer>>
              \/ buffer' = buffer /\ link' \in {<<>>, Append(link, era)}
              \/ /\ link # <<>> /\ ~shutdown
                 /\ buffer' = Append(buffer, Head(link)) /\ link' = Tail(link)
              \/ link' = link /\ buffer # <<>> /\ buffer' = Tail(buffer)
<1> USE BatchSteps DEF Armed, MakeFrame, Deliver, LoseFrames, BreakControl, TestShutdown,
   Accept, AcceptNothing, Receive, BuildContext, Connect, SendMetadataAndLoad, CommandRaises,
   NextEpisode, Setup, Play, Start, RunningFrame, Terminate, TimeLimitExpires,
   PullFrame, GiveUp, StartRaises, StopEpisode, LeaveLoop, SetupRaises, PlayRaises,
   FrameTimeout, FrameRaises, Summarize, Respond, CloseCalled, Interrupt, vars, runner, world,
   Stopped, TimerStarted
<1>1. pc \in Armed /\ era' = era /\ timer' \in {timer, era}
  OBVIOUS
<1>2. shutdown => shutdown'
  BY ShutdownStays
<1>3. \/ UNCHANGED <<link, buffer>>
      \/ buffer' = buffer /\ link' \in {<<>>, Append(link, era)}
      \/ /\ link # <<>> /\ ~shutdown
         /\ buffer' = Append(buffer, Head(link)) /\ link' = Tail(link)
      \/ link' = link /\ buffer # <<>> /\ buffer' = Tail(buffer)
  OBVIOUS
<1> QED
  BY ONLY <1>1, <1>2, <1>3

\* no step brings a frame of an earlier episode into this one
LEMMA OwnFramesKept ==
    ASSUME Known, OwnFrames, [Next]_vars
    PROVE  OwnFrames'
<1>1. link \in Seq(Nat) /\ buffer \in Seq(Nat) /\ era \in Nat
  BY DEF Known, TypeOK
<1>2. CASE ClearAndReset
  <2>1. /\ buffer' = <<>> /\ timer' = 0 /\ UNCHANGED <<shutdown, era, link>> /\ Drained
    BY <1>2 DEF ClearAndReset, ResetAssessments, world
  <2>2. shutdown \/ Made(link, era)
    BY <1>1, <2>1 DEF Drained, Made
  <2>3. Made(buffer', era')
    BY <2>1 DEF Made
  <2> QED
    BY <2>1, <2>2, <2>3 DEF OwnFrames, Made
<1>3. CASE ~ClearAndReset /\ pc' \in Armed
  <2>1. /\ pc \in Armed /\ era' = era /\ timer' \in {timer, era} /\ (shutdown => shutdown')
        /\ \/ UNCHANGED <<link, buffer>>
           \/ buffer' = buffer /\ link' \in {<<>>, Append(link, era)}
           \/ /\ link # <<>> /\ ~shutdown
              /\ buffer' = Append(buffer, Head(link)) /\ link' = Tail(link)
           \/ link' = link /\ buffer # <<>> /\ buffer' = Tail(buffer)
    BY <1>3, FrameSteps
  <2>2. Made(buffer, era) /\ (shutdown \/ Made(link, era)) /\ timer \in {0, era}
    BY <2>1 DEF OwnFrames
  <2>3. Made(<<>>, era) /\ Made(Append(buffer, era), era)
        /\ (buffer # <<>> => Made(Tail(buffer), era))
    BY <1>1, <2>2, MadeQueue
  <2>4. ~shutdown => /\ Made(Append(link, era), era)
                     /\ link # <<>> => Head(link) = era /\ Made(Tail(link), era)
    BY <1>1, <2>2, MadeQueue
  <2>5. Made(buffer', era) /\ (shutdown' \/ Made(link', era))
    BY <2>1, <2>2, <2>3, <2>4
  <2>6. timer' \in {0, era'}
    BY <2>1, <2>2
  <2> QED
    BY <2>1, <2>5, <2>6 DEF OwnFrames, Made
<1>4. CASE pc' \notin Armed
  BY <1>4 DEF OwnFrames
<1> QED
  BY <1>2, <1>3, <1>4

(***************************************************************************)
(* PLAY.  NeonFC plays while an episode is armed, behind a stopped runner, *)
(* or because the episode that sent PLAY could not take it back.           *)
(***************************************************************************)
Played ==
    playing => pc \in {"start", "loop", "stop"} \cup Stopped \/ ending \in {"failed", "stop lost"}

\* PLAY is taken back or its loss is known
LEMMA PlayedKept ==
    ASSUME Known, Played, [Next]_vars
    PROVE  Played'
<1> USE DEF MakeFrame, Deliver, LoseFrames, BreakControl, TestShutdown, Accept,
   AcceptNothing, Receive, BuildContext, Connect, SendMetadataAndLoad, CommandRaises,
   NextEpisode, Setup, ClearAndReset, Play, Start, RunningFrame, Terminate, TimeLimitExpires,
   PullFrame, GiveUp, StartRaises, StopEpisode, LeaveLoop, SetupRaises, PlayRaises,
   FrameTimeout, FrameRaises, Summarize, Respond, CloseCalled, Interrupt, vars, runner, world,
   Stopped, Send, SendRaises
<1>1. playing' => playing \/ pc' = "start"
  BY BatchSteps
<1>2. playing' /\ pc \in {"start", "loop", "stop"} \cup Stopped =>
         pc' \in {"start", "loop", "stop"} \cup Stopped \/ ending' \in {"failed", "stop lost"}
  BY BatchSteps
<1>3. ending \in {"failed", "stop lost"} =>
         pc' \in {"start", "loop", "stop"} \cup Stopped \/ ending' \in {"failed", "stop lost"}
  BY BatchSteps
<1> QED
  BY ONLY Played, <1>1, <1>2, <1>3 DEF Played, Stopped

-----------------------------------------------------------------------------
(***************************************************************************)
(* Files.  Every file holds frames of its own episode alone, and the file  *)
(* of the episode that is looped is this episode's.                        *)
(***************************************************************************)
Fresh(file) == \A j \in 1..Len(file.lines) : file.lines[j].era = file.seed

Filed ==
    /\ \A i \in 1..Len(rec.files) : Fresh(rec.files[i])
    /\ pc = "loop" => rec.files[rec.current].seed = era

\* the files of a Recorder that holds its type
LEMMA FileType ==
    ASSUME NEW r \in RecorderType, NEW i \in 1..Len(r.files)
    PROVE  r.files[i] \in File /\ r.files[i].lines \in Seq(Line) /\ r.files[i].seed \in Nat
<1>1. r.files \in Seq(File)
  BY DEF RecorderType
<1>2. r.files[i] \in File
  BY <1>1
<1> QED
  BY <1>2 DEF File

\* a line of the file's episode keeps the file fresh
LEMMA FreshAppend ==
    ASSUME NEW lines \in Seq(Line), NEW line \in Line, NEW seed,
           \A j \in 1..Len(lines) : lines[j].era = seed, line.era = seed
    PROVE  \A j \in 1..Len(Append(lines, line)) : Append(lines, line)[j].era = seed
BY AppendProperties

\* what is recorded is this episode's
LEMMA FiledKept ==
    ASSUME Known, OwnFrames, Filed, [Next]_vars
    PROVE  Filed'
<1>1. rec \in RecorderType /\ era \in Nat /\ buffer \in Seq(Nat)
  BY DEF Known, TypeOK, RecorderType, File
<1>2. CASE Quiet
  BY <1>2 DEF Quiet, Filed
<1>3. CASE BuildContext
  <2>1. rec'.files = <<>> /\ pc' = "connect"
    BY <1>3, NewFields DEF BuildContext
  <2> QED
    BY <2>1 DEF Filed
<1>4. CASE Start
  <2>1. rec' = StartScenario(rec, era) /\ era' = era
    BY <1>4 DEF Start, world
  <2>2. /\ Len(rec'.files) = Len(rec.files) + 1 /\ rec'.current = Len(rec.files) + 1
        /\ rec'.files[Len(rec.files) + 1] = [seed |-> era, lines |-> <<>>]
        /\ \A i \in 1..Len(rec.files) : rec'.files[i] = rec.files[i]
        /\ Len(rec.files) \in Nat
    <3>1. /\ Len(StartScenario(rec, era).files) = Len(rec.files) + 1
          /\ StartScenario(rec, era).files[Len(rec.files) + 1] = [seed |-> era, lines |-> <<>>]
          /\ \A i \in 1..Len(rec.files) : StartScenario(rec, era).files[i] = rec.files[i]
          /\ StartScenario(rec, era).current = Len(rec.files) + 1
      BY <1>1, StartFields, Zenon
    <3>2. Len(rec.files) \in Nat
      BY <1>1 DEF RecorderType
    <3> QED
      BY <2>1, <3>1, <3>2
  <2>3. Fresh([seed |-> era, lines |-> <<>>])
    BY DEF Fresh
  <2>4. \A i \in 1..Len(rec'.files) : Fresh(rec'.files[i])
    <3>1. \A i \in 1..Len(rec'.files) : i \in 1..Len(rec.files) \/ i = Len(rec.files) + 1
      BY <2>2
    <3> QED
      BY <2>2, <2>3, <3>1 DEF Filed
  <2>5. rec'.files[rec'.current].seed = era'
    <3>1. rec'.files[rec'.current] = [seed |-> era, lines |-> <<>>]
      BY <2>2
    <3> QED
      BY <2>1, <3>1
  <2> QED
    BY <2>4, <2>5 DEF Filed, Fresh
<1>5. CASE StartRaises \/ StopEpisode
  <2>1. rec'.files = rec.files /\ pc' = "episode"
    BY <1>1, <1>5, EndOpenFields, EndFields DEF StartRaises, StopEpisode, GiveUp
  <2> QED
    BY <2>1 DEF Filed
<1>6. ASSUME NEW line \in Line, Puts(line)
      PROVE  Filed'
  <2>1. rec.current \in 1..Len(rec.files)
    BY <1>6, CurrentFile DEF Puts
  <2>2. /\ Len(rec'.files) = Len(rec.files) /\ rec'.current = rec.current
        /\ \A i \in 1..Len(rec.files) :
              /\ rec'.files[i].seed = rec.files[i].seed
              /\ rec'.files[i].lines =
                    IF i = rec.current THEN Append(rec.files[i].lines, line)
                    ELSE rec.files[i].lines
    BY <1>1, <1>6, <2>1, PutFields DEF Puts
  <2>3. rec.files[rec.current].seed = era /\ era' = era
    BY <1>6 DEF Puts, Filed
  <2>4. line.era = era
    <3>1. buffer # <<>> /\ line.era = Head(buffer) /\ Made(buffer, era)
      BY <1>6 DEF Puts, OwnFrames, Armed
    <3> QED
      BY <1>1, <3>1, MadeQueue
  <2>5. ASSUME NEW i \in 1..Len(rec.files)
        PROVE  \A j \in 1..Len(rec'.files[i].lines) :
                  rec'.files[i].lines[j].era = rec'.files[i].seed
    <3>1. \A j \in 1..Len(rec.files[i].lines) : rec.files[i].lines[j].era = rec.files[i].seed
      BY DEF Filed, Fresh
    <3>2. rec.files[i].lines \in Seq(Line)
      BY <1>1, FileType
    <3>3. CASE i = rec.current
      <4>1. /\ rec'.files[i].lines = Append(rec.files[i].lines, line)
            /\ rec'.files[i].seed = rec.files[i].seed /\ line.era = rec.files[i].seed
        BY <2>2, <2>3, <2>4, <3>3
      <4>2. \A j \in 1..Len(Append(rec.files[i].lines, line)) :
               Append(rec.files[i].lines, line)[j].era = rec.files[i].seed
        BY <3>1, <3>2, <4>1, FreshAppend
      <4> QED
        BY <4>1, <4>2
    <3>4. CASE i # rec.current
      BY <2>2, <3>1, <3>4
    <3> QED
      BY <3>3, <3>4
  <2> QED
    BY <2>1, <2>2, <2>3, <2>5 DEF Filed, Fresh
<1> QED
  BY <1>2, <1>3, <1>4, <1>5, <1>6, RecorderSteps, FramePuts

-----------------------------------------------------------------------------
(***************************************************************************)
(* The window.  It is empty between files and, while an episode is looped, *)
(* as much of the end of its file as fits.                                 *)
(***************************************************************************)
Window(window, lines) ==
    /\ Len(window) = IF Len(lines) < MaxHistory THEN Len(lines) ELSE MaxHistory
    /\ \A i \in 1..Len(window) : window[i] = lines[Len(lines) - Len(window) + i]

Tailed ==
    /\ rec.current = NoFile => rec.history = <<>>
    /\ pc = "loop" => Window(rec.history, rec.files[rec.current].lines)

\* a deque slides over the file it is filled from
LEMMA WindowSlides ==
    ASSUME NEW window \in Seq(Line), NEW lines \in Seq(Line), NEW line \in Line,
           Window(window, lines)
    PROVE  Window(Slide(window, line), Append(lines, line))
<1> DEFINE longer == Append(lines, line)
           slid == Slide(window, line)
<1>1. MaxHistory \in Nat /\ MaxHistory # 0
  BY HistoryAssumption
<1>2. /\ Len(longer) = Len(lines) + 1 /\ Len(lines) \in Nat /\ longer[Len(lines) + 1] = line
      /\ \A i \in 1..Len(lines) : longer[i] = lines[i]
  BY AppendProperties
<1>3. /\ Len(window) = IF Len(lines) < MaxHistory THEN Len(lines) ELSE MaxHistory
      /\ \A i \in 1..Len(window) : window[i] = lines[Len(lines) - Len(window) + i]
  BY DEF Window
<1>4. CASE Len(lines) < MaxHistory
  <2>1. /\ slid = Append(window, line) /\ Len(window) = Len(lines)
    BY <1>3, <1>4 DEF Slide
  <2>2. /\ Len(slid) = Len(lines) + 1 /\ slid[Len(lines) + 1] = line
        /\ \A i \in 1..Len(lines) : slid[i] = window[i]
    BY <2>1, AppendProperties
  <2>3. \A i \in 1..Len(lines) : window[i] = lines[i]
    <3> SUFFICES ASSUME NEW i \in 1..Len(lines)
                 PROVE  window[i] = lines[i]
      OBVIOUS
    <3>1. Len(lines) - Len(window) + i = i
      BY <1>2, <2>1
    <3> QED
      BY <1>3, <2>1, <3>1
  <2> HIDE DEF longer, slid
  <2>4. Len(slid) = IF Len(longer) < MaxHistory THEN Len(longer) ELSE MaxHistory
    BY <1>1, <1>2, <1>4, <2>2
  <2>5. ASSUME NEW i \in 1..Len(slid)
        PROVE  slid[i] = longer[Len(longer) - Len(slid) + i]
    <3>1. Len(longer) - Len(slid) + i = i
      BY <1>2, <2>2
    <3>2. slid[i] = longer[i]
      BY <1>2, <2>2, <2>3
    <3> QED
      BY <3>1, <3>2
  <2> QED
    BY <2>4, <2>5 DEF Window, longer, slid
<1>5. CASE ~(Len(lines) < MaxHistory)
  <2>1. /\ slid = Append(Tail(window), line) /\ Len(window) = MaxHistory /\ window # <<>>
    BY <1>1, <1>3, <1>5 DEF Slide
  <2>2. /\ Tail(window) \in Seq(Line) /\ Len(Tail(window)) = MaxHistory - 1
        /\ \A i \in 1..MaxHistory - 1 : Tail(window)[i] = window[i + 1]
    BY <1>1, <2>1
  <2>3. /\ Len(slid) = MaxHistory /\ slid[MaxHistory] = line
        /\ \A i \in 1..MaxHistory - 1 : slid[i] = window[i + 1]
    BY <1>1, <2>1, <2>2, AppendProperties
  <2> HIDE DEF longer, slid
  <2>4. Len(slid) = IF Len(longer) < MaxHistory THEN Len(longer) ELSE MaxHistory
    BY <1>1, <1>2, <1>5, <2>3
  <2>5. ASSUME NEW i \in 1..Len(slid)
        PROVE  slid[i] = longer[Len(longer) - Len(slid) + i]
    <3>1. CASE i = MaxHistory
      <4>1. Len(longer) - Len(slid) + i = Len(lines) + 1
        BY <1>1, <1>2, <2>3, <3>1
      <4> QED
        BY <1>2, <2>3, <3>1, <4>1
    <3>2. CASE i # MaxHistory
      <4>1. i \in 1..MaxHistory - 1 /\ i + 1 \in 1..Len(window)
        BY <1>1, <2>1, <2>3, <3>2
      <4>2. slid[i] = lines[Len(lines) - Len(window) + (i + 1)]
        BY <1>3, <2>3, <4>1
      <4>3. /\ Len(longer) = Len(lines) + 1 /\ Len(slid) = MaxHistory
            /\ Len(window) = MaxHistory /\ MaxHistory <= Len(lines)
            /\ i \in Int /\ i >= 1 /\ i <= MaxHistory - 1
        BY <1>1, <1>2, <1>5, <2>1, <2>3, <4>1
      <4>4. Len(longer) - Len(slid) + i = Len(lines) - Len(window) + (i + 1)
        BY <1>1, <1>2, <4>3
      <4>5. Len(lines) - Len(window) + (i + 1) \in 1..Len(lines)
        BY <1>1, <1>2, <4>3
      <4> QED
        BY <1>2, <4>2, <4>4, <4>5
    <3> QED
      BY <3>1, <3>2
  <2> QED
    BY <2>4, <2>5 DEF Window, longer, slid
<1> QED
  BY <1>4, <1>5

\* put moves file and window together; a new file finds the window empty
LEMMA TailedKept ==
    ASSUME Known, Tailed, [Next]_vars
    PROVE  Tailed'
<1>1. rec \in RecorderType /\ era \in Nat
  BY DEF Known, TypeOK, RecorderType, File
<1>2. CASE Quiet
  BY <1>2 DEF Quiet, Tailed
<1>3. CASE BuildContext
  BY <1>3, NewFields DEF BuildContext, Tailed
<1>4. CASE Start
  <2>1. rec' = StartScenario(rec, era)
    BY <1>4 DEF Start
  <2>2. /\ rec'.current = Len(rec.files) + 1 /\ Len(rec.files) \in Nat
        /\ rec'.files[Len(rec.files) + 1] = [seed |-> era, lines |-> <<>>]
        /\ rec'.history = IF rec.current = NoFile THEN rec.history ELSE <<>>
    <3>1. /\ StartScenario(rec, era).current = Len(rec.files) + 1
          /\ StartScenario(rec, era).files[Len(rec.files) + 1] = [seed |-> era, lines |-> <<>>]
          /\ StartScenario(rec, era).history = IF rec.current = NoFile THEN rec.history ELSE <<>>
      BY <1>1, StartFields, Zenon
    <3>2. Len(rec.files) \in Nat
      BY <1>1 DEF RecorderType
    <3> QED
      BY <2>1, <3>1, <3>2
  <2>3. rec'.current # NoFile /\ rec'.history = <<>> /\ rec'.files[rec'.current].lines = <<>>
    BY <2>2 DEF Tailed, NoFile
  <2>4. Window(<<>>, <<>>)
    BY HistoryAssumption DEF Window
  <2> QED
    BY <2>3, <2>4 DEF Tailed, Window
<1>5. CASE StartRaises \/ StopEpisode
  <2>1. rec'.history = <<>> /\ pc' = "episode"
    <3>1. CASE StartRaises
      <4>1. rec' = EndOpenScenario(rec) /\ pc' = "episode"
        BY <3>1 DEF StartRaises, GiveUp
      <4> QED
        BY <1>1, <4>1, EndOpenFields DEF Tailed
    <3>2. CASE StopEpisode
      <4>1. rec' = EndScenario(rec) /\ pc' = "episode"
        BY <3>2 DEF StopEpisode
      <4> QED
        BY <1>1, <4>1, EndFields
    <3> QED
      BY <1>5, <3>1, <3>2
  <2> QED
    BY <2>1 DEF Tailed
<1>6. ASSUME NEW line \in Line, Puts(line)
      PROVE  Tailed'
  <2>1. /\ rec.current \in 1..Len(rec.files) /\ rec.files[rec.current].lines \in Seq(Line)
    BY <1>6, CurrentFile DEF Puts
  <2>2. /\ rec'.current = rec.current /\ rec'.history = Slide(rec.history, line)
        /\ rec'.files[rec.current].lines = Append(rec.files[rec.current].lines, line)
    BY <1>1, <1>6, <2>1, PutFields DEF Puts
  <2>3. rec.history \in Seq(Line) /\ Window(rec.history, rec.files[rec.current].lines)
    BY <1>1, <1>6 DEF RecorderType, Tailed, Puts
  <2>4. Window(Slide(rec.history, line), Append(rec.files[rec.current].lines, line))
    BY <2>1, <2>3, WindowSlides
  <2>5. rec'.current # NoFile
    BY <2>1, <2>2 DEF NoFile
  <2>6. Window(rec'.history, rec'.files[rec'.current].lines)
    BY <2>2, <2>4
  <2> QED
    BY <2>5, <2>6 DEF Tailed, Window
<1> QED
  BY <1>2, <1>3, <1>4, <1>5, <1>6, RecorderSteps, FramePuts

\* the window, as the sub-sequence the property names
LEMMA WindowIsTail ==
    ASSUME NEW window \in Seq(Line), NEW lines \in Seq(Line), Window(window, lines)
    PROVE  window = SubSeq(lines, Len(lines) - Len(window) + 1, Len(lines))
<1> DEFINE start == Len(lines) - Len(window) + 1
           tail == SubSeq(lines, start, Len(lines))
<1>1. MaxHistory \in Nat /\ Len(lines) \in Nat /\ Len(window) \in Nat
      /\ Len(window) = IF Len(lines) < MaxHistory THEN Len(lines) ELSE MaxHistory
  BY HistoryAssumption DEF Window
<1>2. start \in 1..Len(lines) + 1 /\ Len(lines) - start + 1 = Len(window)
  <2>1. Len(window) <= Len(lines)
    BY <1>1
  <2>2. \A n, m \in Nat : m <= n => n - m + 1 \in 1..n + 1 /\ n - (n - m + 1) + 1 = m
    OBVIOUS
  <2> QED
    BY <1>1, <2>1, <2>2
<1>3. /\ tail \in Seq(Line) /\ Len(tail) = Len(window)
      /\ \A i \in 1..Len(window) : tail[i] = lines[start + i - 1]
  <2>1. start \in Int /\ Len(lines) \in Int /\ \A i \in start..Len(lines) : lines[i] \in Line
    <3>1. \A i \in start..Len(lines) : i \in 1..Len(lines)
      BY <1>1, <1>2
    <3> QED
      BY <1>1, <1>2, <3>1
  <2>2. (IF start <= Len(lines) THEN Len(lines) - start + 1 ELSE 0) = Len(window)
    BY <1>1, <1>2
  <2> HIDE DEF start
  <2>3. /\ tail \in Seq(Line)
        /\ Len(tail) = IF start <= Len(lines) THEN Len(lines) - start + 1 ELSE 0
        /\ \A i \in 1..Len(lines) - start + 1 : tail[i] = lines[start + i - 1]
    BY <2>1, SubSeqProperties
  <2> QED
    BY <1>2, <2>2, <2>3
<1>4. \A i \in 1..Len(window) : start + i - 1 = Len(lines) - Len(window) + i
  BY <1>1
<1> HIDE DEF start, tail
<1>5. \A i \in 1..Len(window) : window[i] = tail[i]
  BY <1>3, <1>4 DEF Window
<1> QED
  BY <1>3, <1>5, SeqEqual DEF tail, start

-----------------------------------------------------------------------------
(***************************************************************************)
(* The files handed out.  A file is handed out when it is closed, behind   *)
(* every file before it and never to be written again; unless the runner   *)
(* was shut down its last line, and only that, says the episode is done.   *)
(***************************************************************************)
Complete(lines) ==
    lines # <<>> /\ \A j \in 1..Len(lines) : lines[j].done = (j = Len(lines))

NoneDone(lines) == \A j \in 1..Len(lines) : lines[j].done = FALSE

Finished(f) ==
    /\ f \in 1..Len(rec.files)
    /\ rec.current # NoFile => f < rec.current
    /\ \E k \in 1..Len(rec.closed) : rec.closed[k] = f
    /\ shutdown \/ Complete(rec.files[f].lines)

Ascending(files) == \A i \in 1..Len(files) - 1 : files[i] < files[i + 1]

Handing ==
    /\ \A i \in 1..Len(handed) : Finished(handed[i])
    /\ Ascending(handed)
    /\ pc = "loop" => NoneDone(rec.files[rec.current].lines)
    /\ pc = "stop" => shutdown \/ Complete(rec.files[rec.current].lines)

\* a line that is not the end keeps a file open, one that is completes it
LEMMA DoneAppend ==
    ASSUME NEW lines \in Seq(Line), NEW line \in Line, NoneDone(lines)
    PROVE  /\ line.done = FALSE => NoneDone(Append(lines, line))
           /\ line.done = TRUE => Complete(Append(lines, line))
<1>1. /\ Len(Append(lines, line)) = Len(lines) + 1 /\ Len(lines) \in Nat
      /\ Append(lines, line)[Len(lines) + 1] = line
      /\ \A i \in 1..Len(lines) : Append(lines, line)[i] = lines[i]
  BY AppendProperties
<1> DEFINE longer == Append(lines, line)
<1> HIDE DEF longer
<1>2. /\ Len(longer) = Len(lines) + 1 /\ Len(lines) \in Nat /\ longer[Len(lines) + 1] = line
      /\ \A i \in 1..Len(lines) : longer[i].done = FALSE
  BY <1>1 DEF NoneDone, longer
<1>3. ASSUME line.done = FALSE
      PROVE  NoneDone(longer)
  BY <1>2, <1>3 DEF NoneDone
<1>4. ASSUME line.done = TRUE
      PROVE  Complete(longer)
  <2>1. longer # <<>>
    BY <1>2
  <2>2. ASSUME NEW j \in 1..Len(longer)
        PROVE  longer[j].done = (j = Len(longer))
    <3>1. CASE j = Len(longer)
      BY <1>2, <1>4, <3>1
    <3>2. CASE j # Len(longer)
      <4>1. longer[j].done = FALSE
        BY <1>2, <3>2
      <4> QED
        BY <3>2, <4>1, Zenon
    <3> QED
      BY <3>1, <3>2
  <2> QED
    BY <2>1, <2>2 DEF Complete
<1> QED
  BY <1>3, <1>4 DEF longer

\* what was handed out is written no more
LEMMA FinishedStays ==
    ASSUME Known, [Next]_vars, ~BuildContext, NEW f, Finished(f)
    PROVE  Finished(f)'
<1>1. rec \in RecorderType /\ era \in Nat /\ Len(rec.files) \in Nat
      /\ rec.closed \in Seq(Nat) /\ rec.current \in Nat
  <2>1. rec \in RecorderType /\ era \in Nat
    BY DEF Known, TypeOK, RecorderType, File
  <2> QED
    BY <2>1 DEF RecorderType
<1>2. shutdown => shutdown'
  BY ShutdownStays
<1>3. PICK k \in 1..Len(rec.closed) : rec.closed[k] = f
  BY DEF Finished
<1>4. /\ f \in 1..Len(rec.files) /\ (rec.current # NoFile => f < rec.current)
      /\ shutdown \/ Complete(rec.files[f].lines)
  BY DEF Finished
<1>5. \A e \in Nat : /\ k \in 1..Len(Append(rec.closed, e))
                     /\ Append(rec.closed, e)[k] = rec.closed[k]
  BY <1>1, AppendProperties
<1>6. CASE Quiet
  BY <1>2, <1>3, <1>4, <1>6 DEF Quiet, Finished
<1>7. CASE Start
  <2>1. rec' = StartScenario(rec, era)
    BY <1>7 DEF Start
  <2>2. /\ Len(rec'.files) = Len(rec.files) + 1 /\ rec'.current = Len(rec.files) + 1
        /\ \A i \in 1..Len(rec.files) : rec'.files[i] = rec.files[i]
        /\ rec'.closed = IF rec.current = NoFile THEN rec.closed
                         ELSE Append(rec.closed, rec.current)
    BY <1>1, <2>1, StartFields
  <2>3. k \in 1..Len(rec'.closed) /\ rec'.closed[k] = f
    BY <1>1, <1>3, <1>5, <2>2
  <2>4. f \in 1..Len(rec'.files) /\ f < rec'.current /\ rec'.files[f] = rec.files[f]
    BY <1>1, <1>4, <2>2
  <2> QED
    BY <1>2, <1>4, <2>3, <2>4 DEF Finished
<1>8. CASE StartRaises \/ StopEpisode
  <2>1. /\ rec'.files = rec.files /\ rec'.current = NoFile
        /\ rec'.closed = IF rec.current = NoFile THEN rec.closed
                         ELSE Append(rec.closed, rec.current)
    <3>1. rec' = EndOpenScenario(rec) \/ rec' = EndScenario(rec)
      BY <1>8 DEF StartRaises, StopEpisode
    <3> QED
      BY <1>1, <3>1, EndOpenFields, EndFields
  <2>2. k \in 1..Len(rec'.closed) /\ rec'.closed[k] = f
    BY <1>1, <1>3, <1>5, <2>1
  <2> QED
    BY <1>2, <1>4, <2>1, <2>2 DEF Finished
<1>9. ASSUME NEW line \in Line, Puts(line)
      PROVE  Finished(f)'
  <2>1. rec.current \in 1..Len(rec.files) /\ rec.current # NoFile
    BY <1>9, CurrentFile DEF Puts, NoFile
  <2>2. /\ Len(rec'.files) = Len(rec.files) /\ rec'.current = rec.current
        /\ rec'.closed = rec.closed
        /\ \A i \in 1..Len(rec.files) :
              i # rec.current => rec'.files[i].lines = rec.files[i].lines
    BY <1>1, <1>9, <2>1, PutFields DEF Puts
  <2>3. f # rec.current
    BY <1>1, <1>4, <2>1
  <2>4. rec'.files[f].lines = rec.files[f].lines
    BY <1>4, <2>2, <2>3
  <2> QED
    BY <1>2, <1>3, <1>4, <2>2, <2>4 DEF Finished
<1> QED
  BY <1>6, <1>7, <1>8, <1>9, RecorderSteps, FramePuts

\* a file that is closed whole is handed out behind the others
LEMMA HandedKept ==
    ASSUME Known, Handing, [Next]_vars
    PROVE  (\A i \in 1..Len(handed) : Finished(handed[i]))' /\ Ascending(handed)'
<1>1. handed \in Seq(Nat) /\ Len(handed) \in Nat
  <2>1. handed \in Seq(Nat)
    BY DEF Known, TypeOK
  <2> QED
    BY <2>1
<1>2. ~BuildContext => \A i \in 1..Len(handed) : \A f : f = handed[i] => Finished(f)'
  BY FinishedStays DEF Handing
<1>3. CASE BuildContext
  <2>1. handed' = <<>>
    BY <1>3 DEF BuildContext
  <2> QED
    BY <2>1 DEF Ascending
<1>4. CASE handed' = handed /\ ~BuildContext
  <2>1. Ascending(handed)'
    BY <1>4 DEF Handing, Ascending
  <2> QED
    BY <1>2, <1>4, <2>1 DEF Finished
<1>5. CASE StopEpisode
  <2>1. /\ handed' = Append(handed, rec.current) /\ pc = "stop" /\ rec' = EndScenario(rec)
    BY <1>5 DEF StopEpisode
  <2>2. /\ rec \in RecorderType /\ rec.current \in 1..Len(rec.files)
        /\ rec.current # NoFile /\ rec.current \in Nat /\ rec.closed \in Seq(Nat)
    BY <2>1, CurrentFile DEF NoFile, RecorderType
  <2>3. ASSUME NEW f, f = rec.current
        PROVE  Finished(f)'
    <3>1. /\ rec'.files = rec.files /\ rec'.current = NoFile
          /\ rec'.closed = Append(rec.closed, rec.current)
      BY <2>1, <2>2, EndFields
    <3>2. /\ Len(rec.closed) + 1 \in 1..Len(rec'.closed)
          /\ rec'.closed[Len(rec.closed) + 1] = f
      BY <2>2, <2>3, <3>1, AppendProperties
    <3>3. shutdown' \/ Complete(rec.files[f].lines)
      BY <2>1, <2>3, ShutdownStays DEF Handing
    <3> QED
      BY <2>2, <2>3, <3>1, <3>2, <3>3 DEF Finished
  <2>4. /\ Len(handed') = Len(handed) + 1 /\ handed'[Len(handed) + 1] = rec.current
        /\ \A i \in 1..Len(handed) : handed'[i] = handed[i]
    BY <1>1, <2>1, <2>2, AppendProperties
  <2>5. ~BuildContext
    BY <2>1 DEF BuildContext
  <2>6. ASSUME NEW i \in 1..Len(handed'), NEW f, f = handed'[i]
        PROVE  Finished(f)'
    <3>1. CASE i \in 1..Len(handed)
      BY <1>2, <2>4, <2>5, <2>6, <3>1
    <3>2. CASE i = Len(handed) + 1
      BY <2>3, <2>4, <2>6, <3>2
    <3> QED
      BY <1>1, <2>4, <3>1, <3>2
  <2>7. \A i \in 1..Len(handed) : handed[i] < rec.current
    BY <2>2 DEF Handing, Finished
  <2>8. ASSUME NEW i \in 1..Len(handed') - 1
        PROVE  handed'[i] < handed'[i + 1]
    <3>1. i \in 1..Len(handed)
      BY <1>1, <2>4
    <3>2. CASE i = Len(handed)
      BY <2>4, <2>7, <3>1, <3>2
    <3>3. CASE i # Len(handed)
      <4>1. i \in 1..Len(handed) - 1 /\ i + 1 \in 1..Len(handed)
        BY <1>1, <3>1, <3>3
      <4>2. handed[i] < handed[i + 1]
        BY <4>1 DEF Handing, Ascending
      <4> QED
        BY <2>4, <3>1, <4>1, <4>2
    <3> QED
      BY <3>2, <3>3
  <2> QED
    BY <2>6, <2>8 DEF Ascending, Finished
<1>6. handed' = handed \/ BuildContext \/ StopEpisode
  <2>1. Start \/ StartRaises => handed' = handed
    BY DEF Start, StartRaises
  <2>2. \A line \in Line : Puts(line) => handed' = handed
    BY DEF Puts
  <2> QED
    BY <2>1, <2>2, RecorderSteps, FramePuts DEF Quiet
<1> QED
  BY <1>3, <1>4, <1>5, <1>6

\* the loop goes on until a line ends the episode
LEMMA HandingKept ==
    ASSUME Known, Handing, [Next]_vars
    PROVE  Handing'
<1>1. rec \in RecorderType /\ era \in Nat
  BY DEF Known, TypeOK, RecorderType, File
<1>2. pc' = "loop" => NoneDone(rec'.files[rec'.current].lines)
  <2>1. CASE Quiet
    BY <2>1 DEF Quiet, Handing
  <2>2. CASE BuildContext \/ StartRaises \/ StopEpisode
    BY <2>2 DEF BuildContext, StartRaises, StopEpisode, GiveUp
  <2>3. CASE Start
    <3>1. rec' = StartScenario(rec, era)
      BY <2>3 DEF Start
    <3>2. rec'.files[rec'.current] = [seed |-> era, lines |-> <<>>]
      BY <1>1, <3>1, StartFields
    <3> QED
      BY <3>2 DEF NoneDone
  <2>4. ASSUME NEW line \in Line, Puts(line), pc' = "loop"
        PROVE  NoneDone(rec'.files[rec'.current].lines)
    <3>1. /\ rec.current \in 1..Len(rec.files) /\ rec.files[rec.current].lines \in Seq(Line)
      BY <2>4, CurrentFile DEF Puts
    <3>2. /\ rec'.current = rec.current
          /\ rec'.files[rec.current].lines = Append(rec.files[rec.current].lines, line)
      BY <1>1, <2>4, <3>1, PutFields DEF Puts
    <3>3. NoneDone(rec.files[rec.current].lines) /\ line.done = FALSE
      BY <2>4 DEF Puts, Handing
    <3> QED
      BY <3>1, <3>2, <3>3, DoneAppend
  <2> QED
    BY <2>1, <2>2, <2>3, <2>4, RecorderSteps, FramePuts
<1>3. pc' = "stop" => shutdown' \/ Complete(rec'.files[rec'.current].lines)
  <2>1. CASE Quiet
    BY <2>1 DEF Quiet, Handing
  <2>2. CASE BuildContext \/ StartRaises \/ StopEpisode \/ Start
    BY <2>2 DEF BuildContext, StartRaises, StopEpisode, Start, GiveUp
  <2>3. ASSUME NEW line \in Line, Puts(line), pc' = "stop"
        PROVE  Complete(rec'.files[rec'.current].lines)
    <3>1. /\ rec.current \in 1..Len(rec.files) /\ rec.files[rec.current].lines \in Seq(Line)
      BY <2>3, CurrentFile DEF Puts
    <3>2. /\ rec'.current = rec.current
          /\ rec'.files[rec.current].lines = Append(rec.files[rec.current].lines, line)
      BY <1>1, <2>3, <3>1, PutFields DEF Puts
    <3>3. NoneDone(rec.files[rec.current].lines) /\ line.done = TRUE
      BY <2>3 DEF Puts, Handing
    <3> QED
      BY <3>1, <3>2, <3>3, DoneAppend
  <2> QED
    BY <2>1, <2>2, <2>3, RecorderSteps, FramePuts
<1> QED
  BY <1>2, <1>3, HandedKept DEF Handing, NoneDone, Complete

-----------------------------------------------------------------------------
BatchInv == Known /\ OwnFrames /\ Played /\ Filed /\ Tailed /\ Handing

\* the invariant the theorems below are read off
LEMMA AlwaysBatchInv == Spec => []BatchInv
<1>1. Init => OwnFrames /\ Played /\ Filed /\ Tailed /\ Handing
  <2> SUFFICES ASSUME Init
               PROVE  OwnFrames /\ Played /\ Filed /\ Tailed /\ Handing
    OBVIOUS
  <2>1. pc = "serve" /\ playing = FALSE /\ handed = <<>> /\ rec = NewRecorder
    BY DEF Init
  <2>2. rec.files = <<>> /\ rec.history = <<>>
    BY <2>1, NewFields
  <2>3. OwnFrames /\ Played
    BY <2>1 DEF OwnFrames, Played, Armed
  <2>4. Filed /\ Tailed
    BY <2>1, <2>2 DEF Filed, Tailed
  <2>5. Handing
    BY <2>1 DEF Handing, Ascending
  <2> QED
    BY <2>3, <2>4, <2>5
<1>2. BatchInv /\ [Next]_vars => (OwnFrames /\ Played /\ Filed /\ Tailed /\ Handing)'
  BY OwnFramesKept, PlayedKept, FiledKept, TailedKept, HandingKept DEF BatchInv
<1> QED
  BY <1>1, <1>2, AlwaysKnown, PTL DEF Spec, BatchInv

(***************************************************************************)
(* No frame of an earlier episode is recorded in a later one, whatever the *)
(* delays between NeonFC and the buffer and however the earlier one ended  *)
(* (runner.py:203).                                                        *)
(***************************************************************************)
THEOREM NoStaleFrames == Spec => []FreshFrames
<1>1. BatchInv => FreshFrames
  <2> SUFFICES ASSUME BatchInv, NEW i \in DOMAIN rec.files, NEW j \in DOMAIN rec.files[i].lines
               PROVE  rec.files[i].lines[j].era = rec.files[i].seed
    BY DEF FreshFrames
  <2>1. rec \in RecorderType
    BY DEF BatchInv, Known, TypeOK, RecorderType, File
  <2>2. i \in 1..Len(rec.files)
    BY <2>1 DEF RecorderType
  <2>3. j \in 1..Len(rec.files[i].lines)
    BY <2>1, <2>2, FileType
  <2> QED
    BY <2>2, <2>3 DEF BatchInv, Filed, Fresh
<1> QED
  BY <1>1, AlwaysBatchInv, PTL

(***************************************************************************)
(* An episode is never held to a time limit that began to run in another   *)
(* (runner.py:211, time_limit.py:23).                                      *)
(***************************************************************************)
THEOREM TimerStartsAnew == Spec => []TimerFresh
<1>1. BatchInv => TimerFresh
  BY DEF BatchInv, OwnFrames, Armed, TimerFresh
<1> QED
  BY <1>1, AlwaysBatchInv, PTL

(***************************************************************************)
(* evaluate() is given the end of the file being written, for any length   *)
(* of window and of file (recorder.py:42).                                 *)
(***************************************************************************)
THEOREM EvaluatedOnTail == Spec => []HistoryIsTail
<1>1. BatchInv => HistoryIsTail
  <2> SUFFICES ASSUME BatchInv, pc = "loop"
               PROVE  LET lines == rec.files[rec.current].lines
                          n == Len(rec.history)
                      IN  /\ n = IF Len(lines) < MaxHistory THEN Len(lines) ELSE MaxHistory
                          /\ rec.history = SubSeq(lines, Len(lines) - n + 1, Len(lines))
    BY DEF HistoryIsTail
  <2>1. rec.files[rec.current].lines \in Seq(Line) /\ rec.history \in Seq(Line)
    BY CurrentFile DEF BatchInv, RecorderType
  <2>2. Window(rec.history, rec.files[rec.current].lines)
    BY DEF BatchInv, Tailed
  <2>3. rec.history = SubSeq(rec.files[rec.current].lines,
                             Len(rec.files[rec.current].lines) - Len(rec.history) + 1,
                             Len(rec.files[rec.current].lines))
    BY <2>1, <2>2, WindowIsTail
  <2> QED
    BY <2>2, <2>3 DEF Window
<1> QED
  BY <1>1, AlwaysBatchInv, PTL

(***************************************************************************)
(* A client is handed finished files only, each once and in order, unless  *)
(* the runner was shut down under it (runner.py:99, 281-288).              *)
(***************************************************************************)
THEOREM FinishedFilesHanded == Spec => []HandedFinished
<1>1. BatchInv => HandedFinished
  <2> SUFFICES ASSUME BatchInv
               PROVE  HandedFinished
    OBVIOUS
  <2>1. rec \in RecorderType /\ rec.closed \in Seq(Nat)
    <3>1. rec \in RecorderType
      BY DEF BatchInv, Known, TypeOK, RecorderType, File
    <3> QED
      BY <3>1 DEF RecorderType
  <2>2. handed \in Seq(Nat)
    BY DEF BatchInv, Known, TypeOK
  <2>3. \A i \in 1..Len(handed) - 1 : handed[i] < handed[i + 1]
    BY DEF BatchInv, Handing, Ascending
  <2>4. ASSUME NEW i \in DOMAIN handed
        PROVE  LET lines == rec.files[handed[i]].lines
               IN  /\ \E k \in DOMAIN rec.closed : rec.closed[k] = handed[i]
                   /\ shutdown \/ lines # <<>>
                   /\ \A j \in DOMAIN lines : lines[j].done = (j = Len(lines)) \/ shutdown
    <3>1. Finished(handed[i])
      BY <2>2 DEF BatchInv, Handing
    <3>2. \E k \in DOMAIN rec.closed : rec.closed[k] = handed[i]
      BY <2>1, <3>1 DEF Finished
    <3>3. rec.files[handed[i]].lines \in Seq(Line)
      BY <2>1, <3>1, FileType DEF Finished
    <3>4. DOMAIN rec.files[handed[i]].lines = 1..Len(rec.files[handed[i]].lines)
      BY <3>3
    <3>5. CASE shutdown
      BY <3>2, <3>5
    <3>6. CASE ~shutdown
      <4>1. Complete(rec.files[handed[i]].lines)
        BY <3>1, <3>6 DEF Finished
      <4> QED
        BY <3>2, <3>4, <4>1, Zenon DEF Complete
    <3> QED
      BY <3>5, <3>6
  <2> QED
    BY <2>3, <2>4 DEF HandedFinished
<1> QED
  BY <1>1, AlwaysBatchInv, PTL

(***************************************************************************)
(* Between commands NeonFC plays on only behind an episode that failed or  *)
(* whose STOP was lost (runner.py:326-332).                                *)
(***************************************************************************)
THEOREM PlayingOnExplained == Spec => []PlayingExplained
<1>1. BatchInv => PlayingExplained
  BY DEF BatchInv, Played, Stopped, PlayingExplained
<1> QED
  BY <1>1, AlwaysBatchInv, PTL
=============================================================================
