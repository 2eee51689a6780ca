-------------------------------- MODULE Batch --------------------------------
(***************************************************************************)
(* The runner's main thread (lynch/runner.py): it serves one RL-Engine     *)
(* command after the other, and a batch is a sequence of episodes, each    *)
(* armed, looped and stopped.  Composed with it are the Recorder, the      *)
(* TimeLimit assessment, the frames on their way from the simulator        *)
(* through NeonFC to the buffer, and the control link to NeonFC.           *)
(*                                                                         *)
(* Episodes are numbered by `era`, the number of teleports so far: a frame *)
(* carries the era it was produced in, and a file's seed is its era.       *)
(* Coalescing is EpisodeLoop's subject; here a frame is a line.            *)
(***************************************************************************)
EXTENDS Recorder

CONSTANTS
    MaxBatches,    \* bound: commands served
    MaxEpisodes,   \* bound: batch_size of a command
    MaxFrames,     \* bound: frames the simulator makes per era
    Worths,        \* what a line can be worth
    Signals        \* TRUE: SIGINT/SIGTERM may arrive

ASSUME BatchAssumption ==
    /\ {MaxBatches, MaxEpisodes, MaxFrames} \subseteq Nat \ {0}
    /\ Worths \subseteq Int
    /\ Signals \in BOOLEAN

VARIABLES
    pc,        \* what the main thread does next
    shutdown,  \* __shutdown_event
    served,    \* commands accepted
    size,      \* batch_size
    index,     \* ep_index
    rec,       \* the batch's Recorder
    handed,    \* history_files: positions in rec.files
    reply,     \* the local `result` of __handle_client
    timer,     \* TimeLimit.start_time, by the era it was read in; 0 for None
    control,   \* the control connector: "down", "up" or "broken"
    playing,   \* NeonFC obeys the last PLAY or STOP that reached it
    era,       \* teleports sent
    made,      \* frames made in this era
    link,      \* frames between the simulator and the buffer
    buffer,    \* Buffer._buffer
    ending     \* history: how the last armed episode ended

runner == <<pc, shutdown, served, size, index, rec, handed, reply, timer, ending>>
world == <<era, made, link>>
vars == <<pc, shutdown, served, size, index, rec, handed, reply, timer, ending,
          control, playing, era, made, link, buffer>>

Stopped == {"closed", "crashed", "exited"}

NoReply == [status |-> "none"]
ErrorReply == [status |-> "error"]

Init ==
    /\ pc = "serve" /\ shutdown = FALSE
    /\ served = 0 /\ size = 1 /\ index = 0
    /\ rec = NewRecorder /\ handed = <<>> /\ reply = NoReply
    /\ timer = 0
    /\ control = "down" /\ playing = FALSE
    /\ era = 0 /\ made = 0 /\ link = <<>> /\ buffer = <<>>
    /\ ending = "none"

-----------------------------------------------------------------------------
(***************************************************************************)
(* The environment.                                                        *)
(***************************************************************************)
MakeFrame ==
    /\ made < MaxFrames
    /\ made' = made + 1
    /\ link' = Append(link, era)
    /\ UNCHANGED <<runner, control, playing, era, buffer>>

\* the buffer thread reads the next frame; after stop() it is gone
Deliver ==
    /\ link # <<>> /\ ~shutdown
    /\ buffer' = Append(buffer, Head(link))
    /\ link' = Tail(link)
    /\ UNCHANGED <<runner, control, playing, era, made>>

\* the peer of the data link goes away with what it had not sent
LoseFrames ==
    /\ link # <<>>
    /\ link' = <<>>
    /\ UNCHANGED <<runner, control, playing, era, made, buffer>>

\* NeonFC closes the control connection; a restarted one is not playing
BreakControl ==
    /\ control = "up"
    /\ control' = "broken"
    /\ playing' \in {playing, FALSE}
    /\ UNCHANGED <<runner, world, buffer>>

-----------------------------------------------------------------------------
(***************************************************************************)
(* TCPConnector.send on the control link.  Behind a closed connection the  *)
(* bytes vanish or the call raises.                                        *)
(***************************************************************************)
Send(event) ==
    IF control = "up" THEN playing' = (event = "play") ELSE UNCHANGED playing

SendRaises == control = "broken" /\ UNCHANGED playing

\* serve_forever: the loop condition
TestShutdown ==
    /\ pc = "serve"
    /\ pc' = IF shutdown THEN "closed" ELSE "accept"
    /\ UNCHANGED <<shutdown, served, size, index, rec, handed, reply, timer, ending,
                   control, playing, world, buffer>>

\* accept() returned a client
Accept ==
    /\ pc = "accept"
    /\ served < MaxBatches
    /\ served' = served + 1
    /\ pc' = "receive"
    /\ UNCHANGED <<shutdown, size, index, rec, handed, reply, timer, ending,
                   control, playing, world, buffer>>

\* accept() timed out; or close() took its socket away before it (an error on
\* None that nothing catches) or during it
AcceptNothing ==
    /\ pc = "accept"
    /\ pc' \in {"serve"} \cup (IF shutdown THEN {"closed", "crashed"} ELSE {})
    /\ UNCHANGED <<shutdown, served, size, index, rec, handed, reply, timer, ending,
                   control, playing, world, buffer>>

\* __receive_command: the client's line arrived
Receive ==
    /\ pc = "receive"
    /\ size' \in 1..MaxEpisodes
    /\ pc' = "build"
    /\ UNCHANGED <<shutdown, served, index, rec, handed, reply, timer, ending,
                   control, playing, world, buffer>>

\* __build_episode_context: the batch gets a Recorder of its own
BuildContext ==
    /\ pc = "build"
    /\ rec' = NewRecorder
    /\ index' = 0 /\ handed' = <<>>
    /\ pc' = "connect"
    /\ UNCHANGED <<shutdown, served, size, reply, timer, ending, control, playing,
                   world, buffer>>

\* connector.close(), connector.connect()
Connect ==
    /\ pc = "connect"
    /\ control' = "up"
    /\ pc' = "metadata"
    /\ UNCHANGED <<shutdown, served, size, index, rec, handed, reply, timer, ending,
                   playing, world, buffer>>

\* the registry's load makes new instances, its reset clears those there are
LoadAssessments == timer' = 0
ResetAssessments == timer' = 0

\* sending the metadata, if the command has any, and assessment_registry.load
SendMetadataAndLoad ==
    /\ pc = "metadata"
    /\ LoadAssessments
    /\ pc' = "episode"
    /\ UNCHANGED <<shutdown, served, size, index, rec, handed, reply, ending,
                   control, playing, world, buffer>>

\* any of the above raises: __handle_client makes an error reply of it
CommandRaises ==
    /\ pc \in {"receive", "build", "connect", "metadata"}
    /\ control' \in IF pc = "connect" THEN {"down"} ELSE {control}
    /\ reply' = ErrorReply
    /\ pc' = "respond"
    /\ UNCHANGED <<shutdown, served, size, index, rec, handed, timer, ending,
                   playing, world, buffer>>

-----------------------------------------------------------------------------
\* mutant: one episode too many
NextEpisodeTooMany ==
    /\ pc = "episode"
    /\ pc' = IF index <= size THEN "setup" ELSE "summarize"
    /\ UNCHANGED <<shutdown, served, size, index, rec, handed, reply, timer, ending,
                   control, playing, world, buffer>>

\* __execute_batch: the next episode, or the summary
NextEpisode ==
    /\ pc = "episode"
    /\ pc' = IF index < size THEN "setup" ELSE "summarize"
    /\ UNCHANGED <<shutdown, served, size, index, rec, handed, reply, timer, ending,
                   control, playing, world, buffer>>

\* setup_scenario: fire-and-forget, so that it looks the same when it is lost
Setup ==
    /\ pc = "setup"
    /\ era' = era + 1 /\ made' = 0
    /\ pc' = "settle"
    /\ UNCHANGED <<shutdown, served, size, index, rec, handed, reply, timer, ending,
                   control, playing, link, buffer>>

(***************************************************************************)
(* Assumption on settle_time: what was in flight at the teleport has       *)
(* reached the buffer when the sleep ends.                                 *)
(***************************************************************************)
Drained == shutdown \/ \A i \in DOMAIN link : link[i] = era

\* mutant: the leftover frames are not cleared
ClearKeepsFrames ==
    /\ pc = "settle" /\ Drained
    /\ timer' = 0
    /\ pc' = "play"
    /\ UNCHANGED <<shutdown, served, size, index, rec, handed, reply, ending,
                   control, playing, world, buffer>>

\* mutant: the assessments are not reset
ClearKeepsTimer ==
    /\ pc = "settle" /\ Drained
    /\ buffer' = <<>>
    /\ pc' = "play"
    /\ UNCHANGED <<shutdown, served, size, index, rec, handed, reply, timer, ending,
                   control, playing, world>>

\* the settle sleep ends: buffer.clear(), assessment_registry.reset()
ClearAndReset ==
    /\ pc = "settle" /\ Drained
    /\ buffer' = <<>>
    /\ ResetAssessments
    /\ pc' = "play"
    /\ UNCHANGED <<shutdown, served, size, index, rec, handed, reply, ending,
                   control, playing, world>>

Play ==
    /\ pc = "play"
    /\ Send("play")
    /\ pc' = "start"
    /\ UNCHANGED <<shutdown, served, size, index, rec, handed, reply, timer, ending,
                   control, world, buffer>>

Start ==
    /\ pc = "start"
    /\ rec' = StartScenario(rec, era)
    /\ ending' = "running"
    /\ pc' = "loop"
    /\ UNCHANGED <<shutdown, served, size, index, handed, reply, timer,
                   control, playing, world, buffer>>

-----------------------------------------------------------------------------
PullFrame ==
    /\ pc = "loop" /\ ~shutdown
    /\ buffer # <<>> /\ buffer' = Tail(buffer)

\* TimeLimit.is_triggered starts the timer on the first frame it sees
TimerStarted == IF timer = 0 THEN era ELSE timer

Record(worth, done) ==
    rec' = Put(rec, [era |-> Head(buffer), worth |-> worth, done |-> done])

RunningFrame(worth) ==
    /\ PullFrame
    /\ Record(worth, FALSE)
    /\ timer' = TimerStarted
    /\ UNCHANGED <<pc, shutdown, served, size, index, handed, reply, ending,
                   control, playing, world>>

\* an assessment ends the episode; those behind it in the list are not asked
Terminate(worth) ==
    /\ PullFrame
    /\ Record(worth, TRUE)
    /\ timer' \in {timer, TimerStarted}
    /\ ending' = "terminated"
    /\ pc' = "stop"
    /\ UNCHANGED <<shutdown, served, size, index, handed, reply, control, playing, world>>

TimeLimitExpires(worth) ==
    /\ timer # 0
    /\ PullFrame
    /\ Record(worth, TRUE)
    /\ timer' = era
    /\ ending' = "terminated"
    /\ pc' = "stop"
    /\ UNCHANGED <<shutdown, served, size, index, handed, reply, control, playing, world>>

LeaveLoop ==
    /\ pc = "loop" /\ shutdown
    /\ ending' = "interrupted"
    /\ pc' = "stop"
    /\ UNCHANGED <<shutdown, served, size, index, rec, handed, reply, timer,
                   control, playing, world, buffer>>

(***************************************************************************)
(* The handler of __execute_single_episode: the episode is given up where  *)
(* it is and the batch goes on.                                            *)
(***************************************************************************)
GiveUp ==
    /\ ending' = "failed"
    /\ index' = index + 1
    /\ pc' = "episode"
    /\ UNCHANGED <<shutdown, served, size, reply, control, world>>

\* an unknown strategy, a bad template
SetupRaises ==
    /\ pc = "setup"
    /\ GiveUp
    /\ UNCHANGED <<rec, handed, timer, playing, buffer>>

PlayRaises ==
    /\ pc = "play"
    /\ SendRaises
    /\ GiveUp
    /\ UNCHANGED <<rec, handed, timer, buffer>>

\* open() fails, behind the end of a scenario that was still open
StartRaises ==
    /\ pc = "start"
    /\ rec' = EndOpenScenario(rec)
    /\ GiveUp
    /\ UNCHANGED <<handed, timer, playing, buffer>>

\* mutant: a dead data link is taken for the end of the episode
FrameTimeoutStops ==
    /\ pc = "loop" /\ ~shutdown
    /\ buffer = <<>>
    /\ pc' = "stop" /\ ending' = "terminated"
    /\ UNCHANGED <<shutdown, served, size, index, rec, handed, reply, timer,
                   control, playing, world, buffer>>

\* mutant: there is no frame_timeout
FrameTimeoutMissing == FALSE /\ UNCHANGED vars

\* no frame for frame_timeout
FrameTimeout ==
    /\ pc = "loop" /\ ~shutdown
    /\ buffer = <<>>
    /\ GiveUp
    /\ UNCHANGED <<rec, handed, timer, playing, buffer>>

\* a frame the assessments or the recorder choke on
FrameRaises ==
    /\ PullFrame
    /\ timer' \in {timer, TimerStarted}
    /\ GiveUp
    /\ UNCHANGED <<rec, handed, playing>>

-----------------------------------------------------------------------------
\* mutant: the episode ends without STOP
StopNotSent ==
    /\ pc = "stop"
    /\ rec' = EndScenario(rec)
    /\ handed' = Append(handed, rec.current)
    /\ index' = index + 1
    /\ pc' = "episode"
    /\ UNCHANGED <<shutdown, served, size, reply, timer, ending, control, playing,
                   world, buffer>>

\* __stop_episode: a STOP that cannot be sent is only logged
StopEpisode ==
    /\ pc = "stop"
    /\ Send("stop")
    /\ ending' = IF control = "up" THEN ending ELSE "stop lost"
    /\ rec' = EndScenario(rec)
    /\ handed' = Append(handed, rec.current)
    /\ index' = index + 1
    /\ pc' = "episode"
    /\ UNCHANGED <<shutdown, served, size, reply, timer, control, world, buffer>>

\* summarize_batch, whose summary.json may not be writable
Summarize ==
    /\ pc = "summarize"
    /\ reply' \in {[status |-> "success", history_files |-> handed, summary |-> Summary(rec)],
                   ErrorReply}
    /\ pc' = "respond"
    /\ UNCHANGED <<shutdown, served, size, index, rec, handed, timer, ending,
                   control, playing, world, buffer>>

\* __send_response; a client that is gone is only noticed
Respond ==
    /\ pc = "respond"
    /\ reply' = NoReply
    /\ pc' = "serve"
    /\ UNCHANGED <<shutdown, served, size, index, rec, handed, timer, ending,
                   control, playing, world, buffer>>

\* Runner.close() called from another thread
CloseCalled ==
    /\ ~shutdown
    /\ shutdown' = TRUE
    /\ UNCHANGED <<pc, served, size, index, rec, handed, reply, timer, ending,
                   control, playing, world, buffer>>

\* main()'s handler: close(), then SystemExit through everything on the stack
Interrupt ==
    /\ Signals
    /\ pc \notin Stopped
    /\ shutdown' = TRUE
    /\ pc' = "exited"
    /\ UNCHANGED <<served, size, index, rec, handed, reply, timer, ending,
                   control, playing, world, buffer>>

-----------------------------------------------------------------------------
Environment == MakeFrame \/ Deliver \/ LoseFrames \/ BreakControl

Serve ==
    \/ Receive \/ BuildContext \/ Connect \/ SendMetadataAndLoad \/ CommandRaises
    \/ NextEpisode \/ Setup \/ ClearAndReset \/ Play \/ Start
    \/ \E worth \in Worths :
          RunningFrame(worth) \/ Terminate(worth) \/ TimeLimitExpires(worth)
    \/ LeaveLoop
    \/ SetupRaises \/ PlayRaises \/ StartRaises \/ FrameTimeout \/ FrameRaises
    \/ StopEpisode \/ Summarize \/ Respond

Next ==
    \/ Environment
    \/ TestShutdown \/ Accept \/ AcceptNothing
    \/ Serve
    \/ CloseCalled \/ Interrupt

Spec == Init /\ [][Next]_vars

(***************************************************************************)
(* The main thread keeps running and the buffer thread keeps reading.      *)
(* Nothing is assumed of commands arriving (a client that connects and     *)
(* stays silent is waited for without a timeout), of frames, of the links  *)
(* or of signals.  MaxFrames stands for an assessment that ends every      *)
(* episode: frames that keep coming and end nothing hold the batch.        *)
(***************************************************************************)
FairSpec == Spec /\ WF_vars(pc # "receive" /\ Serve) /\ WF_vars(Deliver)

-----------------------------------------------------------------------------
Line == [era : Nat, worth : Int, done : BOOLEAN]

TypeOK ==
    /\ pc \in {"serve", "accept", "receive", "build", "connect", "metadata", "episode",
              "setup", "settle",
              "play", "start", "loop", "stop", "summarize", "respond"} \cup Stopped
    /\ shutdown \in BOOLEAN
    /\ served \in 0..MaxBatches /\ size \in 1..MaxEpisodes /\ index \in 0..MaxEpisodes
    /\ rec \in [files : Seq([seed : Nat, lines : Seq(Line)]), current : Nat,
                history : Seq(Line), closed : Seq(Nat), seeds : Seq(Nat)]
    /\ handed \in Seq(Nat)
    /\ reply \in {NoReply, ErrorReply}
          \cup [status : {"success"}, history_files : Seq(Nat),
                summary : [tests_ran : Nat, tests_passed : Nat, seeds : Seq(Nat)]]
    /\ timer \in Nat /\ era \in Nat /\ made \in 0..MaxFrames
    /\ control \in {"down", "up", "broken"} /\ playing \in BOOLEAN
    /\ link \in Seq(Nat) /\ buffer \in Seq(Nat)
    /\ ending \in {"none", "running", "terminated", "interrupted", "failed", "stop lost"}

(***************************************************************************)
(* "otherwise those stale frames open the new episode" (runner.py:203): no *)
(* frame made before an episode's teleport is recorded in it, nor one left *)
(* over from an episode that failed or stopped with frames still queued.   *)
(***************************************************************************)
FreshFrames ==
    \A i \in DOMAIN rec.files :
        \A j \in DOMAIN rec.files[i].lines : rec.files[i].lines[j].era = rec.files[i].seed

(***************************************************************************)
(* The time limit an episode is held to started in that episode, however   *)
(* the one before it ended (runner.py:211, time_limit.py:23).              *)
(***************************************************************************)
TimerFresh == pc = "loop" => timer \in {0, era}

(***************************************************************************)
(* "Returns the current scenario's sliding window history"                 *)
(* (recorder.py:42): what evaluate() is given is the end of the file being *)
(* written, also behind an episode that failed with its file still open.   *)
(***************************************************************************)
HistoryIsTail ==
    pc = "loop" =>
        LET lines == rec.files[rec.current].lines
            n == Len(rec.history)
        IN  /\ n = IF Len(lines) < MaxHistory THEN Len(lines) ELSE MaxHistory
            /\ rec.history = SubSeq(lines, Len(lines) - n + 1, Len(lines))

(***************************************************************************)
(* The files a client is handed are closed, each once, in the order of the *)
(* episodes, and hold a finished episode unless the runner was shut down:  *)
(* the last line is the only one done (runner.py:99, 281-288).             *)
(***************************************************************************)
HandedFinished ==
    /\ \A i \in 1..Len(handed) - 1 : handed[i] < handed[i + 1]
    /\ \A i \in DOMAIN handed :
          LET lines == rec.files[handed[i]].lines
          IN  /\ \E k \in DOMAIN rec.closed : rec.closed[k] = handed[i]
              /\ shutdown \/ lines # <<>>
              /\ \A j \in DOMAIN lines : lines[j].done = (j = Len(lines)) \/ shutdown

(***************************************************************************)
(* Between commands NeonFC plays on only behind an episode that failed or  *)
(* whose STOP was lost (runner.py:326-332).                                *)
(***************************************************************************)
PlayingExplained == pc = "serve" /\ playing => ending \in {"failed", "stop lost"}

(***************************************************************************)
(* A command that was received is answered although the data link may die  *)
(* at any point of any episode: "Without this a dead data link means the   *)
(* loop spins forever" (runner.py:222).  Only a signal takes the answer    *)
(* away.                                                                   *)
(***************************************************************************)
CommandAnswered == pc = "build" ~> pc \in {"serve", "exited"}

(***************************************************************************)
(* ""Passed" means the episode ended well." (recorder.py:140): an episode  *)
(* counted as passed has a line that ended it.                             *)
(***************************************************************************)
PassedEndedWell ==
    reply.status = "success" /\ ~shutdown =>
        \A i \in Passed(rec) : LastLine(rec.files[rec.closed[i]]).done

(***************************************************************************)
(* "Run one episode: arm -> loop -> stop." (runner.py:186): an episode     *)
(* that was armed is stopped before the batch goes on.                     *)
(***************************************************************************)
ArmedIsStopped == pc = "serve" /\ control = "up" => ~playing
=============================================================================
