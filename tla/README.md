# LyNCh in TLA+

LyNCh is a daemon that runs episodes of robot soccer for a reinforcement
learner.  The learner (RL-Engine) connects, sends one command and waits for the
answer; LyNCh teleports the robots, tells NeonFC to play, watches the frames
NeonFC streams back, ends the episode when an assessment says so, and leaves one
JSONL history per episode and a summary per batch.

These modules model what can go wrong between those parts: what ends an episode
and what is recorded of it, what one episode leaves behind for the next, what
the field shows when it starts, and what the threads and the signal handler do
to the sockets they share.

## The system

| Part | State | Operations | Interacts with |
|---|---|---|---|
| Runner, main thread (`runner.py`) | server socket, shutdown event, index of the episode | accept, receive command, arm, loop, stop, answer, close (also from another thread and from the handler of SIGINT and SIGTERM) | everything below |
| Episode loop (`runner.py:218`) | previous frame, pending record, held actions | pull, evaluate, shape, coalesce, flush | buffer, registry, recorder |
| Assessment registry (`registry.py`) | loaded assessments | load, reset, evaluate, shape | called by the runner with the recorder's window; evaluates the assessments in order |
| Assessments (`assessments/*.py`) | `TimeLimit`: when it started; the others none | is_triggered, get_rewards, get_terminal_reward, shape | read the frame, the window and the clock |
| Recorder (`recorder.py`) | open file, closed files, sliding window, seeds | start, put, end, summarize | called by the runner, one per batch |
| Buffer (`buffer.py`) | frames, input bytes, stop event | run (a thread), ingest, pull, clear, stop | its connector; the runner |
| TCPConnector (`tcp_connector.py`) | peer socket, listener | connect, accept, send, receive, close, shutdown | the data link's is shared by the buffer thread and the callers of stop(), without a lock |
| MulticastConnector (`multicast_connector.py`) | socket | connect, receive, close | the data link's in DIRECT mode |
| Field manager (`manager.py`), variance (`variance.py`) | UDP socket; the batch's template is shared by its episodes | setup_scenario, close | the simulator, which answers nothing and keeps what a packet does not mention |
| `scripts/manual_sim_control.py` | none | one teleport | the same simulator, at any time |
| Parsers, schema, session, events | none | conversions, construction | |

What is hard about it: the signal handler interrupts the main thread anywhere;
an episode may fail at any step while the batch goes on with the same recorder,
assessments, buffer and connections; the teleport and PLAY/STOP are not
acknowledged; frames of the old world are in flight when a new episode starts;
peers come and go; and the buffer thread, the main thread and whoever calls
close() close the same sockets and reset the same attributes.

## Modules

| Module | Models |
|---|---|
| `Rewards` | rewards, `__merge_rewards`, the registry's `shape` |
| `DecisionLog` | abstract: what an episode's history promises |
| `EpisodeLoop` | one run of `__run_episode_loop`; refines `DecisionLog` |
| `EpisodeLoopProofs` | theorems about `EpisodeLoop`: its log and the refinement |
| `EpisodeRecordsProofs` | theorems about `EpisodeLoop`: what its records say |
| `Recorder` | the Recorder, one operator per method |
| `Batch` | the main thread around the loop, with the recorder, the time limit, the frames in flight and the control link |
| `BatchProofs` | theorems about `Batch` |
| `DataLink` | `Buffer.run` and `Buffer.stop` on one connector, for any set of stopping threads |
| `Server` | `serve_forever` and `close()`, composed with `DataLink` (INSTANCE) |
| `ServerProofs` | theorems about `Server` |
| `Evaluation` | `evaluate` over the assessments, the recorder's window and the clock |
| `EvaluationProofs` | theorems about `Evaluation` |
| `Field` | `setup_scenario`: the noise, the packet, and the field it makes |
| `FieldProofs` | theorems about `Field` |
| `FrameQueue` | abstract: what the buffer promises the runner |
| `FrameStream` | from bytes to frames to `pull`; refines `FrameQueue` |
| `FrameStreamProofs` | theorems about `FrameStream` |
| `MC*` | the instances TLC checks |

**EpisodeLoop.** A record names the frames it spans: `state` is the frame whose
`cur_state` it has, `next_state` the frame whose `next_state` it has.  `pending`
and `prev` are sequences of length at most one, `<<>>` for `None`.  `frames` is
a history variable: what was pulled, with the reward the frame itself got.  There
is one action per branch of the loop body (`RecordFrame`, `HoldDecision`,
`NewDecision`, `TerminalFrame`) and one per exit (`LeaveOnShutdown`,
`FrameTimeout`, `FrameError`, `Interrupt`).  Whether an assessment ends the
episode on a frame, and with which reward, is a free choice.  Rewards are
integers; the weight of `BallProgress` is 1, and the ball is always in sight.

**Batch.** Time is counted in teleports: `era`.  A frame carries the era it was
made in, a file's seed is its era, the timer of `TimeLimit` holds the era it was
started in.  `ending` is a history variable.  Every exception of an episode is an
action that goes to `GiveUp`, the handler of `__execute_single_episode`; every
exception before the first episode is `CommandRaises`.  `Setup` stands for a
teleport that arrives and one that is lost.  Inside the loop a frame is one line:
coalescing is `EpisodeLoop`'s subject.

**DataLink** and **Server.** One step is one access to what the threads share.
Listeners and connections are numbered.  A connection nothing refers to any more
is closed, as CPython does: `conn` is the local of `accept_once`, the other
reference is the attribute `socket`.  An exception the inner code does not catch
goes to `top` (`buffer.py:52`).  `Server` instantiates `DataLink` with the two
threads that may run close(), the main thread and one caller; `StopLink` is the
part of close() that is `Buffer.stop`.  A caller that is the signal handler runs
on the main thread's stack: while it does, the main thread takes no step, and it
ends by unwinding it.  `acceptError` is a history variable.

**Evaluation.** A frame is where the ball is and whether it is slower than the
threshold.  Ages are whole seconds that saturate above the limit they are
compared with.  `history` is the recorder's window, of which `BallStopped` reads
one bit per record; `seen`, `frames` and `sinceFirst` are history variables that
say what the episode really showed.  In NEONFC mode (`paired`) a frame judges its
`next_state` and is recorded with its `state`, and starts where the one before
ended; in DIRECT mode a frame has one state, made by `ExtractBall`.  One
action is one pass through the loop: the assessments are asked, the timer starts
or starts again, and the frame goes into the window, is merged or is held.

**Field.** A template is a dict of the shape `json.load` returned, with keys that
may be missing: a function with its keys as domain.  A slot is one number of a
template; noise goes to the slots the scenario configures, in the order of
`apply`, one draw of `Random(seed)` each.  `Packet` is `_send_replacement`, and
`Shown` is the simulator, which goes through a packet's entries in order.  `shown`
says whose packet the field shows as long as nobody has moved.

**FrameStream.** A record is two pieces, the second with the newline.  `recv()`
takes any prefix of what is in flight.  `whole` and `queued` are history
variables: the set of good records received to the end, and the frames appended.
In `FrameQueue` a frame is in flight from its newline to its turn in `_ingest`,
wherever its bytes are; a record begun but not ended is not sent yet.

## What the runs check

| Run | Bounds | Properties |
|---|---|---|
| `episode_loop` | 4 frames, 2 actions, 2 distances, 2 outcomes, 2 robots | `Contiguous`, `OneDecisionPerRecord`, `Telescopes`, `OutcomeStandsAlone`, `ImplementsDecisionLog` |
| `batch` | 2 commands, 2 episodes each, 2 frames per era, window of 1 | `FreshFrames`, `TimerFresh`, `HistoryIsTail`, `HandedFinished`, `PlayingExplained`, `CommandAnswered` |
| `server` | both data modes, close() also from another thread or from the handler, 2 connections | `ThreadSurvives`, `ListenerKept`, `PeersReleased`, `PortReleased`, `StopEndsThread`, `PeerAccepted`, `ServeEnds` |
| `frame_stream` | 5 records, each good, malformed or one the parser raises on | `ReceivedIsQueued`, `PulledInOrder`, `ImplementsFrameQueue` |
| `evaluation` | 4 lists of assessments, both data modes, 5 places of the ball, window of 2, waits of 1 and 3 frames, limits of 1 second | `OrderDecides`, `OutcomeKept`, `TimerHonest`, `StoppedWaits`, `StillNoticed`, `EpisodeEnds` |
| `field` | 7 scenarios, 2 base seeds, batches of 2, 1 packet in the air | `NobodyLeftOver`, `NoDrift`, `SameSeedSameScene` |

Each also checks its module's `TypeOK`.  Why the bounds are enough: with four
frames a decision can be opened, held, replaced and ended by a terminal frame,
and the second decision can follow a first that was merged.  With two episodes
in each of two batches an episode follows one that ended well, failed or was
interrupted, in the same batch and in another; two frames exceed the window of
one.  Two connections are a first peer and a restart; the restart may come
before, during or behind a stop.  Five records allow a record cut by a lost
connection with whole ones before and behind it, and whole ones behind one the
parser raises on.  A wait of 3 with a window of 2 is the longest the window can
serve; a wait of 1 is the edge where the slice takes all of it: `StoppedWaits`
holds there too, `OrderDecides` and `StillNoticed` leave it out for a ball at
rest, and `ball_at_rest` is about nothing else.  With base seeds
0 and 1 and two episodes in a batch, seed 1 is the second episode of one batch
and the first of another.

Runs that refute what the code's text says of it:

| Run | Property | What happens |
|---|---|---|
| `interrupted` | `ShutdownKeepsLastDecision` | the handler of SIGINT/SIGTERM raises SystemExit in the loop, and the flush at `runner.py:302` is skipped |
| `batch_passed` | `PassedEndedWell` | a failed episode's file is closed by the next `start_scenario` and counted by its last, non-terminal line |
| `batch_stopped` | `ArmedIsStopped` | a failed episode never sends STOP |
| `close_releases` | `CloseReleases` | `shutdown()` finds no listener while the thread is between binding one and assigning it; it stays open behind a finished close() |
| `ball_stopped` | `StoppedIsStill` | the window is judged by `state`, the current frame by `next_state`: what the frame before the last led to is never judged |
| `ball_at_rest` | `WaitIsEnough` | with `frame_to_wait` 1 the slice `history[-0:]` is the whole window: a ball at rest is missed while a moving record is in it |

What the passing runs say around these: `CloseReleases` fails only by the
listener of the data link.  When `serve_forever` returns or a signal ends it, the
command port and the manager's socket are released, whichever other close() is
still under way (`PortReleased`); once the buffer thread has ended no connection
is open, whatever the callers of stop() are doing (`PeersReleased`); and the
thread ends (`StopEndsThread`).  `StoppedIsStill` fails only where frames have a `next_state`
or are coalesced: `StoppedWaits` holds it for the others.  `StillNoticed` bounds
the error the other way, for waits of 2 up to what the window can hold and records
as frames come: the ball at rest for the wait, and one moment more where frames
have a `next_state`, ends the episode.  With a wait of 1 a ball at rest may be
missed (`WaitIsEnough` fails), with coalescing or a wait the window cannot hold
nothing is claimed.  A template like the shipped ones is shown with its robots and
no others (`NobodyLeftOver`), in every episode whose own packet arrives; one whose
packet is lost starts on the field it finds.

Two more disagreements show in the model and have no run of their own.  Every
OSError of `accept()` is taken for a stop (`tcp_connector.py:62`), so one that
nobody asked for ends the buffer thread although it "must survive" errors
(`buffer.py:52`): the exception `ThreadSurvives` names.  And a packet sends the
whole yellow team away (`manager.py:85`), the robots included that the positions
file of the repository's `README.md:85-96` places: the entries `YellowGone` of `Field` behind the
template's.

`batch`, the two `Server` runs and the episode runs switch deadlock checking off:
a closed runner, ended threads and a finished episode stop.  `evaluation` and
`field` never stop and are checked for deadlock.

## Assumptions

- *Settling.*  `Drained`: when the settle sleep ends, what was in flight at the
  teleport has reached the buffer.  This is what `settle_time` is for
  (`runner.py:200`); `FreshFrames` shows that clear and reset then suffice, and
  that their order against PLAY is right.
- *Fairness in Batch.*  The main thread keeps running, except in
  `__receive_command`, which waits for a silent client without a timeout, and the
  buffer thread keeps reading.  Nothing is assumed of commands, frames, links and
  signals.  `MaxFrames` stands for an assessment that ends every episode: without
  one, frames that keep coming hold the batch, and the code promises nothing
  else.
- *Fairness in Server.*  The main thread, a thread in close() and the buffer
  thread keep running.  Strong fairness of `AcceptPeer` and `ReceiveFails`: an
  `accept()` called again and again takes a waiting peer, and a `recv()` called
  again and again reports a closed one.  `ClientHandled` is not fair: nothing
  makes a client send its command, and `ServeEnds` says so in its premise.
  Whether close() is called at all is open.
- *Fairness in Evaluation.*  Time passes (`Tick`), and the loop, which polls
  every millisecond, notices that no frame came (`FrameTimeout`).  Nothing is
  assumed of the frames.
- *The simulator.*  `Shown` takes a packet's entries in order and leaves alone
  what it does not mention.  It is not part of the repository; the comment at
  `tests/integration/test_manager.py:40` relies on the latter.

- *Constants.*  Assessments are names that `load()` finds (`Registered`), a
  tracked ball may lack its velocity (`TrackedBall`).  Templates are dicts of the
  shape the manager indexes, the arguments of a uniform distribution are a pair
  and of a gaussian one number, and a generator never runs dry
  (`FieldAssumption`); keys may be missing, and where the code then raises so
  does the model (`ApplyRaises`, `PacketRaises`).  `max_history_size` is at least one
  (`HistoryAssumption`), `frame_to_wait` too (`EvaluationAssumption`).

## What is proved

Every safety property of the passing runs, the type invariants and the refinements
included, is a theorem `Spec => ...` for every value of the constants.  Each
proof module has an inductive invariant, which TLC finds to hold on the instance
of the run as far as it can evaluate it (`FieldInv` only in part: the packets are
an infinite set).  What follows says what the property alone lacks.

**`EpisodeLoopProofs`**, from `RobotsAssumption` and `LoopAssumption`: any robots,
actions, distances, outcomes and number of frames.

- `TypeCorrect` (`TypeOK`).  The one part that is no type, `pending # <<>> =>
  scenario.coalesce`, is what the next proof needs for scenarios that record
  every frame.
- `AlwaysContiguous` (`Contiguous`).  Every step is shown (`LogSteps`) to do one
  of four things to the log, the written lines and the open one: grow by the
  record of the next frame, lengthen the last record by it, finish, or break off
  with at most the last record lost.  Each keeps a chain a chain.
- `Implementation` (`ImplementsDecisionLog`), from the same four cases: forgetting
  everything but the segments commutes with each.

**`EpisodeRecordsProofs`**, from the same assumptions.  `RecordsInv` says of every
record that it spans pulled frames of its own action and is worth what those
frames were worth plus the distance closed (`Faithful`), that the frames of one
decision are in one record (`Lone`), and what the three locals of the loop have to
do with the last frame (`Open`: `prev_frame` is its distance, `pending` has the
actions held).  Without `Open` a record could be merged with a stale distance.

- `DecisionsRecorded` (`OneDecisionPerRecord`), `ShapingTelescopes`
  (`Telescopes`), `OutcomesStandAlone` (`OutcomeStandsAlone`).

**`BatchProofs`**, from `BatchAssumption` and `HistoryAssumption`: any number of
commands, episodes and frames, any window of at least one.  `BatchInv` is, beside
the types:

- `Within` and `Opened`: an episode under way is within the batch and, in the
  loop, has the last file open.
- `OwnFrames`: from PLAY to the end of the loop, buffer, link and timer hold
  nothing older than this teleport, except that a runner that is shut down may
  skip the settling.
- `Played`, `Filed`, `Tailed`: `PlayingExplained` and `FreshFrames` hold of every
  file, and the window is the tail of the open one.
- `Handing`: what was handed is closed, ascending and before the open file; the
  open file has no terminal line before the loop is left.

They give `BatchTypeCorrect` (`TypeOK`), `NoStaleFrames` (`FreshFrames`),
`TimerStartsAnew` (`TimerFresh`), `EvaluatedOnTail` (`HistoryIsTail`),
`FinishedFilesHanded` (`HandedFinished`) and `PlayingOnExplained`
(`PlayingExplained`).

**`ServerProofs`**, from `ServerAssumption`: every set of callers of close(), both
data modes, any number of connections.  There is no lock, so each invariant says
what a thread's test of an attribute is worth when the other runs before it acts.

- `ServerTypeCorrect` (`TypeOK`), with `connected + waiting <= MaxPeers`.
- `ThreadOutlivesPeers` (`ThreadSurvives`) and `ListenerStays` (`ListenerKept`),
  from `ListenerInv`: until stop() is called no listener is shut down, and the
  open one is the attribute's or the local `_ensure_listener` is about to assign.
- `ConnectionsReleased` (`PeersReleased`), from `PeersInv`: an open connection is
  the attribute `socket` or `accept_once`'s `conn`, `conn` is empty outside
  `accept_once`, and none is open once the thread has let go of its own.
- `PortsReleased` (`PortReleased`), from `PortInv`: what each stage of each close()
  has already closed (`Staged`), that an open port is the one named by the
  attribute (`Named`), and that the main thread is past its last socket when it
  runs its own close() (`OwnClose`).

**`FrameStreamProofs`**, from `StreamAssumption`: any number of records of any
kinds.  The argument is about the wire, what waits in the input buffer followed by
what is in flight: the peer alone lengthens it, receiving moves the boundary, all
else takes pieces from an end.

- `Linked`: first and second pieces alternate, the last piece says whether a
  record is begun, and a connection is read to its end before it is given up.
- `Kept`: a good record received to the end is queued, still in the input buffer,
  or came in behind a foreign one.  It gives `EveryRecordQueued`
  (`ReceivedIsQueued`).
- `Ordered`: records rise along the wire, and what has left it is below what is on
  it.  It gives `FramesPulledInOrder` (`PulledInOrder`).
- `StreamTypeCorrect` (`TypeOK`).
- `IsFrameQueue` (`ImplementsFrameQueue`), step by step from `Linked` and `Sorted`:
  receiving is a stutter, since the wire stays as it is; a turn of `_ingest`
  delivers the least number in flight, or nothing; a lost connection leaves a
  front of the wire, and so the oldest frames.  `Down` says that nothing is in
  flight when a new connection is accepted.

**`EvaluationProofs`**, from `EvaluationAssumption`: all lists of registered
assessments, waits, limits and windows.  `EvaluationInv` says that nothing of the
loop or of a closed file is left between episodes (`Rest`), that the timer is as
old as the episode's first frame (`Timed`), that the window has no more records
than the episode had frames (`OwnRecords`), and that the window of an episode that
records every frame is what was seen, one frame behind in NEONFC mode (`Aligned`).

- `OutcomesKept` (`OutcomeKept`) needs only the types; `TimeoutHonest`
  (`TimerHonest`) needs `Timed`; `StoppedEpisodesWaited` (`StoppedWaits`) needs
  `OwnRecords` and `Aligned`; `EvaluationTypeCorrect` (`TypeOK`).
- `RestedIsStopped`: a frame behind which the ball has rested for the wait triggers
  BallStopped, from `Aligned`, for every wait of 2 or more that the window can
  hold.  It gives `StillBallNoticed` (`StillNoticed`) and, with `Timed`,
  `FirstListedDecides` (`OrderDecides`).  A wait of 1 is excluded in the statements,
  since the code breaks them there.

**`FieldProofs`**, from `FieldAssumption`: every set of scenarios, presets, base
seeds and generators, any number of packets on their way.  `FieldInv` says that
the batch's template is as it was read (`Own`: an episode copies it before it adds
noise), that every packet in the air is of a scene that can be sent or is sent by
hand, and that a field said to show a scene is what that scene's packet makes of
some field before (`Showing`).

- `SeedReplays` (`SameSeedSameScene`), `OnlyTheTwo` (`NobodyLeftOver`),
  `StartsWithinItsNoise` (`NoDrift`), `FieldTypeCorrect` (`TypeOK`).
- A recursive function (`Accepted`, the draws that `apply` uses) is reasoned about
  through a smallest counterexample (`UpTo`, from `WFMin`).

Only model-checked: the liveness properties `StopEndsThread`, `PeerAccepted`,
`ServeEnds`, `CommandAnswered` and `EpisodeEnds`, since fairness and ENABLED are
out of the prover's reach; and the properties of the runs that refute, which are
false.

## Not modelled

- *Generated code.*  Some 12,500 of the repository's 14,456 lines are protocol
  descriptors (`protocols/**/*_pb2.py`): tables that declare messages, nearly all
  of which the program neither makes nor reads.  Those of the teleport are types
  of `Field`; the others have no behaviour to model.
- *Conversions.*  Event serialization (`event.py`), the JSON of a state vector
  and its scaling, the configuration file and argument parsing.
- *Numbers.*  Distances, speeds and scores are integers, signs or sides of a
  threshold; float rounding is out.
- *UDP order.*  Packets to the simulator may be lost or late, not overtake each
  other; `field` has one in the air at a time.  Datagrams of the tracker are
  frames that come or do not.
- *NEONFC frames without a `next_state`.*  `JSONParser` makes one when the message
  has none; `Evaluation` has every frame of that mode with one.
- *The lock inside `threading.Event`.*  The handler of a signal that interrupts a
  call on the shutdown event could wait for the lock its own thread holds; an
  access to the event is one step here.
- *Import machinery.*  `register` and `autodiscover` keep a table of classes.
- *Scripts.*  `update_vision_port.py` sends one configuration packet and ends; of
  `manual_sim_control.py` the menu is left out.

## Plan

1. Done: `Rewards`, `DecisionLog`, `EpisodeLoop` and its proofs, `Recorder`,
   `Batch`, `DataLink`, `FrameStream`.
2. Done: `Server` over `DataLink`, `Evaluation`, `Field`.
3. Done: the type invariants and every safety property of the passing runs as
   theorems.
4. Done: `FrameQueue`, the queue that `Batch` has as `link` and `buffer`.  `Batch`
   marks frames with the era they were made in where `FrameQueue` numbers them,
   and loses all that is in flight at once: what is lost in part is delivered in
   part first.
5. Left: the same for the other components, where a specification of what they
   promise says more than their invariants do, the recorder's first.
