------------------------------ MODULE Recorder -------------------------------
(***************************************************************************)
(* The Recorder of a batch (lynch/result/recorder.py) as a value: one      *)
(* operator per method, from the recorder before the call to the one after *)
(* it.  A file is known by its position among the files opened; a line is  *)
(* abstracted to the sum of its rewards and its done flag, all that        *)
(* summarize_batch reads of it, and the episode its frame belongs to.      *)
(***************************************************************************)
EXTENDS Integers, Sequences, FiniteSets

CONSTANT MaxHistory    \* max_history_size

ASSUME HistoryAssumption == MaxHistory \in Nat \ {0}

NoFile == 0

NewRecorder ==
    [files |-> <<>>,      \* every file opened: its seed and its lines
     current |-> NoFile,  \* __current_file
     history |-> <<>>,    \* __history
     closed |-> <<>>,     \* __closed_files
     seeds |-> <<>>]      \* <<__first_seed, __last_seed>>, <<>> before the first

\* mutant: the sliding window survives the scenario
EndScenarioKeepsHistory(rec) ==
    [rec EXCEPT !.closed = IF rec.current = NoFile THEN @ ELSE Append(@, rec.current),
                !.current = NoFile]

EndScenario(rec) ==
    [rec EXCEPT !.closed = IF rec.current = NoFile THEN @ ELSE Append(@, rec.current),
                !.current = NoFile,
                !.history = <<>>]

\* a scenario still open is ended first, and only then
EndOpenScenario(rec) == IF rec.current = NoFile THEN rec ELSE EndScenario(rec)

StartScenario(rec, seed) ==
    LET ended == EndOpenScenario(rec)
    IN  [ended EXCEPT !.files = Append(@, [seed |-> seed, lines |-> <<>>]),
                      !.current = Len(ended.files) + 1,
                      !.seeds = IF @ = <<>> THEN <<seed, seed>> ELSE <<@[1], seed>>]

\* deque(maxlen=max_history_size).append
Slide(window, line) ==
    IF Len(window) < MaxHistory THEN Append(window, line) ELSE Append(Tail(window), line)

\* the line goes to the end of one file
Written(files, i, line) == [files EXCEPT ![i].lines = Append(@, line)]

Put(rec, line) ==
    [rec EXCEPT !.files = IF rec.current = NoFile THEN @ ELSE Written(@, rec.current, line),
                !.history = Slide(@, line)]

LastLine(file) == file.lines[Len(file.lines)]

(***************************************************************************)
(* summarize_batch: files without a line are skipped, the last line of the *)
(* others is the episode's score.                                          *)
(***************************************************************************)
Scored(rec) == {i \in DOMAIN rec.closed : rec.files[rec.closed[i]].lines # <<>>}

Passed(rec) == {i \in Scored(rec) : LastLine(rec.files[rec.closed[i]]).worth > 0}

Summary(rec) ==
    [tests_ran |-> Cardinality(Scored(rec)),
     tests_passed |-> Cardinality(Passed(rec)),
     seeds |-> rec.seeds]
=============================================================================
