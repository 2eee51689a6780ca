----------------------------- MODULE FrameStream -----------------------------
(***************************************************************************)
(* The bytes of the data link on their way to the runner: Buffer._ingest   *)
(* cuts what recv() returns into newline-delimited records                 *)
(* (lynch/state/buffer.py), JSONParser turns a record into a Transition    *)
(* (lynch/state/parsers.py), and the main thread pulls and clears.         *)
(*                                                                         *)
(* A record is sent in two pieces, the second with the newline; recv() may *)
(* return any prefix of what is in flight, and a connection may be lost    *)
(* anywhere.  A record is "good", "bad" (the parser logs it and returns    *)
(* None) or "foreign" (JSON, but not an object: `payload.get` raises an    *)
(* AttributeError, which the parser does not catch).                       *)
(***************************************************************************)
EXTENDS Naturals, SequencesExt

CONSTANTS
    Kinds,       \* the kinds of records the peer may send
    MaxRecords   \* bound: records the peer sends

ASSUME StreamAssumption == Kinds \subseteq {"good", "bad", "foreign"} /\ MaxRecords \in Nat

VARIABLES
    reader,      \* what the buffer thread does next
    up,          \* the peer has the connection open
    sent,        \* records begun
    writing,     \* kind of the record the peer has begun, or "none"
    stream,      \* pieces in flight
    input,       \* _input_buffer
    buffer,      \* _buffer
    whole,       \* history: good records received to the end
    behind,      \* history: those of them that came in behind a foreign one
    queued,      \* history: frames appended
    pulled       \* history: frames pulled

peer == <<up, sent, writing, stream>>
frames == <<buffer, queued, pulled>>
received == <<whole, behind>>
vars == <<reader, peer, input, received, frames>>

Piece == [record : 1..MaxRecords, part : {1, 2}, kind : Kinds]

Init ==
    /\ reader = "accept" /\ up = FALSE /\ sent = 0 /\ writing = "none"
    /\ stream = <<>> /\ input = <<>> /\ buffer = <<>>
    /\ whole = {} /\ behind = {} /\ queued = <<>> /\ pulled = <<>>

-----------------------------------------------------------------------------
BeginRecord ==
    /\ up /\ writing = "none" /\ sent < MaxRecords
    /\ sent' = sent + 1
    /\ writing' \in Kinds
    /\ stream' = Append(stream, [record |-> sent', part |-> 1, kind |-> writing'])
    /\ UNCHANGED <<reader, up, input, received, frames>>

EndRecord ==
    /\ up /\ writing # "none"
    /\ writing' = "none"
    /\ stream' = Append(stream, [record |-> sent, part |-> 2, kind |-> writing])
    /\ UNCHANGED <<reader, up, sent, input, received, frames>>

\* the peer goes away; what was in flight may be lost with it
PeerLeaves ==
    /\ up
    /\ up' = FALSE
    /\ writing' = "none"
    /\ \E n \in 0..Len(stream) : stream' = SubSeq(stream, 1, n)
    /\ UNCHANGED <<reader, sent, input, received, frames>>

-----------------------------------------------------------------------------
\* accept_once returns a new connection
Accept ==
    /\ reader = "accept"
    /\ reader' = "receive"
    /\ up' = TRUE
    /\ UNCHANGED <<sent, writing, stream, input, received, frames>>

GoodEnds(pieces) ==
    {pieces[i].record : i \in {k \in DOMAIN pieces :
        pieces[k].part = 2 /\ pieces[k].kind = "good"}}

BehindForeign(pieces) ==
    {pieces[j].record : j \in {k \in DOMAIN pieces :
        \E i \in 1 .. k - 1 : pieces[i].part = 2 /\ pieces[i].kind = "foreign"}}

\* raw_data = receive(); self._input_buffer += raw_data
Receive ==
    /\ reader = "receive"
    /\ \E n \in 1..Len(stream) :
          /\ input' = input \o SubSeq(stream, 1, n)
          /\ stream' = SubSeq(stream, n + 1, Len(stream))
          /\ whole' = whole \cup GoodEnds(SubSeq(stream, 1, n))
          /\ behind' = behind \cup BehindForeign(input')
    /\ reader' = "ingest"
    /\ UNCHANGED <<up, sent, writing, frames>>

Newline(bytes) == SelectInSeq(bytes, LAMBDA piece : piece.part = 2)

\* parse_from_bytes: two records run together are not JSON
Parse(line) == IF Len(line) = 2 THEN line[2].kind ELSE "bad"

\* mutant: `if` for `while`, one line per recv
IngestFirstLine ==
    /\ reader = "ingest"
    /\ LET end == Newline(input)
           line == SubSeq(input, 1, end)
       IN  /\ end # 0
           /\ input' = SubSeq(input, end + 1, Len(input))
           /\ IF Parse(line) = "good"
              THEN /\ buffer' = Append(buffer, line[end].record)
                   /\ queued' = Append(queued, line[end].record)
              ELSE UNCHANGED <<buffer, queued>>
           /\ reader' = "receive"
    /\ UNCHANGED <<peer, received, pulled>>

\* one turn of `while b"\n" in self._input_buffer`; an error leaves the loop
IngestLine ==
    /\ reader = "ingest"
    /\ LET end == Newline(input)
           line == SubSeq(input, 1, end)
       IN  /\ end # 0
           /\ input' = SubSeq(input, end + 1, Len(input))
           /\ IF Parse(line) = "good"
              THEN /\ buffer' = Append(buffer, line[end].record)
                   /\ queued' = Append(queued, line[end].record)
              ELSE UNCHANGED <<buffer, queued>>
           /\ reader' = IF Parse(line) = "foreign" THEN "receive" ELSE "ingest"
    /\ UNCHANGED <<peer, received, pulled>>

\* mutant: what is left behind the last newline is dropped
DropRest ==
    /\ reader = "ingest" /\ Newline(input) = 0
    /\ input' = <<>>
    /\ reader' = "receive"
    /\ UNCHANGED <<peer, received, frames>>

IngestDone ==
    /\ reader = "ingest" /\ Newline(input) = 0
    /\ reader' = "receive"
    /\ UNCHANGED <<peer, input, received, frames>>

\* receive() raises once all that arrived is read
LinkLost ==
    /\ reader = "receive" /\ ~up /\ stream = <<>>
    /\ reader' = "reset"
    /\ UNCHANGED <<peer, input, received, frames>>

\* mutant: the input buffer is carried over to the next connection
KeepInput ==
    /\ reader = "reset"
    /\ reader' = "accept"
    /\ UNCHANGED <<peer, input, received, frames>>

\* _reset_input_buffer
ResetInput ==
    /\ reader = "reset"
    /\ input' = <<>>
    /\ reader' = "accept"
    /\ UNCHANGED <<peer, received, frames>>

-----------------------------------------------------------------------------
\* mutant: pop() for popleft()
PullLast ==
    /\ buffer # <<>>
    /\ pulled' = Append(pulled, Last(buffer))
    /\ buffer' = Front(buffer)
    /\ UNCHANGED <<reader, peer, input, received, queued>>

Pull ==
    /\ buffer # <<>>
    /\ pulled' = Append(pulled, Head(buffer))
    /\ buffer' = Tail(buffer)
    /\ UNCHANGED <<reader, peer, input, received, queued>>

Clear ==
    /\ buffer' = <<>>
    /\ UNCHANGED <<reader, peer, input, received, queued, pulled>>

Next ==
    \/ BeginRecord \/ EndRecord \/ PeerLeaves
    \/ Accept \/ Receive \/ IngestLine \/ IngestDone \/ LinkLost \/ ResetInput
    \/ Pull \/ Clear

Spec == Init /\ [][Next]_vars

-----------------------------------------------------------------------------
TypeOK ==
    /\ reader \in {"accept", "receive", "ingest", "reset"}
    /\ up \in BOOLEAN /\ sent \in 0..MaxRecords /\ writing \in Kinds \cup {"none"}
    /\ stream \in Seq(Piece) /\ input \in Seq(Piece)
    /\ {buffer, queued, pulled} \subseteq Seq(1..MaxRecords)
    /\ whole \subseteq 1..MaxRecords /\ behind \subseteq 1..MaxRecords
    /\ reader = "accept" => ~up /\ input = <<>>

(***************************************************************************)
(* When the reader turns to the link again, every good record received to  *)
(* its end is queued, once and in order: however recv() cut the stream,    *)
(* whatever bad records are between, and although a connection was lost in *)
(* the middle of a record (buffer.py:51, 64-69).  Only what came in behind *)
(* a foreign record in the same buffer may be missing: the exception       *)
(* leaves it waiting there, and a lost link discards it (buffer.py:76).    *)
(***************************************************************************)
ReceivedIsQueued ==
    reader \in {"receive", "accept"} =>
        /\ \A i \in 1..Len(queued) - 1 : queued[i] < queued[i + 1]
        /\ ToSet(queued) \subseteq whole
        /\ whole \ ToSet(queued) \subseteq behind

(***************************************************************************)
(* The main thread pulls frames in the order they were sent, none twice,   *)
(* whatever it cleared and lost in between (buffer.py:86-95).              *)
(***************************************************************************)
PulledInOrder ==
    LET all == pulled \o buffer
    IN  \A i \in 1..Len(all) - 1 : all[i] < all[i + 1]

-----------------------------------------------------------------------------
\* a record is sent when its newline is
Newest == IF writing = "none" THEN sent ELSE sent - 1

\* and in flight until its turn in _ingest
InFlight == GoodEnds(input \o stream)

Queue == INSTANCE FrameQueue WITH newest <- Newest, flight <- InFlight

(***************************************************************************)
(* The bytes of _input_buffer and of the link, cut anywhere, are a queue   *)
(* of frames: one that is sent whole is queued in its turn unless its      *)
(* connection is lost, even behind a record the parser raises on, and      *)
(* nothing of a lost connection comes in with the next, not half a record  *)
(* (buffer.py:51, 58-80).                                                  *)
(***************************************************************************)
ImplementsFrameQueue == Queue!QueueSpec
=============================================================================
