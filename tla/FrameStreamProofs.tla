--------------------------- MODULE FrameStreamProofs ---------------------------
(***************************************************************************)
(* The data link for any number of records of any kinds: what is received  *)
(* whole is queued, once and in order, and pulled in that order, however   *)
(* the stream is cut and wherever a connection ends.                       *)
(*                                                                         *)
(* The argument is about the wire: what waits in the input buffer followed *)
(* by what is in flight.  The peer alone makes it longer; receiving moves  *)
(* its boundary, and all else takes pieces from one of its ends.           *)
(***************************************************************************)
EXTENDS FrameStream, SequenceTheorems, TLAPS

wire == input \o stream

Numbers == 1..MaxRecords

Typed ==
    /\ reader \in {"accept", "receive", "ingest", "reset"}
    /\ up \in BOOLEAN /\ sent \in 0..MaxRecords /\ writing \in Kinds \cup {"none"}
    /\ stream \in Seq(Piece) /\ input \in Seq(Piece)
    /\ buffer \in Seq(Numbers) /\ queued \in Seq(Numbers) /\ pulled \in Seq(Numbers)
    /\ whole \subseteq Numbers /\ behind \subseteq Numbers

\* the connection is down and read to the end before it is given up
Down ==
    /\ ~up => writing = "none"
    /\ reader \in {"accept", "reset"} => ~up /\ stream = <<>>
    /\ reader = "accept" => input = <<>>

\* pieces alternate, the second of a record behind its first
Alternating ==
    /\ wire # <<>> => wire[1].part = 1
    /\ \A i \in 1..Len(wire) - 1 :
          /\ wire[i].part = 1 => /\ wire[i + 1].part = 2
                                 /\ wire[i + 1].record = wire[i].record
                                 /\ wire[i + 1].kind = wire[i].kind
          /\ wire[i].part = 2 => wire[i + 1].part = 1

\* the last piece says whether a record is begun
Writing ==
    up => /\ writing = "none" /\ wire # <<>> => wire[Len(wire)].part = 2
          /\ writing # "none" => /\ wire # <<>> /\ wire[Len(wire)].part = 1
                                 /\ wire[Len(wire)].record = sent
                                 /\ wire[Len(wire)].kind = writing

Linked == Typed /\ Down /\ Alternating /\ Writing

-----------------------------------------------------------------------------
(***************************************************************************)
(* Pieces of sequences.                                                    *)
(***************************************************************************)
\* a prefix
LEMMA Prefix ==
    ASSUME NEW S, NEW seq \in Seq(S), NEW n \in 0..Len(seq)
    PROVE  /\ SubSeq(seq, 1, n) \in Seq(S) /\ Len(SubSeq(seq, 1, n)) = n
           /\ \A i \in 1..n : SubSeq(seq, 1, n)[i] = seq[i]
<1>1. n \in Int /\ Len(seq) \in Nat /\ \A i \in 1..n : seq[i] \in S
  OBVIOUS
<1>2. /\ SubSeq(seq, 1, n) \in Seq(S)
      /\ Len(SubSeq(seq, 1, n)) = IF 1 <= n THEN n - 1 + 1 ELSE 0
      /\ \A i \in 1..n - 1 + 1 : SubSeq(seq, 1, n)[i] = seq[1 + i - 1]
  BY <1>1, SubSeqProperties
<1>3. \A i \in 1..n : i \in 1..n - 1 + 1 /\ 1 + i - 1 = i
  BY <1>1
<1> QED
  BY <1>1, <1>2, <1>3

\* what a prefix leaves
LEMMA Rest ==
    ASSUME NEW S, NEW seq \in Seq(S), NEW n \in 0..Len(seq)
    PROVE  /\ SubSeq(seq, n + 1, Len(seq)) \in Seq(S)
           /\ Len(SubSeq(seq, n + 1, Len(seq))) = Len(seq) - n
           /\ \A i \in 1..Len(seq) - n : SubSeq(seq, n + 1, Len(seq))[i] = seq[n + i]
<1> DEFINE m == n + 1
           last == Len(seq)
<1>1. m \in Int /\ last \in Int /\ n \in Nat /\ Len(seq) \in Nat
      /\ \A i \in m..last : seq[i] \in S
  OBVIOUS
<1> HIDE DEF m, last
<1>2. /\ SubSeq(seq, m, last) \in Seq(S)
      /\ Len(SubSeq(seq, m, last)) = IF m <= last THEN last - m + 1 ELSE 0
      /\ \A i \in 1..last - m + 1 : SubSeq(seq, m, last)[i] = seq[m + i - 1]
  BY <1>1, SubSeqProperties
<1>3. (IF m <= last THEN last - m + 1 ELSE 0) = Len(seq) - n
  BY <1>1 DEF m, last
<1>4. \A i \in 1..Len(seq) - n : i \in 1..last - m + 1 /\ m + i - 1 = n + i
  BY <1>1 DEF m, last
<1> QED
  BY <1>2, <1>3, <1>4 DEF m, last

\* the wire, place by place
LEMMA WireFields ==
    ASSUME NEW s \in Seq(Piece), NEW t \in Seq(Piece)
    PROVE  /\ s \o t \in Seq(Piece) /\ Len(s \o t) = Len(s) + Len(t)
           /\ \A i \in 1..Len(s) : (s \o t)[i] = s[i]
           /\ \A i \in 1..Len(t) : (s \o t)[Len(s) + i] = t[i]
<1>1. /\ s \o t \in Seq(Piece) /\ Len(s \o t) = Len(s) + Len(t)
      /\ \A i \in 1..Len(s) + Len(t) : (s \o t)[i] =
            IF i <= Len(s) THEN s[i] ELSE t[i - Len(s)]
  BY ConcatProperties
<1>2. Len(s) \in Nat /\ Len(t) \in Nat
  OBVIOUS
<1>3. \A i \in 1..Len(s) : i \in 1..Len(s) + Len(t) /\ i <= Len(s)
  BY <1>2
<1>4. \A i \in 1..Len(t) : /\ Len(s) + i \in 1..Len(s) + Len(t) /\ ~(Len(s) + i <= Len(s))
                          /\ (Len(s) + i) - Len(s) = i
  BY <1>2
<1> QED
  BY <1>1, <1>3, <1>4

\* a piece more in flight is a piece more on the wire
LEMMA WireAppend ==
    ASSUME NEW s \in Seq(Piece), NEW t \in Seq(Piece), NEW piece \in Piece
    PROVE  s \o Append(t, piece) = Append(s \o t, piece)
<1>1. Append(t, piece) = t \o <<piece>> /\ <<piece>> \in Seq(Piece)
  BY AppendIsConcat
<1>2. s \o t \in Seq(Piece)
  BY WireFields
<1>3. Append(s \o t, piece) = (s \o t) \o <<piece>>
  BY <1>2, AppendIsConcat
<1> QED
  BY <1>1, <1>3, ConcatAssociative

LEMMA Associates ==
    ASSUME NEW s \in Seq(Piece), NEW t \in Seq(Piece), NEW u \in Seq(Piece)
    PROVE  (s \o t) \o u = s \o (t \o u)
BY ConcatAssociative

\* receiving moves pieces within the wire
LEMMA WireReceived ==
    ASSUME NEW s \in Seq(Piece), NEW t \in Seq(Piece), NEW n \in 0..Len(t)
    PROVE  (s \o SubSeq(t, 1, n)) \o SubSeq(t, n + 1, Len(t)) = s \o t
<1> DEFINE front == SubSeq(t, 1, n)
           back == SubSeq(t, n + 1, Len(t))
<1>1. front \in Seq(Piece) /\ back \in Seq(Piece)
  BY Prefix, Rest
<1>2. front \o back = t
  <2>1. 1 \in 1..Len(t) + 1 /\ n \in 1 - 1..Len(t) /\ Len(t) \in n..Len(t)
    OBVIOUS
  <2>2. front \o back = SubSeq(t, 1, Len(t))
    BY <2>1, ConcatAdjacentSubSeq
  <2> QED
    BY <2>2, SubSeqFull
<1> HIDE DEF front, back
<1>3. (s \o front) \o back = s \o (front \o back)
  BY <1>1, Associates
<1> QED
  BY <1>2, <1>3 DEF front, back

-----------------------------------------------------------------------------
(***************************************************************************)
(* A line.  The pieces alternate, so the first newline of the input buffer *)
(* is its second piece, and the line in front of it one record.            *)
(***************************************************************************)
\* where the first newline is
LEMMA FirstNewline ==
    ASSUME NEW bytes \in Seq(Piece), bytes # <<>> => bytes[1].part = 1,
           Len(bytes) >= 2 => bytes[2].part = 2
    PROVE  /\ Len(bytes) >= 2 => Newline(bytes) = 2
           /\ ~(Len(bytes) >= 2) => Newline(bytes) = 0
<1> DEFINE ends == {i \in 1..Len(bytes) : bytes[i].part = 2}
<1>1. Newline(bytes) = IF ends # {} THEN Min(ends) ELSE 0
  BY DEF Newline, SelectInSeq
<1>2. Min(ends) = CHOOSE x \in ends : \A y \in ends : x <= y
  BY DEF Min
<1>3. ASSUME Len(bytes) >= 2
      PROVE  Newline(bytes) = 2
  <2>1. bytes[1].part = 1 /\ 2 \in ends
    BY <1>3
  <2>2. \A j \in ends : 2 <= j
    BY <2>1
  <2>3. \A x \in ends : (\A y \in ends : x <= y) => x = 2
    BY <2>1, <2>2
  <2> HIDE DEF ends
  <2> QED
    BY <1>1, <1>2, <2>1, <2>2, <2>3
<1>4. ASSUME ~(Len(bytes) >= 2)
      PROVE  Newline(bytes) = 0
  <2>1. \A i \in 1..Len(bytes) : i = 1 /\ bytes # <<>>
    BY <1>4
  <2>2. ends = {}
    BY <2>1
  <2> QED
    BY <1>1, <2>2
<1> QED
  BY <1>3, <1>4

\* the input buffer is the near end of the wire
LEMMA InputOnWire ==
    ASSUME Linked
    PROVE  /\ wire \in Seq(Piece) /\ Len(wire) = Len(input) + Len(stream)
           /\ Len(wire) \in Nat /\ Len(input) \in Nat /\ Len(stream) \in Nat
           /\ \A i \in 1..Len(input) : wire[i] = input[i] /\ input[i] \in Piece
           /\ input # <<>> => input[1].part = 1
           /\ Len(input) >= 2 => /\ input[2].part = 2
                                 /\ input[1].record = input[2].record
<1>1. input \in Seq(Piece) /\ stream \in Seq(Piece)
  BY DEF Linked, Typed
<1>2. /\ wire \in Seq(Piece) /\ Len(wire) = Len(input) + Len(stream)
      /\ \A i \in 1..Len(input) : wire[i] = input[i]
  BY <1>1, WireFields DEF wire
<1>3. Len(input) \in Nat /\ Len(stream) \in Nat /\ Len(wire) \in Nat
      /\ \A i \in 1..Len(input) : input[i] \in Piece
  BY <1>1, <1>2
<1>4. input # <<>> => input[1].part = 1
  <2>1. input # <<>> => 1 \in 1..Len(input) /\ 1 \in 1..Len(wire)
    BY <1>1, <1>2, <1>3
  <2>2. 1 \in 1..Len(wire) => wire # <<>>
    BY <1>2
  <2> QED
    BY <1>2, <2>1, <2>2 DEF Linked, Alternating
<1>5. ASSUME Len(input) >= 2
      PROVE  input[2].part = 2 /\ input[1].record = input[2].record
  <2>1. 1 \in 1..Len(wire) - 1 /\ 1 \in 1..Len(input) /\ 2 \in 1..Len(input) /\ input # <<>>
    BY <1>1, <1>2, <1>3, <1>5
  <2>2. /\ wire[1].part = 1 => wire[1 + 1].part = 2 /\ wire[1 + 1].record = wire[1].record
    BY <2>1 DEF Linked, Alternating
  <2>3. wire[1] = input[1] /\ wire[1 + 1] = input[2]
    BY <1>2, <2>1
  <2> QED
    BY <1>4, <2>1, <2>2, <2>3
<1> QED
  BY <1>2, <1>3, <1>4, <1>5

\* one turn of the loop takes one record from the input buffer
LEMMA OneLine ==
    ASSUME Linked, IngestLine
    PROVE  /\ Len(input) >= 2 /\ input' = SubSeq(input, 3, Len(input))
           /\ reader = "ingest"
           /\ reader' = IF input[2].kind = "foreign" THEN "receive" ELSE "ingest"
           /\ input[2].kind = "good" =>
                 /\ buffer' = Append(buffer, input[2].record)
                 /\ queued' = Append(queued, input[2].record)
           /\ input[2].kind # "good" => UNCHANGED <<buffer, queued>>
           /\ UNCHANGED <<up, sent, writing, stream, whole, behind, pulled>>
<1>1. input \in Seq(Piece)
  BY DEF Linked, Typed
<1>2. Len(input) >= 2 /\ Newline(input) = 2
  <2>1. Newline(input) # 0
    BY DEF IngestLine
  <2> QED
    BY <1>1, <2>1, InputOnWire, FirstNewline
<1> DEFINE line == SubSeq(input, 1, 2)
<1>3. Len(line) = 2 /\ line[2] = input[2]
  <2>1. 2 \in 0..Len(input) /\ 2 \in 1..2
    BY <1>1, <1>2
  <2> QED
    BY <1>1, <2>1, Prefix
<1>4. Parse(line) = input[2].kind
  BY <1>3 DEF Parse
<1>5. /\ reader = "ingest" /\ input' = SubSeq(input, 2 + 1, Len(input))
      /\ IF Parse(line) = "good"
         THEN /\ buffer' = Append(buffer, line[2].record)
              /\ queued' = Append(queued, line[2].record)
         ELSE UNCHANGED <<buffer, queued>>
      /\ reader' = IF Parse(line) = "foreign" THEN "receive" ELSE "ingest"
      /\ UNCHANGED <<peer, received, pulled>>
  BY <1>2 DEF IngestLine
<1> HIDE DEF line
<1>6. UNCHANGED <<up, sent, writing, stream, whole, behind, pulled>>
  BY <1>5 DEF peer, received
<1> QED
  BY <1>2, <1>3, <1>4, <1>5, <1>6

-----------------------------------------------------------------------------
(***************************************************************************)
(* The wire, step by step.                                                 *)
(***************************************************************************)
\* the peer begins a record behind all it sent, or ends the one it began
Sends(piece) ==
    /\ up /\ up' /\ wire' = Append(wire, piece)
    /\ \/ /\ writing = "none" /\ piece.part = 1 /\ piece.record = sent + 1
          /\ sent' = sent + 1 /\ writing' = piece.kind
       \/ /\ writing # "none" /\ piece.part = 2 /\ piece.record = sent /\ piece.kind = writing
          /\ sent' = sent /\ writing' = "none"

\* nothing, or one record, is taken from the near end, and some of the far end
Cuts(k) ==
    /\ Len(wire') + k <= Len(wire)
    /\ \A i \in 1..Len(wire') : wire'[i] = wire[i + k]
    /\ k = 0 \/ (k = 2 /\ wire[2].part = 2)
    /\ sent' = sent /\ writing' \in {writing, "none"}
    /\ up' => /\ writing' = writing /\ Len(wire') + k = Len(wire)
              /\ up \/ (wire = <<>> /\ writing = "none")

\* the peer's two steps put a piece on the wire
LEMMA PeerSends ==
    ASSUME Linked, BeginRecord \/ EndRecord
    PROVE  /\ \E piece \in Piece : Sends(piece) /\ stream' = Append(stream, piece)
           /\ UNCHANGED <<reader, up, input, whole, behind, buffer, queued, pulled>>
           /\ sent' \in 0..MaxRecords /\ writing' \in Kinds \cup {"none"}
<1>1. /\ input \in Seq(Piece) /\ stream \in Seq(Piece) /\ sent \in Nat /\ MaxRecords \in Nat
      /\ sent \in 0..MaxRecords /\ writing \in Kinds \cup {"none"} /\ up \in BOOLEAN
  BY StreamAssumption DEF Linked, Typed
<1>2. CASE BeginRecord
  <2> DEFINE piece == [record |-> sent + 1, part |-> 1, kind |-> writing']
  <2>1. /\ up /\ writing = "none" /\ sent < MaxRecords /\ sent' = sent + 1 /\ writing' \in Kinds
        /\ stream' = Append(stream, [record |-> sent', part |-> 1, kind |-> writing'])
        /\ UNCHANGED <<reader, up, input, whole, behind, buffer, queued, pulled>>
    BY <1>2 DEF BeginRecord, received, frames
  <2>2. sent + 1 \in 1..MaxRecords
    BY <1>1, <2>1
  <2>3. piece \in Piece /\ piece.part = 1 /\ piece.record = sent + 1 /\ piece.kind = writing'
    BY <2>1, <2>2 DEF Piece
  <2>4. stream' = Append(stream, piece)
    BY <2>1
  <2> HIDE DEF piece
  <2>5. wire' = Append(wire, piece)
    BY <1>1, <2>1, <2>3, <2>4, WireAppend DEF wire
  <2>6. up'
    BY <2>1, Zenon
  <2>7. Sends(piece)
    BY <2>1, <2>3, <2>5, <2>6 DEF Sends
  <2>8. sent' \in 0..MaxRecords
    BY <1>1, <2>1
  <2> QED
    BY <2>1, <2>3, <2>4, <2>7, <2>8
<1>3. CASE EndRecord
  <2> DEFINE piece == [record |-> sent, part |-> 2, kind |-> writing]
  <2>1. /\ up /\ writing # "none" /\ writing' = "none" /\ stream' = Append(stream, piece)
        /\ UNCHANGED <<reader, up, sent, input, whole, behind, buffer, queued, pulled>>
    BY <1>3 DEF EndRecord, received, frames
  <2>2. sent \in Numbers
    <3>1. wire # <<>> /\ wire[Len(wire)].record = sent
      BY <2>1 DEF Linked, Writing
    <3>2. wire[Len(wire)] \in Piece
      BY <3>1, InputOnWire
    <3> QED
      BY <3>1, <3>2 DEF Piece, Numbers
  <2>3. piece \in Piece /\ piece.part = 2 /\ piece.record = sent /\ piece.kind = writing
    BY <1>1, <2>1, <2>2 DEF Piece, Numbers
  <2> HIDE DEF piece
  <2>4. wire' = Append(wire, piece)
    BY <1>1, <2>1, <2>3, WireAppend DEF wire
  <2>5. up'
    BY <2>1, Zenon
  <2>6. Sends(piece)
    BY <2>1, <2>3, <2>4, <2>5 DEF Sends
  <2> QED
    BY <1>1, <2>1, <2>3, <2>6
<1> QED
  BY <1>2, <1>3

\* receiving leaves the wire what it is
LEMMA ReceiveKeepsWire ==
    ASSUME Linked, Receive
    PROVE  wire' = wire
<1>1. input \in Seq(Piece) /\ stream \in Seq(Piece)
  BY DEF Linked, Typed
<1>2. PICK n \in 1..Len(stream) : /\ input' = input \o SubSeq(stream, 1, n)
                                  /\ stream' = SubSeq(stream, n + 1, Len(stream))
  BY DEF Receive
<1>3. n \in 0..Len(stream)
  BY <1>1, <1>2
<1> QED
  BY <1>1, <1>2, <1>3, WireReceived DEF wire

\* one turn of the loop takes one record from the near end of the wire
LEMMA LineCuts ==
    ASSUME Linked, IngestLine
    PROVE  Cuts(2)
<1>10. /\ input \in Seq(Piece) /\ stream \in Seq(Piece) /\ wire \in Seq(Piece)
       /\ Len(wire) \in Nat /\ up \in BOOLEAN
  BY InputOnWire DEF Linked, Typed
<1>1. /\ Len(input) >= 2 /\ input' = SubSeq(input, 3, Len(input))
      /\ UNCHANGED <<up, sent, writing, stream>>
  BY OneLine
<1>2. 2 \in 0..Len(input) /\ Len(input) \in Nat /\ Len(stream) \in Nat /\ 2 + 1 = 3
  BY <1>10, <1>1
<1>3. /\ input' \in Seq(Piece) /\ Len(input') = Len(input) - 2
      /\ \A i \in 1..Len(input) - 2 : input'[i] = input[2 + i]
  BY <1>10, <1>1, <1>2, Rest
<1>4. /\ Len(wire') = Len(input) - 2 + Len(stream)
      /\ \A i \in 1..Len(input) - 2 : wire'[i] = input[2 + i]
      /\ \A i \in 1..Len(stream) : wire'[Len(input) - 2 + i] = stream[i]
  <2>1. wire' = input' \o stream
    BY <1>1 DEF wire
  <2>2. /\ Len(input' \o stream) = Len(input') + Len(stream)
        /\ \A i \in 1..Len(input') : (input' \o stream)[i] = input'[i]
        /\ \A i \in 1..Len(stream) : (input' \o stream)[Len(input') + i] = stream[i]
    BY <1>10, <1>3, WireFields
  <2> QED
    BY <1>3, <2>1, <2>2
<1>5. /\ Len(wire) = Len(input) + Len(stream)
      /\ \A i \in 1..Len(input) : wire[i] = input[i]
      /\ \A i \in 1..Len(stream) : wire[Len(input) + i] = stream[i]
  BY <1>10, WireFields DEF wire
<1>6. Len(wire') + 2 = Len(wire)
  BY <1>2, <1>4, <1>5
<1>7. ASSUME NEW i \in 1..Len(wire')
      PROVE  wire'[i] = wire[i + 2]
  <2>1. CASE i \in 1..Len(input) - 2
    <3>1. i + 2 \in 1..Len(input) /\ 2 + i = i + 2
      BY <1>2, <2>1
    <3> QED
      BY <1>4, <1>5, <2>1, <3>1
  <2>2. CASE i \notin 1..Len(input) - 2
    <3> DEFINE j == i - (Len(input) - 2)
    <3>1. j \in 1..Len(stream) /\ Len(input) - 2 + j = i /\ Len(input) + j = i + 2
      BY <1>1, <1>2, <1>4, <2>2
    <3> HIDE DEF j
    <3> QED
      BY <1>4, <1>5, <3>1
  <2> QED
    BY <2>1, <2>2
<1>8. wire[2].part = 2
  BY <1>1, <1>2, InputOnWire
<1>9. up' => up
  BY <1>1, Zenon
<1> QED
  BY <1>10, <1>1, <1>6, <1>7, <1>8, <1>9 DEF Cuts

\* what is no step of the peer cuts the wire, or leaves it alone
LEMMA WireSteps ==
    ASSUME Linked, [Next]_vars
    PROVE  (\E piece \in Piece : Sends(piece)) \/ Cuts(0) \/ Cuts(2)
<1>1. /\ input \in Seq(Piece) /\ stream \in Seq(Piece) /\ wire \in Seq(Piece)
      /\ Len(wire) \in Nat /\ up \in BOOLEAN
  BY InputOnWire DEF Linked, Typed
<1>2. ASSUME wire' = wire, UNCHANGED <<up, sent, writing>>
      PROVE  Cuts(0)
  <2>1. up' => up
    BY <1>2, Zenon
  <2>2. \A i \in 1..Len(wire) : i + 0 = i
    BY <1>1
  <2> QED
    BY <1>1, <1>2, <2>1, <2>2 DEF Cuts
<1>3. CASE BeginRecord \/ EndRecord
  BY <1>3, PeerSends
<1>4. CASE PeerLeaves
  <2>1. /\ ~up' /\ writing' = "none" /\ UNCHANGED <<sent, input>>
    BY <1>4 DEF PeerLeaves
  <2>2. PICK n \in 0..Len(stream) : stream' = SubSeq(stream, 1, n)
    BY <1>4 DEF PeerLeaves
  <2>3. /\ stream' \in Seq(Piece) /\ Len(stream') = n
        /\ \A i \in 1..n : stream'[i] = stream[i]
    BY <1>1, <2>2, Prefix
  <2>4. /\ Len(wire') = Len(input) + n
        /\ \A i \in 1..Len(input) : wire'[i] = input[i]
        /\ \A i \in 1..n : wire'[Len(input) + i] = stream[i]
    <3>1. PICK rest \in Seq(Piece) : rest = stream'
      BY <2>3
    <3>2. /\ Len(input \o rest) = Len(input) + Len(rest)
          /\ \A i \in 1..Len(input) : (input \o rest)[i] = input[i]
          /\ \A i \in 1..Len(rest) : (input \o rest)[Len(input) + i] = rest[i]
      BY <1>1, WireFields
    <3>3. wire' = input \o rest
      BY <2>1, <3>1 DEF wire
    <3> QED
      BY <2>3, <3>1, <3>2, <3>3
  <2>5. /\ Len(wire) = Len(input) + Len(stream) /\ Len(input) \in Nat /\ Len(stream) \in Nat
        /\ \A i \in 1..Len(input) : wire[i] = input[i]
        /\ \A i \in 1..Len(stream) : wire[Len(input) + i] = stream[i]
    BY <1>1, WireFields DEF wire
  <2>6. n \in Nat /\ n <= Len(stream)
    BY <2>2, <2>5
  <2>7. Len(wire') + 0 <= Len(wire)
    BY <2>4, <2>5, <2>6
  <2>8. ASSUME NEW i \in 1..Len(wire')
        PROVE  wire'[i] = wire[i + 0]
    <3>1. CASE i \in 1..Len(input)
      BY <2>4, <2>5, <3>1
    <3>2. CASE i \notin 1..Len(input)
      <4>1. i - Len(input) \in 1..n /\ Len(input) + (i - Len(input)) = i /\ i + 0 = i
        BY <2>4, <2>5, <2>6, <3>2
      <4>2. i - Len(input) \in 1..Len(stream)
        BY <2>5, <2>6, <4>1
      <4>3. wire'[i] = stream[i - Len(input)] /\ wire[i] = stream[i - Len(input)]
        BY <2>4, <2>5, <4>1, <4>2
      <4> QED
        BY <4>1, <4>3
    <3> QED
      BY <3>1, <3>2
  <2> QED
    BY <2>1, <2>7, <2>8 DEF Cuts
<1>5. CASE Receive
  <2>1. UNCHANGED <<up, sent, writing>>
    BY <1>5 DEF Receive
  <2> QED
    BY <1>2, <1>5, <2>1, ReceiveKeepsWire
<1>6. CASE IngestLine
  BY <1>6, LineCuts
<1>7. CASE ResetInput
  <2>1. /\ input' = <<>> /\ stream' = <<>> /\ UNCHANGED <<up, sent, writing>> /\ ~up
    BY <1>7 DEF ResetInput, peer, Linked, Down
  <2>2. wire' = <<>>
    BY <2>1 DEF wire
  <2>3. ~up'
    BY <2>1, Zenon
  <2> QED
    BY <1>1, <2>1, <2>2, <2>3 DEF Cuts
<1>8. CASE Accept
  <2>1. wire = <<>> /\ writing = "none" /\ UNCHANGED <<sent, writing, stream, input>>
    BY <1>8 DEF Accept, Linked, Down, wire
  <2>2. wire' = <<>>
    BY <2>1 DEF wire
  <2> QED
    BY <2>1, <2>2 DEF Cuts
<1>9. CASE IngestDone \/ LinkLost \/ Pull \/ Clear \/ UNCHANGED vars
  <2>1. UNCHANGED <<up, sent, writing, stream, input>>
    BY <1>9 DEF IngestDone, LinkLost, Pull, Clear, vars, peer
  <2>2. wire' = wire
    BY <2>1 DEF wire
  <2> QED
    BY <1>2, <2>1, <2>2
<1> QED
  BY <1>3, <1>4, <1>5, <1>6, <1>7, <1>8, <1>9 DEF Next

-----------------------------------------------------------------------------
(***************************************************************************)
(* The link's variables keep their types, and its pieces their order.      *)
(***************************************************************************)
\* what a piece says
LEMMA PieceFields ==
    ASSUME NEW pieces \in Seq(Piece), NEW i \in 1..Len(pieces)
    PROVE  /\ pieces[i].record \in Numbers /\ pieces[i].part \in {1, 2}
           /\ pieces[i].kind \in Kinds
<1>1. pieces[i] \in Piece
  OBVIOUS
<1> QED
  BY <1>1 DEF Piece, Numbers

\* the ends in a sequence of pieces are of records there are
LEMMA EndsType ==
    ASSUME NEW pieces \in Seq(Piece)
    PROVE  GoodEnds(pieces) \subseteq Numbers /\ BehindForeign(pieces) \subseteq Numbers
<1>1. \A i \in DOMAIN pieces : pieces[i].record \in Numbers
  <2>1. DOMAIN pieces = 1..Len(pieces)
    OBVIOUS
  <2> QED
    BY <2>1, PieceFields
<1> QED
  BY <1>1 DEF GoodEnds, BehindForeign

\* what is queued is a record
LEMMA TypedKept ==
    ASSUME Linked, [Next]_vars
    PROVE  Typed'
<1>1. /\ reader \in {"accept", "receive", "ingest", "reset"}
      /\ up \in BOOLEAN /\ sent \in 0..MaxRecords /\ writing \in Kinds \cup {"none"}
      /\ stream \in Seq(Piece) /\ input \in Seq(Piece)
      /\ buffer \in Seq(Numbers) /\ queued \in Seq(Numbers) /\ pulled \in Seq(Numbers)
      /\ whole \subseteq Numbers /\ behind \subseteq Numbers
  BY DEF Linked, Typed
<1>2. <<>> \in Seq(Piece) /\ <<>> \in Seq(Numbers)
  OBVIOUS
<1>3. CASE BeginRecord \/ EndRecord
  <2>1. /\ \E piece \in Piece : stream' = Append(stream, piece)
        /\ UNCHANGED <<reader, up, input, whole, behind, buffer, queued, pulled>>
        /\ sent' \in 0..MaxRecords /\ writing' \in Kinds \cup {"none"}
    BY <1>3, PeerSends
  <2>2. stream' \in Seq(Piece)
    BY <1>1, <2>1, AppendProperties
  <2> QED
    BY <1>1, <2>1, <2>2 DEF Typed
<1>4. CASE PeerLeaves
  <2>1. /\ up' = FALSE /\ writing' = "none"
        /\ UNCHANGED <<reader, sent, input, whole, behind, buffer, queued, pulled>>
    BY <1>4 DEF PeerLeaves, received, frames
  <2>2. stream' \in Seq(Piece)
    BY <1>1, <1>4, Prefix DEF PeerLeaves
  <2> QED
    BY <1>1, <2>1, <2>2 DEF Typed
<1>5. CASE Accept
  BY <1>1, <1>5 DEF Accept, received, frames, Typed
<1>6. CASE Receive
  <2>1. /\ reader' = "ingest" /\ UNCHANGED <<up, sent, writing, buffer, queued, pulled>>
    BY <1>6 DEF Receive, frames
  <2>2. PICK n \in 1..Len(stream) :
           /\ input' = input \o SubSeq(stream, 1, n)
           /\ stream' = SubSeq(stream, n + 1, Len(stream))
           /\ whole' = whole \cup GoodEnds(SubSeq(stream, 1, n))
           /\ behind' = behind \cup BehindForeign(input')
    BY <1>6 DEF Receive
  <2>3. n \in 0..Len(stream)
    BY <1>1, <2>2
  <2>4. SubSeq(stream, 1, n) \in Seq(Piece) /\ stream' \in Seq(Piece)
    BY <1>1, <2>2, <2>3, Prefix, Rest
  <2>5. input' \in Seq(Piece)
    BY <1>1, <2>2, <2>4, WireFields
  <2>6. whole' \subseteq Numbers /\ behind' \subseteq Numbers
    BY <1>1, <2>2, <2>4, <2>5, EndsType
  <2> QED
    BY <1>1, <2>1, <2>4, <2>5, <2>6 DEF Typed
<1>7. CASE IngestLine
  <2>1. /\ Len(input) >= 2 /\ input' = SubSeq(input, 3, Len(input))
        /\ reader' \in {"receive", "ingest"}
        /\ UNCHANGED <<up, sent, writing, stream, whole, behind, pulled>>
        /\ \/ UNCHANGED <<buffer, queued>>
           \/ /\ buffer' = Append(buffer, input[2].record)
              /\ queued' = Append(queued, input[2].record)
    BY <1>7, OneLine
  <2>2. 2 \in 0..Len(input) /\ 2 + 1 = 3 /\ 2 \in 1..Len(input)
    BY <1>1, <2>1
  <2>3. input' \in Seq(Piece)
    BY <1>1, <2>1, <2>2, Rest
  <2>4. input[2].record \in Numbers
    BY <1>1, <2>2, PieceFields
  <2>5. /\ Append(buffer, input[2].record) \in Seq(Numbers)
        /\ Append(queued, input[2].record) \in Seq(Numbers)
    BY <1>1, <2>4, AppendProperties
  <2>6. buffer' \in Seq(Numbers) /\ queued' \in Seq(Numbers)
    BY <1>1, <2>1, <2>5
  <2> QED
    BY <1>1, <2>1, <2>3, <2>6 DEF Typed
<1>8. CASE IngestDone \/ LinkLost
  BY <1>1, <1>8 DEF IngestDone, LinkLost, peer, received, frames, Typed
<1>9. CASE ResetInput
  BY <1>1, <1>2, <1>9 DEF ResetInput, peer, received, frames, Typed
<1>10. CASE Pull \/ Clear
  <2>1. /\ UNCHANGED <<reader, up, sent, writing, stream, input, whole, behind, queued>>
        /\ \/ buffer # <<>> /\ pulled' = Append(pulled, Head(buffer)) /\ buffer' = Tail(buffer)
           \/ pulled' = pulled /\ buffer' = <<>>
    BY <1>10 DEF Pull, Clear, peer, received
  <2>2. buffer # <<>> => /\ Append(pulled, Head(buffer)) \in Seq(Numbers)
                         /\ Tail(buffer) \in Seq(Numbers)
    BY <1>1, HeadTailProperties, AppendProperties
  <2>3. buffer' \in Seq(Numbers) /\ pulled' \in Seq(Numbers)
    BY <1>1, <1>2, <2>1, <2>2
  <2> QED
    BY <1>1, <2>1, <2>3 DEF Typed
<1>11. CASE UNCHANGED vars
  BY <1>1, <1>11 DEF vars, peer, received, frames, Typed
<1> QED
  BY <1>3, <1>4, <1>5, <1>6, <1>7, <1>8, <1>9, <1>10, <1>11 DEF Next

\* the reader gives a connection up when it has nothing more to say
LEMMA DownKept ==
    ASSUME Linked, [Next]_vars
    PROVE  Down'
<1>1. up \in BOOLEAN /\ Down /\ stream \in Seq(Piece)
  BY DEF Linked, Typed
<1>2. ~up' => writing' = "none"
  BY <1>1 DEF Down, Next, BeginRecord, EndRecord, PeerLeaves, Accept, Receive, IngestLine,
     IngestDone, LinkLost, ResetInput, Pull, Clear, vars, peer
<1>3. reader' \in {"accept", "reset"} => ~up'
  BY <1>1 DEF Down, Next, BeginRecord, EndRecord, PeerLeaves, Accept, Receive, IngestLine,
     IngestDone, LinkLost, ResetInput, Pull, Clear, vars, peer
<1>4. reader' \in {"accept", "reset"} => stream' = <<>>
  BY <1>1 DEF Down, Next, BeginRecord, EndRecord, PeerLeaves, Accept, Receive, IngestLine,
     IngestDone, LinkLost, ResetInput, Pull, Clear, vars, peer
<1>5. reader' = "accept" => input' = <<>>
  BY <1>1 DEF Down, Next, BeginRecord, EndRecord, PeerLeaves, Accept, Receive, IngestLine,
     IngestDone, LinkLost, ResetInput, Pull, Clear, vars, peer
<1> QED
  BY <1>2, <1>3, <1>4, <1>5 DEF Down

\* pieces go on alternating, and the last one shows what is being written
LEMMA OrderOfPieces ==
    ASSUME Linked, [Next]_vars
    PROVE  Alternating' /\ Writing'
<1>1. wire \in Seq(Piece) /\ Len(wire) \in Nat /\ Alternating /\ Writing
  BY InputOnWire DEF Linked
<1>2. wire' \in Seq(Piece) /\ Len(wire') \in Nat
  <2>1. input' \in Seq(Piece) /\ stream' \in Seq(Piece)
    BY TypedKept DEF Typed
  <2>2. wire' \in Seq(Piece)
    BY <2>1, WireFields DEF wire
  <2> QED
    BY <2>2
<1>3. \A i \in 1..Len(wire) : wire[i].part \in {1, 2}
  BY <1>1, PieceFields
<1>4. ASSUME NEW piece \in Piece, Sends(piece)
      PROVE  Alternating' /\ Writing'
  <2>1. up /\ wire' = Append(wire, piece)
    BY <1>4 DEF Sends
  <2>2. /\ Len(wire') = Len(wire) + 1 /\ wire'[Len(wire) + 1] = piece
        /\ \A i \in 1..Len(wire) : wire'[i] = wire[i]
        /\ wire' # <<>>
    BY <1>1, <2>1, AppendProperties
  <2>3. wire # <<>> <=> Len(wire) # 0
    BY <1>1
  <2>4. \/ /\ piece.part = 1 /\ piece.record = sent' /\ piece.kind = writing' /\ writing' # "none"
           /\ wire # <<>> => wire[Len(wire)].part = 2
        \/ /\ piece.part = 2 /\ writing' = "none"
           /\ wire # <<>> /\ wire[Len(wire)].part = 1
           /\ wire[Len(wire)].record = piece.record /\ wire[Len(wire)].kind = piece.kind
    <3>1. piece.kind # "none"
      BY StreamAssumption DEF Piece
    <3> QED
      BY <1>1, <1>4, <3>1 DEF Sends, Writing
  <2>5. Writing'
    BY <1>1, <2>2, <2>4 DEF Writing
  <2>6. wire'[1].part = 1
    <3>1. CASE Len(wire) = 0
      BY <2>2, <2>3, <2>4, <3>1
    <3>2. CASE Len(wire) # 0
      BY <1>1, <2>2, <2>3, <3>2 DEF Alternating
    <3> QED
      BY <3>1, <3>2
  <2>7. ASSUME NEW i \in 1..Len(wire') - 1
        PROVE  /\ wire'[i].part = 1 => /\ wire'[i + 1].part = 2
                                       /\ wire'[i + 1].record = wire'[i].record
                                       /\ wire'[i + 1].kind = wire'[i].kind
               /\ wire'[i].part = 2 => wire'[i + 1].part = 1
    <3>1. i \in 1..Len(wire) /\ Len(wire) # 0
      BY <1>1, <2>2
    <3>2. CASE i = Len(wire)
      BY <2>2, <2>3, <2>4, <3>1, <3>2
    <3>3. CASE i # Len(wire)
      <4>1. i \in 1..Len(wire) - 1 /\ i + 1 \in 1..Len(wire)
        BY <1>1, <3>1, <3>3
      <4> QED
        BY <1>1, <2>2, <3>1, <4>1 DEF Alternating
    <3> QED
      BY <3>2, <3>3
  <2> QED
    BY <2>5, <2>6, <2>7 DEF Alternating
<1>5. ASSUME NEW k \in {0, 2}, Cuts(k)
      PROVE  Alternating' /\ Writing'
  <2>1. /\ Len(wire') + k <= Len(wire) /\ k \in Nat
        /\ \A i \in 1..Len(wire') : wire'[i] = wire[i + k]
        /\ k = 0 \/ (k = 2 /\ wire[2].part = 2)
    BY <1>5 DEF Cuts
  <2>2. wire' # <<>> => Len(wire') # 0 /\ 1 \in 1..Len(wire') /\ Len(wire') \in 1..Len(wire')
    BY <1>2
  <2>3. wire' # <<>> => wire # <<>>
    BY <1>1, <1>2, <2>1, <2>2
  <2>4. ASSUME wire' # <<>>
        PROVE  wire'[1].part = 1
    <3>1. CASE k = 0
      BY <1>1, <2>1, <2>2, <2>3, <2>4, <3>1 DEF Alternating
    <3>2. CASE k = 2
      <4>1. 2 \in 1..Len(wire) - 1 /\ 2 + 1 = 3 /\ 1 + k = 3
        BY <1>1, <1>2, <2>1, <2>2, <2>4, <3>2
      <4>2. wire[2].part = 2
        BY <2>1, <3>2
      <4>3. wire[3].part = 1
        BY <1>1, <4>1, <4>2 DEF Alternating
      <4> QED
        BY <2>1, <2>2, <2>4, <4>1, <4>3
    <3> QED
      BY <3>1, <3>2
  <2>5. ASSUME NEW i \in 1..Len(wire') - 1
        PROVE  /\ wire'[i].part = 1 => /\ wire'[i + 1].part = 2
                                       /\ wire'[i + 1].record = wire'[i].record
                                       /\ wire'[i + 1].kind = wire'[i].kind
               /\ wire'[i].part = 2 => wire'[i + 1].part = 1
    <3>1. i + k \in 1..Len(wire) - 1 /\ (i + k) + 1 = (i + 1) + k
      BY <1>1, <1>2, <2>1
    <3>2. i \in 1..Len(wire') /\ i + 1 \in 1..Len(wire')
      BY <1>2
    <3>3. wire'[i] = wire[i + k] /\ wire'[i + 1] = wire[(i + k) + 1]
      BY <2>1, <3>1, <3>2
    <3> QED
      BY <1>1, <3>1, <3>3 DEF Alternating
  <2>6. Alternating'
    BY <2>4, <2>5 DEF Alternating
  <2>7. ASSUME up'
        PROVE  /\ writing' = "none" /\ wire' # <<>> => wire'[Len(wire')].part = 2
               /\ writing' # "none" => /\ wire' # <<>> /\ wire'[Len(wire')].part = 1
                                       /\ wire'[Len(wire')].record = sent'
                                       /\ wire'[Len(wire')].kind = writing'
    <3>1. /\ writing' = writing /\ sent' = sent /\ Len(wire') + k = Len(wire)
          /\ up \/ (wire = <<>> /\ writing = "none")
      BY <1>5, <2>7 DEF Cuts
    <3>2. CASE ~up
      BY <2>3, <3>1, <3>2
    <3>3. CASE up
      <4>1. wire' # <<>> => wire'[Len(wire')] = wire[Len(wire)]
        BY <2>1, <2>2, <3>1
      <4>2. ASSUME wire' = <<>>, wire # <<>>
            PROVE  wire[Len(wire)].part = 2
        <5>1. Len(wire) # 0 /\ Len(wire') = 0
          BY <1>1, <4>2
        <5>2. k = 2 /\ Len(wire) = 2
          BY <1>1, <2>1, <3>1, <5>1
        <5>3. wire[2].part = 2
          BY <2>1, <5>2
        <5> QED
          BY <5>2, <5>3
      <4> QED
        BY <1>1, <2>3, <3>1, <3>3, <4>1, <4>2 DEF Writing
    <3> QED
      BY <3>2, <3>3
  <2> QED
    BY <2>6, <2>7 DEF Writing
<1> QED
  BY <1>4, <1>5, WireSteps

\* Linked holds of every state of the link
LEMMA AlwaysLinked == Spec => []Linked
<1>1. Init => Linked
  <2> SUFFICES ASSUME Init
               PROVE  Linked
    OBVIOUS
  <2>1. /\ reader = "accept" /\ up = FALSE /\ sent = 0 /\ writing = "none"
        /\ stream = <<>> /\ input = <<>> /\ buffer = <<>>
        /\ whole = {} /\ behind = {} /\ queued = <<>> /\ pulled = <<>>
    BY DEF Init
  <2>2. wire = <<>>
    BY <2>1 DEF wire
  <2>3. 0 \in 0..MaxRecords
    BY StreamAssumption
  <2>4. Typed
    <3>1. <<>> \in Seq(Piece) /\ <<>> \in Seq(Numbers)
      OBVIOUS
    <3> QED
      BY <2>1, <2>3, <3>1 DEF Typed
  <2>5. Down /\ Alternating /\ Writing
    BY <2>1, <2>2 DEF Down, Alternating, Writing
  <2> QED
    BY <2>4, <2>5 DEF Linked
<1>2. Linked /\ [Next]_vars => Linked'
  BY TypedKept, DownKept, OrderOfPieces DEF Linked
<1> QED
  BY <1>1, <1>2, PTL DEF Spec

(***************************************************************************)
(* The link's variables keep their types, and the reader waits for a new   *)
(* connection only when the old one is down and its first half of a record *)
(* is forgotten (buffer.py:51).                                            *)
(***************************************************************************)
THEOREM StreamTypeCorrect == Spec => []TypeOK
<1>1. Linked => TypeOK
  BY DEF Linked, Typed, Down, TypeOK, Numbers
<1> QED
  BY <1>1, AlwaysLinked, PTL

-----------------------------------------------------------------------------
(***************************************************************************)
(* Order.  Records are numbered as they are sent; what has left the wire   *)
(* is below what is on it.                                                 *)
(***************************************************************************)
Sorted ==
    /\ \A i, j \in 1..Len(wire) : i < j =>
          /\ wire[i].record <= wire[j].record
          /\ wire[i].part = 2 => wire[i].record < wire[j].record
    /\ \A i \in 1..Len(wire) :
          /\ wire[i].record <= sent
          /\ writing # "none" /\ wire[i].part = 2 => wire[i].record < sent

Rising(seq) == \A i, j \in 1..Len(seq) : i < j => seq[i] < seq[j]

Below(seq) ==
    \A i \in 1..Len(seq) :
        /\ seq[i] <= sent /\ (writing # "none" => seq[i] < sent)
        /\ \A j \in 1..Len(wire) : seq[i] < wire[j].record

\* a new piece is behind the others
LEMMA SortedKept ==
    ASSUME Linked, Sorted, [Next]_vars
    PROVE  Sorted'
<1>1. wire \in Seq(Piece) /\ Len(wire) \in Nat /\ sent \in Nat
  BY InputOnWire, StreamAssumption DEF Linked, Typed
<1>2. \A i \in 1..Len(wire) : wire[i].record \in Nat /\ wire[i].part \in {1, 2}
  BY <1>1, PieceFields, StreamAssumption DEF Numbers
<1>3. Len(wire') \in Nat
  <2>1. input' \in Seq(Piece) /\ stream' \in Seq(Piece)
    BY TypedKept DEF Typed
  <2>2. wire' \in Seq(Piece)
    BY <2>1, WireFields DEF wire
  <2> QED
    BY <2>2
<1>4. ASSUME NEW piece \in Piece, Sends(piece)
      PROVE  Sorted'
  <2>1. /\ Len(wire') = Len(wire) + 1 /\ wire'[Len(wire) + 1] = piece
        /\ \A i \in 1..Len(wire) : wire'[i] = wire[i]
    BY <1>1, <1>4, AppendProperties DEF Sends
  <2>2. \/ piece.part = 1 /\ piece.record = sent + 1 /\ sent' = sent + 1
        \/ /\ piece.part = 2 /\ piece.record = sent /\ sent' = sent /\ writing # "none"
           /\ writing' = "none"
    BY <1>4 DEF Sends
  <2>3. \A i \in 1..Len(wire) :
           /\ wire[i].record <= piece.record
           /\ wire[i].part = 2 => wire[i].record < piece.record
    BY <1>1, <1>2, <2>2 DEF Sorted
  <2>4. ASSUME NEW i \in 1..Len(wire'), NEW j \in 1..Len(wire'), i < j
        PROVE  /\ wire'[i].record <= wire'[j].record
               /\ wire'[i].part = 2 => wire'[i].record < wire'[j].record
    <3>1. i \in 1..Len(wire)
      BY <1>1, <2>1, <2>4
    <3>2. CASE j = Len(wire) + 1
      <4>1. wire'[i] = wire[i] /\ wire'[j] = piece
        BY <2>1, <3>1, <3>2
      <4>2. /\ wire[i].record <= piece.record
            /\ wire[i].part = 2 => wire[i].record < piece.record
        BY <2>3, <3>1
      <4> QED
        BY <4>1, <4>2
    <3>3. CASE j # Len(wire) + 1
      <4>1. j \in 1..Len(wire)
        BY <1>1, <2>1, <3>3
      <4> QED
        BY <2>1, <2>4, <3>1, <4>1 DEF Sorted
    <3> QED
      BY <3>2, <3>3
  <2>5. ASSUME NEW i \in 1..Len(wire')
        PROVE  /\ wire'[i].record <= sent'
               /\ writing' # "none" /\ wire'[i].part = 2 => wire'[i].record < sent'
    <3>1. CASE i = Len(wire) + 1
      BY <1>1, <2>1, <2>2, <3>1
    <3>2. CASE i # Len(wire) + 1
      <4>1. i \in 1..Len(wire)
        BY <1>1, <2>1, <3>2
      <4>2. wire'[i] = wire[i] /\ wire[i].record <= sent /\ wire[i].record \in Nat
        BY <1>2, <2>1, <4>1 DEF Sorted
      <4> QED
        BY <1>1, <2>2, <4>2
    <3> QED
      BY <3>1, <3>2
  <2> QED
    BY <2>4, <2>5 DEF Sorted
<1>5. ASSUME NEW k \in {0, 2}, Cuts(k)
      PROVE  Sorted'
  <2>1. /\ Len(wire') + k <= Len(wire) /\ k \in Nat
        /\ \A i \in 1..Len(wire') : wire'[i] = wire[i + k]
        /\ sent' = sent /\ writing' \in {writing, "none"}
    BY <1>5 DEF Cuts
  <2>2. \A i \in 1..Len(wire') : i + k \in 1..Len(wire)
    BY <1>1, <1>3, <2>1
  <2>3. ASSUME NEW i \in 1..Len(wire'), NEW j \in 1..Len(wire'), i < j
        PROVE  /\ wire'[i].record <= wire'[j].record
               /\ wire'[i].part = 2 => wire'[i].record < wire'[j].record
    <3>1. i + k < j + k
      BY <1>3, <2>1, <2>3
    <3> QED
      BY <2>1, <2>2, <3>1 DEF Sorted
  <2>4. ASSUME NEW i \in 1..Len(wire')
        PROVE  /\ wire'[i].record <= sent'
               /\ writing' # "none" /\ wire'[i].part = 2 => wire'[i].record < sent'
    BY <2>1, <2>2 DEF Sorted
  <2> QED
    BY <2>3, <2>4 DEF Sorted
<1> QED
  BY <1>4, <1>5, WireSteps

\* what is below the wire stays below it
LEMMA BelowKept ==
    ASSUME Linked, Sorted, [Next]_vars, NEW seq \in Seq(Numbers), Below(seq)
    PROVE  Below(seq)'
<1>1. wire \in Seq(Piece) /\ Len(wire) \in Nat /\ sent \in Nat
  BY InputOnWire, StreamAssumption DEF Linked, Typed
<1>2. \A i \in 1..Len(seq) : seq[i] \in Nat
  <2>1. \A i \in 1..Len(seq) : seq[i] \in Numbers
    OBVIOUS
  <2> QED
    BY <2>1, StreamAssumption DEF Numbers
<1>3. Len(wire') \in Nat
  <2>1. input' \in Seq(Piece) /\ stream' \in Seq(Piece)
    BY TypedKept DEF Typed
  <2>2. wire' \in Seq(Piece)
    BY <2>1, WireFields DEF wire
  <2> QED
    BY <2>2
<1>4. ASSUME NEW piece \in Piece, Sends(piece), NEW i \in 1..Len(seq)
      PROVE  /\ seq[i] <= sent' /\ (writing' # "none" => seq[i] < sent')
             /\ \A j \in 1..Len(wire') : seq[i] < wire'[j].record
  <2>1. /\ Len(wire') = Len(wire) + 1 /\ wire'[Len(wire) + 1] = piece
        /\ \A j \in 1..Len(wire) : wire'[j] = wire[j]
    BY <1>1, <1>4, AppendProperties DEF Sends
  <2>2. \/ piece.record = sent + 1 /\ sent' = sent + 1
        \/ piece.record = sent /\ sent' = sent /\ writing # "none" /\ writing' = "none"
    BY <1>4 DEF Sends
  <2>3. /\ seq[i] <= sent /\ (writing # "none" => seq[i] < sent) /\ seq[i] \in Nat
        /\ \A j \in 1..Len(wire) : seq[i] < wire[j].record
    BY <1>2 DEF Below
  <2>4. seq[i] <= sent' /\ (writing' # "none" => seq[i] < sent') /\ seq[i] < piece.record
    BY <1>1, <2>2, <2>3
  <2>5. \A j \in 1..Len(wire') : j = Len(wire) + 1 \/ j \in 1..Len(wire)
    BY <1>1, <2>1
  <2> QED
    BY <2>1, <2>3, <2>4, <2>5
<1>5. ASSUME NEW k \in {0, 2}, Cuts(k), NEW i \in 1..Len(seq)
      PROVE  /\ seq[i] <= sent' /\ (writing' # "none" => seq[i] < sent')
             /\ \A j \in 1..Len(wire') : seq[i] < wire'[j].record
  <2>1. /\ Len(wire') + k <= Len(wire) /\ k \in Nat
        /\ \A j \in 1..Len(wire') : wire'[j] = wire[j + k]
        /\ sent' = sent /\ writing' \in {writing, "none"}
    BY <1>5 DEF Cuts
  <2>2. \A j \in 1..Len(wire') : j + k \in 1..Len(wire)
    BY <1>1, <1>3, <2>1
  <2> QED
    BY <2>1, <2>2 DEF Below
<1> QED
  BY <1>4, <1>5, WireSteps DEF Below

\* the record of a line is above what came before it, and below what follows
LEMMA LineIsNext ==
    ASSUME Linked, Sorted, IngestLine, NEW r, r = input[2].record
    PROVE  /\ r \in Numbers
           /\ \A seq \in Seq(Numbers) : Rising(seq) /\ Below(seq) =>
                 Rising(Append(seq, r)) /\ Below(seq)' /\ Below(Append(seq, r))'
<1>1. wire \in Seq(Piece) /\ Len(wire) \in Nat /\ input \in Seq(Piece) /\ stream \in Seq(Piece)
  BY InputOnWire DEF Linked, Typed
<1>2. /\ Len(input) >= 2 /\ UNCHANGED <<sent, writing>> /\ 2 \in 1..Len(input)
  BY <1>1, OneLine
<1>3. /\ wire[2].record = r /\ wire[2].part = 2 /\ 2 \in 1..Len(wire) /\ r \in Numbers
  <2>1. 2 \in 1..Len(wire)
    BY <1>1, <1>2, InputOnWire
  <2> QED
    BY <1>1, <1>2, <2>1, InputOnWire, PieceFields
<1>4. /\ r <= sent /\ (writing # "none" => r < sent)
      /\ \A j \in 1..Len(wire) : 2 < j => r < wire[j].record
  BY <1>3 DEF Sorted
<1>5. Len(wire') \in Nat /\ \A j \in 1..Len(wire') : j + 2 \in 1..Len(wire) /\ wire'[j] = wire[j + 2]
  <2>1. Cuts(2)
    BY LineCuts
  <2>2. wire' \in Seq(Piece)
    <3>1. input' \in Seq(Piece) /\ stream' \in Seq(Piece)
      BY TypedKept DEF Next, Typed
    <3> QED
      BY <3>1, WireFields DEF wire
  <2>3. Len(wire') \in Nat
    BY <2>2
  <2>4. Len(wire') + 2 <= Len(wire) /\ \A j \in 1..Len(wire') : wire'[j] = wire[j + 2]
    BY <2>1 DEF Cuts
  <2> QED
    BY <1>1, <2>3, <2>4
<1>6. ASSUME NEW seq \in Seq(Numbers), Rising(seq), Below(seq)
      PROVE  Rising(Append(seq, r)) /\ Below(seq)' /\ Below(Append(seq, r))'
  <2>1. /\ Len(Append(seq, r)) = Len(seq) + 1 /\ Append(seq, r)[Len(seq) + 1] = r
        /\ \A i \in 1..Len(seq) : Append(seq, r)[i] = seq[i]
        /\ Len(seq) \in Nat
    BY <1>3, AppendProperties
  <2>2. \A i \in 1..Len(seq) : seq[i] < r
    <3>1. \A i \in 1..Len(seq) : seq[i] < wire[2].record
      BY <1>3, <1>6 DEF Below
    <3> QED
      BY <1>3, <3>1
  <2> DEFINE longer == Append(seq, r)
  <2> HIDE DEF longer
  <2>3. ASSUME NEW i \in 1..Len(longer), NEW j \in 1..Len(longer), i < j
        PROVE  longer[i] < longer[j]
    <3>1. i \in 1..Len(seq)
      BY <2>1, <2>3 DEF longer
    <3>2. CASE j = Len(seq) + 1
      BY <2>1, <2>2, <3>1, <3>2 DEF longer
    <3>3. CASE j # Len(seq) + 1
      <4>1. j \in 1..Len(seq)
        BY <2>1, <3>3 DEF longer
      <4>2. longer[i] = seq[i] /\ longer[j] = seq[j]
        BY <2>1, <3>1, <4>1 DEF longer
      <4> QED
        BY <1>6, <2>3, <3>1, <4>1, <4>2 DEF Rising
    <3> QED
      BY <3>2, <3>3
  <2>4. Below(seq)'
    BY <1>6, BelowKept DEF Next
  <2>5. ASSUME NEW i \in 1..Len(longer)
        PROVE  /\ longer[i] <= sent' /\ (writing' # "none" => longer[i] < sent')
               /\ \A j \in 1..Len(wire') : longer[i] < wire'[j].record
    <3>1. CASE i = Len(seq) + 1
      <4>1. longer[i] = r
        BY <2>1, <3>1 DEF longer
      <4>2. \A j \in 1..Len(wire') : 2 < j + 2
        BY <1>5
      <4> QED
        BY <1>2, <1>4, <1>5, <4>1, <4>2
    <3>2. CASE i # Len(seq) + 1
      <4>1. i \in 1..Len(seq) /\ longer[i] = seq[i]
        BY <2>1, <3>2 DEF longer
      <4> QED
        BY <2>4, <4>1 DEF Below
    <3> QED
      BY <3>1, <3>2
  <2> QED
    BY <2>3, <2>4, <2>5 DEF Rising, Below, longer
<1> QED
  BY <1>3, <1>6

-----------------------------------------------------------------------------
(***************************************************************************)
(* What is kept of what came in: the good records received to the end are  *)
(* queued, or wait in the input buffer, or came in behind a foreign one.   *)
(***************************************************************************)
Kept ==
    /\ ToSet(queued) \subseteq whole
    /\ GoodEnds(input) \subseteq whole
    /\ whole \ ToSet(queued) \subseteq behind \cup GoodEnds(input)
    /\ reader = "ingest" => BehindForeign(input) \cap GoodEnds(input) \subseteq behind
    /\ reader \in {"receive", "reset"} => GoodEnds(input) \subseteq behind

\* the good ends of two sequences of pieces, one behind the other
LEMMA EndsOfBoth ==
    ASSUME NEW s \in Seq(Piece), NEW t \in Seq(Piece)
    PROVE  GoodEnds(s \o t) = GoodEnds(s) \cup GoodEnds(t)
<1> DEFINE both == s \o t
<1>1. /\ both \in Seq(Piece) /\ Len(both) = Len(s) + Len(t)
      /\ \A i \in 1..Len(s) : both[i] = s[i]
      /\ \A i \in 1..Len(t) : both[Len(s) + i] = t[i]
      /\ Len(s) \in Nat /\ Len(t) \in Nat
  BY WireFields
<1> HIDE DEF both
<1>2. DOMAIN both = 1..Len(both) /\ DOMAIN s = 1..Len(s) /\ DOMAIN t = 1..Len(t)
  BY <1>1
<1>3. ASSUME NEW x \in GoodEnds(s)
      PROVE  x \in GoodEnds(both)
  <2>1. PICK i \in 1..Len(s) : s[i].part = 2 /\ s[i].kind = "good" /\ x = s[i].record
    BY <1>2 DEF GoodEnds
  <2>2. i \in 1..Len(both) /\ both[i] = s[i]
    BY <1>1
  <2> QED
    BY <1>2, <2>1, <2>2 DEF GoodEnds
<1>4. ASSUME NEW x \in GoodEnds(t)
      PROVE  x \in GoodEnds(both)
  <2>1. PICK i \in 1..Len(t) : t[i].part = 2 /\ t[i].kind = "good" /\ x = t[i].record
    BY <1>2 DEF GoodEnds
  <2>2. PICK j \in 1..Len(both) : both[j] = t[i]
    <3>1. Len(s) + i \in 1..Len(both) /\ both[Len(s) + i] = t[i]
      BY <1>1
    <3> QED
      BY <3>1
  <2>3. both[j].part = 2 /\ both[j].kind = "good" /\ x = both[j].record
    BY <2>1, <2>2
  <2> QED
    BY <1>2, <2>3 DEF GoodEnds
<1>5. ASSUME NEW x \in GoodEnds(both)
      PROVE  x \in GoodEnds(s) \/ x \in GoodEnds(t)
  <2>1. PICK i \in 1..Len(both) : both[i].part = 2 /\ both[i].kind = "good" /\ x = both[i].record
    BY <1>2 DEF GoodEnds
  <2>2. CASE i \in 1..Len(s)
    <3>1. both[i] = s[i]
      BY <1>1, <2>2
    <3> QED
      BY <1>2, <2>1, <2>2, <3>1 DEF GoodEnds
  <2>3. CASE i \notin 1..Len(s)
    <3>1. i - Len(s) \in 1..Len(t) /\ Len(s) + (i - Len(s)) = i
      BY <1>1, <2>3
    <3>2. PICK j \in 1..Len(t) : both[i] = t[j]
      BY <1>1, <3>1
    <3> QED
      BY <1>2, <2>1, <3>2 DEF GoodEnds
  <2> QED
    BY <2>2, <2>3
<1>6. GoodEnds(both) = GoodEnds(s) \cup GoodEnds(t)
  BY <1>3, <1>4, <1>5
<1> QED
  BY <1>6 DEF both

\* the good ends behind the first line
LEMMA EndsBehindLine ==
    ASSUME NEW seq \in Seq(Piece), Len(seq) >= 2, seq[1].part = 1, seq[2].part = 2,
           NEW rest, rest = SubSeq(seq, 3, Len(seq))
    PROVE  /\ GoodEnds(rest) \subseteq GoodEnds(seq)
           /\ BehindForeign(rest) \subseteq BehindForeign(seq)
           /\ seq[2].kind = "good" =>
                 /\ seq[2].record \in GoodEnds(seq)
                 /\ GoodEnds(seq) \subseteq GoodEnds(rest) \cup {seq[2].record}
           /\ seq[2].kind # "good" => GoodEnds(seq) \subseteq GoodEnds(rest)
           /\ seq[2].kind = "foreign" => GoodEnds(rest) \subseteq BehindForeign(seq)
<1>1. 2 \in 0..Len(seq) /\ Len(seq) \in Nat /\ 2 + 1 = 3 /\ 2 \in 1..Len(seq)
  OBVIOUS
<1>2. /\ rest \in Seq(Piece) /\ Len(rest) = Len(seq) - 2
      /\ \A i \in 1..Len(seq) - 2 : rest[i] = seq[2 + i]
  BY <1>1, Rest
<1>3. DOMAIN seq = 1..Len(seq) /\ DOMAIN rest = 1..Len(rest)
  BY <1>2
<1>4. \A i \in 1..Len(rest) : 2 + i \in 1..Len(seq) /\ rest[i] = seq[2 + i]
  BY <1>1, <1>2
<1>5. GoodEnds(rest) \subseteq GoodEnds(seq)
  BY <1>3, <1>4 DEF GoodEnds
<1>6. ASSUME NEW x \in BehindForeign(rest)
      PROVE  x \in BehindForeign(seq)
  <2>1. PICK j \in 1..Len(rest) :
           /\ x = rest[j].record
           /\ \E i \in 1..j - 1 : rest[i].part = 2 /\ rest[i].kind = "foreign"
    BY <1>3 DEF BehindForeign
  <2>2. PICK i \in 1..j - 1 : rest[i].part = 2 /\ rest[i].kind = "foreign"
    BY <2>1
  <2>3. i \in 1..Len(rest) /\ 2 + i \in 1..(2 + j) - 1
    BY <1>1, <1>2
  <2>4. seq[2 + i].part = 2 /\ seq[2 + i].kind = "foreign" /\ x = seq[2 + j].record
    BY <1>4, <2>1, <2>2, <2>3
  <2>5. 2 + j \in DOMAIN seq
    BY <1>3, <1>4
  <2> QED
    BY <2>3, <2>4, <2>5 DEF BehindForeign
<1>7. ASSUME NEW x \in GoodEnds(seq)
      PROVE  x \in GoodEnds(rest) \/ (seq[2].kind = "good" /\ x = seq[2].record)
  <2>1. PICK i \in 1..Len(seq) : seq[i].part = 2 /\ seq[i].kind = "good" /\ x = seq[i].record
    BY <1>3 DEF GoodEnds
  <2>2. i = 2 \/ i - 2 \in 1..Len(rest)
    <3>1. i # 1
      BY <2>1
    <3> QED
      BY <1>1, <1>2, <3>1
  <2>3. CASE i = 2
    BY <2>1, <2>3
  <2>4. CASE i - 2 \in 1..Len(rest)
    <3>1. rest[i - 2] = seq[2 + (i - 2)] /\ 2 + (i - 2) = i
      BY <1>4, <2>4
    <3>2. PICK j \in 1..Len(rest) : rest[j] = seq[i]
      BY <2>4, <3>1
    <3>3. rest[j].part = 2 /\ rest[j].kind = "good" /\ x = rest[j].record
      BY <2>1, <3>2
    <3> QED
      BY <1>3, <3>3 DEF GoodEnds
  <2> QED
    BY <2>2, <2>3, <2>4
<1>8. seq[2].kind = "good" => seq[2].record \in GoodEnds(seq)
  BY <1>1, <1>3 DEF GoodEnds
<1>9. ASSUME seq[2].kind = "foreign", NEW x \in GoodEnds(rest)
      PROVE  x \in BehindForeign(seq)
  <2>1. PICK j \in 1..Len(rest) : x = rest[j].record
    BY <1>3 DEF GoodEnds
  <2>2. 2 + j \in DOMAIN seq /\ x = seq[2 + j].record
    BY <1>3, <1>4, <2>1
  <2>3. 2 \in 1..(2 + j) - 1
    BY <1>1
  <2> QED
    BY <1>9, <2>2, <2>3 DEF BehindForeign
<1> QED
  BY <1>5, <1>6, <1>7, <1>8, <1>9

\* one frame more is queued
LEMMA SetOfAppend ==
    ASSUME NEW seq \in Seq(Numbers), NEW r \in Numbers
    PROVE  ToSet(Append(seq, r)) = ToSet(seq) \cup {r}
<1> DEFINE longer == Append(seq, r)
<1>1. /\ longer \in Seq(Numbers) /\ Len(longer) = Len(seq) + 1 /\ longer[Len(seq) + 1] = r
      /\ \A i \in 1..Len(seq) : longer[i] = seq[i]
      /\ Len(seq) \in Nat
  BY AppendProperties
<1> HIDE DEF longer
<1>2. DOMAIN longer = 1..Len(seq) + 1 /\ DOMAIN seq = 1..Len(seq)
  BY <1>1
<1>3. \A i \in 1..Len(seq) + 1 : i \in 1..Len(seq) \/ i = Len(seq) + 1
  BY <1>1
<1>4. \A i \in 1..Len(seq) : i \in 1..Len(seq) + 1
  BY <1>1
<1>5. Len(seq) + 1 \in 1..Len(seq) + 1
  BY <1>1
<1>6. ToSet(longer) = ToSet(seq) \cup {r}
  BY <1>1, <1>2, <1>3, <1>4, <1>5 DEF ToSet
<1> QED
  BY <1>6 DEF longer

\* nothing ends in an empty buffer
LEMMA NothingEnds == GoodEnds(<<>>) = {} /\ BehindForeign(<<>>) = {}
  BY DEF GoodEnds, BehindForeign

\* a turn of the loop takes the first line, and its end, from the input buffer
LEMMA LineTakes ==
    ASSUME Linked, IngestLine
    PROVE  /\ GoodEnds(input') \subseteq GoodEnds(input)
           /\ BehindForeign(input') \subseteq BehindForeign(input)
           /\ input[2].kind = "good" =>
                 /\ input[2].record \in GoodEnds(input)
                 /\ GoodEnds(input) \subseteq GoodEnds(input') \cup {input[2].record}
           /\ input[2].kind # "good" => GoodEnds(input) \subseteq GoodEnds(input')
           /\ input[2].kind = "foreign" => GoodEnds(input') \subseteq BehindForeign(input)
<1>1. /\ input \in Seq(Piece) /\ Len(input) >= 2 /\ input' = SubSeq(input, 3, Len(input))
  BY OneLine DEF Linked, Typed
<1>2. input # <<>>
  BY <1>1
<1>3. input[1].part = 1 /\ input[2].part = 2
  BY <1>1, <1>2, InputOnWire
<1> DEFINE rest == SubSeq(input, 3, Len(input))
<1> HIDE DEF rest
<1>4. /\ GoodEnds(rest) \subseteq GoodEnds(input)
      /\ BehindForeign(rest) \subseteq BehindForeign(input)
      /\ input[2].kind = "good" =>
            /\ input[2].record \in GoodEnds(input)
            /\ GoodEnds(input) \subseteq GoodEnds(rest) \cup {input[2].record}
      /\ input[2].kind # "good" => GoodEnds(input) \subseteq GoodEnds(rest)
      /\ input[2].kind = "foreign" => GoodEnds(rest) \subseteq BehindForeign(input)
  BY <1>1, <1>3, EndsBehindLine DEF rest
<1>5. input' = rest
  BY <1>1 DEF rest
<1> QED
  BY <1>4, <1>5

\* and so what is kept is kept
LEMMA KeptKept ==
    ASSUME Linked, Kept, [Next]_vars
    PROVE  Kept'
<1>1. /\ input \in Seq(Piece) /\ stream \in Seq(Piece) /\ queued \in Seq(Numbers)
      /\ reader \in {"accept", "receive", "ingest", "reset"}
  BY DEF Linked, Typed
<1>2. /\ ToSet(queued) \subseteq whole
      /\ GoodEnds(input) \subseteq whole
      /\ whole \ ToSet(queued) \subseteq behind \cup GoodEnds(input)
      /\ reader = "ingest" => BehindForeign(input) \cap GoodEnds(input) \subseteq behind
      /\ reader \in {"receive", "reset"} => GoodEnds(input) \subseteq behind
  BY DEF Kept
<1>3. CASE Receive
  <2>1. /\ reader = "receive" /\ reader' = "ingest" /\ queued' = queued
    BY <1>3 DEF Receive, frames
  <2>2. PICK n \in 1..Len(stream) :
           /\ input' = input \o SubSeq(stream, 1, n)
           /\ whole' = whole \cup GoodEnds(SubSeq(stream, 1, n))
           /\ behind' = behind \cup BehindForeign(input')
    BY <1>3 DEF Receive
  <2> DEFINE new == SubSeq(stream, 1, n)
  <2>3. new \in Seq(Piece)
    <3>1. n \in 0..Len(stream)
      BY <1>1, <2>2
    <3> QED
      BY <1>1, <3>1, Prefix
  <2>4. input' = input \o new /\ whole' = whole \cup GoodEnds(new)
    BY <2>2
  <2> HIDE DEF new
  <2>5. GoodEnds(input') = GoodEnds(input) \cup GoodEnds(new)
    BY <1>1, <2>3, <2>4, EndsOfBoth
  <2> QED
    BY <1>2, <2>1, <2>2, <2>4, <2>5 DEF Kept
<1>4. CASE IngestLine
  <2>1. /\ Len(input) >= 2 /\ input' = SubSeq(input, 3, Len(input)) /\ reader = "ingest"
        /\ reader' = IF input[2].kind = "foreign" THEN "receive" ELSE "ingest"
        /\ input[2].kind = "good" => queued' = Append(queued, input[2].record)
        /\ input[2].kind # "good" => queued' = queued
        /\ UNCHANGED <<whole, behind>>
    BY <1>4, OneLine
  <2>2. 2 \in 1..Len(input) /\ input # <<>>
    BY <1>1, <2>1
  <2>4. /\ GoodEnds(input') \subseteq GoodEnds(input)
        /\ BehindForeign(input') \subseteq BehindForeign(input)
        /\ input[2].kind = "good" =>
              /\ input[2].record \in GoodEnds(input)
              /\ GoodEnds(input) \subseteq GoodEnds(input') \cup {input[2].record}
        /\ input[2].kind # "good" => GoodEnds(input) \subseteq GoodEnds(input')
        /\ input[2].kind = "foreign" => GoodEnds(input') \subseteq BehindForeign(input)
    BY <1>4, LineTakes
  <2>5. input[2].record \in Numbers
    BY <1>1, <2>2, PieceFields
  <2>6. input[2].kind = "good" => ToSet(queued') = ToSet(queued) \cup {input[2].record}
    BY <1>1, <2>1, <2>5, SetOfAppend
  <2>7. CASE input[2].kind = "good"
    BY <1>2, <2>1, <2>4, <2>6, <2>7 DEF Kept
  <2>8. CASE input[2].kind # "good"
    BY <1>2, <2>1, <2>4, <2>8 DEF Kept
  <2> QED
    BY <2>7, <2>8
<1>5. CASE IngestDone
  <2>1. /\ reader = "ingest" /\ reader' = "receive"
        /\ UNCHANGED <<input, whole, behind, queued>> /\ Newline(input) = 0
    BY <1>5 DEF IngestDone, received, frames
  <2>2. ~(Len(input) >= 2)
    BY <1>1, <2>1, InputOnWire, FirstNewline
  <2>3. \A i \in DOMAIN input : i = 1 /\ input # <<>>
    BY <1>1, <2>2
  <2>4. GoodEnds(input) = {}
    BY <2>3, InputOnWire DEF GoodEnds
  <2> QED
    BY <1>2, <2>1, <2>4 DEF Kept
<1>6. CASE ResetInput
  <2>1. /\ reader = "reset" /\ reader' = "accept" /\ input' = <<>>
        /\ UNCHANGED <<whole, behind, queued>>
    BY <1>6 DEF ResetInput, received, frames
  <2> QED
    BY <1>2, <2>1, NothingEnds DEF Kept
<1>7. CASE Accept
  <2>1. /\ reader = "accept" /\ reader' = "receive" /\ input = <<>>
        /\ UNCHANGED <<input, whole, behind, queued>>
    BY <1>7 DEF Accept, received, frames, Linked, Down
  <2> QED
    BY <1>2, <2>1, NothingEnds DEF Kept
<1>8. CASE LinkLost
  <2>1. /\ reader = "receive" /\ reader' = "reset" /\ UNCHANGED <<input, whole, behind, queued>>
    BY <1>8 DEF LinkLost, received, frames
  <2> QED
    BY <1>2, <2>1 DEF Kept
<1>9. CASE BeginRecord \/ EndRecord \/ PeerLeaves \/ Pull \/ Clear \/ UNCHANGED vars
  <2>1. UNCHANGED <<reader, input, whole, behind, queued>>
    BY <1>9 DEF BeginRecord, EndRecord, PeerLeaves, Pull, Clear, vars, received, frames
  <2> QED
    BY <1>2, <2>1 DEF Kept
<1> QED
  BY <1>3, <1>4, <1>5, <1>6, <1>7, <1>8, <1>9 DEF Next

-----------------------------------------------------------------------------
(***************************************************************************)
(* What was queued rises, and what was pulled with what may still be.      *)
(***************************************************************************)
Ordered ==
    /\ Sorted
    /\ Rising(queued) /\ Below(queued)
    /\ Rising(pulled \o buffer) /\ Below(pulled \o buffer)

\* pulling moves a frame, clearing drops what would have been pulled
LEMMA PullsInOrder ==
    ASSUME Linked, Pull \/ Clear
    PROVE  /\ pulled \o buffer \in Seq(Numbers) /\ (pulled \o buffer)' \in Seq(Numbers)
           /\ Len((pulled \o buffer)') <= Len(pulled \o buffer)
           /\ \A i \in 1..Len((pulled \o buffer)') :
                 (pulled \o buffer)'[i] = (pulled \o buffer)[i]
<1>1. buffer \in Seq(Numbers) /\ pulled \in Seq(Numbers)
  BY DEF Linked, Typed
<1>2. pulled \o buffer \in Seq(Numbers)
  BY <1>1, ConcatProperties
<1>3. CASE Pull
  <2>1. buffer # <<>> /\ pulled' = Append(pulled, Head(buffer)) /\ buffer' = Tail(buffer)
    BY <1>3 DEF Pull
  <2> DEFINE first == Head(buffer)
             others == Tail(buffer)
  <2>2. first \in Numbers /\ others \in Seq(Numbers)
    BY <1>1, <2>1, HeadTailProperties
  <2>3. buffer = <<first>> \o others
    <3>1. 1 \in 1..Len(buffer) /\ Len(buffer) \in 1..Len(buffer) /\ 1 + 1 = 2
      BY <1>1, <2>1
    <3>2. SubSeq(buffer, 1, Len(buffer)) = <<buffer[1]>> \o SubSeq(buffer, 1 + 1, Len(buffer))
      BY <1>1, <3>1, SubSeqRecursiveFirst
    <3>3. SubSeq(buffer, 1, Len(buffer)) = buffer
      BY <1>1, SubSeqFull
    <3>4. others = SubSeq(buffer, 1 + 1, Len(buffer))
      BY <1>1, <2>1, <3>1, TailIsSubSeq
    <3>5. first = buffer[1]
      BY <1>1
    <3> QED
      BY <3>2, <3>3, <3>4, <3>5
  <2> HIDE DEF first, others
  <2>4. Append(pulled, first) = pulled \o <<first>> /\ <<first>> \in Seq(Numbers)
    BY <1>1, <2>2, AppendIsConcat
  <2>5. (pulled \o <<first>>) \o others = pulled \o (<<first>> \o others)
    BY <1>1, <2>2, <2>4, ConcatAssociative
  <2>6. (pulled \o buffer)' = Append(pulled, first) \o others
    BY <2>1 DEF first, others
  <2>7. (pulled \o buffer)' = pulled \o buffer
    BY <2>3, <2>4, <2>5, <2>6
  <2>8. Len(pulled \o buffer) \in Nat
    BY <1>2
  <2> QED
    BY <1>2, <2>7, <2>8
<1>4. CASE Clear
  <2>1. pulled' = pulled /\ buffer' = <<>>
    BY <1>4 DEF Clear
  <2>2. (pulled \o buffer)' = pulled
    <3>1. pulled \o <<>> = pulled
      BY <1>1, ConcatEmptySeq
    <3> QED
      BY <2>1, <3>1
  <2>3. /\ Len(pulled \o buffer) = Len(pulled) + Len(buffer)
        /\ \A i \in 1..Len(pulled) + Len(buffer) : (pulled \o buffer)[i] =
              IF i <= Len(pulled) THEN pulled[i] ELSE buffer[i - Len(pulled)]
    BY <1>1, ConcatProperties
  <2>4. Len(pulled) \in Nat /\ Len(buffer) \in Nat
    BY <1>1
  <2>5. \A i \in 1..Len(pulled) : i \in 1..Len(pulled) + Len(buffer) /\ i <= Len(pulled)
    BY <2>4
  <2>6. Len(pulled) <= Len(pulled) + Len(buffer)
    BY <2>4
  <2> QED
    BY <1>1, <1>2, <2>2, <2>3, <2>5, <2>6
<1> QED
  BY <1>3, <1>4

\* what is left of a rising sequence rises, and is below the wire
LEMMA StaysBelow ==
    ASSUME Linked, Sorted, [Next]_vars,
           NEW seq \in Seq(Numbers), Rising(seq), Below(seq),
           NEW next \in Seq(Numbers), Len(next) <= Len(seq),
           \A i \in 1..Len(next) : next[i] = seq[i]
    PROVE  Rising(next) /\ Below(next)'
<1>1. Below(seq)'
  BY BelowKept
<1>2. \A i \in 1..Len(next) : i \in 1..Len(seq)
  OBVIOUS
<1>3. Rising(next)
  BY <1>2 DEF Rising
<1>4. Below(next)'
  BY <1>1, <1>2 DEF Below
<1> QED
  BY <1>3, <1>4

LEMMA OrderedKept ==
    ASSUME Linked, Ordered, [Next]_vars
    PROVE  Ordered'
<1>1. /\ buffer \in Seq(Numbers) /\ pulled \in Seq(Numbers) /\ queued \in Seq(Numbers)
      /\ pulled \o buffer \in Seq(Numbers)
  BY ConcatProperties DEF Linked, Typed
<1>2. Sorted'
  BY SortedKept DEF Ordered
<1>3. /\ Sorted
      /\ Rising(queued) /\ Below(queued) /\ Rising(pulled \o buffer) /\ Below(pulled \o buffer)
  BY DEF Ordered
<1>4. ASSUME NEW one, one = queued', Rising(one), Below(one)',
             NEW two, two = (pulled \o buffer)', Rising(two), Below(two)'
      PROVE  Ordered'
  <2>1. Rising(queued)' /\ Below(queued)'
    BY <1>4 DEF Rising, Below
  <2>2. Rising(pulled \o buffer)' /\ Below(pulled \o buffer)'
    BY <1>4 DEF Rising, Below
  <2> QED
    BY <1>2, <2>1, <2>2 DEF Ordered
<1>5. ASSUME NEW seq \in Seq(Numbers), Rising(seq), Below(seq)
      PROVE  Rising(seq) /\ Below(seq)'
  BY <1>3, <1>5, BelowKept
<1>6. CASE IngestLine /\ input[2].kind = "good"
  <2>1. /\ buffer' = Append(buffer, input[2].record)
        /\ queued' = Append(queued, input[2].record)
        /\ pulled' = pulled
    BY <1>6, OneLine
  <2>2. PICK r : r = input[2].record
    OBVIOUS
  <2>3. r \in Numbers
    BY <1>3, <1>6, <2>2, LineIsNext
  <2>4. ASSUME NEW seq \in Seq(Numbers), Rising(seq), Below(seq)
        PROVE  Rising(Append(seq, r)) /\ Below(Append(seq, r))'
    BY <1>3, <1>6, <2>2, <2>4, LineIsNext
  <2>5. pulled \o Append(buffer, r) = Append(pulled \o buffer, r)
    <3>1. Append(buffer, r) = buffer \o <<r>> /\ <<r>> \in Seq(Numbers)
      BY <1>1, <2>3, AppendIsConcat
    <3>2. Append(pulled \o buffer, r) = (pulled \o buffer) \o <<r>>
      BY <1>1, <2>3, AppendIsConcat
    <3> QED
      BY <1>1, <3>1, <3>2, ConcatAssociative
  <2>6. queued' = Append(queued, r) /\ (pulled \o buffer)' = Append(pulled \o buffer, r)
    BY <2>1, <2>2, <2>5
  <2>7. PICK one : one = queued
    OBVIOUS
  <2>8. PICK two : two = pulled \o buffer
    OBVIOUS
  <2>9. Rising(Append(one, r)) /\ Below(Append(one, r))'
    BY <1>1, <1>3, <2>4, <2>7
  <2>10. Rising(Append(two, r)) /\ Below(Append(two, r))'
    BY <1>1, <1>3, <2>4, <2>8
  <2> QED
    BY <1>4, <2>6, <2>7, <2>8, <2>9, <2>10
<1>7. CASE IngestLine /\ input[2].kind # "good"
  <2>1. UNCHANGED <<buffer, queued, pulled>>
    BY <1>7, OneLine
  <2>2. PICK one : one = queued
    OBVIOUS
  <2>3. PICK two : two = pulled \o buffer
    OBVIOUS
  <2>4. Rising(one) /\ Below(one)' /\ Rising(two) /\ Below(two)'
    BY <1>1, <1>3, <1>5, <2>2, <2>3
  <2>5. one = queued' /\ two = (pulled \o buffer)'
    BY <2>1, <2>2, <2>3
  <2> QED
    BY <1>4, <2>4, <2>5
<1>8. CASE Pull \/ Clear
  <2>1. queued' = queued
    BY <1>8 DEF Pull, Clear
  <2>2. PICK one : one = queued
    OBVIOUS
  <2>3. PICK two : two = pulled \o buffer
    OBVIOUS
  <2>4. PICK next : next = (pulled \o buffer)'
    OBVIOUS
  <2>5. Rising(one) /\ Below(one)'
    BY <1>1, <1>3, <1>5, <2>2
  <2>6. /\ next \in Seq(Numbers) /\ Len(next) <= Len(two)
        /\ \A i \in 1..Len(next) : next[i] = two[i]
    BY <1>8, <2>3, <2>4, PullsInOrder
  <2>7. Rising(next) /\ Below(next)'
    <3>1. Rising(two) /\ Below(two) /\ two \in Seq(Numbers)
      BY <1>1, <1>3, <2>3
    <3> QED
      BY <1>3, <2>6, <3>1, StaysBelow
  <2>8. one = queued'
    BY <2>1, <2>2
  <2> QED
    BY <1>4, <2>4, <2>5, <2>7, <2>8
<1>9. CASE \/ BeginRecord \/ EndRecord \/ PeerLeaves \/ Accept \/ Receive \/ IngestDone
           \/ LinkLost \/ ResetInput \/ UNCHANGED vars
  <2>1. UNCHANGED <<buffer, queued, pulled>>
    BY <1>9 DEF BeginRecord, EndRecord, PeerLeaves, Accept, Receive, IngestDone, LinkLost,
       ResetInput, vars, frames
  <2>2. PICK one : one = queued
    OBVIOUS
  <2>3. PICK two : two = pulled \o buffer
    OBVIOUS
  <2>4. Rising(one) /\ Below(one)' /\ Rising(two) /\ Below(two)'
    BY <1>1, <1>3, <1>5, <2>2, <2>3
  <2>5. one = queued' /\ two = (pulled \o buffer)'
    BY <2>1, <2>2, <2>3
  <2> QED
    BY <1>4, <2>4, <2>5
<1> QED
  BY <1>6, <1>7, <1>8, <1>9 DEF Next

-----------------------------------------------------------------------------
\* the link at the start
LEMMA StreamStarts ==
    ASSUME Init
    PROVE  Kept /\ Ordered
<1>1. /\ reader = "accept" /\ sent = 0 /\ writing = "none"
      /\ stream = <<>> /\ input = <<>> /\ buffer = <<>>
      /\ whole = {} /\ behind = {} /\ queued = <<>> /\ pulled = <<>>
  BY DEF Init
<1>2. ToSet(queued) = {}
  BY <1>1 DEF ToSet
<1>3. Kept
  BY <1>1, <1>2, NothingEnds DEF Kept
<1>4. wire = <<>> /\ pulled \o buffer = <<>>
  BY <1>1 DEF wire
<1>5. Sorted /\ Rising(queued) /\ Below(queued)
  BY <1>1, <1>4 DEF Sorted, Rising, Below
<1>6. Rising(pulled \o buffer) /\ Below(pulled \o buffer)
  BY <1>4 DEF Rising, Below
<1> QED
  BY <1>3, <1>5, <1>6 DEF Ordered

\* the whole argument is one invariant
LEMMA StreamInvariant == Spec => [](Linked /\ Kept /\ Ordered)
<1>1. Init => Kept /\ Ordered
  BY StreamStarts
<1>2. Linked /\ Kept /\ [Next]_vars => Kept'
  BY KeptKept
<1>3. Linked /\ Ordered /\ [Next]_vars => Ordered'
  BY OrderedKept
<1> QED
  BY <1>1, <1>2, <1>3, AlwaysLinked, PTL DEF Spec

\* a rising sequence is one whose neighbours rise
LEMMA Neighbours ==
    ASSUME NEW seq \in Seq(Numbers), Rising(seq)
    PROVE  \A i \in 1..Len(seq) - 1 : seq[i] < seq[i + 1]
<1>1. \A i \in 1..Len(seq) - 1 : i \in 1..Len(seq) /\ i + 1 \in 1..Len(seq) /\ i < i + 1
  OBVIOUS
<1> QED
  BY <1>1 DEF Rising

(***************************************************************************)
(* When the reader turns to the link again, each good record received to   *)
(* its end is queued, once and in order, whatever number of records of any *)
(* kinds were sent and however recv() cut them (buffer.py:51, 64-69); only *)
(* what came in behind a foreign record may be missing (buffer.py:76).     *)
(***************************************************************************)
THEOREM EveryRecordQueued == Spec => []ReceivedIsQueued
<1>1. ASSUME Linked, Kept, Ordered
      PROVE  ReceivedIsQueued
  <2>1. queued \in Seq(Numbers) /\ Rising(queued)
    BY <1>1 DEF Linked, Typed, Ordered
  <2>2. \A i \in 1..Len(queued) - 1 : queued[i] < queued[i + 1]
    BY <2>1, Neighbours
  <2>3. reader = "accept" => GoodEnds(input) = {}
    BY <1>1, NothingEnds DEF Linked, Down
  <2>4. reader \in {"receive", "accept"} => whole \ ToSet(queued) \subseteq behind
    BY <1>1, <2>3 DEF Kept
  <2> QED
    BY <1>1, <2>2, <2>4 DEF Kept, ReceivedIsQueued
<1> QED
  BY <1>1, StreamInvariant, PTL

(***************************************************************************)
(* The main thread pulls frames in the order they were sent, none twice,   *)
(* for any number of records, clears and connections (buffer.py:86-95).    *)
(***************************************************************************)
THEOREM FramesPulledInOrder == Spec => []PulledInOrder
<1>1. ASSUME Linked, Ordered
      PROVE  PulledInOrder
  <2>1. pulled \o buffer \in Seq(Numbers) /\ Rising(pulled \o buffer)
    BY <1>1, ConcatProperties DEF Linked, Typed, Ordered
  <2> QED
    BY <2>1, Neighbours DEF PulledInOrder
<1> QED
  BY <1>1, StreamInvariant, PTL
-----------------------------------------------------------------------------
(***************************************************************************)
(* The bytes are a queue of frames: every step is one of FrameQueue, or    *)
(* none.                                                                   *)
(***************************************************************************)
\* the frames in flight are the good ends on the wire
LEMMA Flying == InFlight = GoodEnds(wire) /\ InFlight' = GoodEnds(wire')
  BY DEF InFlight, wire, GoodEnds

\* a good end is where a piece says so
LEMMA EndsAt ==
    ASSUME NEW pieces \in Seq(Piece)
    PROVE  \A f : f \in GoodEnds(pieces) <=>
               \E i \in 1..Len(pieces) : /\ pieces[i].part = 2 /\ pieces[i].kind = "good"
                                         /\ f = pieces[i].record
<1>1. DOMAIN pieces = 1..Len(pieces)
  OBVIOUS
<1> QED
  BY <1>1 DEF GoodEnds

\* one more piece is one more frame if it ends a good record
LEMMA EndsAppend ==
    ASSUME NEW pieces \in Seq(Piece), NEW piece \in Piece
    PROVE  GoodEnds(Append(pieces, piece)) =
             GoodEnds(pieces) \cup
               (IF piece.part = 2 /\ piece.kind = "good" THEN {piece.record} ELSE {})
<1>1. Append(pieces, piece) = pieces \o <<piece>> /\ <<piece>> \in Seq(Piece)
  BY AppendIsConcat
<1>2. GoodEnds(<<piece>>) = IF piece.part = 2 /\ piece.kind = "good" THEN {piece.record} ELSE {}
  BY DEF GoodEnds
<1> QED
  BY <1>1, <1>2, EndsOfBoth

\* what the peer puts on the wire is nothing yet, or is sent
LEMMA SendSteps ==
    ASSUME Linked, BeginRecord \/ EndRecord
    PROVE  Queue!Send \/ UNCHANGED Queue!queueVars
<1>1. PICK piece \in Piece : Sends(piece)
  BY PeerSends
<1>2. wire \in Seq(Piece) /\ sent \in Nat
  BY InputOnWire, StreamAssumption DEF Linked, Typed
<1>3. InFlight' = InFlight \cup
         (IF piece.part = 2 /\ piece.kind = "good" THEN {piece.record} ELSE {})
  BY <1>1, <1>2, Flying, EndsAppend DEF Sends
<1>4. UNCHANGED <<up, buffer, pulled>> /\ up
  <2>1. UNCHANGED <<up, buffer, pulled>>
    BY PeerSends
  <2> QED
    BY <1>1, <2>1 DEF Sends
<1>5. CASE writing = "none"
  <2>1. piece.part = 1 /\ sent' = sent + 1 /\ writing' = piece.kind
    BY <1>1, <1>5 DEF Sends
  <2>2. writing' # "none"
    <3>1. piece.kind \in {"good", "bad", "foreign"}
      BY StreamAssumption DEF Piece
    <3> QED
      BY <2>1, <3>1
  <2>3. Newest = sent /\ Newest' = sent' - 1
    BY <1>5, <2>2 DEF Newest
  <2>4. Newest' = Newest
    BY <1>2, <2>1, <2>3
  <2>5. InFlight' = InFlight
    BY <1>3, <2>1
  <2> QED
    BY <1>4, <2>4, <2>5 DEF Queue!queueVars
<1>6. CASE writing # "none"
  <2>1. piece.part = 2 /\ piece.record = sent /\ sent' = sent /\ writing' = "none"
    BY <1>1, <1>6 DEF Sends
  <2>2. Newest = sent - 1 /\ Newest' = sent
    BY <1>6, <2>1 DEF Newest
  <2>3. Newest' = Newest + 1
    BY <1>2, <2>2
  <2>4. InFlight' \in {InFlight, InFlight \cup {Newest'}}
    BY <1>3, <2>1, <2>2
  <2> QED
    BY <1>4, <2>3, <2>4 DEF Queue!Send
<1> QED
  BY <1>5, <1>6

\* a lost connection leaves the front of the wire
LEMMA LoseSteps ==
    ASSUME Linked, Sorted, PeerLeaves \/ ResetInput
    PROVE  Queue!Lose
<1>1. wire \in Seq(Piece) /\ Len(wire) \in Nat /\ sent \in Nat
      /\ input \in Seq(Piece) /\ stream \in Seq(Piece)
  BY InputOnWire, StreamAssumption DEF Linked, Typed
<1>2. ~up' /\ UNCHANGED <<sent, buffer, pulled>> /\ writing' \in {writing, "none"}
  BY DEF PeerLeaves, ResetInput, Linked, Down, Typed, frames, peer
<1>3. up' = FALSE
  BY <1>2, TypedKept DEF Next, Typed
<1>4. Newest' \in {Newest, Newest + 1}
  <2>1. CASE writing' = writing
    BY <1>2, <2>1 DEF Newest
  <2>2. CASE writing # "none" /\ writing' = "none"
    <3>1. Newest = sent - 1 /\ Newest' = sent
      BY <1>2, <2>2 DEF Newest
    <3> QED
      BY <1>1, <3>1
  <2> QED
    BY <1>2, <2>1, <2>2
<1>5. wire' \in Seq(Piece) /\ Len(wire') <= Len(wire)
      /\ \A i \in 1..Len(wire') : wire'[i] = wire[i]
  <2>1. CASE PeerLeaves
    <3>1. PICK n \in 0..Len(stream) : stream' = SubSeq(stream, 1, n)
      BY <2>1 DEF PeerLeaves
    <3>2. input' = input
      BY <2>1 DEF PeerLeaves
    <3> DEFINE front == SubSeq(stream, 1, n)
    <3>3. /\ front \in Seq(Piece) /\ Len(front) = n
          /\ \A i \in 1..n : front[i] = stream[i]
      BY <1>1, Prefix
    <3>4. wire' = input \o front
      BY <3>1, <3>2 DEF wire
    <3> HIDE DEF front
    <3>5. /\ wire' \in Seq(Piece) /\ Len(wire') = Len(input) + n
          /\ \A i \in 1..Len(input) : wire'[i] = input[i]
          /\ \A i \in 1..n : wire'[Len(input) + i] = front[i]
      BY <1>1, <3>3, <3>4, WireFields
    <3>6. /\ Len(wire) = Len(input) + Len(stream)
          /\ \A i \in 1..Len(input) : wire[i] = input[i]
          /\ \A i \in 1..Len(stream) : wire[Len(input) + i] = stream[i]
      BY <1>1, WireFields DEF wire
    <3>7. Len(input) \in Nat /\ Len(stream) \in Nat /\ n \in Nat /\ n <= Len(stream)
      BY <1>1, <3>1
    <3>8. Len(wire') <= Len(wire)
      BY <3>5, <3>6, <3>7
    <3>9. ASSUME NEW i \in 1..Len(wire')
          PROVE  wire'[i] = wire[i]
      <4>1. CASE i \in 1..Len(input)
        BY <3>5, <3>6, <4>1
      <4>2. CASE i \notin 1..Len(input)
        <5>1. i - Len(input) \in 1..n /\ Len(input) + (i - Len(input)) = i
          BY <3>5, <3>7, <4>2
        <5>2. i - Len(input) \in 1..Len(stream)
          BY <3>7, <5>1
        <5>3. PICK k \in 1..n : k \in 1..Len(stream) /\ Len(input) + k = i
          BY <5>1, <5>2
        <5>4. wire'[Len(input) + k] = front[k] /\ front[k] = stream[k]
              /\ wire[Len(input) + k] = stream[k]
          BY <3>3, <3>5, <3>6, <5>3
        <5> QED
          BY <5>3, <5>4
      <4> QED
        BY <4>1, <4>2
    <3> QED
      BY <3>5, <3>8, <3>9
  <2>2. CASE ResetInput
    <3>1. input' = <<>> /\ stream' = <<>>
      BY <2>2 DEF ResetInput, Linked, Down, peer
    <3>2. wire' = <<>>
      BY <3>1 DEF wire
    <3> QED
      BY <1>1, <3>2
  <2> QED
    BY <2>1, <2>2
<1>6. \A f : f \in InFlight <=> \E i \in 1..Len(wire) : /\ wire[i].part = 2 /\ wire[i].kind = "good"
                                                        /\ f = wire[i].record
  BY <1>1, Flying, EndsAt
<1>7. \A f : f \in InFlight' <=> \E i \in 1..Len(wire') : /\ wire'[i].part = 2
                                                          /\ wire'[i].kind = "good"
                                                          /\ f = wire'[i].record
  BY <1>5, Flying, EndsAt
<1>8. Len(wire') \in Nat
  BY <1>5
<1>9. InFlight' \subseteq InFlight
  <2> SUFFICES ASSUME NEW f \in InFlight'
               PROVE  f \in InFlight
    OBVIOUS
  <2>1. PICK i \in 1..Len(wire') : wire'[i].part = 2 /\ wire'[i].kind = "good"
                                   /\ f = wire'[i].record
    BY <1>7
  <2>2. i \in 1..Len(wire) /\ wire'[i] = wire[i]
    BY <1>1, <1>5, <1>8
  <2> QED
    BY <1>6, <2>1, <2>2
<1>10. ASSUME NEW kept \in InFlight', NEW lost \in InFlight \ InFlight'
       PROVE  kept < lost
  <2>1. PICK i \in 1..Len(wire') : wire'[i].part = 2 /\ kept = wire'[i].record
    BY <1>7
  <2>2. PICK j \in 1..Len(wire) : wire[j].part = 2 /\ wire[j].kind = "good"
                                  /\ lost = wire[j].record
    BY <1>6
  <2>3. i \in 1..Len(wire) /\ wire'[i] = wire[i]
    BY <1>1, <1>5, <1>8
  <2>4. j \notin 1..Len(wire')
    <3> SUFFICES ASSUME j \in 1..Len(wire')
                 PROVE  FALSE
      OBVIOUS
    <3>1. wire'[j] = wire[j]
      BY <1>5
    <3> QED
      BY <1>7, <2>2, <3>1
  <2>5. i < j
    BY <1>1, <1>8, <2>4
  <2> QED
    BY <2>1, <2>2, <2>3, <2>5 DEF Sorted
<1> QED
  BY <1>2, <1>3, <1>4, <1>9, <1>10 DEF Queue!Lose

\* a turn of the loop delivers the oldest frame, or discards what is none
LEMMA LineSteps ==
    ASSUME Linked, Sorted, IngestLine
    PROVE  Queue!Deliver \/ UNCHANGED Queue!queueVars
<1>0. PICK r : r = input[2].record
  OBVIOUS
<1>1. /\ input \in Seq(Piece) /\ stream \in Seq(Piece) /\ wire \in Seq(Piece)
      /\ input' \in Seq(Piece) /\ stream' \in Seq(Piece)
  BY InputOnWire, TypedKept DEF Linked, Typed, Next
<1>2. wire' \in Seq(Piece) /\ InFlight' \subseteq Numbers
  <2>1. wire' \in Seq(Piece)
    BY <1>1, WireFields DEF wire
  <2> QED
    BY <2>1, EndsType, Flying
<1>3. /\ Len(input) >= 2 /\ input' = SubSeq(input, 3, Len(input))
      /\ UNCHANGED <<up, sent, writing, stream, pulled>>
      /\ input[2].kind = "good" => buffer' = Append(buffer, r)
      /\ input[2].kind # "good" => UNCHANGED buffer
  BY <1>0, OneLine
<1>5. /\ GoodEnds(input') \subseteq GoodEnds(input)
      /\ input[2].kind = "good" => /\ r \in GoodEnds(input)
                                   /\ GoodEnds(input) \subseteq GoodEnds(input') \cup {r}
      /\ input[2].kind # "good" => GoodEnds(input) \subseteq GoodEnds(input')
  BY <1>0, LineTakes
<1>6. /\ InFlight = GoodEnds(input) \cup GoodEnds(stream)
      /\ InFlight' = GoodEnds(input') \cup GoodEnds(stream)
  <2>1. InFlight = GoodEnds(input) \cup GoodEnds(stream)
    BY <1>1, EndsOfBoth DEF InFlight
  <2>2. GoodEnds(input' \o stream') = GoodEnds(input') \cup GoodEnds(stream')
    BY <1>1, EndsOfBoth
  <2>3. InFlight' = GoodEnds(input' \o stream')
    BY Flying DEF wire
  <2> QED
    BY <1>3, <2>1, <2>2, <2>3
<1>7. Newest' = Newest
  BY <1>3 DEF Newest
<1>8. r \in Numbers /\ \A f \in InFlight' : r < f
  <2>1. <<>> \in Seq(Numbers) /\ Rising(<<>>) /\ Below(<<>>)
    BY DEF Rising, Below
  <2>2. r \in Numbers /\ Below(Append(<<>>, r))'
    BY <1>0, <2>1, LineIsNext
  <2>3. \A j \in 1..Len(wire') : r < wire'[j].record
    <3>1. Len(Append(<<>>, r)) = 1 /\ Append(<<>>, r)[1] = r /\ 1 \in 1..1
      OBVIOUS
    <3> QED
      BY <2>2, <3>1 DEF Below
  <2>4. \A f \in InFlight' : \E i \in 1..Len(wire') : f = wire'[i].record
    BY <1>2, Flying, EndsAt
  <2> QED
    BY <2>2, <2>3, <2>4
<1>9. CASE input[2].kind # "good"
  <2>1. InFlight' = InFlight
    BY <1>5, <1>6, <1>9
  <2> QED
    BY <1>3, <1>7, <1>9, <2>1 DEF Queue!queueVars
<1>10. CASE input[2].kind = "good"
  <2>1. r \in InFlight /\ InFlight \subseteq InFlight' \cup {r} /\ InFlight' \subseteq InFlight
    BY <1>5, <1>6, <1>10
  <2>2. r \notin InFlight'
    BY <1>8, StreamAssumption DEF Numbers
  <2>3. InFlight' = InFlight \ {r}
    BY <2>1, <2>2
  <2>4. \A f \in InFlight : r <= f
    <3> SUFFICES ASSUME NEW f \in InFlight
                 PROVE  r <= f
      OBVIOUS
    <3>1. f = r \/ r < f
      BY <1>8, <2>1
    <3>2. f \in Nat /\ r \in Nat
      BY <1>2, <1>8, <2>1, StreamAssumption DEF Numbers
    <3> QED
      BY <3>1, <3>2
  <2> QED
    BY <1>3, <1>7, <1>10, <2>1, <2>3, <2>4 DEF Queue!Deliver
<1> QED
  BY <1>9, <1>10

\* whatever happens to the bytes happens to the queue
LEMMA RefinesQueue ==
    ASSUME Linked, Sorted, [Next]_vars
    PROVE  [Queue!QueueNext]_(Queue!queueVars)
<1>1. CASE BeginRecord \/ EndRecord
  BY <1>1, SendSteps DEF Queue!QueueNext
<1>2. CASE PeerLeaves \/ ResetInput
  BY <1>2, LoseSteps DEF Queue!QueueNext
<1>3. CASE IngestLine
  BY <1>3, LineSteps DEF Queue!QueueNext
<1>4. ASSUME wire' = wire, UNCHANGED <<sent, writing>>
      PROVE  Newest' = Newest /\ InFlight' = InFlight
  BY <1>4, Flying DEF Newest
<1>5. CASE Accept
  <2>1. ~up /\ wire = <<>>
    BY <1>5 DEF Accept, Linked, Down, wire
  <2>2. up' = TRUE /\ UNCHANGED <<input, stream, sent, writing, buffer, pulled>>
    BY <1>5 DEF Accept, frames
  <2>3. wire' = wire
    BY <2>2 DEF wire
  <2>4. InFlight = {}
    BY <2>1, Flying, NothingEnds
  <2> QED
    BY <1>4, <2>1, <2>2, <2>3, <2>4 DEF Queue!Connect, Queue!QueueNext
<1>6. CASE Receive
  <2>1. wire' = wire
    BY <1>6, ReceiveKeepsWire
  <2>2. UNCHANGED <<up, sent, writing, buffer, pulled>>
    BY <1>6 DEF Receive, frames
  <2> QED
    BY <1>4, <2>1, <2>2 DEF Queue!queueVars
<1>7. CASE IngestDone \/ LinkLost \/ UNCHANGED vars
  <2>1. UNCHANGED <<up, sent, writing, input, stream, buffer, pulled>>
    BY <1>7 DEF IngestDone, LinkLost, vars, peer, frames
  <2>2. wire' = wire
    BY <2>1 DEF wire
  <2> QED
    BY <1>4, <2>1, <2>2 DEF Queue!queueVars
<1>8. CASE Pull \/ Clear
  <2>1. UNCHANGED <<up, sent, writing, input, stream>>
    BY <1>8 DEF Pull, Clear, peer
  <2>2. wire' = wire
    BY <2>1 DEF wire
  <2>3. Newest' = Newest /\ InFlight' = InFlight
    BY <1>4, <2>1, <2>2
  <2> QED
    BY <1>8, <2>1, <2>3 DEF Pull, Clear, Queue!Take, Queue!Drop, Queue!QueueNext
<1> QED
  BY <1>1, <1>2, <1>3, <1>5, <1>6, <1>7, <1>8 DEF Next

(***************************************************************************)
(* For any number of records of any kinds, cut and lost anywhere, the      *)
(* buffer is a queue of frames that loses none while its connection is up  *)
(* and lets none of a lost connection into the next (buffer.py:51, 58-80). *)
(***************************************************************************)
THEOREM IsFrameQueue == Spec => ImplementsFrameQueue
<1>1. Init => Queue!Empty
  <2> SUFFICES ASSUME Init
               PROVE  Queue!Empty
    OBVIOUS
  <2>1. /\ up = FALSE /\ sent = 0 /\ writing = "none" /\ wire = <<>>
        /\ buffer = <<>> /\ pulled = <<>>
    BY DEF Init, wire
  <2>2. Newest = 0 /\ InFlight = {}
    BY <2>1, Flying, NothingEnds DEF Newest
  <2> QED
    BY <2>1, <2>2 DEF Queue!Empty
<1>2. Linked /\ Sorted /\ [Next]_vars => [Queue!QueueNext]_(Queue!queueVars)
  BY RefinesQueue
<1>3. Ordered => Sorted
  BY DEF Ordered
<1> QED
  BY <1>1, <1>2, <1>3, StreamInvariant, PTL DEF Spec, ImplementsFrameQueue, Queue!QueueSpec
=============================================================================
