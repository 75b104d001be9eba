--------------------------- MODULE FrameStream ---------------------------
(***************************************************************************)
(* Frames on a line of bytes, and the two decoders that find them again:   *)
(* the host's FrameStreamDecoder (src/rci/protocols/stream.py), which is   *)
(* fed chunks of any size, and the robot's IngestByte                      *)
(* (firmware/robot/robot.ino), which is fed byte by byte.  Bytes may be    *)
(* damaged or lost on the way.  A behaviour has one of the two at the end  *)
(* of its line.                                                            *)
(*                                                                         *)
(* The line carries symbols.  The sequence and the length of the header    *)
(* take one each instead of two bytes.  The checksum is a symbol that is   *)
(* no byte and tells all that it is taken of: no change escapes it.        *)
(***************************************************************************)
EXTENDS Integers, Sequences, SequencesExt, FiniteSetsExt

CONSTANTS
  MaxPayload,     \* MAX_PAYLOAD_SIZE, kMaxPayloadSize: 512 in the code
  Headroom,       \* what the host's buffer holds beyond a frame: 64
  MaxChunk,       \* bytes the host reads at once: 128
  SentPayloads,   \* payloads of the frames that are sent
  DamageValues,   \* what a damaged byte may become
  MaxSent,        \* bound on the frames sent
  MaxFaults       \* bound on the bytes damaged or lost, and on resets

\* What a byte is, or a header's field of two bytes
Symbol(n) == <<n>>
WORD == 65535
Bytes == {Symbol(n) : n \in 0 .. WORD}

ASSUME StreamAssumption ==
  /\ MaxPayload \in 0 .. WORD /\ Headroom \in Nat /\ MaxChunk \in Nat \ {0}
  /\ SentPayloads \subseteq Seq(Bytes) /\ DamageValues \subseteq Bytes
  /\ \A payload \in SentPayloads : Len(payload) <= MaxPayload
  /\ MaxSent \in 0 .. WORD + 1 /\ MaxFaults \in Nat

MAGIC == <<Symbol(82), Symbol(67)>>
PROTOCOL_VERSION == 1
MessageTypes == 1 .. 7
HEADER_SIZE == 6
FRAME_OVERHEAD == HEADER_SIZE + 1
MaxFrame == FRAME_OVERHEAD + MaxPayload
MaxBuffer == MaxFrame + Headroom

VARIABLES
  end,       \* who listens: "host" or "robot"
  sent,      \* frames put on the line (history)
  position,  \* bytes of the line that have left it
  buffer,    \* FrameStreamDecoder._buffer, or g_receive_buffer
  heard,     \* frames recognised so far (history)
  reported,  \* bytes the host's issues declare as discarded (history)
  faults     \* number of faults, last byte touched, bytes that never arrived
             \* or were cleared by a reset (history)

stream == <<end, sent, position, buffer, heard, reported, faults>>

---------------------------------------------------------------------------
(* One frame.                                                              *)

Crc(body) == <<"checksum", body>>

\* What a field of the header is read as; a checksum in its place is no valid value.
Value(symbol) == IF Len(symbol) = 1 THEN symbol[1] ELSE WORD + 1

\* Frame.encode on the host, BuildFrame in the firmware
EncodeFrame(frame) ==
  LET body == MAGIC \o <<Symbol(PROTOCOL_VERSION), Symbol(frame.type),
                         Symbol(frame.sequence), Symbol(Len(frame.payload))>>
                    \o frame.payload
  IN Append(body, Crc(body))

Line(frames) == FlattenSeq([k \in DOMAIN frames |-> EncodeFrame(frames[k])])

\* _validate_header, and the version, type and length checks of ParseFrame
HeaderValid(b) ==
  /\ Value(b[3]) = PROTOCOL_VERSION /\ Value(b[4]) \in MessageTypes
  /\ Value(b[6]) <= MaxPayload

\* Seeded fault: the checksum is forgotten.
FrameSizeUnchecked(b) == HEADER_SIZE + Value(b[6])

FrameSize(b) == FRAME_OVERHEAD + Value(b[6])

\* Seeded fault: the checksum is not compared.
ChecksumIgnored(b) == TRUE

ChecksumMatches(b) == b[FrameSize(b)] = Crc(SubSeq(b, 1, FrameSize(b) - 1))

FrameIn(b) ==
  [type |-> Value(b[4]), sequence |-> Value(b[5]),
   payload |-> SubSeq(b, HEADER_SIZE + 1, FrameSize(b) - 1)]

---------------------------------------------------------------------------
(* The host's decoder.                                                     *)

MagicAt(b) == {i \in 1 .. Len(b) - 1 : SubSeq(b, i, i + 1) = MAGIC}

\* A first half of a magic may be completed by the next chunk.
Kept(b) == IF Last(b) = MAGIC[1] THEN 1 ELSE 0

Discard(n, again) == [take |-> n, frames |-> <<>>, issue |-> n, again |-> again]
Wait == Discard(0, FALSE)

\* A frame that fails its checksum goes as a whole.
Mismatch(b) == Discard(FrameSize(b), TRUE)

\* One turn of the loop in feed: what it takes off the buffer, what it makes of
\* it, and whether the loop goes on.
Turn(b) ==
  CASE Len(b) < 2 -> Wait
    [] Len(b) >= 2 /\ MagicAt(b) = {} -> Discard(Len(b) - Kept(b), FALSE)
    [] MagicAt(b) # {} /\ Min(MagicAt(b)) > 1 -> Discard(Min(MagicAt(b)) - 1, TRUE)
    [] 1 \in MagicAt(b) /\ Len(b) < HEADER_SIZE -> Wait
    [] 1 \in MagicAt(b) /\ Len(b) >= HEADER_SIZE ->
         IF ~HeaderValid(b) \/ FrameSize(b) > MaxBuffer THEN Discard(1, TRUE)
         ELSE IF Len(b) < FrameSize(b) THEN Wait
         ELSE IF ~ChecksumMatches(b) THEN Mismatch(b)
         ELSE [take |-> FrameSize(b), frames |-> <<FrameIn(b)>>,
               issue |-> 0, again |-> TRUE]

Unread(b) == [rest |-> b, frames |-> <<>>, discarded |-> 0, again |-> TRUE]

AfterTurn(batch) ==
  LET turn == Turn(batch.rest)
  IN IF ~batch.again THEN batch
     ELSE [rest |-> SubSeq(batch.rest, turn.take + 1, Len(batch.rest)),
           frames |-> batch.frames \o turn.frames,
           discarded |-> batch.discarded + turn.issue, again |-> turn.again]

\* The loop in feed.  A turn that is not the last takes a symbol at least.
DecodeBuffer(b) ==
  LET after[n \in 0 .. Len(b)] ==
        IF n = 0 THEN Unread(b) ELSE AfterTurn(after[n - 1])
  IN after[Len(b)]

Overflows(data) == Len(buffer) + Len(data) > MaxBuffer

\* feed: a chunk that does not fit is discarded with all that was buffered.
Feed(data) ==
  LET batch == IF Overflows(data)
               THEN [Unread(<<>>) EXCEPT !.discarded = Len(buffer) + Len(data)]
               ELSE DecodeBuffer(buffer \o data)
  IN /\ buffer' = batch.rest
     /\ heard' = heard \o batch.frames
     /\ reported' = reported + batch.discarded

---------------------------------------------------------------------------
(* The robot's decoder.                                                    *)

Unfinished(b) == [buffer |-> b, frames |-> <<>>]

\* HandleFrame refuses without an answer what ParseFrame does not accept.
Complete(b) ==
  [buffer |-> <<>>,
   frames |-> IF HeaderValid(b) /\ ChecksumMatches(b) THEN <<FrameIn(b)>> ELSE <<>>]

IngestByte(b, value) ==
  LET longer == Append(b, value)
  IN CASE b = <<>> /\ value # MAGIC[1] -> Unfinished(<<>>)
       [] Len(b) = 1 /\ value # MAGIC[2] ->
            Unfinished(IF value = MAGIC[1] THEN <<value>> ELSE <<>>)
       [] Len(b) >= MaxFrame -> Unfinished(<<>>)
       [] OTHER -> IF Len(longer) = HEADER_SIZE /\ Value(longer[6]) > MaxPayload
                   THEN Unfinished(<<>>)
                   ELSE IF Len(longer) > HEADER_SIZE /\ Len(longer) = FrameSize(longer)
                   THEN Complete(longer)
                   ELSE Unfinished(longer)

Ingest(value) ==
  LET taken == IngestByte(buffer, value)
  IN /\ buffer' = taken.buffer /\ heard' = heard \o taken.frames
     /\ UNCHANGED reported

---------------------------------------------------------------------------

StreamInit ==
  /\ end \in {"host", "robot"}
  /\ sent = <<>> /\ position = 0 /\ buffer = <<>> /\ heard = <<>>
  /\ reported = 0 /\ faults = [number |-> 0, last |-> 0, missing |-> 0]

Send(payload) ==
  /\ Len(sent) < MaxSent
  /\ sent' = Append(sent, [type |-> 2, sequence |-> Len(sent), payload |-> payload])
  /\ UNCHANGED <<end, position, buffer, heard, reported, faults>>

\* The next n bytes reach the listener as data.
Arrive(n, data) ==
  /\ position' = position + n
  /\ IF end = "host" THEN Feed(data) ELSE Ingest(data[1])
  /\ UNCHANGED <<end, sent>>

Chunk(n) == SubSeq(Line(sent), position + 1, position + n)
ChunkSizes ==
  1 .. Min({Len(Line(sent)) - position, IF end = "host" THEN MaxChunk ELSE 1})

\* An overflow hurts what follows as a damaged byte does.
Deliver(n) ==
  /\ Arrive(n, Chunk(n))
  /\ faults' = IF end = "host" /\ Overflows(Chunk(n))
               THEN [faults EXCEPT !.last = position + n] ELSE faults

DeliverDamaged(n, i, value) ==
  /\ faults.number < MaxFaults /\ value # Chunk(n)[i]
  /\ Arrive(n, [Chunk(n) EXCEPT ![i] = value])
  /\ faults' = [faults EXCEPT !.number = @ + 1,
                  !.last = position + IF end = "host" /\ Overflows(Chunk(n))
                                      THEN n ELSE i]

LoseByte ==
  /\ faults.number < MaxFaults /\ position < Len(Line(sent))
  /\ position' = position + 1
  /\ faults' = [number |-> faults.number + 1, last |-> position + 1,
                missing |-> faults.missing + 1]
  /\ UNCHANGED <<end, sent, buffer, heard, reported>>

\* FrameStreamDecoder.reset; ResetReceiveBuffer when the robot starts again
ResetDecoder ==
  /\ faults.number < MaxFaults /\ buffer # <<>> /\ buffer' = <<>>
  /\ faults' = [number |-> faults.number + 1, last |-> position,
                missing |-> faults.missing + Len(buffer)]
  /\ UNCHANGED <<end, sent, position, heard, reported>>

StreamNext ==
  \/ \E payload \in SentPayloads : Send(payload)
  \/ \E n \in ChunkSizes :
       \/ Deliver(n)
       \/ \E i \in 1 .. n, value \in DamageValues : DeliverDamaged(n, i, value)
  \/ LoseByte
  \/ ResetDecoder

StreamSpec == StreamInit /\ [][StreamNext]_stream

---------------------------------------------------------------------------

\* A decoder never keeps a whole frame's worth of bytes from one read to the
\* next, so the host's buffer overflows only on reads larger than its headroom.
StreamTypeOK ==
  /\ end \in {"host", "robot"}
  /\ position \in 0 .. Len(Line(sent)) /\ reported \in 0 .. position
  /\ Len(buffer) < MaxFrame
  /\ faults.last <= position /\ faults.number \in 0 .. MaxFaults

\* The bytes before frame k
Start(k) == Len(Line(SubSeq(sent, 1, k - 1)))
Arrived(k) == Start(k) + Len(EncodeFrame(sent[k])) <= position

\* On a line without faults every frame is heard once its last byte is there,
\* nothing is discarded, and only an unfinished frame is kept back, however the
\* bytes are cut into chunks (an overflow counts as a fault).
UndamagedIsHeard ==
  faults.number = 0 /\ faults.last = 0 =>
    /\ \A k \in DOMAIN sent : Arrived(k) => Len(heard) >= k
    /\ Line(heard) \o buffer = SubSeq(Line(sent), 1, position)

\* Whatever is damaged, a frame is heard at most once, in the order sent, and
\* only if it was sent: neither decoder makes up a frame out of the remains.
NothingInvented ==
  /\ \A k \in DOMAIN heard : heard[k] \in ToSet(sent)
  /\ \A j, k \in DOMAIN heard : j < k => heard[j].sequence < heard[k].sequence

MagicOnlyAtStart(frame) == MagicAt(EncodeFrame(frame)) = {1}

\* One fault costs at most the frames that begin within MaxFrame bytes of it:
\* a damaged length makes either decoder swallow what follows, a stop command
\* among it, but never more than that; as long as no payload holds a magic.
DamageIsBounded ==
  (\A k \in DOMAIN sent : MagicOnlyAtStart(sent[k])) =>
    \A k \in DOMAIN sent :
      /\ Start(k) >= faults.last + MaxFrame \/ faults.last = 0
      /\ Arrived(k)
      => sent[k] \in ToSet(heard)

\* The host hides no loss: each byte it was given is part of a frame, is still
\* buffered, or is counted by an issue.
EveryByteAccounted ==
  end = "host" =>
    position - faults.missing = Len(Line(heard)) + Len(buffer) + reported

\* What reaches the reader is what was sent, once and in order, and the host knows
\* how much did not reach it.
NothingHidden == NothingInvented /\ EveryByteAccounted

\* Frames get through: all of them on a line without faults, and after a fault all
\* but the few behind it.
FramesGetThrough == StreamTypeOK /\ UndamagedIsHeard /\ DamageIsBounded

===========================================================================
