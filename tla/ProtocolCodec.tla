--------------------------- MODULE ProtocolCodec ---------------------------
(***************************************************************************)
(* ProtocolCodec and the way decodeAndEnqueue() feeds it: the bytes of a   *)
(* stream arrive in pieces of any size, each piece is appended to the      *)
(* connection's input buffer and the buffer is decoded.                    *)
(*                                                                         *)
(* The layout of a message is the code's: body_length (4 bytes there),     *)
(* version (1), type (1), request_id (8), payload, big-endian.  The sizes  *)
(* and the values of a byte are parameters, so that all streams can be     *)
(* looked at; body_length is an unsigned integer of its size, and wraps.   *)
(*                                                                         *)
(* Each definition whose name ends in Wrong is a slip the next definition  *)
(* could contain; nothing uses it, except to see that the properties would *)
(* tell.                                                                   *)
(***************************************************************************)
EXTENDS Naturals, Sequences, SequencesExt

CONSTANTS Base,              \* a byte is one of 0..Base - 1
          HeaderSize,        \* bytes of body_length
          IdSize,            \* bytes of request_id
          MAX_PAYLOAD_SIZE,
          MaxStream,         \* bound: bytes that arrive on the connection
          MaxPiece           \* bound: bytes that arrive at once

Byte == 0..(Base - 1)
FIXED_BODY_SIZE == 2 + IdSize
MAX_BODY_SIZE == MAX_PAYLOAD_SIZE + FIXED_BODY_SIZE

\* ntohl() and be64toh(): bytes, most significant first.
Value(bytes) ==
  LET first[i \in 0..Len(bytes)] == IF i = 0 THEN 0 ELSE first[i - 1] * Base + bytes[i]
  IN first[Len(bytes)]

\* htonl() and htobe64().
Bytes(n, size) ==
  LET first[i \in 0..size] == IF i = size THEN n ELSE first[i + 1] \div Base
  IN [i \in 1..size |-> first[i] % Base]

\* The largest unsigned integer of size bytes.
Largest(size) == Value([i \in 1..size |-> Base - 1])

\* What an unsigned integer of the size of body_length makes of n.
Unsigned(n) == n % (Largest(HeaderSize) + 1)

\* A message that is as long as it may be has a length that body_length can hold.
ASSUME CodecAssumption ==
  /\ Base \in Nat \ {0, 1}
  /\ {HeaderSize, IdSize, MaxPiece} \subseteq Nat \ {0}
  /\ {MAX_PAYLOAD_SIZE, MaxStream} \subseteq Nat
  /\ HeaderSize + MAX_BODY_SIZE <= Largest(HeaderSize)

\* encode().
Encode(m) == Bytes(Unsigned(FIXED_BODY_SIZE + Len(m.payload)), HeaderSize)
             \o <<m.version, m.type>> \o Bytes(m.request_id, IdSize) \o m.payload

-----------------------------------------------------------------------------
(* decode(), of a buffer from offset at on.                                 *)

BodyLength(buf, at) == Value(SubSeq(buf, at + 1, at + HeaderSize))

InvalidLength(length) == length < FIXED_BODY_SIZE \/ length > MAX_BODY_SIZE

\* The last message of the buffer counts as incomplete.
IncompleteWrong(remaining, length) == remaining <= Unsigned(HeaderSize + length)

Incomplete(remaining, length) == remaining < Unsigned(HeaderSize + length)

\* The payload starts one byte late.
ParseWrong(buf, at, length) ==
  LET body == SubSeq(buf, at + HeaderSize + 1, at + HeaderSize + length) IN
  [version |-> body[1], type |-> body[2],
   request_id |-> Value(SubSeq(body, 3, FIXED_BODY_SIZE)),
   payload |-> SubSeq(body, FIXED_BODY_SIZE + 2, length)]

\* The message at offset at, complete and of the given body_length.
Parse(buf, at, length) ==
  LET body == SubSeq(buf, at + HeaderSize + 1, at + HeaderSize + length) IN
  [version |-> body[1], type |-> body[2],
   request_id |-> Value(SubSeq(body, 3, FIXED_BODY_SIZE)),
   payload |-> SubSeq(body, FIXED_BODY_SIZE + 1, length)]

\* Why the loop stops at offset at, if it does.
HeaderMissing(buf, at) == Len(buf) - at < HeaderSize
BodyMissing(buf, at) == Incomplete(Len(buf) - at, BodyLength(buf, at))

Stop(at, verdict) == [status |-> verdict, out |-> <<>>, read_index |-> at]

\* An iteration at offset at; from is what the loop does from the other offsets on.
Iteration(buf, from, at) ==
  LET length == BodyLength(buf, at)
      rest == from[at + HeaderSize + length]
  IN CASE HeaderMissing(buf, at) -> Stop(at, "NEED_MORE_DATA")
       [] ~HeaderMissing(buf, at) /\ InvalidLength(length) -> Stop(at, "INVALID_LENGTH")
       [] ~HeaderMissing(buf, at) /\ ~InvalidLength(length) /\ BodyMissing(buf, at) ->
            Stop(at, "NEED_MORE_DATA")
       [] OTHER -> [rest EXCEPT !.out = <<Parse(buf, at, length)>> \o @]

\* The loop, from each offset on: the status decode() returns, the messages it puts out
\* and read_index at the end.  It never ends but for need_more_data or an invalid length.
From(buf) == LET from[at \in 0..Len(buf)] == Iteration(buf, from, at) IN from
Loop(buf) == From(buf)[0]

\* What is left in the buffer is thrown away.
LeftoverWrong(buf, read_index) == <<>>

\* input_buffer.erase(0, read_index)
Leftover(buf, read_index) == SubSeq(buf, read_index + 1, Len(buf))

-----------------------------------------------------------------------------
VARIABLES received,      \* every byte that arrived so far
          input_buffer,
          requests,      \* the messages that were enqueued
          status,        \* what decode() returned last
          closed         \* the connection was closed for an invalid length

vars == <<received, input_buffer, requests, status, closed>>

Init == /\ received = <<>>
        /\ input_buffer = <<>>
        /\ requests = <<>>
        /\ status = "NEED_MORE_DATA"
        /\ closed = FALSE

\* handleRead() and decodeAndEnqueue(): what one invalid length leaves of the
\* messages decoded before it in the same buffer is nothing.
Receive(piece) ==
  LET buf == input_buffer \o piece
      result == Loop(buf)
      ok == result.status # "INVALID_LENGTH"
  IN /\ ~closed
     /\ Len(received) + Len(piece) <= MaxStream
     /\ received' = received \o piece
     /\ status' = result.status
     /\ closed' = ~ok
     /\ input_buffer' = IF ok THEN Leftover(buf, result.read_index) ELSE buf
     /\ requests' = IF ok THEN requests \o result.out ELSE requests

Next == \E n \in 1..MaxPiece : \E piece \in [1..n -> Byte] : Receive(piece)

Spec == Init /\ [][Next]_vars

-----------------------------------------------------------------------------
\* Nothing of the stream is lost, changed or read twice: encoded again, the
\* requests and what is left in the buffer are the bytes that arrived.
Lossless == ~closed =>
  received = FlattenSeq([i \in DOMAIN requests |-> Encode(requests[i])]) \o input_buffer

\* How the stream is cut into pieces makes no difference, neither to the requests
\* nor to whether the connection is closed.
PiecesDoNotMatter == LET whole == Loop(received) IN
                     /\ closed <=> whole.status = "INVALID_LENGTH"
                     /\ ~closed => requests = whole.out

\* No message that is complete waits in the buffer for more bytes, and none that
\* can never be completed is waited for: the buffer is always shorter than the
\* longest message, and no payload is longer than one may be.
Prompt == ~closed =>
  /\ \A i \in DOMAIN requests : Len(requests[i].payload) <= MAX_PAYLOAD_SIZE
  /\ Len(input_buffer) < HeaderSize + MAX_BODY_SIZE
  /\ Len(input_buffer) >= HeaderSize =>
       LET length == BodyLength(input_buffer, 0) IN
       /\ length \in FIXED_BODY_SIZE..MAX_BODY_SIZE
       /\ Len(input_buffer) < HeaderSize + length

=============================================================================
