----------------------------- MODULE JsonBinary -----------------------------
(***************************************************************************)
(* A value is read from a binary format, byte by byte, or is given, and is *)
(* then written in any of the formats.                                     *)
(*                                                                         *)
(* Left out: values with a number that is not held exactly, whose digits   *)
(* are known but not its bits, are not written.                            *)
(***************************************************************************)
EXTENDS JsonBinaryWriter

CONSTANTS Sources, \* what is read: by which reader, how it begins, with which bytes it goes on
          Writers, \* what a writer is called with
          Samples  \* values that are given

\* length: bound on the bytes.
ASSUME BinaryAssumption ==
  /\ Sources \subseteq [reader : [format : {"cbor", "msgpack", "ubjson", "bjdata", "bson"},
                                  tags : {"error", "ignore", "store"}],
                        begin : Seq(0..255), bytes : SUBSET (0..255), length : Nat]
  /\ Writers \subseteq [format : {"cbor", "msgpack", "ubjson", "bjdata", "bson"},
                        count : BOOLEAN, type : BOOLEAN]
  \* add_prefix and the optimized containers: a type needs a count.
  /\ \A o \in Writers : o.type => o.count

VARIABLES source,
          received, \* history: the bytes that get() has returned
          stage,    \* "reading", "failed", "read" or "written"
          value,    \* what was read or given
          writer,   \* what it was written with
          output    \* what was written

binary == <<source, received, stage, value, writer, output>>

InitBinary ==
  /\ source \in Sources
  /\ received = source.begin
  /\ \/ stage = "reading" /\ value = Null
     \/ stage = "read" /\ value \in Samples
  /\ writer = [format |-> "cbor", count |-> FALSE, type |-> FALSE]
  /\ output = <<>>

\* A float that is known by its digits only.
RECURSIVE Inexact(_)
Inexact(v) == CASE v.type = "decimal" -> TRUE
                [] v.type \in {"array", "object"} -> \E k \in DOMAIN v.value : Inexact(v.value[k])
                [] OTHER -> FALSE

\* get(), and all that the reader does with one more byte.
GetByte ==
  /\ stage = "reading"
  /\ Len(received) < source.length
  /\ \E b \in source.bytes : \E r \in {ReadAll(source.reader, Append(received, b))} :
       /\ received' = Append(received, b)
       /\ stage' = CASE r.error = "eof" -> "reading" [] r.error = "bad" -> "failed" [] r.error = "" -> "read"
       /\ value' = r.value
  /\ UNCHANGED <<source, writer, output>>

\* to_cbor() and so on; what throws writes nothing.
WriteValue ==
  /\ stage = "read"
  /\ ~Inexact(value)
  /\ \E o \in Writers : /\ Writable(o, value)
                        /\ writer' = o
                        /\ output' = WriteAll(o, value)
  /\ stage' = "written"
  /\ UNCHANGED <<source, received, value>>

NextBinary == GetByte \/ WriteValue
=============================================================================
