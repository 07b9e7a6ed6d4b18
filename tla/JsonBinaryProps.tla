-------------------------- MODULE JsonBinaryProps --------------------------
(***************************************************************************)
(* What the binary formats keep of a value.                                *)
(***************************************************************************)
EXTENDS JsonBinary

\* What a format keeps of a value: an integer by its value and not by its C++ type; of a
\* binary its bytes and, but for CBOR, one byte of the subtype, which BSON always has and
\* UBJSON and BJData never, where it is an array.
RECURSIVE Kept(_, _)
Kept(o, v) ==
  CASE v.type \in {"integer", "unsigned"} ->
         [type |-> IF v.type = "integer" /\ IsNegative(v.value) THEN "negative" ELSE "natural", value |-> v.value]
    [] v.type = "binary" ->
        (CASE o.format = "cbor" -> v
           [] o.format = "bson" \/ (o.format = "msgpack" /\ v.subtype # NoSubtype) ->
                Binary(v.value, IF v.subtype = NoSubtype THEN WordOf(0) ELSE ZeroExtended(LastBytes(v.subtype, 1)))
           [] o.format = "msgpack" /\ v.subtype = NoSubtype -> v
           [] o.format \in {"ubjson", "bjdata"} ->
                Array([i \in DOMAIN v.value |-> Kept(o, Unsigned(WordOf(v.value[i])))]))
    [] v.type = "array" -> Array([i \in DOMAIN v.value |-> Kept(o, v.value[i])])
    [] v.type = "object" -> Object([k \in DOMAIN v.value |-> Kept(o, v.value[k])])
    [] OTHER -> v

\* The reader of what was written, with the tags of binary values.
ReadBack(bytes) == ReadAll([format |-> writer.format, tags |-> "store"], bytes)

\* Whatever a value is made of, and whichever format it was read from, each format gives back
\* what it keeps of it: no width, sign, length or optimization loses anything.
RoundTrip == stage = "written" =>
  \A r \in {ReadBack(output)} : r.error = "" /\ Kept(writer, r.value) = Kept(writer, value)

\* Every beginning of what was written is noticed to be incomplete, and nothing may follow it:
\* a document that was cut off is never taken for a shorter one.
LengthExact == stage = "written" =>
  /\ \A n \in 0..(Len(output) - 1) : ReadBack(SubSeq(output, 1, n)).error = "eof"
  /\ ReadBack(Append(output, 0)).error = "bad"

\* A BSON document and those within it begin with their number of bytes, although it is written
\* before they are.
SizesAgree == stage = "written" /\ writer.format = "bson" =>
  Small(ZeroExtended(Reverse(SubSeq(output, 1, 4)))) = Len(output)

\* A binary format gives back the whole of what was written, and only of the whole.
BytesExact == RoundTrip /\ LengthExact /\ SizesAgree
=============================================================================
