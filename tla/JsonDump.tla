------------------------------ MODULE JsonDump ------------------------------
(***************************************************************************)
(* nlohmann's serializer, which is behind dump(); the server does not call *)
(* it.  Strings and keys go byte by byte, values and integers are pure     *)
(* functions.  A byte is its number.                                       *)
(*                                                                         *)
(* Left out: the digits of a float; indent_string, from which the          *)
(* indentation is copied.  It starts with 512 blanks, and a container for  *)
(* which it is too short doubles it once.  That is enough for every step   *)
(* of at most 1024 blanks, and for a larger one the code reads past its    *)
(* end; an indentation is a number here, and always written in full.       *)
(*                                                                         *)
(* Definitions whose names end in Wrong are slips that the properties must *)
(* notice; nothing uses them.                                              *)
(***************************************************************************)
EXTENDS JsonValues

CONSTANTS DumpBytes,  \* the bytes a string may hold
          MaxBytes,   \* bound: bytes of a string
          BufferSize, \* the size of string_buffer
          Integers    \* the integers that are written

\* 13 bytes have to be free for the next character.
ASSUME DumpAssumption == /\ DumpBytes \subseteq 0..255
                         /\ MaxBytes \in Nat
                         /\ BufferSize \in Nat /\ BufferSize > 15
                         /\ Integers \subseteq Int

VARIABLES
  error_handler,  \* strict, ignore or replace
  ensure_ascii,
  given,          \* history: the bytes of the string so far
  again,          \* the last byte is looked at once more
  decoder,        \* state and codepoint
  string_buffer,
  bytes_after_last_accept,
  undumped_chars,
  written,        \* what the output adapter was given
  number,         \* the integer that was written
  dump            \* "on", "done", "thrown" or, when an integer was written, "number"

dumper == <<error_handler, ensure_ascii, given, again, decoder, string_buffer,
            bytes_after_last_accept, undumped_chars, written, number, dump>>

ACCEPT == 0
REJECT == 1

InitDump == /\ error_handler \in {"strict", "ignore", "replace"}
            /\ ensure_ascii \in BOOLEAN
            /\ given = <<>> /\ again = FALSE
            /\ decoder = [state |-> ACCEPT, codepoint |-> 0]
            /\ string_buffer = <<>> /\ bytes_after_last_accept = 0 /\ undumped_chars = 0
            /\ written = <<>> /\ number = 0 /\ dump = "on"

-----------------------------------------------------------------------------
(* decode(): Hoehrmann's automaton.                                         *)

\* The first 256 entries of utf8d.
Class(b) == CASE b \in 0..127 -> 0
              [] b \in 128..143 -> 1
              [] b \in 144..159 -> 9
              [] b \in 160..191 -> 7
              [] b \in {192, 193} \cup 245..255 -> 8
              [] b \in 194..223 -> 2
              [] b = 224 -> 10
              [] b \in 225..239 \ {237} -> 3
              [] b = 237 -> 4
              [] b = 240 -> 11
              [] b \in 241..243 -> 6
              [] b = 244 -> 5

\* The others: for each state the next one by the class of the byte.
NextState ==
  << <<0, 1, 2, 3, 5, 8, 7, 1, 1, 1, 4, 6>>,
     <<1, 1, 1, 1, 1, 1, 1, 1, 1, 1, 1, 1>>,
     <<1, 0, 1, 1, 1, 1, 1, 0, 1, 0, 1, 1>>,
     <<1, 2, 1, 1, 1, 1, 1, 2, 1, 2, 1, 1>>,
     <<1, 1, 1, 1, 1, 1, 1, 2, 1, 1, 1, 1>>,
     <<1, 2, 1, 1, 1, 1, 1, 1, 1, 2, 1, 1>>,
     <<1, 1, 1, 1, 1, 1, 1, 3, 1, 3, 1, 1>>,
     <<1, 3, 1, 1, 1, 1, 1, 3, 1, 3, 1, 1>>,
     <<1, 3, 1, 1, 1, 1, 1, 1, 1, 1, 1, 1>> >>

Decode(d, b) ==
  [codepoint |-> IF d.state = ACCEPT THEN b % (2 ^ (8 - (IF Class(b) > 8 THEN 8 ELSE Class(b))))
                 ELSE (64 * d.codepoint) + (b % 64),
   state |-> NextState[d.state + 1][Class(b) + 1]]

-----------------------------------------------------------------------------
(* dump_escaped().                                                          *)

HexDigits(c) == [i \in 1..4 |-> LET d == (c \div (16 ^ (4 - i))) % 16 IN IF d < 10 THEN 48 + d ELSE 87 + d]
UnitOf(c) == <<92, 117>> \o HexDigits(c)

Short == (8 :> 98) @@ (9 :> 116) @@ (10 :> 110) @@ (12 :> 102) @@ (13 :> 114) @@ (34 :> 34) @@ (92 :> 92)

Escapes(c) == c \in DOMAIN Short \/ c <= 31 \/ (ensure_ascii /\ c >= 127)

\* What a character is escaped to.
Escaped(c) == CASE c \in DOMAIN Short -> <<92, Short[c]>>
                [] c \notin DOMAIN Short /\ c <= 65535 -> UnitOf(c)
                [] OTHER -> UnitOf(55232 + (c \div 1024)) \o UnitOf(56320 + (c % 1024))

\* The buffer goes to the output when there may be no room for the next character.
Flush(buffer) ==
  IF BufferSize - Len(buffer) < 13
  THEN written' = written \o buffer /\ string_buffer' = <<>> /\ bytes_after_last_accept' = 0
  ELSE UNCHANGED written /\ string_buffer' = buffer /\ bytes_after_last_accept' = Len(buffer)

Accepted(c, b) == /\ Flush(string_buffer \o IF Escapes(c) THEN Escaped(c) ELSE <<b>>)
                  /\ undumped_chars' = 0
                  /\ again' = FALSE
                  /\ UNCHANGED dump

Incomplete(b) == /\ string_buffer' = IF ensure_ascii THEN string_buffer ELSE Append(string_buffer, b)
                 /\ undumped_chars' = undumped_chars + 1
                 /\ again' = FALSE
                 /\ UNCHANGED <<bytes_after_last_accept, written, dump>>

Replacement == IF ensure_ascii THEN <<92, 117, 102, 102, 102, 100>> ELSE <<239, 191, 189>>
Valid == SubSeq(string_buffer, 1, bytes_after_last_accept)

\* The byte that ends a sequence too early is taken to be part of it.
RejectedWrong ==
  IF error_handler = "strict"
  THEN dump' = "thrown" /\ UNCHANGED <<again, string_buffer, bytes_after_last_accept, undumped_chars, written>>
  ELSE /\ IF error_handler = "replace" THEN Flush(Valid \o Replacement)
          ELSE string_buffer' = Valid /\ UNCHANGED <<bytes_after_last_accept, written>>
       /\ again' = FALSE
       /\ undumped_chars' = 0
       /\ UNCHANGED dump

\* The byte is no character and completes none: if others came before it, it is looked at again.
Rejected ==
  IF error_handler = "strict"
  THEN dump' = "thrown" /\ UNCHANGED <<again, string_buffer, bytes_after_last_accept, undumped_chars, written>>
  ELSE /\ IF error_handler = "replace" THEN Flush(Valid \o Replacement)
          ELSE string_buffer' = Valid /\ UNCHANGED <<bytes_after_last_accept, written>>
       /\ again' = (undumped_chars > 0)
       /\ undumped_chars' = 0
       /\ UNCHANGED dump

DumpByte ==
  /\ dump = "on"
  /\ again \/ Len(given) < MaxBytes
  /\ \E b \in IF again THEN {Last(given)} ELSE DumpBytes :
       LET d == Decode(decoder, b) IN
       /\ given' = IF again THEN given ELSE Append(given, b)
       /\ decoder' = IF d.state = REJECT THEN [d EXCEPT !.state = ACCEPT] ELSE d
       /\ CASE d.state = ACCEPT -> Accepted(d.codepoint, b)
            [] d.state = REJECT -> Rejected
            [] OTHER -> Incomplete(b)
  /\ UNCHANGED <<error_handler, ensure_ascii, number>>

\* The end of the string.
DumpEnd ==
  /\ dump = "on" /\ ~again
  /\ IF decoder.state = ACCEPT
     THEN dump' = "done" /\ written' = written \o string_buffer
     ELSE CASE error_handler = "strict" -> dump' = "thrown" /\ UNCHANGED written
            [] error_handler = "ignore" -> dump' = "done" /\ written' = written \o Valid
            [] error_handler = "replace" -> dump' = "done" /\ written' = written \o Valid \o Replacement
  /\ UNCHANGED <<error_handler, ensure_ascii, given, again, decoder, string_buffer,
                 bytes_after_last_accept, undumped_chars, number>>

-----------------------------------------------------------------------------
(* dump_integer().                                                          *)

RECURSIVE CountDigits(_)

CountDigits(x) == CASE x < 10 -> 1
                    [] x \in 10..99 -> 2
                    [] x \in 100..999 -> 3
                    [] x \in 1000..9999 -> 4
                    [] OTHER -> CountDigits(x \div 10000) + 4

\* The absolute value, without the negation that overflows.
RemoveSign(x) == -(x + 1) + 1

\* Two digits at a time, from the last one on; what is before them is not written yet.
RECURSIVE Digitise(_, _)
Digitise(x, digits) ==
  CASE x >= 100 -> Digitise(x \div 100, <<48 + ((x % 100) \div 10), 48 + (x % 10)>> \o digits)
    [] x \in 10..99 -> <<48 + (x \div 10), 48 + (x % 10)>> \o digits
    [] OTHER -> <<48 + x>> \o digits

\* The n_chars bytes that are written: the buffer as it was filled from its end.
DumpInteger(x) ==
  LET abs_value == IF x < 0 THEN RemoveSign(x) ELSE x
      sign == IF x < 0 THEN <<45>> ELSE <<>>
      n_chars == Len(sign) + CountDigits(abs_value)
      digits == Digitise(abs_value, <<>>)
  IN IF x = 0 THEN <<48>>
     ELSE [i \in 1..n_chars |-> IF i > n_chars - Len(digits) THEN digits[i - n_chars + Len(digits)]
                                ELSE IF i <= Len(sign) THEN sign[i] ELSE 0]

DumpNumber == /\ dump = "on" /\ given = <<>>
              /\ \E x \in Integers : number' = x /\ written' = DumpInteger(x)
              /\ dump' = "number"
              /\ UNCHANGED <<error_handler, ensure_ascii, given, again, decoder, string_buffer,
                             bytes_after_last_accept, undumped_chars>>

NextDump == DumpByte \/ DumpEnd \/ DumpNumber

-----------------------------------------------------------------------------
(* dump(): a value as tokens, line breaks and indentation.                  *)

Mark(c) == <<[type |-> c]>>
NewLine(indent) == <<[type |-> "line", indent |-> indent]>>

\* The keys "bytes" and "subtype".
BytesKey == 1000
SubtypeKey == 1001

\* Members or elements between brackets, each on a line of its own.
Listed(open, items, close, pretty, indent, step) ==
  IF items = <<>> THEN Mark(open) \o Mark(close)
  ELSE LET line == IF pretty THEN NewLine(indent + step) ELSE <<>>
           last == IF pretty THEN NewLine(indent) ELSE <<>>
       IN Mark(open) \o line
          \o FlattenSeq([i \in DOMAIN items |->
                           IF i < Len(items) THEN items[i] \o Mark("value_separator") \o line ELSE items[i]])
          \o last \o Mark(close)

Member(key, item) == <<[type |-> "string", value |-> key]>> \o Mark("name_separator") \o item
Number(n) == <<[type |-> "scalar", value |-> n]>>

\* The keys of a std::map, in order.
Keys(members) == SetToSortSeq(DOMAIN members, LAMBDA j, k : j < k)

\* A binary value as an object of its bytes and its subtype.
DumpBinary(v, pretty, step, indent) ==
  LET numbers == [i \in DOMAIN v.value |-> Number(v.value[i])] IN
  Listed("begin_object", << Member(BytesKey, Listed("begin_array", numbers, "end_array", FALSE, 0, 0)),
                 Member(SubtypeKey, Number(v.subtype)) >>, "end_object", pretty, indent, step)

DumpScalar(v) == IF v.type = "not finite" THEN Number("null") ELSE <<v>>

RECURSIVE Dump(_, _, _, _)
Dump(v, pretty, step, indent) ==
  LET Inside(w) == Dump(w, pretty, step, indent + step) IN
  CASE IsObject(v) ->
         Listed("begin_object", [i \in DOMAIN Keys(v.value) |->
                        Member(Keys(v.value)[i], Inside(v.value[Keys(v.value)[i]]))], "end_object", pretty, indent, step)
    [] IsArray(v) -> Listed("begin_array", [i \in DOMAIN v.value |-> Inside(v.value[i])], "end_array", pretty, indent, step)
    [] v.type = "binary" -> DumpBinary(v, pretty, step, indent)
    [] OTHER -> DumpScalar(v)
=============================================================================
