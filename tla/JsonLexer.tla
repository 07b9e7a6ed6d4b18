----------------------------- MODULE JsonLexer -----------------------------
(***************************************************************************)
(* The lexer of nlohmann's json, which handleLogPush() hands the payload of *)
(* a LOG_PUSH: one step per get(), whatever byte the input adapter returns. *)
(* A byte is its number; the end of the input is EOF.                      *)
(*                                                                         *)
(* Left out: token_string, which only error messages show; the conversion  *)
(* of a float (a float is its digits); a decimal point other than '.'.     *)
(*                                                                         *)
(* Definitions whose names end in Wrong are slips that the properties must *)
(* notice; nothing uses them.                                              *)
(***************************************************************************)
EXTENDS JsonGrammar

CONSTANTS Inputs,      \* kinds of input: which bytes come, and the bounds on them
          MaxUnsigned, \* the largest number_unsigned_t
          MaxInteger   \* the largest number_integer_t

\* bytes that come, comments: ignore_comments; bounds: bytes in all, tokens, and
\* bytes of one string or number.
ASSUME LexerAssumption ==
  /\ Inputs \subseteq [bytes : SUBSET (0..255), comments : BOOLEAN,
                       length : Nat, tokens : Nat, chars : Nat]
  /\ MaxUnsigned \in Nat /\ MaxUnsigned >= 9 /\ MaxInteger \in Nat

VARIABLES input,        \* the kind of input
          text,         \* history: what the adapter has returned
          next_unget,   \* the last byte was put back
          position,     \* position_t
          pc,           \* where in scan() the next get() is
          token_buffer,
          expected,     \* the bytes that have to come next, as a sequence of sets
          codepoint,    \* codepoint1 and codepoint2, as far as they are read
          tokens,       \* history: what scan() has returned
          start         \* where the token or comment at hand began

lexer == <<input, text, next_unget, position, pc, token_buffer, expected, codepoint, tokens, start>>

EOF == -1
Quote == 34
Backslash == 92
Lf == 10
Continuation == 128..191

InitLexer == /\ input \in Inputs
             /\ text = <<>>
             /\ next_unget = FALSE
             /\ position = [chars_read_total |-> 0, chars_read_current_line |-> 0, lines_read |-> 0]
             /\ pc = "bom"
             /\ token_buffer = <<>> /\ expected = <<>> /\ codepoint = <<>>
             /\ tokens = <<>>
             /\ start = 1

-----------------------------------------------------------------------------
(* Input management.                                                        *)

\* A string or number is as long as the bound: the next byte ends it.
InNumber == {"minus", "zero", "any1", "decimal1", "decimal2", "exponent", "sign", "any2"}
Long == pc \in InNumber \cup {"string"} /\ Len(token_buffer) >= input.chars

\* What get_character() may return.
Incoming == IF \/ Len(text) >= input.length
               \/ text # <<>> /\ Last(text) = EOF THEN {EOF}
            ELSE IF Long THEN {EOF, Quote}
            ELSE {EOF} \cup input.bytes

\* get(): the position after b was read.
Forward(pos, b) ==
  [chars_read_total |-> pos.chars_read_total + 1,
   chars_read_current_line |-> IF b = Lf THEN 0 ELSE pos.chars_read_current_line + 1,
   lines_read |-> IF b = Lf THEN pos.lines_read + 1 ELSE pos.lines_read]

\* unget().
Back(pos) ==
  [chars_read_total |-> pos.chars_read_total - 1,
   chars_read_current_line |-> IF pos.chars_read_current_line = 0 THEN 0 ELSE pos.chars_read_current_line - 1,
   lines_read |-> IF pos.chars_read_current_line = 0 /\ pos.lines_read > 0 THEN pos.lines_read - 1
                  ELSE pos.lines_read]

Char == IF next_unget THEN {Last(text)} ELSE Incoming

Get(b) == /\ b \in Char
          /\ text' = IF next_unget THEN text ELSE Append(text, b)
          /\ UNCHANGED input

Take(b) == /\ Get(b)
           /\ next_unget' = FALSE
           /\ position' = Forward(position, b)

\* unget() is left out.
PutBackWrong(b) == Take(b)

\* get() and then unget().
PutBack(b) == /\ Get(b)
              /\ next_unget' = TRUE
              /\ position' = Back(Forward(position, b))

Goto(next) == pc' = next /\ UNCHANGED <<token_buffer, expected, codepoint, tokens, start>>

\* scan() returns.  input.tokens bounds how often it is called; after an error or the end
\* nobody calls it again.
Finish(token) ==
  /\ tokens' = Append(tokens, token)
  /\ pc' = IF token.type \in {"parse_error", "end_of_input"} \/ Len(tokens') = input.tokens
           THEN "done" ELSE "blank"

\* The token is the text up to last.
Return(type, last, value) ==
  /\ Finish([type |-> type, from |-> start, to |-> last, buffer |-> token_buffer, value |-> value])
  /\ UNCHANGED <<token_buffer, expected, codepoint, start>>

Fail == Return("parse_error", Len(text'), 0)

\* The next of the expected bytes, or an error; Then is what follows the last one.
Expect(b, Then) ==
  \/ b \notin Head(expected) /\ Fail
  \/ /\ b \in Head(expected) /\ Len(expected) > 1
     /\ expected' = Tail(expected)
     /\ UNCHANGED <<pc, token_buffer, codepoint, tokens, start>>
  \/ b \in Head(expected) /\ Len(expected) = 1 /\ Then

-----------------------------------------------------------------------------
(* What stands before a token: skip_bom(), skip_whitespace(), scan_comment(). *)

SkipBom ==
  \/ /\ pc = "bom"
     /\ \/ Take(239) /\ pc' = "bom2" /\ expected' = <<{187}, {191}>>
        \/ \E b \in Char \ {239} : PutBack(b) /\ pc' = "blank" /\ UNCHANGED expected
     /\ UNCHANGED <<token_buffer, codepoint, tokens, start>>
  \/ /\ pc = "bom2"
     /\ \E b \in Char :
          /\ Take(b)
          /\ Expect(b, Goto("blank"))

SkipWhitespace == /\ pc = "blank"
                  /\ \E b \in Blank : Take(b)
                  /\ Goto("blank")

Comment == /\ pc = "blank"
           /\ input.comments
           /\ Take(47)
           /\ pc' = "comment"
           /\ start' = Len(text')
           /\ UNCHANGED <<token_buffer, expected, codepoint, tokens>>

\* After a star within a comment.
CommentStar(b) == IF b = 47 THEN Take(b) /\ Goto("blank")
                  ELSE PutBack(b) /\ Goto("block")

ScanComment ==
  \E b \in Char :
    \/ /\ pc = "comment"
       /\ Take(b)
       /\ CASE b = 47 -> Goto("line")
            [] b = 42 -> Goto("block")
            [] OTHER -> Fail
    \/ /\ pc = "line"
       /\ Take(b)
       /\ Goto(IF b \in {Lf, 13, EOF, 0} THEN "blank" ELSE "line")
    \/ /\ pc = "block"
       /\ Take(b)
       /\ CASE b \in {EOF, 0} -> Fail
            [] b = 42 -> Goto("star")
            [] OTHER -> Goto("block")
    \/ pc = "star" /\ CommentStar(b)

-----------------------------------------------------------------------------
(* scan(): the first byte of a token.                                       *)

Structural == [b \in {91, 93, 123, 125, 58, 44, 0, EOF} |->
                 CASE b = 91 -> "begin_array" [] b = 93 -> "end_array"
                   [] b = 123 -> "begin_object" [] b = 125 -> "end_object"
                   [] b = 58 -> "name_separator" [] b = 44 -> "value_separator"
                   [] OTHER -> "end_of_input"]

\* What follows the first letter of each literal.
Literal == [b \in {116, 102, 110} |-> CASE b = 116 -> <<114, 117, 101>>
                                       [] b = 102 -> <<97, 108, 115, 101>>
                                       [] OTHER -> <<117, 108, 108>>]
LiteralType == [b \in {116, 102, 110} |-> CASE b = 116 -> "literal_true"
                                           [] b = 102 -> "literal_false"
                                           [] OTHER -> "literal_null"]

Scan ==
  /\ pc = "blank"
  /\ \E b \in Char \ Blank :
       /\ ~(input.comments /\ b = 47)
       /\ Take(b)
       /\ start' = Len(text')
       /\ token_buffer' = IF b \in Digit \cup {45} THEN <<b>> ELSE <<>>
       /\ expected' = IF b \in DOMAIN Literal THEN [i \in DOMAIN Literal[b] |-> {Literal[b][i]}] ELSE <<>>
       /\ codepoint' = <<>>
       /\ LET Single(type) == Finish([type |-> type, from |-> start', to |-> start',
                                      buffer |-> <<>>, value |-> 0])
              Begin(state) == pc' = state /\ UNCHANGED tokens
          IN CASE b \in DOMAIN Structural -> Single(Structural[b])
               [] b \in DOMAIN Literal -> Begin("literal")
               [] b = Quote -> Begin("string")
               [] b = Zero -> Begin("zero")
               [] b \in Digit \ {Zero} -> Begin("any1")
               [] b = 45 -> Begin("minus")
               [] OTHER -> Single("parse_error")

ScanLiteral ==
  /\ pc = "literal"
  /\ \E b \in Char :
       /\ Take(b)
       /\ Expect(b, Return(LiteralType[text[start]], Len(text'), 0))

-----------------------------------------------------------------------------
(* scan_string().                                                           *)

\* The UTF-8 bytes of a code point.
Utf8(c) ==
  LET tail(k) == 128 + ((c \div k) % 64) IN
  IF c < 128 THEN <<c>>
  ELSE IF c < 2048 THEN <<192 + (c \div 64), tail(1)>>
  ELSE IF c < 65536 THEN <<224 + (c \div 4096), tail(64), tail(1)>>
  ELSE <<240 + (c \div 262144), tail(4096), tail(64), tail(1)>>

\* Surrogates are let through.
TailsWrong(b) ==
  CASE b \in 194..223 -> <<Continuation>>
    [] b = 224 -> <<160..191, Continuation>>
    [] b \in 225..239 -> <<Continuation, Continuation>>
    [] b = 240 -> <<144..191, Continuation, Continuation>>
    [] b \in 241..243 -> <<Continuation, Continuation, Continuation>>
    [] b = 244 -> <<128..143, Continuation, Continuation>>

\* The ranges that next_byte_in_range() is given after each first byte.
Tails(b) ==
  CASE b \in 194..223 -> <<Continuation>>
    [] b = 224 -> <<160..191, Continuation>>
    [] b \in (225..236) \cup {238, 239} -> <<Continuation, Continuation>>
    [] b = 237 -> <<128..159, Continuation>>
    [] b = 240 -> <<144..191, Continuation, Continuation>>
    [] b \in 241..243 -> <<Continuation, Continuation, Continuation>>
    [] b = 244 -> <<128..143, Continuation, Continuation>>

\* What a character after a backslash stands for, but for u.
Escape == [b \in {34, 92, 47, 98, 102, 110, 114, 116} |->
             CASE b = 98 -> 8 [] b = 102 -> 12 [] b = 110 -> 10 [] b = 114 -> 13 [] b = 116 -> 9
               [] OTHER -> b]

Add(bytes, next) == /\ token_buffer' = token_buffer \o bytes
                    /\ pc' = next
                    /\ UNCHANGED <<codepoint, tokens, start>>

\* The cases of the characters themselves.
Control == 0..31
Plain == 32..127 \ {Quote, Backslash}

ScanString ==
  /\ pc = "string"
  /\ \E b \in Char :
       /\ Take(b)
       /\ CASE b = Quote -> Return("value_string", Len(text'), 0)
            [] b = Backslash -> Goto("escape")
            [] b \in Control \cup {EOF} -> Fail
            [] b \in Plain -> Add(<<b>>, "string") /\ UNCHANGED expected
            [] b \in 194..244 -> Add(<<b>>, "tail") /\ expected' = Tails(b)
            [] OTHER -> Fail

NextByteInRange ==
  /\ pc = "tail"
  /\ \E b \in Char :
       /\ Take(b)
       /\ IF b \notin Head(expected) THEN Fail
          ELSE /\ Add(<<b>>, IF Len(expected) = 1 THEN "string" ELSE "tail")
               /\ expected' = Tail(expected)

HexDigit == (48..57) \cup (65..70) \cup (97..102)
FourDigits == <<HexDigit, HexDigit, HexDigit, HexDigit>>
Hex(b) == CASE b \in 48..57 -> b - 48
            [] b \in 65..70 -> b - 55
            [] b \in 97..102 -> b - 87
High(c) == 55296 <= c /\ c < 56320
Low(c) == 56320 <= c /\ c < 57344

ScanEscape ==
  /\ pc = "escape"
  /\ \E b \in Char :
       /\ Take(b)
       /\ CASE b \in DOMAIN Escape -> Add(<<Escape[b]>>, "string") /\ UNCHANGED expected
            [] b = 117 -> /\ pc' = "hex"
                          /\ codepoint' = <<0>>
                          /\ expected' = FourDigits
                          /\ UNCHANGED <<token_buffer, tokens, start>>
            [] OTHER -> Fail

\* get_codepoint() has read its last digit.
Codepoint(c) ==
  LET first == codepoint[1] IN
  CASE Len(codepoint) = 1 /\ High(c) -> /\ codepoint' = <<c>>
                                        /\ pc' = "low"
                                        /\ expected' = <<{Backslash}, {117}>>
                                        /\ UNCHANGED <<token_buffer, tokens, start>>
    [] Len(codepoint) = 1 /\ Low(c) -> Fail
    [] Len(codepoint) = 2 /\ ~Low(c) -> Fail
    [] Len(codepoint) = 2 /\ Low(c) -> Add(Utf8(first * 1024 + c - 56613888), "string") /\ expected' = <<>>
    [] OTHER -> Add(Utf8(c), "string") /\ expected' = <<>>

GetCodepoint ==
  /\ pc = "hex"
  /\ \E b \in Char :
       /\ Take(b)
       /\ LET c == Last(codepoint) * 16 + Hex(b) IN
          IF b \in HexDigit /\ Len(expected) > 1
          THEN /\ codepoint' = [codepoint EXCEPT ![Len(codepoint)] = c]
               /\ expected' = Tail(expected)
               /\ UNCHANGED <<pc, token_buffer, tokens, start>>
          ELSE Expect(b, Codepoint(c))

\* The second half of a surrogate pair.
ScanLow ==
  /\ pc = "low"
  /\ \E b \in Char :
       /\ Take(b)
       /\ Expect(b, /\ pc' = "hex"
                    /\ codepoint' = Append(codepoint, 0)
                    /\ expected' = FourDigits
                    /\ UNCHANGED <<token_buffer, tokens, start>>)

-----------------------------------------------------------------------------
(* scan_number().                                                           *)

\* The labels of scan_number() and the jumps between them: before the decimal point, after it
\* and in the exponent.
Jump(from, on, to) == [from |-> from, on |-> on, to |-> to]
WholeMoves == {Jump({"minus"}, {Zero}, "zero"),
               Jump({"minus"}, Digit \ {Zero}, "any1"),
               Jump({"any1"}, Digit, "any1"),
               Jump({"zero", "any1"}, {46}, "decimal1"),
               Jump({"zero", "any1"}, {69, 101}, "exponent")}
FractionMoves == {Jump({"decimal1", "decimal2"}, Digit, "decimal2"),
                  Jump({"decimal2"}, {69, 101}, "exponent")}
ExponentMoves == {Jump({"exponent"}, {43, 45}, "sign"),
                  Jump({"exponent", "sign", "any2"}, Digit, "any2")}
Moves == WholeMoves \cup FractionMoves \cup ExponentMoves

\* Where a number may end.
Complete == {"zero", "any1", "decimal2", "any2"}

\* A sequence of digits, read as a number.
Decimal(digits) ==
  LET value[i \in 0..Len(digits)] == IF i = 0 THEN 0 ELSE 10 * value[i - 1] + digits[i] - Zero
  IN value[Len(digits)]

Negative(s) == s[1] = 45

\* strtoull() and strtoll(), and what is left to strtod().
NumberType(s) ==
  IF ~Integral(s) THEN "value_float"
  ELSE IF ~Negative(s) THEN (IF Decimal(s) <= MaxUnsigned THEN "value_unsigned" ELSE "value_float")
  ELSE (IF Decimal(Tail(s)) <= MaxInteger + 1 THEN "value_integer" ELSE "value_float")

NumberValue(s) == CASE NumberType(s) = "value_unsigned" -> Decimal(s)
                    [] NumberType(s) = "value_integer" -> -Decimal(Tail(s))
                    [] OTHER -> 0

ScanNumber ==
  /\ pc \in InNumber
  /\ \E b \in Char :
       \/ \E m \in Moves : pc \in m.from /\ b \in m.on /\ Take(b) /\ Add(<<b>>, m.to) /\ UNCHANGED expected
       \/ /\ ~\E m \in Moves : pc \in m.from /\ b \in m.on
          /\ IF pc \in Complete
             THEN PutBack(b) /\ Return(NumberType(token_buffer), Len(text), NumberValue(token_buffer))
             ELSE Take(b) /\ Fail

-----------------------------------------------------------------------------

NextLexer == \/ SkipBom \/ SkipWhitespace \/ Comment \/ ScanComment
             \/ Scan \/ ScanLiteral
             \/ ScanString \/ NextByteInRange \/ ScanEscape \/ GetCodepoint \/ ScanLow
             \/ ScanNumber

SpecLexer == InitLexer /\ [][NextLexer]_lexer
=============================================================================
