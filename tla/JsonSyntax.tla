----------------------------- MODULE JsonSyntax -----------------------------
(***************************************************************************)
(* The grammar of JSON over types of tokens, stated without the parser's   *)
(* machine, and that the parser accepts and refuses what it says.          *)
(***************************************************************************)
EXTENDS JsonParser

Types == {"scalar", "string"} \cup Punctuation \cup Special

\* Structures, the types of tokens around what they hold, and what they hold, divided by
\* commas.
Structures == {"array", "object"}
Opening == [array |-> "begin_array", object |-> "begin_object"]
Closing == [array |-> "end_array", object |-> "end_object"]
Item == [array |-> "value", object |-> "member"]

\* A value, a member of an object, or what an array or an object that is not empty holds.
Kinds == {"value", "member"} \cup Structures

Grammar[x \in Kinds \X Seq(Types)] ==
  LET kind == x[1]
      s == x[2]
      n == Len(s)
      Is(k, i, j) == Grammar[<<k, SubSeq(s, i, j)>>]
  IN \/ kind = "value" /\ n = 1 /\ s[1] \in {"scalar", "string"}
     \/ /\ kind = "value" /\ n > 1
        /\ \E c \in Structures : /\ s[1] = Opening[c] /\ s[n] = Closing[c]
                                 /\ n = 2 \/ Is(c, 2, n - 1)
     \/ kind = "member" /\ n > 2 /\ s[1] = "string" /\ s[2] = "name_separator" /\ Is("value", 3, n)
     \/ kind \in Structures /\ Is(Item[kind], 1, n)
     \/ /\ kind \in Structures
        /\ \E i \in 1..n : s[i] = "value_separator" /\ Is(Item[kind], 1, i - 1) /\ Is(kind, i + 1, n)

\* What something of a kind begins with.
Beginning[x \in Kinds \X Seq(Types)] ==
  LET kind == x[1]
      s == x[2]
      n == Len(s)
      Begins(k, i, j) == Beginning[<<k, SubSeq(s, i, j)>>]
  IN \/ Grammar[<<kind, s>>]
     \/ n = 0
     \/ /\ kind = "value"
        /\ \E c \in Structures : s[1] = Opening[c] /\ Begins(c, 2, n)
     \/ /\ kind = "member" /\ s[1] = "string"
        /\ n = 1 \/ (s[2] = "name_separator" /\ Begins("value", 3, n))
     \/ kind \in Structures /\ Begins(Item[kind], 1, n)
     \/ /\ kind \in Structures
        /\ \E i \in 1..n : /\ s[i] = "value_separator"
                           /\ Grammar[<<Item[kind], SubSeq(s, 1, i - 1)>>]
                           /\ Begins(kind, i + 1, n)

TypesOf(tokens) == [i \in 1..Len(tokens) |-> tokens[i].type]
IsValue(tokens) == Grammar[<<"value", TypesOf(tokens)>>]
BeginsValue(tokens) == Beginning[<<"value", TypesOf(tokens)>>]

\* A text is accepted exactly when it is one value, and refused at the first token that no
\* JSON text has there: never later, never before.
Verdict ==
  /\ at = "accepted" => IsValue(Front(read)) /\ Last(read).type = "end_of_input"
  /\ at = "failed" => /\ ~BeginsValue(read)
                      /\ Last(read).type = "end_of_input" => ~IsValue(Front(read))
  /\ at = "end" => IsValue(read)
  /\ at \notin {"accepted", "failed", "end"} => BeginsValue(read) /\ ~IsValue(read)
=============================================================================
