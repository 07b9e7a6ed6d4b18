-------------------------- MODULE JsonParserProps --------------------------
(***************************************************************************)
(* What the texts of JSON mean, stated without the parser's machine, and    *)
(* that the parser builds it.                                              *)
(***************************************************************************)
EXTENDS JsonSyntax

From(s, i) == SubSeq(s, i, Len(s))

\* Where the tokens of one value end that begins at i.
EndOfValue(s, i) == CHOOSE j \in i..Len(s) : IsValue(SubSeq(s, i, j))

\* What a value means when parts of it are rejected: the value, or nothing.  Of members with
\* one key the last one counts.
RECURSIVE Meant(_, _), MeantElements(_, _), MeantMembers(_, _, _)
Meant(s, rejected) ==
  CASE s[1].type \in {"scalar", "string"} -> IF s[1] \in rejected THEN <<>> ELSE <<s[1]>>
    [] s[1].type = "begin_array" -> IF {Event("array_start"), Event("array_end")} \cap rejected # {} THEN <<>>
                          ELSE <<Array(MeantElements(SubSeq(s, 2, Len(s) - 1), rejected))>>
    [] s[1].type = "begin_object" -> IF {Event("object_start"), Event("object_end")} \cap rejected # {} THEN <<>>
                          ELSE <<Object(MeantMembers(SubSeq(s, 2, Len(s) - 1), rejected, NoMembers))>>
MeantElements(s, rejected) ==
  IF s = <<>> THEN <<>>
  ELSE LET j == EndOfValue(s, 1) IN
       Meant(SubSeq(s, 1, j), rejected) \o MeantElements(From(s, j + 2), rejected)
MeantMembers(s, rejected, before) ==
  IF s = <<>> THEN before
  ELSE LET j == EndOfValue(s, 3)
           key == s[1].value
           meant == Meant(SubSeq(s, 3, j), rejected)
       IN MeantMembers(From(s, j + 2), rejected,
            IF [type |-> "key", value |-> key] \in rejected THEN before
            ELSE IF meant = <<>> THEN Without(before, {key})
            ELSE (key :> meant[1]) @@ before)

\* The value that is built is what the text means, however containers nest, whatever keys
\* repeat, and although it is built through references into a value that changes.
DomExact == at = "accepted" => <<Result>> = Meant(Front(read), {})

\* v without discarded members.
RECURSIVE Tidy(_)
Tidy(v) == CASE IsArray(v) -> Array([i \in DOMAIN v.value |-> Tidy(v.value[i])])
             [] IsObject(v) -> Object([k \in {j \in DOMAIN v.value : v.value[j] # Discarded} |->
                                         Tidy(v.value[k])])
             [] OTHER -> v

\* With a callback the value is what is left of the text's meaning when the rejected parts
\* are taken out, but that discarded members may be left in an object: end_object() erases one
\* of its parent's only.
CallbackFilters == at = "accepted" =>
  LET meant == Meant(Front(read), reject) IN
  Tidy(FilteredResult) = IF meant = <<>> THEN Null ELSE meant[1]

\* What a text means is what is built of it, with a callback or without.
BuiltAsMeant == DomExact /\ CallbackFilters
=============================================================================
