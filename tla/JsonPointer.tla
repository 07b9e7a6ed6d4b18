----------------------------- MODULE JsonPointer -----------------------------
(***************************************************************************)
(* json_pointer of nlohmann's json: from text to reference tokens and back, *)
(* the four ways to follow the tokens into a value, and flatten() and      *)
(* unflatten(), which are made of them.  A string is the sequence of its   *)
(* bytes.  What throws gives an Exception with the id of the exception.        *)
(*                                                                         *)
(* Definitions whose names end in Wrong are slips that the properties must *)
(* notice; nothing uses them.                                              *)
(***************************************************************************)
EXTENDS JsonValues

CONSTANT MaxIndex \* the largest index that strtoull() reads

ASSUME IndexAssumption == MaxIndex \in Nat

Exception(id) == [type |-> "error", value |-> id]
Failed(x) == x.type = "error"

\* What a call makes of a document, and the id of what it throws in the end, or 0.
Completed(v) == [document |-> v, error |-> 0]
Interrupted(v, id) == [document |-> v, error |-> id]

Slash == 47
Tilde == 126
Dash == <<45>>
ZeroToken == <<48>>
Digits09 == 48..57
AllDigits(s) == \A i \in DOMAIN s : s[i] \in Digits09

-----------------------------------------------------------------------------
(* Text and tokens.                                                         *)

RECURSIVE ReplaceSubstring(_, _, _)
ReplaceSubstring(s, f, t) ==
  IF Len(s) < Len(f) THEN s
  ELSE IF IsPrefix(f, s) THEN t \o ReplaceSubstring(SubSeq(s, Len(f) + 1, Len(s)), f, t)
  ELSE <<Head(s)>> \o ReplaceSubstring(Tail(s), f, t)

EscapeToken(s) == ReplaceSubstring(ReplaceSubstring(s, <<Tilde>>, <<Tilde, 48>>), <<Slash>>, <<Tilde, 49>>)

\* The tilde comes first.
UnescapeTokenWrong(s) == ReplaceSubstring(ReplaceSubstring(s, <<Tilde, 48>>, <<Tilde>>), <<Tilde, 49>>, <<Slash>>)

UnescapeToken(s) == ReplaceSubstring(ReplaceSubstring(s, <<Tilde, 49>>, <<Slash>>), <<Tilde, 48>>, <<Tilde>>)

EscapedWell(s) == \A i \in DOMAIN s : s[i] = Tilde => i < Len(s) /\ s[i + 1] \in {48, 49}

\* The tokens of a text, or why it is no pointer: the first token that is not well escaped.
Split(s) ==
  LET slashes == {i \in DOMAIN s : s[i] = Slash}
      Part(i) == SubSeq(s, i + 1, CHOOSE j \in i..Len(s) : /\ j + 1 \in slashes \cup {Len(s) + 1}
                                                            /\ \A k \in (i + 1)..j : k \notin slashes)
      parts == [n \in 1..Cardinality(slashes) |->
                  Part(CHOOSE i \in slashes : Cardinality({j \in slashes : j < i}) = n - 1)]
  IN IF s # <<>> /\ s[1] # Slash THEN Exception(107)
     ELSE IF \E n \in DOMAIN parts : ~EscapedWell(parts[n]) THEN Exception(108)
     ELSE [type |-> "pointer", value |-> [n \in DOMAIN parts |-> UnescapeToken(parts[n])]]

TextOf(tokens) == FlattenSeq([n \in DOMAIN tokens |-> <<Slash>> \o EscapeToken(tokens[n])])

\* strtoull(), of which MaxIndex bounds the range, and the checks around it.
IndexOf(s) == FoldLeft(LAMBDA n, d : IF n > MaxIndex THEN n ELSE 10 * n + d - 48, 0, s)
ArrayIndex(s) ==
  CASE Len(s) > 1 /\ s[1] = 48 -> Exception(106)
    [] Len(s) > 1 /\ s[1] \notin Digits09 -> Exception(109)
    [] s = <<>> \/ (~AllDigits(s) /\ (Len(s) = 1 \/ s[1] \in 49..57)) -> Exception(404)
    [] AllDigits(s) /\ s # <<>> /\ (Len(s) = 1 \/ s[1] # 48) ->
         IF IndexOf(s) > MaxIndex THEN Exception(404)
         ELSE IF IndexOf(s) = MaxIndex THEN Exception(410)
         ELSE [type |-> "index", value |-> IndexOf(s)]

-----------------------------------------------------------------------------
(* Into a value.                                                            *)

\* at(), of a key and of an index.
MemberAt(v, key) == IF key \in DOMAIN v.value THEN v.value[key] ELSE Exception(403)
ElementAt(v, index) == IF index < Len(v.value) THEN v.value[index + 1] ELSE Exception(401)

\* get_checked(), which at() calls.
RECURSIVE GetChecked(_, _)
GetChecked(v, tokens) ==
  LET token == Head(tokens)
      index == ArrayIndex(token)
      next == CASE IsObject(v) -> MemberAt(v, token)
                [] IsArray(v) /\ token = Dash -> Exception(402)
                [] IsArray(v) /\ token # Dash -> IF Failed(index) THEN index ELSE ElementAt(v, index.value)
                [] ~IsStructured(v) -> Exception(404)
  IN IF tokens = <<>> THEN v ELSE IF Failed(next) THEN next ELSE GetChecked(next, Tail(tokens))

LooksLikeIndex(token) == token # Dash /\ (Len(token) = 1 => token[1] \in Digits09)
                         /\ (Len(token) > 1 => token[1] \in 49..57 /\ AllDigits(token))

\* TRUE, FALSE, or the error of array_index(), as a value.
RECURSIVE ContainsAt(_, _)
ContainsAt(v, tokens) ==
  LET token == Head(tokens)
      index == ArrayIndex(token)
      Answer(b) == [type |-> "answer", value |-> b]
  IN CASE tokens = <<>> -> Answer(TRUE)
       [] tokens # <<>> /\ IsObject(v) ->
            IF token \in DOMAIN v.value THEN ContainsAt(v.value[token], Tail(tokens)) ELSE Answer(FALSE)
       [] tokens # <<>> /\ IsArray(v) ->
            IF ~LooksLikeIndex(token) THEN Answer(FALSE)
            ELSE IF Failed(index) THEN index
            ELSE IF index.value >= Len(v.value) THEN Answer(FALSE)
            ELSE ContainsAt(v.value[index.value + 1], Tail(tokens))
       [] tokens # <<>> /\ ~IsStructured(v) -> Answer(FALSE)

\* operator[] of a key and of an index: what is new is a null, and so is what comes before it.
WithMember(v, key, member) == Object((key :> member) @@ v.value)
WithElement(v, index, element) ==
  Array([i \in 1..(IF index < Len(v.value) THEN Len(v.value) ELSE index + 1) |->
           IF i = index + 1 THEN element ELSE IF i <= Len(v.value) THEN v.value[i] ELSE Null])
MemberOrNull(v, key) == IF key \in DOMAIN v.value THEN v.value[key] ELSE Null
ElementOrNull(v, index) == IF index < Len(v.value) THEN v.value[index + 1] ELSE Null

\* An assignment to what some tokens lead to, made on the way where it is missing: Becomes says
\* what a null on the way becomes, End what the token "-" means in an array, and otherwise is the
\* error for a scalar on the way.
RECURSIVE AssignAt(_, _, _, _, _, _)
AssignAt(v, tokens, new, Becomes(_), End(_), otherwise) ==
  LET token == Head(tokens)
      w == IF v = Null THEN Becomes(token) ELSE v
      index == IF IsArray(w) /\ token = Dash THEN End(w) ELSE ArrayIndex(token)
      Inside(u) == AssignAt(u, Tail(tokens), new, Becomes, End, otherwise)
  IN CASE tokens = <<>> -> Completed(new)
       [] tokens # <<>> /\ IsObject(w) ->
            LET inner == Inside(MemberOrNull(w, token)) IN
            [inner EXCEPT !.document = WithMember(w, token, @)]
       [] tokens # <<>> /\ IsArray(w) ->
            IF Failed(index) THEN Interrupted(w, index.value)
            ELSE LET inner == Inside(ElementOrNull(w, index.value)) IN
                 [inner EXCEPT !.document = WithElement(w, index.value, @)]
       [] tokens # <<>> /\ ~IsStructured(w) -> Interrupted(w, otherwise)

\* get_unchecked(), which operator[] calls, and an assignment.
GetUnchecked(v, tokens, new) ==
  AssignAt(v, tokens, new,
           LAMBDA token : IF AllDigits(token) \/ token = Dash THEN Array(<<>>) ELSE Object(NoMembers),
           LAMBDA w : [type |-> "index", value |-> Len(w.value)], 404)

\* get_and_create(), and an assignment.
GetAndCreate(v, tokens, new) ==
  AssignAt(v, tokens, new,
           LAMBDA token : IF token = ZeroToken THEN Array(<<>>) ELSE Object(NoMembers),
           LAMBDA w : ArrayIndex(Dash), 313)

-----------------------------------------------------------------------------
(* flatten() and unflatten().                                               *)

\* std::to_string().
RECURSIVE IndexText(_)
IndexText(n) == IF n < 10 THEN <<48 + n>> ELSE Append(IndexText(n \div 10), 48 + (n % 10))

\* The members that flatten() inserts, which all have different keys.
RECURSIVE FlatMembers(_, _)
FlatMembers(text, v) ==
  IF ~IsStructured(v) THEN text :> v
  ELSE IF DOMAIN v.value = {} THEN text :> Null
  ELSE LET keys == IF IsArray(v) THEN [i \in DOMAIN v.value |-> IndexText(i - 1)]
                   ELSE [k \in DOMAIN v.value |-> EscapeToken(k)]
           parts == {FlatMembers(text \o <<Slash>> \o keys[k], v.value[k]) : k \in DOMAIN v.value}
       IN [t \in UNION {DOMAIN p : p \in parts} |-> (CHOOSE p \in parts : t \in DOMAIN p)[t]]

Flatten(v) == Object(FlatMembers(<<>>, v))

\* One member: its text is a pointer to where its value goes.
UnflattenStep(result, text, v) ==
  IF IsStructured(v) THEN Interrupted(result, 315)
  ELSE IF Failed(Split(text)) THEN Interrupted(result, Split(text).value)
  ELSE GetAndCreate(result, Split(text).value, v)

\* The members in their order; the first error is the last thing that happens.
Unflatten(v) ==
  IF ~IsObject(v) THEN Interrupted(v, 314)
  ELSE LET keys == SortedKeys(v.value) IN
       FoldLeft(LAMBDA r, k : IF r.error # 0 THEN r ELSE UnflattenStep(r.document, k, v.value[k]),
                Completed(Null), keys)
=============================================================================
