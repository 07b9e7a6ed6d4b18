-------------------------- MODULE JsonDocumentProps --------------------------
(***************************************************************************)
(* The laws that tie the operations on documents together, in every        *)
(* document that can be made.                                              *)
(***************************************************************************)
EXTENDS JsonDocument

CONSTANTS Targets, \* other documents
          Texts    \* texts that may be pointers

\* What array_index() throws of the token that contains() gives it, or 0.
IndexError(token) ==
  CASE token = <<>> -> 404
    [] token # <<>> /\ LooksLikeIndex(token) /\ IndexOf(token) >= MaxIndex ->
         IF IndexOf(token) = MaxIndex THEN 410 ELSE 404
    [] OTHER -> 0

\* A pointer is the text it was made from, and its tokens lead to the same place whatever they
\* hold.  contains() says TRUE exactly when at() finds something there.  It throws in two cases,
\* both at a token that meets an array: when the token is empty (404), and when it is an index
\* that is too large for strtoull() (404) or for a size_t (410).  It never throws the 106 and
\* the 109 that at() throws and the comment above contains() lists.
PointersExact == made => \A text \in Texts :
  LET p == Split(text)
      found == GetChecked(document, p.value)
      meets == {n \in DOMAIN p.value : IsArray(GetChecked(document, SubSeq(p.value, 1, n - 1)))}
      thrown == {IndexError(p.value[n]) : n \in meets} \ {0}
      answer == ContainsAt(document, p.value)
  IN IF Failed(p) THEN p.value = (IF text[1] = Slash THEN 108 ELSE 107)
     ELSE /\ TextOf(p.value) = text
          /\ IF thrown = {} THEN answer = [type |-> "answer", value |-> ~Failed(found)]
             ELSE Failed(answer) /\ Failed(found) /\ thrown = {answer.value}

\* What diff() says of two documents takes the one to the other.
DiffLeadsThere == made => \A target \in Targets :
  \A r \in {PatchInplace(document, Array(Diff(document, target, <<>>)))} :
    r.error = 0 /\ Equal(r.document, target)

\* The smallest merge patch from v to w, which has no nulls as members.
RECURSIVE MergeDiff(_, _)
MergeDiff(v, w) ==
  IF ~IsObject(v) \/ ~IsObject(w) THEN w
  ELSE Object([k \in {j \in DOMAIN v.value \cup DOMAIN w.value :
                        j \in DOMAIN v.value \cap DOMAIN w.value => v.value[j] # w.value[j]} |->
                 IF k \notin DOMAIN w.value THEN Null
                 ELSE IF k \notin DOMAIN v.value THEN w.value[k] ELSE MergeDiff(v.value[k], w.value[k])])
RECURSIVE NoNullMember(_)
NoNullMember(v) == IsObject(v) => \A k \in DOMAIN v.value : v.value[k] # Null /\ NoNullMember(v.value[k])

\* Merging is the way from a document to any other, and merging again changes nothing.
MergeLeadsThere == made => \A target \in Targets :
  /\ NoNullMember(target) => MergePatch(document, MergeDiff(document, target)) = target
  /\ LET merged == MergePatch(document, target) IN MergePatch(merged, target) = merged

\* No object in a value has the key "0".
RECURSIVE NoZeroKey(_)
NoZeroKey(v) == IsStructured(v) => /\ IsObject(v) => ZeroToken \notin DOMAIN v.value
                                   /\ \A k \in DOMAIN v.value : NoZeroKey(v.value[k])

\* A value whose empty arrays and objects are nulls.
RECURSIVE Emptied(_)
Emptied(v) == IF ~IsStructured(v) THEN v
              ELSE IF DOMAIN v.value = {} THEN Null
              ELSE [v EXCEPT !.value = [k \in DOMAIN v.value |-> Emptied(v.value[k])]]

\* unflatten() makes of flatten()'s list what it was made from, but for empty containers and
\* unless a key could be taken for the first index: also of an array whose indices have digits
\* that put them out of order.
FlatAndBack == made /\ NoZeroKey(document) =>
  \A v \in {document, Array([i \in 1..11 |-> IF i \in {2, 11} THEN document ELSE Boolean(FALSE)])} :
    Unflatten(Flatten(v)) = Completed(Emptied(v))

Named(val, name) == IsObject(val) /\ "op" \in DOMAIN val.value /\ val.value["op"] = String(name)
Tokens(val, member) == Split(val.value[member].value).value

\* A "move" that has come to its removal: both pointers are in order, and what is to be moved
\* is there and is not the whole document.
HasTakenOut(val) ==
  /\ Named(val, "move")
  /\ \A member \in {"path", "from"} :
       /\ member \in DOMAIN val.value
       /\ val.value[member].type = "string"
       /\ ~Failed(Split(val.value[member].value))
  /\ Tokens(val, "from") # <<>>
  /\ ~Failed(GetChecked(document, Tokens(val, "from")))

\* An operation that throws has changed nothing, but for a "move" that had taken its value out
\* when it found no place for it: its document lacks exactly this value, and an "add" would put
\* it back.
FailuresWhole(val, r) ==
  r.error \notin {0, Aborted} =>
    IF HasTakenOut(val)
    THEN /\ r.document # document
         /\ \A from \in {Tokens(val, "from")} :
              OperationAdd(r.document, from, GetChecked(document, from)) = Completed(document)
    ELSE r.document = document

\* An operation ends the process only in a build with assertions, and only when it adds below a
\* scalar; what is added below a scalar in a build without them is not there.
ScalarParents(val, r) ==
  /\ r.error = Aborted => ~ndebug /\ \E name \in {"add", "move", "copy"} : Named(val, name)
  /\ r.error \in {0, Aborted} /\ Named(val, "add") => \A tokens \in {Tokens(val, "path")} :
       \A parent \in {GetChecked(document, Front(tokens))} :
         LET below == tokens # <<>> /\ ~IsStructured(parent) /\ parent # Null
         IN /\ below => IF ndebug THEN r = Completed(document) ELSE r.error = Aborted
            /\ ~below => /\ r.error = 0
                         /\ \/ tokens # <<>> /\ Last(tokens) = Dash
                            \/ GetChecked(r.document, tokens) = val.value["value"]

\* An "add" that made room is undone by a "remove", and a "remove" that found something by an
\* "add".
Undone(val, r) ==
  r.error = 0 => \A tokens \in {Tokens(val, "path")} :
    \A old \in {GetChecked(document, tokens)}, parent \in {GetChecked(document, Front(tokens))} :
    /\ Named(val, "add") /\ tokens # <<>> =>
         \/ parent = Null
         \/ IsObject(parent) /\ ~Failed(old)
         \/ IsArray(parent) /\ Last(tokens) = Dash
         \/ OperationRemove(r.document, tokens) = Completed(document)
    /\ Named(val, "remove") =>
         \/ Failed(old) /\ ~IsStructured(parent)
         \/ OperationAdd(r.document, tokens, old) = Completed(document)

\* The three hold of every operation.
OperationsWhole == made => \A val \in Operations : \A r \in {Operation(document, val)} :
  FailuresWhole(val, r) /\ ScalarParents(val, r) /\ Undone(val, r)

\* Of two documents one is less or they are equal, and diff() finds no difference exactly then.
Trichotomy == made => \A target \in Targets :
  /\ Cardinality({r \in 1..3 : CASE r = 1 -> Less(document, target)
                                 [] r = 2 -> Equal(document, target)
                                 [] r = 3 -> Less(target, document)}) = 1
  /\ Equal(document, target) = Equal(target, document)
  /\ (Diff(document, target, <<>>) = <<>>) = Equal(document, target)

\* A pointer means one place, in a document as well as in the flat list of its values.
PathsExact == PointersExact /\ FlatAndBack

\* Differences lead from one document to the other, as a patch or a merge patch, there are none
\* exactly between equal documents, and an operation that throws has changed nothing or, when it
\* is a "move", has taken out what it could not put anywhere.
PatchesExact == DiffLeadsThere /\ MergeLeadsThere /\ Trichotomy /\ OperationsWhole
=============================================================================
