------------------------------ MODULE JsonPatch ------------------------------
(***************************************************************************)
(* What nlohmann's json does with whole documents: it compares them,       *)
(* applies the operations of a JSON patch to them, computes a patch from   *)
(* two of them and merges them.  A patch is a value like any other: an     *)
(* array of objects whose keys are the strings "op", "path", "from" and    *)
(* "value".                                                                *)
(*                                                                         *)
(* Left out: the comparison of what a float cannot hold, or is NaN.        *)
(*                                                                         *)
(* Definitions whose names end in Wrong are slips that the properties must *)
(* notice; nothing uses them.                                              *)
(***************************************************************************)
EXTENDS JsonPointer

CONSTANT MaxSigned \* the largest number_integer_t; number_unsigned_t goes to twice as much and 1

ASSUME SignedAssumption == MaxSigned \in Nat

VARIABLE ndebug \* whether the program was built with NDEBUG, without assertions; never changes

-----------------------------------------------------------------------------
(* Comparison.                                                              *)

Numeric == {"integer", "unsigned", "float"}

\* The order of the types.
Order == ("null" :> 0) @@ ("object" :> 3) @@ ("array" :> 4) @@ ("string" :> 5) @@ ("boolean" :> 1)
         @@ [t \in Numeric |-> 2] @@ ("binary" :> 6)

\* What a number is compared as with one of another type: an unsigned one is converted to a
\* signed one, but not for a float.
AsComparedWith(v, type) ==
  IF v.type = "unsigned" /\ type = "integer" /\ v.value > MaxSigned
  THEN v.value - 2 * (MaxSigned + 1) ELSE v.value

RECURSIVE Equal(_, _), Less(_, _)
Equal(v, w) ==
  CASE v.type \in Numeric /\ w.type \in Numeric -> AsComparedWith(v, w.type) = AsComparedWith(w, v.type)
    [] IsStructured(v) /\ v.type = w.type ->
         DOMAIN v.value = DOMAIN w.value /\ \A k \in DOMAIN v.value : Equal(v.value[k], w.value[k])
    [] ~(v.type \in Numeric /\ w.type \in Numeric) /\ ~(IsStructured(v) /\ v.type = w.type) ->
         v.type # "discarded" /\ v = w

\* lexicographical_compare() of two sequences, by what is less.
LessInOrder(s, t, Below(_, _)) ==
  \E n \in 1..Len(t) :
     /\ n <= Len(s) + 1
     /\ \A m \in 1..(n - 1) : ~Below(s[m], t[m]) /\ ~Below(t[m], s[m])
     /\ n <= Len(s) => Below(s[n], t[n])
Pairs(v) == [n \in DOMAIN SortedKeys(v.value) |->
               [key |-> SortedKeys(v.value)[n], member |-> v.value[SortedKeys(v.value)[n]]]]

Less(v, w) ==
  CASE v.type \in Numeric /\ w.type \in Numeric -> AsComparedWith(v, w.type) < AsComparedWith(w, v.type)
    [] v.type # w.type /\ ~(v.type \in Numeric /\ w.type \in Numeric) ->
         {v.type, w.type} \subseteq DOMAIN Order /\ Order[v.type] < Order[w.type]
    [] v.type = w.type /\ v.type \notin Numeric ->
         CASE IsArray(v) -> LessInOrder(v.value, w.value, Less)
           [] IsObject(v) -> LessInOrder(Pairs(v), Pairs(w),
                LAMBDA p, q : Before(p.key, q.key) \/ (p.key = q.key /\ Less(p.member, q.member)))
           [] v.type = "string" -> Before(v.value, w.value)
           [] v.type = "boolean" -> ~v.value /\ w.value
           [] OTHER -> FALSE

-----------------------------------------------------------------------------
(* The operations of a patch.                                               *)

\* The value at some tokens put there.
Put(v, tokens, new) == GetUnchecked(v, tokens, new).document

\* push_back(), or insert() where all that is behind moves on.
AddToArray(parent, token, new) ==
  LET index == ArrayIndex(token) IN
  IF token = Dash THEN Completed(Array(Append(parent.value, new)))
  ELSE IF Failed(index) THEN Interrupted(parent, index.value)
  ELSE IF index.value > Len(parent.value) THEN Interrupted(parent, 401)
  ELSE Completed(Array(InsertAt(parent.value, index.value + 1, new)))

\* Where operation_add() asserts that this is never reached: the end of the process, which is no
\* exception, or with NDEBUG an "add" that is done and has added nothing.
Aborted == 1
NeverReached(parent) == IF ndebug THEN Completed(parent) ELSE Interrupted(parent, Aborted)

AddTo(parent, token, new) ==
  CASE IsObject(parent) -> Completed(WithMember(parent, token, new))
    [] parent = Null -> Completed(Object(token :> new))
    [] IsArray(parent) -> AddToArray(parent, token, new)
    [] OTHER -> NeverReached(parent)

\* What a change of the parent of some tokens makes of the document.
AtParent(result, tokens, Change(_)) ==
  Bind(GetChecked(result, Front(tokens)), LAMBDA parent :
    IF Failed(parent) THEN Interrupted(result, parent.value)
    ELSE Bind(Change(parent), LAMBDA r : [r EXCEPT !.document = Put(result, Front(tokens), @)]))

OperationAdd(result, tokens, new) ==
  IF tokens = <<>> THEN Completed(new)
  ELSE AtParent(result, tokens, LAMBDA parent : AddTo(parent, Last(tokens), new))

\* A parent that is neither an object nor an array is left as it is.
RemoveFrom(parent, token) ==
  CASE IsObject(parent) ->
         IF token \in DOMAIN parent.value THEN Completed(Object(Without(parent.value, {token})))
         ELSE Interrupted(parent, 403)
    [] IsArray(parent) -> Bind(ArrayIndex(token), LAMBDA index :
         IF Failed(index) THEN Interrupted(parent, index.value)
         ELSE IF index.value >= Len(parent.value) THEN Interrupted(parent, 401)
         ELSE Completed(Array(RemoveAt(parent.value, index.value + 1))))
    [] OTHER -> Completed(parent)

OperationRemove(result, tokens) ==
  IF tokens = <<>> THEN Interrupted(result, 405)
  ELSE AtParent(result, tokens, LAMBDA parent : RemoveFrom(parent, Last(tokens)))

\* "remove" and "add"; an error of the second finds the first done.
OperationMove(result, from, tokens) ==
  Bind(GetChecked(result, from), LAMBDA v :
    IF Failed(v) THEN Interrupted(result, v.value)
    ELSE Bind(OperationRemove(result, from), LAMBDA removed :
         IF removed.error # 0 THEN removed ELSE OperationAdd(removed.document, tokens, v)))

\* get_value(): a member that has to be there, and perhaps has to be a string.
GetValue(operation, member, string_type) ==
  IF member \notin DOMAIN operation THEN Exception(105)
  ELSE IF string_type /\ operation[member].type # "string" THEN Exception(105)
  ELSE operation[member]

\* Only out_of_range is caught by "test".
OutOfRange == 401..499

\* One operation, val, of a patch.  What is missing in it, or no pointer, throws in the order
\* in which it is looked for.
Operation(result, val) ==
  LET Checked(x, F(_)) == Bind(x, LAMBDA y : IF Failed(y) THEN Interrupted(result, y.value) ELSE F(y.value))
      Get(member, string_type, F(_)) == Bind(GetValue(val.value, member, string_type),
                                             LAMBDA y : IF Failed(y) THEN Interrupted(result, y.value) ELSE F(y))
      Pointer(member, F(_)) == Get(member, TRUE, LAMBDA text : Checked(Split(text.value), F))
      Old(tokens, F(_)) == Bind(GetChecked(result, tokens), F)
  IN IF ~IsObject(val) THEN Interrupted(result, 104)
     ELSE Get("op", TRUE, LAMBDA op : Pointer("path", LAMBDA path :
       CASE op.value = "add" -> Get("value", FALSE, LAMBDA new : OperationAdd(result, path, new))
         [] op.value = "remove" -> OperationRemove(result, path)
         [] op.value = "replace" -> Get("value", FALSE, LAMBDA new : Old(path, LAMBDA old :
              IF Failed(old) THEN Interrupted(result, old.value) ELSE Completed(Put(result, path, new))))
         [] op.value = "move" -> Pointer("from", LAMBDA from : OperationMove(result, from, path))
         [] op.value = "copy" -> Pointer("from", LAMBDA from : Old(from, LAMBDA old :
              IF Failed(old) THEN Interrupted(result, old.value) ELSE OperationAdd(result, path, old)))
         [] op.value = "test" -> Old(path, LAMBDA old :
              IF Failed(old)
              THEN Interrupted(result, IF old.value \in OutOfRange THEN 501 ELSE old.value)
              ELSE Get("value", FALSE, LAMBDA new :
                     IF Equal(old, new) THEN Completed(result) ELSE Interrupted(result, 501)))
         [] OTHER -> Interrupted(result, 105)))

\* patch_inplace(): an error leaves what was done before it.
PatchInplace(v, json_patch) ==
  IF ~IsArray(json_patch) THEN Interrupted(v, 104)
  ELSE FoldLeft(LAMBDA r, val : IF r.error # 0 THEN r ELSE Operation(r.document, val),
                Completed(v), json_patch.value)

\* patch(): the same with a copy, which an error takes away.
Patch(v, json_patch) == PatchInplace(v, json_patch)

-----------------------------------------------------------------------------
(* diff() and merge_patch().                                                *)

Replacing(path, v) == Object([op |-> String("replace"), path |-> String(path), value |-> v])
Removing(path) == Object([op |-> String("remove"), path |-> String(path)])
Adding(path, v) == Object([op |-> String("add"), path |-> String(path), value |-> v])
Below(path, token) == path \o <<Slash>> \o EscapeToken(token)

RECURSIVE Diff(_, _, _)

\* The elements that are too many are removed from the first one on.
DiffArraysWrong(v, w, path) ==
  LET common == IF Len(v) < Len(w) THEN Len(v) ELSE Len(w) IN
  FlattenSeq([i \in 1..common |-> Diff(v[i], w[i], Below(path, IndexText(i - 1)))])
  \o [i \in 1..(Len(v) - common) |-> Removing(Below(path, IndexText(common + i - 1)))]
  \o [i \in 1..(Len(w) - common) |-> Adding(Below(path, Dash), w[common + i])]

\* What is common, what is too many from the last one on, what is new.
DiffArrays(v, w, path) ==
  LET common == IF Len(v) < Len(w) THEN Len(v) ELSE Len(w) IN
  FlattenSeq([i \in 1..common |-> Diff(v[i], w[i], Below(path, IndexText(i - 1)))])
  \o [i \in 1..(Len(v) - common) |-> Removing(Below(path, IndexText(Len(v) - i)))]
  \o [i \in 1..(Len(w) - common) |-> Adding(Below(path, Dash), w[common + i])]

DiffObjects(v, w, path) ==
  LET olds == SortedKeys(v)
      news == SelectSeq(SortedKeys(w), LAMBDA k : k \notin DOMAIN v)
  IN FlattenSeq([n \in DOMAIN olds |->
       IF olds[n] \in DOMAIN w THEN Diff(v[olds[n]], w[olds[n]], Below(path, olds[n]))
       ELSE <<Removing(Below(path, olds[n]))>>])
     \o [n \in DOMAIN news |-> Adding(Below(path, news[n]), w[news[n]])]

\* The operations that make v, at path, a w.
Diff(v, w, path) ==
  IF Equal(v, w) THEN <<>>
  ELSE IF v.type = w.type /\ IsArray(v) THEN DiffArrays(v.value, w.value, path)
  ELSE IF v.type = w.type /\ IsObject(v) THEN DiffObjects(v.value, w.value, path)
  ELSE <<Replacing(path, w)>>

RECURSIVE MergePatch(_, _)

\* A null takes a member away, an object is merged into what is there, else it is replaced.
MergePatch(v, apply_patch) ==
  IF ~IsObject(apply_patch) THEN apply_patch
  ELSE LET old == IF IsObject(v) THEN v ELSE Object(NoMembers)
           erased == {k \in DOMAIN apply_patch.value : apply_patch.value[k] = Null}
       IN Object([k \in DOMAIN apply_patch.value \ erased |->
                    MergePatch(MemberOrNull(old, k), apply_patch.value[k])]
                 @@ Without(old.value, erased))
=============================================================================
