----------------------------- MODULE JsonValues -----------------------------
(***************************************************************************)
(* The values of nlohmann's basic_json.  A value is a record with its type *)
(* and what is in it: the elements of an array, the members of an object   *)
(* by their keys, the content of a scalar.  A pointer into a value         *)
(* is the path of keys and indices that leads to what is meant.           *)
(***************************************************************************)
EXTENDS Integers, Sequences, FiniteSets, SequencesExt, TLC

\* F of x, which is evaluated once.
Bind(x, F(_)) == CHOOSE y \in {F(z) : z \in {x}} : TRUE

Null == [type |-> "null"]
Discarded == [type |-> "discarded"]
Boolean(b) == [type |-> "boolean", value |-> b]
String(bytes) == [type |-> "string", value |-> bytes]
Array(elements) == [type |-> "array", value |-> elements]
Object(members) == [type |-> "object", value |-> members]

IsArray(v) == v.type = "array"
IsObject(v) == v.type = "object"
IsStructured(v) == IsArray(v) \/ IsObject(v)

NoMembers == [k \in {} |-> Null]

\* Keys that are sequences of bytes, as std::map orders them by operator< of strings.
Before(j, k) ==
  \/ IsStrictPrefix(j, k)
  \/ \E n \in DOMAIN j \cap DOMAIN k : j[n] < k[n] /\ SubSeq(j, 1, n - 1) = SubSeq(k, 1, n - 1)
SortedKeys(members) ==
  LET rank == [k \in DOMAIN members |-> Cardinality({j \in DOMAIN members : Before(j, k)})] IN
  [n \in 1..Cardinality(DOMAIN members) |-> CHOOSE k \in DOMAIN members : rank[k] = n - 1]

\* The members but for those with keys in K.
Without(members, K) == [k \in DOMAIN members \ K |-> members[k]]

\* The value at the end of a path.
Follow(v, path) == FoldLeft(LAMBDA parent, k : parent.value[k], v, path)

\* v with the value at the end of a path replaced; a member need not be there before.
Replace(v, path, new) ==
  LET parent(n) == Follow(v, SubSeq(path, 1, n))
      replaced[n \in 0..Len(path)] ==
        IF n = Len(path) THEN new
        ELSE IF path[n + 1] \in DOMAIN parent(n).value
        THEN [parent(n) EXCEPT !.value[path[n + 1]] = replaced[n + 1]]
        ELSE [parent(n) EXCEPT !.value = (path[n + 1] :> replaced[n + 1]) @@ @]
  IN replaced[0]
=============================================================================
