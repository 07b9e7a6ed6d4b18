---------------------------- MODULE JsonDocument ----------------------------
(***************************************************************************)
(* A json value that its owner edits: by the operations of a patch, each a *)
(* step of patch_inplace(), by assignments to operator[] of a pointer, and *)
(* by merge_patch().                                                       *)
(***************************************************************************)
EXTENDS JsonPatch

CONSTANTS Operations, \* operations of a patch
          Pointers,   \* texts of pointers
          Values,     \* what is assigned, and merged
          MaxNodes    \* bound: values in a document

ASSUME DocumentAssumption == MaxNodes \in Nat

VARIABLES made,    \* whether the document has been constructed
          document \* the value

edited == <<ndebug, made, document>>

\* How many values a value is made of.
RECURSIVE Nodes(_)
Nodes(v) == IF ~IsStructured(v) THEN 1
            ELSE FoldFunction(LAMBDA n, total : n + total, 1, [k \in DOMAIN v.value |-> Nodes(v.value[k])])

InitDocument == ndebug \in BOOLEAN /\ made = FALSE /\ document = Null

\* A constructor from a value.
Construct == /\ ~made
             /\ made' = TRUE
             /\ document' \in Values
             /\ UNCHANGED ndebug

\* Whether the call threw or not.
Becomes(r) == /\ made
              /\ r.error # Aborted
              /\ Nodes(r.document) <= MaxNodes
              /\ document' = r.document
              /\ UNCHANGED <<ndebug, made>>

\* The document goes with its process; another process makes its own.
Abort(r) == /\ made
            /\ r.error = Aborted
            /\ made' = FALSE
            /\ document' = Null
            /\ UNCHANGED ndebug

PatchOne == \E val \in Operations : \E r \in {Operation(document, val)} : Becomes(r) \/ Abort(r)
AssignOne == \E text \in Pointers, v \in Values :
               /\ ~Failed(Split(text))
               /\ \E r \in {GetUnchecked(document, Split(text).value, v)} : Becomes(r)
MergeOne == \E v \in Values : Becomes(Completed(MergePatch(document, v)))

NextDocument == Construct \/ PatchOne \/ AssignOne \/ MergeOne
=============================================================================
