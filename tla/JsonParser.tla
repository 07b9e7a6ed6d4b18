----------------------------- MODULE JsonParser -----------------------------
(***************************************************************************)
(* The parser of nlohmann's json and the consumers of its events: the one  *)
(* that builds the value, the one that builds it with a callback that may  *)
(* reject parts, and the one that only says whether the text is accepted,  *)
(* which has no state.  One step is one get_token() and what is done with  *)
(* the token; the text is any sequence of tokens.  All consumers are given *)
(* the same events.                                                        *)
(*                                                                         *)
(* A string is a number (std::map orders keys), any other scalar is itself.*)
(*                                                                         *)
(* Definitions whose names end in Wrong are slips that the properties must *)
(* notice; nothing uses them.                                              *)
(***************************************************************************)
EXTENDS JsonValues

CONSTANTS Scalars,    \* literals and numbers
          Strings,    \* strings, which are numbers
          Rejections, \* what a callback may reject: sets of events, strings, scalars
          MaxRead     \* bound: tokens of a text

ASSUME ParserAssumption == Strings \subseteq Nat /\ MaxRead \in Nat

VARIABLES
  read,      \* history: the tokens that get_token() has returned
  at,        \* where in sax_parse_internal() the next token is looked at
  states,    \* the containers that are open
  dom,       \* json_sax_dom_parser: root, ref_stack, object_element
  reject,    \* what the callback rejects
  filtered   \* json_sax_dom_callback_parser: the same, and keep_stack, key_keep_stack

parser == <<read, at, states, dom, reject, filtered>>

Scalar(s) == [type |-> "scalar", value |-> s]
Punctuation == {"begin_object", "end_object", "begin_array", "end_array", "name_separator", "value_separator"}

\* A float that is not finite, a lexer's parse_error, the end of the input.
Special == {"overflow", "parse_error", "end_of_input"}
Token == [type : {"scalar"}, value : Scalars] \cup [type : {"string"}, value : Strings]
         \cup [type : Punctuation \cup Special]

\* nullptr: no place, for keys and indices are at least 0.
Nowhere == <<-1>>

InitParser ==
  /\ read = <<>>
  /\ at = "value"
  /\ states = <<>>
  /\ dom = [root |-> Null, ref_stack |-> <<>>, object_element |-> Nowhere]
  /\ reject \in Rejections
  /\ filtered = [root |-> Null, ref_stack |-> <<>>, object_element |-> Nowhere,
                 keep_stack |-> <<TRUE>>, key_keep_stack |-> <<>>]

-----------------------------------------------------------------------------
(* json_sax_dom_parser.                                                     *)

\* Where handle_value() puts a value.
Place(d) ==
  IF d.ref_stack = <<>> THEN <<>>
  ELSE LET top == Last(d.ref_stack) IN
       IF IsArray(Follow(d.root, top)) THEN Append(top, Len(Follow(d.root, top).value) + 1)
       ELSE d.object_element

\* A scalar does not replace what its key had before.
StoreWrong(root, path, v) ==
  IF path # <<>> /\ IsArray(Follow(root, Front(path)))
  THEN Replace(root, Front(path), [Follow(root, Front(path)) EXCEPT !.value = Append(@, v)])
  ELSE IF path # <<>> /\ ~IsStructured(v) /\ Follow(root, path) # Null THEN root
  ELSE Replace(root, path, v)

\* emplace_back() and the assignment through object_element.
Store(root, path, v) ==
  IF path # <<>> /\ IsArray(Follow(root, Front(path)))
  THEN Replace(root, Front(path), [Follow(root, Front(path)) EXCEPT !.value = Append(@, v)])
  ELSE Replace(root, path, v)

HandleValue(d, v) == [d EXCEPT !.root = Store(d.root, Place(d), v)]
StartContainer(d, v) ==
  [HandleValue(d, v) EXCEPT !.ref_stack = Append(d.ref_stack, Place(d))]

\* operator[] makes a null of a key that is new.
Key(d, k) ==
  LET place == Append(Last(d.ref_stack), k) IN
  [d EXCEPT !.root = IF k \in DOMAIN Follow(@, Last(d.ref_stack)).value THEN @
                     ELSE Replace(@, place, Null),
            !.object_element = place]

EndContainer(d) == [d EXCEPT !.ref_stack = Front(@)]

-----------------------------------------------------------------------------
(* json_sax_dom_callback_parser.                                            *)

Event(type) == [type |-> type]
Keeps(event) == event \notin reject

\* handle_value(): the value is dropped, and key_keep_stack not popped, when the callback
\* rejects it; then when the container is dropped; then when the key was rejected.
StoreKept(f, v, asked) ==
  LET top == Last(f.ref_stack)
      parent == Follow(f.root, top)
  IN CASE ~Last(f.keep_stack) \/ ~asked -> [f |-> f, place |-> Nowhere]
       [] Last(f.keep_stack) /\ asked /\ f.ref_stack = <<>> ->
            [f |-> [f EXCEPT !.root = v], place |-> <<>>]
       [] Last(f.keep_stack) /\ asked /\ f.ref_stack # <<>> ->
            IF top = Nowhere THEN [f |-> f, place |-> Nowhere]
            ELSE IF IsArray(parent)
            THEN [f |-> HandleValue(f, v), place |-> Place(f)]
            ELSE LET g == [f EXCEPT !.key_keep_stack = Front(@)] IN
                 IF Last(f.key_keep_stack)
                 THEN [f |-> HandleValue(g, v), place |-> f.object_element]
                 ELSE [f |-> g, place |-> Nowhere]

KeptScalar(f, v) == StoreKept(f, v, Keeps(v)).f

KeptStart(f, v, event) ==
  LET s == StoreKept([f EXCEPT !.keep_stack = Append(@, Keeps(Event(event)))], v, TRUE) IN
  [s.f EXCEPT !.ref_stack = Append(f.ref_stack, s.place)]

KeptKey(f, k) ==
  LET keep == Keeps([type |-> "key", value |-> k])
      place == Append(Last(f.ref_stack), k)
      g == [f EXCEPT !.key_keep_stack = Append(@, keep)]
  IN IF keep /\ Last(f.ref_stack) # Nowhere
     THEN [g EXCEPT !.root = Replace(@, place, Discarded), !.object_element = place]
     ELSE g

\* What the end of a container does whichever it is: the callback may still reject it.
Close(f, event) ==
  LET top == Last(f.ref_stack) IN
  [f EXCEPT !.root = IF top # Nowhere /\ ~Keeps(Event(event)) THEN Replace(@, top, Discarded) ELSE @,
            !.ref_stack = Front(@),
            !.keep_stack = Front(@)]

\* Erase the first discarded value of a container.
EraseDiscarded(v) ==
  LET gone == {k \in DOMAIN v.value : v.value[k] = Discarded}
      first == CHOOSE k \in gone : \A j \in gone : k <= j
  IN IF gone = {} THEN v
     ELSE IF IsArray(v) THEN Array(RemoveAt(v.value, first))
     ELSE Object(Without(v.value, {first}))

KeptEndObject(f) ==
  LET g == Close(f, "object_end") IN
  IF g.ref_stack = <<>> \/ Last(g.ref_stack) = Nowhere THEN g
  ELSE [g EXCEPT !.root = Replace(@, Last(g.ref_stack), EraseDiscarded(Follow(@, Last(g.ref_stack))))]

KeptEndArray(f) ==
  LET g == Close(f, "array_end")
      rejected == Last(f.ref_stack) # Nowhere /\ ~Keeps(Event("array_end"))
      parent == Follow(g.root, Last(g.ref_stack))
  IN IF rejected /\ g.ref_stack # <<>> /\ IsArray(parent)
     THEN [g EXCEPT !.root = Replace(@, Last(g.ref_stack), Array(Front(parent.value)))]
     ELSE g

-----------------------------------------------------------------------------
(* sax_parse_internal().                                                    *)

Ignore == UNCHANGED <<dom, filtered>>

\* get_token(), of which MaxRead bounds the number.
GetToken(t) == /\ at \notin {"accepted", "failed"}
               /\ t \in IF Len(read) < MaxRead THEN Token ELSE {[type |-> "end_of_input"]}
               /\ read' = Append(read, t)
               /\ UNCHANGED reject

\* The state is evaluated: is the text complete, or what comes next in a container?
Evaluate(open) == /\ states' = open
                  /\ at' = IF open = <<>> THEN "end" ELSE "after"

\* A token that begins a value, or an error.
Value(t, open) ==
  \/ /\ t.type = "begin_object"
     /\ dom' = StartContainer(dom, Object(NoMembers))
     /\ filtered' = KeptStart(filtered, Object(NoMembers), "object_start")
     /\ at' = "first_key"
     /\ states' = open
  \/ /\ t.type = "begin_array"
     /\ dom' = StartContainer(dom, Array(<<>>))
     /\ filtered' = KeptStart(filtered, Array(<<>>), "array_start")
     /\ at' = "first_element"
     /\ states' = open
  \/ /\ t.type \in {"scalar", "string"}
     /\ dom' = HandleValue(dom, t)
     /\ filtered' = KeptScalar(filtered, t)
     /\ Evaluate(open)
  \/ /\ t.type \notin {"begin_object", "begin_array", "scalar", "string"}
     /\ at' = "failed"
     /\ states' = open
     /\ Ignore

EndObject(open) == /\ dom' = EndContainer(dom)
                   /\ filtered' = KeptEndObject(filtered)
                   /\ Evaluate(open)

EndArray(open) == /\ dom' = EndContainer(dom)
                  /\ filtered' = KeptEndArray(filtered)
                  /\ Evaluate(open)

ParseKey(t) == IF t.type = "string"
               THEN /\ dom' = Key(dom, t.value)
                    /\ filtered' = KeptKey(filtered, t.value)
                    /\ at' = IF at = "first_key" THEN "first_colon" ELSE "colon"
                    /\ UNCHANGED states
               ELSE at' = "failed" /\ UNCHANGED states /\ Ignore

ParseValue(t) == /\ at = "value"
                 /\ GetToken(t)
                 /\ Value(t, states)

\* After a "{".
FirstKey(t) == /\ at = "first_key"
               /\ GetToken(t)
               /\ IF t.type = "end_object" THEN EndObject(states) ELSE ParseKey(t)

\* After a "[".
FirstElement(t) == /\ at = "first_element"
                   /\ GetToken(t)
                   /\ IF t.type = "end_array" THEN EndArray(states) ELSE Value(t, Append(states, "array"))

Colon(t) == /\ at \in {"first_colon", "colon"}
            /\ GetToken(t)
            /\ at' = IF t.type = "name_separator" THEN "value" ELSE "failed"
            /\ states' = IF at = "first_colon" /\ t.type = "name_separator" THEN Append(states, "object") ELSE states
            /\ Ignore

AfterElement(t) == /\ at = "after" /\ Last(states) = "array"
                   /\ GetToken(t)
                   /\ IF t.type = "end_array" THEN EndArray(Front(states))
                      ELSE /\ at' = IF t.type = "value_separator" THEN "value" ELSE "failed"
                           /\ UNCHANGED states /\ Ignore

\* A comma may stand before the end of an object.
AfterMemberWrong(t) == /\ at = "after" /\ Last(states) = "object"
                       /\ GetToken(t)
                       /\ IF t.type = "end_object" THEN EndObject(Front(states))
                          ELSE /\ at' = IF t.type = "value_separator" THEN "first_key" ELSE "failed"
                               /\ UNCHANGED states /\ Ignore

AfterMember(t) == /\ at = "after" /\ Last(states) = "object"
                  /\ GetToken(t)
                  /\ IF t.type = "end_object" THEN EndObject(Front(states))
                     ELSE /\ at' = IF t.type = "value_separator" THEN "key" ELSE "failed"
                          /\ UNCHANGED states /\ Ignore

NextKey(t) == /\ at = "key"
              /\ GetToken(t)
              /\ ParseKey(t)

\* parse() is strict: the value has to be all there is.
EndOfText(t) == /\ at = "end"
                /\ GetToken(t)
                /\ at' = IF t.type = "end_of_input" THEN "accepted" ELSE "failed"
                /\ UNCHANGED states /\ Ignore

NextParser == \E t \in Token :
  \/ ParseValue(t) \/ FirstKey(t) \/ FirstElement(t) \/ Colon(t)
  \/ AfterElement(t) \/ AfterMember(t) \/ NextKey(t) \/ EndOfText(t)

SpecParser == InitParser /\ [][NextParser]_parser

\* What parse() returns with allow_exceptions = false; otherwise it throws on an error.
Result == IF at = "failed" THEN Discarded ELSE dom.root

\* The same with a callback: a root that the callback has discarded becomes a null.
FilteredResult == IF at = "failed" THEN Discarded
                  ELSE IF filtered.root = Discarded THEN Null ELSE filtered.root
=============================================================================
