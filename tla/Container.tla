-------------------------------- MODULE Container --------------------------------
(***************************************************************************)
(* A basic_json value as a container: comparison, access by key and index, *)
(* insertion and removal.  An index counts from 0, and a negative one has  *)
(* become a number beyond any size on the way to size_type.                *)
(***************************************************************************)
EXTENDS JSON
LOCAL INSTANCE SequencesExt

Array(s) == Value("array", s)

(* A value that stands for an exception of that name, or for an assertion  *)
(* that fails.                                                             *)
Thrown(exception) == Value(exception, <<>>)

Failed(v) ==
  v.type \in {"invalid_argument", "out_of_range", "domain_error", "assertion"}

(* The value that basic_json(value_t) begins with.                         *)
OfType(t) ==
  CASE t = "object"  -> Object(NoMembers)
    [] t = "array"   -> Array(<<>>)
    [] t = "string"  -> String(<<>>)
    [] t = "boolean" -> Boolean(FALSE)
    [] t = "null"    -> Null

is_primitive(v) == v.type \notin {"object", "array"}

size(v) ==
  CASE v.type = "null"   -> 0
    [] v.type = "array"  -> Len(v.value)
    [] v.type = "object" -> Cardinality(DOMAIN v.value)
    [] OTHER             -> 1

(* operator==.  A signed and an unsigned number are compared by their bits.*)
(* A fraction is kept as its eight bytes and compared by them: the models  *)
(* compare no NaN, no zero of either sign with the other, and no fraction  *)
(* with a whole number, where the code compares the values.                *)
Comparable(s, t) == s = t \/ {s, t} = {"number_integer", "number_unsigned"}

RECURSIVE Equal(_, _)
Equal(lhs, rhs) ==
  /\ Comparable(lhs.type, rhs.type)
  /\ CASE lhs.type = "array" ->
            /\ Len(lhs.value) = Len(rhs.value)
            /\ \A i \in DOMAIN lhs.value : Equal(lhs.value[i], rhs.value[i])
       [] lhs.type = "object" ->
            /\ DOMAIN lhs.value = DOMAIN rhs.value
            /\ \A k \in DOMAIN lhs.value : Equal(lhs.value[k], rhs.value[k])
       [] OTHER -> lhs.value = rhs.value

-----------------------------------------------------------------------------
(* Access.  A key is a text and belongs to an object, an index is a number *)
(* and belongs to an array.                                                *)

find(v, key) == v.type = "object" /\ key \in DOMAIN v.value

InRange(s, idx) == idx \in 0 .. Len(s) - 1

(* at(key) and at(idx).                                                    *)
AtKey(v, key) ==
  CASE v.type # "object" -> Thrown("domain_error")
    [] find(v, key)      -> v.value[key]
    [] OTHER             -> Thrown("out_of_range")

AtIndex(v, idx) ==
  CASE v.type # "array"       -> Thrown("domain_error")
    [] InRange(v.value, idx)  -> v.value[idx + 1]
    [] OTHER                  -> Thrown("out_of_range")

(* operator[]: a key or index that is missing is filled with null.         *)
Filled(s, idx) == [i \in 1 .. idx + 1 |-> IF i \in DOMAIN s THEN s[i] ELSE Null]

Subscript(v, i) ==
  IF v.type = "object" THEN Member(v, i)
  ELSE IF InRange(v.value, i) THEN v.value[i + 1] ELSE Null

(* The container after an assignment to what operator[] refers to.         *)
WithSubscript(v, i, new) ==
  CASE v.type = "object" -> Object(Put(v.value, i, new))
    [] v.type = "array" /\ InRange(v.value, i)   -> Array(ReplaceAt(v.value, i + 1, new))
    [] v.type = "array" /\ ~ InRange(v.value, i) -> Array(ReplaceAt(Filled(v.value, i), i + 1, new))

-----------------------------------------------------------------------------
(* Modifiers.                                                              *)

push_back(v, new) == Array((IF v.type = "null" THEN <<>> ELSE v.value) \o <<new>>)

(* insert(begin() + idx, val).                                             *)
insert(v, idx, new) == Array(InsertAt(v.value, idx + 1, new))

(* erase(find(key)), the key being there, and erase(idx).                  *)
EraseKey(v, key) == Object([k \in DOMAIN v.value \ {key} |-> v.value[k]])

EraseIndex(v, idx) ==
  IF InRange(v.value, idx) THEN Array(RemoveAt(v.value, idx + 1)) ELSE Thrown("out_of_range")

(* The keys of an object in the order of its iterators.                    *)
RECURSIVE Sorted(_)
Sorted(S) == IF S = {} THEN <<>> ELSE <<FirstText(S)>> \o Sorted(S \ {FirstText(S)})

Keys(v) == Sorted(DOMAIN v.value)

=============================================================================
