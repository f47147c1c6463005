--------------------------------- MODULE Patch ---------------------------------
(***************************************************************************)
(* json_pointer, flatten() and unflatten(), patch() and diff() of json.hpp,*)
(* and a program that edits a document by patches and brings it back to    *)
(* another version of it by a diff.                                        *)
(***************************************************************************)
EXTENDS Container
LOCAL INSTANCE SequencesExt
LOCAL INSTANCE TLC

(* The outcome of two steps one after the other: the first may throw.      *)
Then(first, second) == IF Failed(first) THEN first ELSE second

(* Two operands that the compiler may evaluate in either order.            *)
Both(leftFirst, left, right, result) ==
  IF leftFirst THEN Then(left, Then(right, result)) ELSE Then(right, Then(left, result))

-----------------------------------------------------------------------------
(* json_pointer: a sequence of reference tokens.                           *)

Pointer(tokens) == Value("pointer", tokens)

RECURSIVE replace_substring(_, _, _)
replace_substring(s, f, t) ==
  CASE s = <<>>       -> <<>>
    [] IsPrefix(f, s) -> t \o replace_substring(SubSeq(s, Len(f) + 1, Len(s)), f, t)
    [] s # <<>> /\ ~ IsPrefix(f, s) -> <<Head(s)>> \o replace_substring(Tail(s), f, t)

escape(s) ==
  replace_substring(replace_substring(s, <<"~">>, <<"~", "0">>), <<"/">>, <<"~", "1">>)

(* Mutant: the tilde first.                                                *)
MutUnescapeTildeFirst(s) ==
  replace_substring(replace_substring(s, <<"~", "0">>, <<"~">>), <<"~", "1">>, <<"/">>)

unescape(s) ==
  replace_substring(replace_substring(s, <<"~", "1">>, <<"/">>), <<"~", "0">>, <<"~">>)

(* A tilde that neither 0 nor 1 follows.                                   *)
LooseTilde(s) ==
  \E i \in DOMAIN s : s[i] = "~" /\ (i = Len(s) \/ s[i + 1] \notin {"0", "1"})

SplitAtSlashes(s) ==
  FoldLeft(LAMBDA parts, c : IF c = "/" THEN Append(parts, <<>>)
                             ELSE Append(Front(parts), Append(Last(parts), c)),
           <<>>, s)

split(s) ==
  IF s # <<>> /\ (s[1] # "/" \/ LooseTilde(s)) THEN Thrown("domain_error")
  ELSE LET parts == SplitAtSlashes(s) IN Pointer([i \in DOMAIN parts |-> unescape(parts[i])])

-----------------------------------------------------------------------------
(* Following a pointer.  The three ways: get_and_create and get_unchecked  *)
(* begin a container where there is null and add what is missing,          *)
(* get_checked throws.                                                     *)

Begun(way, v, token) ==
  CASE way = "get_and_create" /\ v.type = "null" ->
         OfType(IF token = <<"0">> THEN "array" ELSE "object")
    [] way = "get_unchecked" /\ v.type = "null" ->
         OfType(IF token = <<"-">> \/ \A i \in DOMAIN token : token[i] \in Digit
                THEN "array" ELSE "object")
    [] way = "get_checked" \/ v.type # "null" -> v

Found(place) == Value("place", place)

IndexFound(way, v, token) ==
  LET index == Stoi(token)
  IN CASE index.throws # "none" -> Thrown(index.throws)
       [] index.throws = "none" ->
            IF way = "get_checked" /\ ~ InRange(v.value, index.value)
            THEN Thrown("out_of_range") ELSE Found(index.value)

(* The key or index that a token means in v.                               *)
Place(way, v, token) ==
  LET unflattens == way = "get_and_create"
  IN IF v.type = "object"
     THEN IF way = "get_checked" /\ ~ find(v, token) THEN Thrown("out_of_range") ELSE Found(token)
     ELSE IF v.type # "array"
     THEN Thrown(IF unflattens THEN "domain_error" ELSE "out_of_range")
     ELSE IF token = <<"-">> /\ ~ unflattens
     THEN IF way = "get_checked" THEN Thrown("out_of_range") ELSE Found(size(v))
     ELSE IF Len(token) > 1 /\ token[1] = "0" /\ ~ unflattens
     THEN Thrown("domain_error")
     ELSE IndexFound(way, v, token)

(* What a pointer refers to, and the document once that is new.            *)
RECURSIVE Refer(_, _, _)
Refer(way, v, tokens) ==
  IF tokens = <<>> THEN v
  ELSE LET w == Begun(way, v, Head(tokens))
           p == Place(way, w, Head(tokens))
       IN Then(p, Refer(way, Subscript(w, p.value), Tail(tokens)))

RECURSIVE Assigned(_, _, _, _)
Assigned(way, v, tokens, new) ==
  IF tokens = <<>> THEN new
  ELSE LET w     == Begun(way, v, Head(tokens))
           p     == Place(way, w, Head(tokens))
           child == Assigned(way, Subscript(w, p.value), Tail(tokens), new)
       IN Then(p, Then(child, WithSubscript(w, p.value, child)))

at(v, tokens) == Refer("get_checked", v, tokens)

-----------------------------------------------------------------------------
(* flatten() and unflatten()                                               *)

ChildTokens(v) ==
  IF v.type = "object" THEN DOMAIN v.value ELSE {Decimal(i - 1) : i \in DOMAIN v.value}

Child(v, token) ==
  IF v.type = "object" THEN v.value[token] ELSE v.value[Leading(token, 0) + 1]

RECURSIVE FlattenedAt(_, _)
FlattenedAt(reference_string, v) ==
  CASE is_primitive(v)                     -> reference_string :> v
    [] ~ is_primitive(v) /\ size(v) = 0    -> reference_string :> Null
    [] ~ is_primitive(v) /\ size(v) # 0    ->
         FoldLeft(LAMBDA result, token :
                    FlattenedAt(reference_string \o <<"/">> \o escape(token), Child(v, token)) @@ result,
                  NoMembers, Sorted(ChildTokens(v)))

flatten(v) == Object(FlattenedAt(<<>>, v))

(* One round of unflatten's loop.                                          *)
Entered(result, key, element) ==
  LET ptr == split(key)
  IN IF ~ is_primitive(element) THEN Thrown("domain_error")
     ELSE Then(ptr, Assigned("get_and_create", result, ptr.value, element))

unflatten(v) ==
  IF v.type # "object" THEN Thrown("domain_error")
  ELSE FoldLeft(LAMBDA result, key : Then(result, Entered(result, key, v.value[key])), Null, Keys(v))

-----------------------------------------------------------------------------
(* patch(): one operation of a patch, a JSON object, applied to a document.*)

get_value(operation, member, string_type) ==
  IF /\ find(operation, member)
     /\ string_type => operation.value[member].type = "string"
  THEN operation.value[member] ELSE Thrown("invalid_argument")

(* The parent with the value at the last token of the path.                *)
AddedTo(parent, last_path, val) ==
  LET idx == Stoi(last_path)
  IN CASE parent.type = "null"   -> WithSubscript(OfType("object"), last_path, val)
       [] parent.type = "object" -> WithSubscript(parent, last_path, val)
       [] parent.type = "array" /\ last_path = <<"-">> -> push_back(parent, val)
       [] parent.type = "array" /\ last_path # <<"-">> ->
            IF idx.throws # "none" THEN Thrown(idx.throws)
            ELSE IF idx.value \notin 0 .. size(parent) THEN Thrown("out_of_range")
            ELSE insert(parent, idx.value, val)
       [] parent.type \notin {"null", "object", "array"} -> Thrown("assertion")

operation_add(result, tokens, val) ==
  LET top    == at(result, SubSeq(tokens, 1, 1))
      parent == Refer("get_unchecked", result, Front(tokens))
      added  == AddedTo(parent, Last(tokens), val)
  IN IF tokens = <<>> THEN val
     ELSE Then(IF Len(tokens) > 1 THEN top ELSE Null,
               Then(parent, Then(added, Assigned("get_unchecked", result, Front(tokens), added))))

RemovedFrom(parent, last_path) ==
  LET idx == Stoi(last_path)
  IN CASE parent.type = "object" ->
            IF find(parent, last_path) THEN EraseKey(parent, last_path) ELSE Thrown("out_of_range")
       [] parent.type = "array"  ->
            IF idx.throws # "none" THEN Thrown(idx.throws) ELSE EraseIndex(parent, idx.value)
       [] is_primitive(parent)   -> parent

operation_remove(result, tokens) ==
  LET parent  == at(result, Front(tokens))
      removed == RemovedFrom(parent, Last(tokens))
  IN IF tokens = <<>> THEN Thrown("domain_error")
     ELSE Then(parent, Then(removed, Assigned("get_checked", result, Front(tokens), removed)))

operation_replace(result, tokens, val, leftFirst) ==
  Both(leftFirst, at(result, tokens), val, Assigned("get_checked", result, tokens, val))

operation_move(result, from, tokens) ==
  LET v       == at(result, from)
      removed == operation_remove(result, from)
  IN Then(v, Then(removed, operation_add(removed, tokens, v)))

(* If result[ptr] is evaluated first, result.at(from_ptr) finds what it    *)
(* has created.                                                            *)
operation_copy(result, from, tokens, leftFirst) ==
  LET target  == Refer("get_unchecked", result, tokens)
      created == Then(target, Assigned("get_unchecked", result, tokens, target))
      v       == at(IF leftFirst THEN created ELSE result, from)
  IN Both(leftFirst, created, v, Assigned("get_unchecked", result, tokens, v))

operation_test(result, tokens, val, leftFirst) ==
  LET v       == at(result, tokens)
      outcome == Both(leftFirst, v, val, IF Equal(v, val) THEN result ELSE Thrown("domain_error"))
  IN IF outcome.type = "out_of_range" THEN Thrown("domain_error") ELSE outcome

Applied(result, operation, leftFirst) ==
  LET op       == get_value(operation, <<"op">>, TRUE)
      path     == get_value(operation, <<"path">>, TRUE)
      value    == get_value(operation, <<"value">>, FALSE)
      from     == get_value(operation, <<"from">>, TRUE)
      ptr      == split(path.value)
      from_ptr == split(from.value)
      tokens   == ptr.value
  IN Then(op, Then(path, Then(ptr,
       CASE op.value = <<"add">>     -> Then(value, operation_add(result, tokens, value))
         [] op.value = <<"remove">>  -> operation_remove(result, tokens)
         [] op.value = <<"replace">> -> operation_replace(result, tokens, value, leftFirst)
         [] op.value = <<"move">>    ->
              Then(from, Then(from_ptr, operation_move(result, from_ptr.value, tokens)))
         [] op.value = <<"copy">>    ->
              Then(from, Then(from_ptr, operation_copy(result, from_ptr.value, tokens, leftFirst)))
         [] op.value = <<"test">>    -> operation_test(result, tokens, value, leftFirst)
         [] OTHER                    -> Thrown("invalid_argument"))))

-----------------------------------------------------------------------------
(* diff() *)

Operation(op, path) == <<<<<<"op">>, String(<<op>>)>>, <<<<"path">>, String(path)>>>>

Removal(path)          == InitializerList(Operation("remove", path))
Addition(path, v)      == InitializerList(Append(Operation("add", path), <<<<"value">>, v>>))
Replacement(path, v)   == InitializerList(Append(Operation("replace", path), <<<<"value">>, v>>))

Below(path, token) == path \o <<"/">> \o escape(token)

(* Mutant: the elements that are too many are removed from the first on.   *)
MutRemovalsForward(source, target, path) ==
  [i \in 1 .. size(source) - size(target) |-> Removal(Below(path, Decimal(size(target) + i - 1)))]

(* From the last one on.                                                   *)
Removals(source, target, path) ==
  [i \in 1 .. size(source) - size(target) |-> Removal(Below(path, Decimal(size(source) - i)))]

Additions(source, target, path) ==
  [i \in 1 .. size(target) - size(source) |->
     Addition(Below(path, Decimal(size(source) + i - 1)), target.value[size(source) + i])]

NewMembers(source, target, path) ==
  LET keys == SelectSeq(Keys(target), LAMBDA k : ~ find(source, k))
  IN [i \in DOMAIN keys |-> Addition(Below(path, keys[i]), target.value[keys[i]])]

RECURSIVE diff(_, _, _)
diff(source, target, path) ==
  LET common == IF size(source) < size(target) THEN size(source) ELSE size(target)
      keys   == Keys(source)
  IN CASE Equal(source, target) -> <<>>
       [] ~ Equal(source, target) /\ (source.type # target.type \/ is_primitive(source)) ->
            <<Replacement(path, target)>>
       [] ~ Equal(source, target) /\ source.type = target.type /\ source.type = "array" ->
            FlattenSeq([i \in 1 .. common |->
              diff(source.value[i], target.value[i], Below(path, Decimal(i - 1)))])
            \o Removals(source, target, path) \o Additions(source, target, path)
       [] ~ Equal(source, target) /\ source.type = target.type /\ source.type = "object" ->
            FlattenSeq([i \in DOMAIN keys |->
              IF find(target, keys[i])
              THEN diff(source.value[keys[i]], target.value[keys[i]], Below(path, keys[i]))
              ELSE <<Removal(Below(path, keys[i]))>>])
            \o NewMembers(source, target, path)
=============================================================================
