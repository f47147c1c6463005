---------------------------------- MODULE JSON ----------------------------------
(***************************************************************************)
(* The part of json.hpp that the program's messages go through: dump()     *)
(* without indentation, and parse(): the lexer and the recursive descent   *)
(* parser.  Values are objects, strings, whole numbers, booleans and null; *)
(* no message of the program has an array, a fraction or a negative        *)
(* number.  Signed and unsigned numbers are one type here: they compare    *)
(* equal and are written in the same way.                                  *)
(***************************************************************************)
EXTENDS Text

Value(type, value) == [type |-> type, value |-> value]

Null == Value("null", <<>>)
String(s) == Value("string", s)
Number(n) == Value("number", n)
Boolean(b) == Value("boolean", b)

(* std::map from keys to values.                                           *)
Object(members) == Value("object", members)

NoMembers == [k \in {} |-> Null]

(* basic_json(initializer_list): pairs of a key and a value make an object;*)
(* of two pairs with one key the first counts.                             *)
InitializerList(pairs) ==
  Object([k \in {pairs[i][1] : i \in DOMAIN pairs} |->
            pairs[CHOOSE i \in DOMAIN pairs : /\ pairs[i][1] = k
                                             /\ \A h \in 1 .. i - 1 : pairs[h][1] # k][2]])

(* What parse() throws: std::invalid_argument.                             *)
Refused == Value("invalid_argument", <<>>)

(* operator[] on an object or null: a key that is missing is null.         *)
Member(v, key) ==
  IF v.type = "object" /\ key \in DOMAIN v.value THEN v.value[key] ELSE Null

(* begin() to end(): the members of an object; null has none.              *)
Members(v) == IF v.type = "object" THEN v.value ELSE NoMembers

Put(members, key, v) ==
  [k \in DOMAIN members \cup {key} |-> IF k = key THEN v ELSE members[k]]

-----------------------------------------------------------------------------
(* dump() *)

Hex(c) == IF c = "SOH" THEN <<"0", "0", "0", "1">> ELSE <<>>

(* Mutant: a backslash is written as it is.                                *)
MutEscapeNoBackslash(c) ==
  CASE c = "\""  -> <<"\\", c>>
    [] c = "LF"  -> <<"\\", "n">>
    [] c = "SOH" -> <<"\\", "u">> \o Hex(c)
    [] OTHER     -> <<c>>

(* Mutant: a newline is written as it is.                                  *)
MutEscapeNoNewline(c) ==
  CASE c \in {"\"", "\\"} -> <<"\\", c>>
    [] c = "SOH"          -> <<"\\", "u">> \o Hex(c)
    [] OTHER              -> <<c>>

Escape(c) ==
  CASE c \in {"\"", "\\"} -> <<"\\", c>>
    [] c = "LF"           -> <<"\\", "n">>
    [] c = "SOH"          -> <<"\\", "u">> \o Hex(c)
    [] OTHER              -> <<c>>

RECURSIVE escape_string(_)
escape_string(s) == IF s = <<>> THEN <<>> ELSE Escape(s[1]) \o escape_string(Tail(s))

(* numtostr: the digits from the last to the first, then reversed.         *)
RECURSIVE DigitsReversed(_)
DigitsReversed(n) == IF n = 0 THEN <<>> ELSE <<DigitOf[n % 10]>> \o DigitsReversed(n \div 10)

(* Mutant: without std::reverse.                                           *)
MutNumtostrBackwards(n) == IF n = 0 THEN <<"0">> ELSE DigitsReversed(n)

numtostr(n) ==
  LET digits == DigitsReversed(n)
  IN IF n = 0 THEN <<"0">> ELSE [i \in DOMAIN digits |-> digits[Len(digits) + 1 - i]]

Quoted(s) == <<"\"">> \o escape_string(s) \o <<"\"">>

RECURSIVE Dump(_), DumpMembers(_)
Dump(v) ==
  CASE v.type = "object"  -> <<"{">> \o DumpMembers(v.value) \o <<"}">>
    [] v.type = "string"  -> Quoted(v.value)
    [] v.type = "boolean" -> <<IF v.value THEN "true" ELSE "false">>
    [] v.type = "number"  -> numtostr(v.value)
    [] v.type = "null"    -> <<"null">>

DumpMembers(members) ==
  IF DOMAIN members = {} THEN <<>>
  ELSE LET key  == FirstText(DOMAIN members)
           rest == [k \in DOMAIN members \ {key} |-> members[k]]
       IN Quoted(key) \o <<":">> \o Dump(members[key])
          \o (IF DOMAIN rest = {} THEN <<>> ELSE <<",">>) \o DumpMembers(rest)

-----------------------------------------------------------------------------
(* The lexer.  A token is its type and the positions [from, to) it covers. *)

Token(type, from, to) == [type |-> type, from |-> from, to |-> to]

(* The scans below start inside a string and return the position after     *)
(* what they scan, or 0 for what no string may hold.                       *)

(* The letters of the hexadecimal digits are not among the symbols.        *)
EscapeEnd(text, i) ==
  LET c == IF i < Len(text) THEN text[i + 1] ELSE "SOH"
  IN CASE c \in {"\"", "\\", "n"} -> i + 2
       [] c = "u" /\ i + 5 <= Len(text) /\ \A j \in i + 2 .. i + 5 : text[j] \in Digit -> i + 6
       [] OTHER -> 0

(* A character of more than one byte.                                      *)
SequenceEnd(text, i) ==
  IF text[i] = "xC3" /\ i < Len(text) /\ text[i + 1] = "xA9" THEN i + 2 ELSE 0

CharacterEnd(text, i) ==
  CASE text[i] = "\\"             -> EscapeEnd(text, i)
    [] text[i] \in {"xA9", "xC3"} -> SequenceEnd(text, i)
    [] text[i] \in {"SOH", "LF"}  -> 0
    [] OTHER                      -> i + 1

(* To the end of the closing quote.                                        *)
RECURSIVE StringEnd(_, _)
StringEnd(text, i) ==
  CASE i > Len(text)                                 -> 0
    [] i <= Len(text) /\ text[i] = "\""              -> i + 1
    [] i <= Len(text) /\ text[i] # "\""              ->
         IF CharacterEnd(text, i) = 0 THEN 0 ELSE StringEnd(text, CharacterEnd(text, i))

(* The position after a number: no digit follows a leading zero.           *)
RECURSIVE NumberEnd(_, _)
NumberEnd(text, i) ==
  IF i <= Len(text) /\ text[i] \in Digit THEN NumberEnd(text, i + 1) ELSE i

Punctuation == {"{", "}", ":", ","}
Literal == {"true", "false", "null"}

RECURSIVE Scan(_, _)
Scan(text, i) ==
  LET end == StringEnd(text, i + 1)
  IN CASE i > Len(text)                        -> Token("end_of_input", i, i)
       [] text[i] = "LF"                       -> Scan(text, i + 1)
       [] text[i] \in Punctuation \cup Literal -> Token(text[i], i, i + 1)
       [] text[i] = "\"" /\ end # 0            -> Token("value_string", i, end)
       [] text[i] = "0"                        -> Token("value_unsigned", i, i + 1)
       [] text[i] \in Digit \ {"0"}            -> Token("value_unsigned", i, NumberEnd(text, i))
       [] OTHER                                -> Token("parse_error", i, i + 1)

(* get_string: the text between the quotes, without its escapes.           *)
RECURSIVE Unescape(_)
Unescape(s) ==
  CASE s = <<>>                          -> <<>>
    [] s # <<>> /\ s[1] # "\\"           -> <<s[1]>> \o Unescape(Tail(s))
    [] s # <<>> /\ s[1] = "\\" /\ s[2] # "u" ->
         <<IF s[2] = "n" THEN "LF" ELSE s[2]>> \o Unescape(SubSeq(s, 3, Len(s)))
    [] OTHER ->
         <<CHOOSE c \in Symbol : Hex(c) = SubSeq(s, 3, 6)>> \o Unescape(SubSeq(s, 7, Len(s)))

get_string(text, t) == Unescape(SubSeq(text, t.from + 1, t.to - 2))

get_number(text, t) == Leading(SubSeq(text, t.from, t.to - 1), 0)

-----------------------------------------------------------------------------
(* The parser: each operator is given last_token and returns the value and *)
(* the new last_token.                                                     *)

Parsed(v, token) == [value |-> v, last_token |-> token]

RECURSIVE parse_internal(_, _), parse_members(_, _, _)
parse_internal(text, t) ==
  LET next == Scan(text, t.to)
  IN CASE t.type = "{" /\ next.type = "}" -> Parsed(Object(NoMembers), Scan(text, next.to))
       [] t.type = "{" /\ next.type # "}" -> parse_members(text, next, NoMembers)
       [] t.type = "value_string"         -> Parsed(String(get_string(text, t)), next)
       [] t.type = "value_unsigned"       -> Parsed(Number(get_number(text, t)), next)
       [] t.type \in {"true", "false"}    -> Parsed(Boolean(t.type = "true"), next)
       [] t.type = "null"                 -> Parsed(Null, next)
       [] OTHER                           -> Parsed(Refused, t)

(* The do-while loop over key-value pairs; members is the object so far.   *)
parse_members(text, key, members) ==
  LET colon == Scan(text, key.to)
      entry == parse_internal(text, Scan(text, colon.to))
      after == entry.last_token
      all   == Put(members, get_string(text, key), entry.value)
  IN CASE key.type # "value_string" \/ colon.type # ":" -> Parsed(Refused, key)
       [] key.type = "value_string" /\ colon.type = ":" ->
            CASE entry.value.type = "invalid_argument" -> entry
              [] after.type = ","                      -> parse_members(text, Scan(text, after.to), all)
              [] after.type = "}"                      -> Parsed(Object(all), Scan(text, after.to))
              [] OTHER                                 -> Parsed(Refused, after)

(* parse(): one value and nothing after it.                                *)
Parse(text) ==
  LET result == parse_internal(text, Scan(text, 1))
  IN IF result.last_token.type = "end_of_input" THEN result.value ELSE Refused

=============================================================================
