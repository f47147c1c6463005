--------------------------------- MODULE Binary ---------------------------------
(***************************************************************************)
(* MessagePack and CBOR in json.hpp.  A byte is a number from 0 to 255,    *)
(* the characters of strings and keys among them.  A number is the eight   *)
(* bytes of its number_integer_t, number_unsigned_t or double, the first   *)
(* byte being the most significant one.  Positions in a vector count from  *)
(* 0.                                                                      *)
(***************************************************************************)
EXTENDS Container
LOCAL INSTANCE SequencesExt

Bytes(n, byte) == [i \in 1 .. n |-> byte]

(* An integer of fewer bytes in one of eight.                              *)
Extended(bytes, byte) == Bytes(8 - Len(bytes), byte) \o bytes

Unsigned(bytes) == Value("number_unsigned", Extended(bytes, 0))
Signed(bytes)   == Value("number_integer", Extended(bytes, IF bytes[1] < 128 THEN 0 ELSE 255))

(* -1 - n, for which no bit of n stays as it is.                           *)
MinusOneMinus(word) == [i \in 1 .. 8 |-> 255 - word[i]]

(* A length, which is less than 2^24, as a word.                           *)
Word(n) == Extended(<<n \div 65536, (n \div 256) % 256, n % 256>>, 0)

(* The length that a field of the vector says, at most MaxLength, which is *)
(* more than any vector has.                                               *)
MaxLength == 16777216

LengthIn(bytes) ==
  LET w == Extended(bytes, 0)
  IN IF SubSeq(w, 1, 5) = Bytes(5, 0) THEN 65536 * w[6] + 256 * w[7] + w[8] ELSE MaxLength

-----------------------------------------------------------------------------
(* Writing.                                                                *)

add_to_vector(bytes, word) == SubSeq(word, 9 - bytes, 8)

Widths == {1, 2, 4, 8}

(* The number of the width among 1, 2, 4 and 8, which the tags count.      *)
Code == [n \in Widths |-> CASE n = 1 -> 0 [] n = 2 -> 1 [] n = 4 -> 2 [] n = 8 -> 3]

(* word <= numeric_limits<uint..>::max() for the type of so many bytes.    *)
Fits(word, bytes) == \A i \in 1 .. 8 - bytes : word[i] = 0

(* The same of a negative number and numeric_limits<int..>::min().         *)
FitsSigned(word, bytes) == Fits(MinusOneMinus(word), bytes) /\ word[9 - bytes] >= 128

Least(n, widths) == n \in widths /\ \A m \in widths : n <= m

Width(word)       == CHOOSE n \in Widths : Least(n, {m \in Widths : Fits(word, m)})
SignedWidth(word) == CHOOSE n \in Widths : Least(n, {m \in Widths : FitsSigned(word, m)})

Negative(j) == j.type = "number_integer" /\ j.value[1] >= 128

msgpack_number(j) ==
  LET w == j.value
      n == IF Negative(j) THEN SignedWidth(w) ELSE Width(w)
  IN IF n = 1 /\ (IF Negative(j) THEN w[8] >= 224 ELSE w[8] < 128) THEN add_to_vector(1, w)
     ELSE <<(IF Negative(j) THEN 208 ELSE 204) + Code[n]>> \o add_to_vector(n, w)

(* The tag of a length: in the tag itself up to a maximum, else in a field *)
(* after it whose width is that of the first of the tags that is enough.   *)
msgpack_length(N, fixed, max, tags) ==
  LET widths == {n \in DOMAIN tags : Fits(Word(N), n)}
      width  == CHOOSE n \in widths : Least(n, widths)
  IN IF N <= max THEN <<fixed + N>> ELSE <<tags[width]>> \o add_to_vector(width, Word(N))

StringTags == [n \in {1, 2, 4} |-> 217 + Code[n]]
ArrayTags  == [n \in {2, 4} |-> 219 + Code[n]]
MapTags    == [n \in {2, 4} |-> 221 + Code[n]]

(* Mutant: a string of 32 bytes gets a fixstr's tag.                       *)
MutMsgpackHeadFixstr32(j) ==
  LET N == IF j.type = "string" THEN Len(j.value) ELSE size(j)
  IN CASE j.type = "string" -> msgpack_length(N, 160, 32, StringTags)
       [] j.type = "array"  -> msgpack_length(N, 144, 15, ArrayTags)
       [] j.type = "object" -> msgpack_length(N, 128, 15, MapTags)

msgpack_head(j) ==
  LET N == IF j.type = "string" THEN Len(j.value) ELSE size(j)
  IN CASE j.type = "string" -> msgpack_length(N, 160, 31, StringTags)
       [] j.type = "array"  -> msgpack_length(N, 144, 15, ArrayTags)
       [] j.type = "object" -> msgpack_length(N, 128, 15, MapTags)

(* CBOR has one form for all: a number below 24 in the tag, or in 1, 2, 4  *)
(* or 8 bytes after it.                                                    *)
cbor_item(major, word) ==
  IF Fits(word, 1) /\ word[8] <= 23 THEN <<major + word[8]>>
  ELSE <<major + 24 + Code[Width(word)]>> \o add_to_vector(Width(word), word)

cbor_number(j) ==
  IF Negative(j) THEN cbor_item(32, MinusOneMinus(j.value)) ELSE cbor_item(0, j.value)

cbor_head(j) ==
  CASE j.type = "string" -> cbor_item(96, Word(Len(j.value)))
    [] j.type = "array"  -> cbor_item(128, Word(size(j)))
    [] j.type = "object" -> cbor_item(160, Word(size(j)))

LessBytes(s, t) ==
  \E n \in 0 .. Len(s) :
    /\ n < Len(t)
    /\ \A i \in 1 .. n : s[i] = t[i]
    /\ n < Len(s) => s[n + 1] < t[n + 1]

RECURSIVE InOrder(_)
InOrder(S) ==
  LET first == CHOOSE s \in S : \A t \in S \ {s} : LessBytes(s, t)
  IN IF S = {} THEN <<>> ELSE <<first>> \o InOrder(S \ {first})

Head1(format, msgpack, cbor) == <<IF format = "msgpack" THEN msgpack ELSE cbor>>

RECURSIVE to_internal(_, _)
to_internal(format, j) ==
  LET number == j.type \in {"number_integer", "number_unsigned"}
      keys   == InOrder(DOMAIN j.value)
      head   == IF format = "msgpack" THEN msgpack_head(j) ELSE cbor_head(j)
  IN CASE j.type = "null"         -> Head1(format, 192, 246)
       [] j.type = "boolean"      -> IF j.value THEN Head1(format, 195, 245) ELSE Head1(format, 194, 244)
       [] number                  -> IF format = "msgpack" THEN msgpack_number(j) ELSE cbor_number(j)
       [] j.type = "number_float" -> Head1(format, 203, 251) \o j.value
       [] j.type = "string"       -> head \o j.value
       [] j.type = "array"        ->
            head \o FlattenSeq([i \in DOMAIN j.value |-> to_internal(format, j.value[i])])
       [] j.type = "object"       ->
            head \o FlattenSeq([i \in DOMAIN keys |-> to_internal(format, String(keys[i]))
                                                      \o to_internal(format, j.value[keys[i]])])

-----------------------------------------------------------------------------
(* Reading: what was read, or what was thrown, and where idx is then.      *)

Read(value, idx) == [value |-> value, idx |-> idx]

Throw(exception, idx) == Read(Thrown(exception), idx)

check_length(length, len, offset) == len <= length /\ offset <= length /\ len + offset <= length

(* get_from_vector, and v.at() for as many bytes.                          *)
CanGet(v, current_idx, n) == current_idx + n + 1 <= Len(v)

get_from_vector(v, current_idx, n) == SubSeq(v, current_idx + 2, current_idx + 1 + n)

(* m * 2^e as a double, for m less than 2^24.                              *)
ldexp(negative, m, e) ==
  LET top      == CHOOSE t \in 0 .. 23 : 2^t <= m /\ m < 2^(t + 1)
      exponent == e + top + 1023
      fraction == (m - 2^top) * 2^(23 - top)
      sign     == IF negative THEN 128 ELSE 0
  IN IF m = 0 THEN <<sign>> \o Bytes(7, 0)
     ELSE <<sign + exponent \div 16, 16 * (exponent % 16) + fraction \div 2^19,
            (fraction \div 2^11) % 256, (fraction \div 8) % 256, 32 * (fraction % 8), 0, 0, 0>>

infinity(negative) == <<IF negative THEN 255 ELSE 127, 240>> \o Bytes(6, 0)
NaN                == <<127, 248>> \o Bytes(6, 0)

(* A floating-point number of the given bits: the exponent and mantissa    *)
(* fields and the exponent of a mantissa's last bit when the field is 0.   *)
FromFields(negative, exp, maxExp, mant, one, least) ==
  CASE exp = 0                   -> ldexp(negative, mant, least)
    [] exp \in 1 .. maxExp - 1   -> ldexp(negative, mant + one, exp - 1 + least)
    [] exp = maxExp              -> IF mant = 0 THEN infinity(negative) ELSE NaN

FromHalf(b) ==
  FromFields(b[1] >= 128, (b[1] % 128) \div 4, 31, 256 * (b[1] % 4) + b[2], 2^10, -24)

FromSingle(b) ==
  FromFields(b[1] >= 128, 2 * (b[1] % 128) + b[2] \div 128, 255,
             65536 * (b[2] % 128) + 256 * b[3] + b[4], 2^23, -149)

(* A number of n bytes after the tag.                                      *)
NumberAfter(kind, v, current_idx, n) ==
  LET b == get_from_vector(v, current_idx, n)
      j == CASE kind = "unsigned" -> Unsigned(b)
             [] kind = "signed"   -> Signed(b)
             [] kind = "negative" -> Value("number_integer", MinusOneMinus(Extended(b, 0)))
             [] kind = "float"    -> Value("number_float", CASE n = 2 -> FromHalf(b)
                                                             [] n = 4 -> FromSingle(b)
                                                             [] n = 8 -> b)
  IN IF CanGet(v, current_idx, n) THEN Read(j, current_idx + 1 + n)
     ELSE Throw("out_of_range", current_idx)

StringAt(v, offset, len) ==
  IF check_length(Len(v), len, offset) THEN Read(String(SubSeq(v, offset + 1, offset + len)), offset + len)
  ELSE Throw("out_of_range", offset)

(* A length that is not known before the break byte, 0xff.                 *)
Indefinite == -1

(* Whether the loop over the items of a container ends before the byte at  *)
(* idx; v.at() may throw.                                                  *)
Ends(v, idx, left) == left = 0 \/ (left = Indefinite /\ idx < Len(v) /\ v[idx + 1] = 255)

AfterEnd(idx, left) == IF left = Indefinite THEN idx + 1 ELSE idx

OneLess(left) == IF left = Indefinite THEN left ELSE left - 1

RECURSIVE from_internal(_, _, _), Elements(_, _, _, _, _), Entries(_, _, _, _, _), Chunks(_, _, _)

Elements(format, v, idx, left, result) ==
  LET element == from_internal(format, v, idx)
  IN IF Ends(v, idx, left) THEN Read(result, AfterEnd(idx, left))
     ELSE IF Failed(element.value) THEN element
     ELSE Elements(format, v, element.idx, OneLess(left), push_back(result, element.value))

Entries(format, v, idx, left, result) ==
  LET key     == from_internal(format, v, idx)
      element == from_internal(format, v, key.idx)
  IN IF Ends(v, idx, left) THEN Read(result, AfterEnd(idx, left))
     ELSE IF Failed(key.value) THEN key
     ELSE IF key.value.type # "string" THEN Throw("domain_error", key.idx)
     ELSE IF Failed(element.value) THEN element
     ELSE Entries(format, v, element.idx, OneLess(left),
                  WithSubscript(result, key.value.value, element.value))

Chunks(v, idx, result) ==
  LET s == from_internal("cbor", v, idx)
  IN IF Ends(v, idx, Indefinite) THEN Read(String(result), idx + 1)
     ELSE IF Failed(s.value) THEN s
     ELSE IF s.value.type # "string" THEN Throw("domain_error", s.idx)
     ELSE Chunks(v, s.idx, result \o s.value.value)

(* What follows the length of a string, array or object.                   *)
Content(format, type, v, idx, len) ==
  CASE type = "string" -> StringAt(v, idx, len)
    [] type = "array"  -> Elements(format, v, idx, len, OfType("array"))
    [] type = "object" -> Entries(format, v, idx, len, OfType("object"))

ContentAfter(format, type, v, current_idx, n) ==
  IF CanGet(v, current_idx, n)
  THEN Content(format, type, v, current_idx + 1 + n, LengthIn(get_from_vector(v, current_idx, n)))
  ELSE Throw("out_of_range", current_idx)

msgpack_fixed(v, current_idx, byte) ==
  CASE byte \in 0 .. 127   -> Read(Unsigned(<<byte>>), current_idx + 1)
    [] byte \in 128 .. 143 -> Content("msgpack", "object", v, current_idx + 1, byte % 16)
    [] byte \in 144 .. 159 -> Content("msgpack", "array", v, current_idx + 1, byte % 16)
    [] byte \in 160 .. 191 -> Content("msgpack", "string", v, current_idx + 1, byte % 32)
    [] byte \in 224 .. 255 -> Read(Signed(<<byte>>), current_idx + 1)

msgpack_number_after(v, current_idx, byte) ==
  CASE byte \in {202, 203}   -> NumberAfter("float", v, current_idx, IF byte = 202 THEN 4 ELSE 8)
    [] byte \in 204 .. 207   -> NumberAfter("unsigned", v, current_idx, 2^(byte - 204))
    [] byte \in 208 .. 211   -> NumberAfter("signed", v, current_idx, 2^(byte - 208))

msgpack_content_after(v, current_idx, byte) ==
  CASE byte \in 217 .. 219 -> ContentAfter("msgpack", "string", v, current_idx, 2^(byte - 217))
    [] byte \in 220 .. 221 -> ContentAfter("msgpack", "array", v, current_idx, 2^(byte - 219))
    [] byte \in 222 .. 223 -> ContentAfter("msgpack", "object", v, current_idx, 2^(byte - 221))

from_msgpack_internal(v, idx) ==
  LET byte == v[idx + 1]
  IN IF ~ check_length(Len(v), 1, idx) THEN Throw("out_of_range", idx)
     ELSE CASE byte <= 191 \/ byte >= 224 -> msgpack_fixed(v, idx, byte)
            [] byte = 192                 -> Read(Null, idx + 1)
            [] byte \in {194, 195}        -> Read(Boolean(byte = 195), idx + 1)
            [] byte \in 202 .. 211        -> msgpack_number_after(v, idx, byte)
            [] byte \in 217 .. 223        -> msgpack_content_after(v, idx, byte)
            [] OTHER                      -> Throw("invalid_argument", idx)

(* The integers of CBOR, the negative ones as -1 - n.                      *)
cbor_integer(v, current_idx, byte) ==
  CASE byte \in 0 .. 23  -> Read(Unsigned(<<byte>>), current_idx + 1)
    [] byte \in 24 .. 27 -> NumberAfter("unsigned", v, current_idx, 2^(byte - 24))
    [] byte \in 32 .. 55 ->
         Read(Value("number_integer", MinusOneMinus(Extended(<<byte - 32>>, 0))), current_idx + 1)
    [] byte \in 56 .. 59 -> NumberAfter("negative", v, current_idx, 2^(byte - 56))
    [] OTHER             -> Throw("invalid_argument", current_idx)

cbor_string(v, current_idx, byte) ==
  CASE byte \in 96 .. 119  -> Content("cbor", "string", v, current_idx + 1, byte - 96)
    [] byte \in 120 .. 123 -> ContentAfter("cbor", "string", v, current_idx, 2^(byte - 120))
    [] byte = 127          -> Chunks(v, current_idx + 1, <<>>)
    [] OTHER               -> Throw("invalid_argument", current_idx)

cbor_array(v, current_idx, byte) ==
  CASE byte \in 128 .. 151 -> Content("cbor", "array", v, current_idx + 1, byte - 128)
    [] byte \in 152 .. 155 -> ContentAfter("cbor", "array", v, current_idx, 2^(byte - 152))
    [] byte = 159          -> Content("cbor", "array", v, current_idx + 1, Indefinite)
    [] OTHER               -> Throw("invalid_argument", current_idx)

cbor_map(v, current_idx, byte) ==
  CASE byte \in 160 .. 183 -> Content("cbor", "object", v, current_idx + 1, byte - 160)
    [] byte \in 184 .. 187 -> ContentAfter("cbor", "object", v, current_idx, 2^(byte - 184))
    [] byte = 191          -> Content("cbor", "object", v, current_idx + 1, Indefinite)
    [] OTHER               -> Throw("invalid_argument", current_idx)

cbor_simple(v, current_idx, byte) ==
  CASE byte \in {244, 245} -> Read(Boolean(byte = 245), current_idx + 1)
    [] byte = 246          -> Read(Null, current_idx + 1)
    [] byte \in 249 .. 251 -> NumberAfter("float", v, current_idx, 2^(byte - 248))
    [] OTHER               -> Throw("invalid_argument", current_idx)

from_cbor_internal(v, idx) ==
  LET byte == v[idx + 1]
  IN IF idx >= Len(v) THEN Throw("out_of_range", idx)
     ELSE CASE byte \in 0 .. 95    -> cbor_integer(v, idx, byte)
            [] byte \in 96 .. 127  -> cbor_string(v, idx, byte)
            [] byte \in 128 .. 159 -> cbor_array(v, idx, byte)
            [] byte \in 160 .. 191 -> cbor_map(v, idx, byte)
            [] byte \in 192 .. 255 -> cbor_simple(v, idx, byte)

from_internal(format, v, idx) ==
  IF format = "msgpack" THEN from_msgpack_internal(v, idx) ELSE from_cbor_internal(v, idx)

to_bytes(format, j) == to_internal(format, j)

from_bytes(format, v, start_index) == from_internal(format, v, start_index).value

=============================================================================
