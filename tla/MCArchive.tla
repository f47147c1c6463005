------------------------------- MODULE MCArchive --------------------------------
EXTENDS Archive
LOCAL INSTANCE SequencesExt

(* The numbers on both sides of every width, 2^63 and 2^64 - 1, signed,    *)
(* unsigned and negative.                                                  *)
Boundary == <<<<0>>, <<23>>, <<24>>, <<31>>, <<32>>, <<127>>, <<128>>, <<255>>, <<1, 0>>, <<127, 255>>, <<128, 0>>,
              <<255, 255>>, <<1, 0, 0>>, <<127, 255, 255, 255>>, <<128, 0, 0, 0>>,
              <<255, 255, 255, 255>>, <<1, 0, 0, 0, 0>>, <<127, 255, 255, 255, 255, 255, 255, 255>>>>
Beyond   == <<<<128, 0, 0, 0, 0, 0, 0, 0>>, <<255, 255, 255, 255, 255, 255, 255, 255>>>>

NonNegative(b) == Value("number_integer", Extended(b, 0))
Minus1Minus(b) == Value("number_integer", MinusOneMinus(Extended(b, 0)))
Each(F(_), s)  == [i \in DOMAIN s |-> F(s[i])]

Text(n)   == String([i \in 1 .. n |-> i % 256])
Nulls(n)  == Array([i \in 1 .. n |-> Null])
Keyed(n)  == Object([k \in {<<i, 255>> : i \in 1 .. n} |-> Unsigned(<<k[1]>>)])
OnePointFive == Value("number_float", <<63, 248, 0, 0, 0, 0, 0, 0>>)

MCDocuments ==
  Each(Unsigned, Boundary \o Beyond) \o Each(NonNegative, Boundary) \o Each(Minus1Minus, Boundary)
  \o Each(Text, <<0, 23, 24, 31, 32, 255, 256, 65535, 65536>>)
  \o Each(Nulls, <<0, 15, 16, 23, 24>>) \o Each(Keyed, <<0, 15, 16, 23, 24>>)
  \o <<Null, Boolean(TRUE), Boolean(FALSE), OnePointFive,
       Array(<<Object([k \in {<<>>, <<255>>, <<97, 98>>} |->
                  IF k = <<>> THEN Array(<<Boolean(TRUE), OnePointFive>>) ELSE Minus1Minus(k)]),
               String(<<246>>), Array(<<Array(<<Null>>)>>)>>)>>

Sent(format, bytes, doc) == [format |-> format, bytes |-> bytes, doc |-> doc]
One == Unsigned(<<1>>)
MinusTwo == Minus1Minus(<<1>>)
A == String(<<97>>)
AOne == Object([k \in {<<97>>} |-> One])
Double(b) == Value("number_float", b \o <<0, 0, 0, 0>>)

(* Lengths and numbers in more bytes than they need, containers and        *)
(* strings of indefinite length, shorter floating-point numbers, a key     *)
(* twice, a key that is no string, a break and tags that are not read.     *)
MCForeign == <<
  Sent("msgpack", <<205, 0, 1>>, One), Sent("msgpack", <<207, 0, 0, 0, 0, 0, 0, 0, 1>>, One),
  Sent("msgpack", <<209, 255, 254>>, MinusTwo), Sent("msgpack", <<210, 255, 255, 255, 254>>, MinusTwo),
  Sent("msgpack", <<217, 1, 97>>, A), Sent("msgpack", <<218, 0, 1, 97>>, A),
  Sent("msgpack", <<219, 0, 0, 0, 1, 97>>, A),
  Sent("msgpack", <<220, 0, 1, 192>>, Nulls(1)), Sent("msgpack", <<221, 0, 0, 0, 1, 192>>, Nulls(1)),
  Sent("msgpack", <<222, 0, 1, 161, 97, 1>>, AOne), Sent("msgpack", <<223, 0, 0, 0, 1, 161, 97, 1>>, AOne),
  Sent("msgpack", <<130, 161, 97, 192, 161, 97, 1>>, AOne),
  Sent("msgpack", <<202, 63, 192, 0, 0>>, OnePointFive),
  Sent("msgpack", <<202, 192, 73, 15, 219>>, Value("number_float", <<192, 9, 33, 251, 96, 0, 0, 0>>)),
  Sent("msgpack", <<129, 1, 1>>, NoString),
  Sent("msgpack", <<193>>, Invalid), Sent("msgpack", <<212, 1, 2>>, Invalid),
  Sent("cbor", <<24, 1>>, One), Sent("cbor", <<26, 0, 0, 0, 1>>, One),
  Sent("cbor", <<57, 0, 1>>, MinusTwo), Sent("cbor", <<59, 0, 0, 0, 0, 0, 0, 0, 1>>, MinusTwo),
  Sent("cbor", <<121, 0, 1, 97>>, A), Sent("cbor", <<122, 0, 0, 0, 1, 97>>, A),
  Sent("cbor", <<123, 0, 0, 0, 0, 0, 0, 0, 1, 97>>, A),
  Sent("cbor", <<127, 255>>, String(<<>>)), Sent("cbor", <<127, 97, 97, 127, 97, 255, 255, 255>>, String(<<97, 255>>)),
  Sent("cbor", <<127, 97, 97, 120, 1, 255, 255>>, String(<<97, 255>>)), Sent("cbor", <<127, 1, 255>>, NoString),
  Sent("cbor", <<152, 1, 246>>, Nulls(1)), Sent("cbor", <<153, 0, 1, 246>>, Nulls(1)),
  Sent("cbor", <<155, 0, 0, 0, 0, 0, 0, 0, 1, 246>>, Nulls(1)), Sent("cbor", <<154, 0, 0, 0, 1, 246>>, Nulls(1)),
  Sent("cbor", <<159, 246, 246, 255>>, Nulls(2)), Sent("cbor", <<159, 159, 255, 255>>, Array(<<Nulls(0)>>)),
  Sent("cbor", <<187, 0, 0, 0, 0, 0, 0, 0, 1, 97, 97, 1>>, AOne), Sent("cbor", <<186, 0, 0, 0, 1, 97, 97, 1>>, AOne),
  Sent("cbor", <<185, 0, 1, 97, 97, 1>>, AOne), Sent("cbor", <<191, 97, 97, 246, 97, 97, 1, 255>>, AOne),
  Sent("cbor", <<161, 1, 1>>, NoString),
  Sent("cbor", <<249, 62, 0>>, OnePointFive), Sent("cbor", <<249, 128, 3>>, Double(<<190, 136, 0, 0>>)),
  Sent("cbor", <<249, 124, 0>>, Double(<<127, 240, 0, 0>>)), Sent("cbor", <<249, 128, 0>>, Double(<<128, 0, 0, 0>>)),
  Sent("cbor", <<250, 63, 192, 0, 0>>, OnePointFive),
  Sent("cbor", <<28>>, Invalid), Sent("cbor", <<129, 255>>, Invalid),
  Sent("cbor", <<192, 97, 97>>, Invalid), Sent("cbor", <<124, 97>>, Invalid),
  Sent("cbor", <<156>>, Invalid), Sent("cbor", <<188>>, Invalid)
>>

=============================================================================
