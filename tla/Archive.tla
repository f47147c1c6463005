-------------------------------- MODULE Archive ---------------------------------
(***************************************************************************)
(* A vector of bytes that holds documents in MessagePack and CBOR, one     *)
(* after the other: some written by json.hpp and some by other programs.   *)
(* The end of the vector may be lost.  A document is read from the index   *)
(* at which it begins.                                                     *)
(***************************************************************************)
EXTENDS Binary

(* What is no document of its format.  The comments promise                *)
(* invalid_argument for all of it: "if unsupported features ... were used  *)
(* ... or if the input is not valid" (json.hpp:7204, 7442, 7958, 8021).    *)
(* A key, or a chunk of a text, that is no string is not valid either, but *)
(* what refuses it is the conversion to std::string, by domain_error       *)
(* (json.hpp:649), which no comment mentions.                              *)
Invalid  == Value("invalid_argument", <<>>)
NoString == Value("invalid_argument", <<"no string">>)

CONSTANTS
  Documents,   \* what is written here, as a sequence of values
  Foreign,     \* what others write: a sequence of [format, bytes, doc]
  MaxParts,    \* bound: documents in the vector
  MaxBytes,    \* bound: bytes in a vector of more than one document
  MaxLost      \* bound: bytes that are lost

ASSUME ArchiveAssumption ==
  /\ DOMAIN Documents = 1 .. Len(Documents)
  /\ DOMAIN Foreign = 1 .. Len(Foreign)
  /\ MaxParts \in Nat /\ MaxBytes \in Nat /\ MaxLost \in Nat

Format == {"msgpack", "cbor"}

VARIABLES
  v,       \* the vector
  parts,   \* the documents in it: format, the indices it begins and ends at, value
  lost,    \* whether the end of the vector is lost
  got      \* what was read last, and from which part; part 0: nothing

vars == <<v, parts, lost, got>>

Nothing == [part |-> 0, value |-> Null]

Init == v = <<>> /\ parts = <<>> /\ lost = FALSE /\ got = Nothing

Append1(format, bytes, doc) ==
  /\ ~ lost
  /\ Len(parts) < MaxParts
  /\ parts = <<>> \/ Len(v) + Len(bytes) <= MaxBytes
  /\ v' = v \o bytes
  /\ parts' = Append(parts, [format |-> format, from |-> Len(v), to |-> Len(v) + Len(bytes), doc |-> doc])
  /\ got' = Nothing
  /\ UNCHANGED lost

(* to_msgpack() and to_cbor().                                             *)
Write(format) ==
  \E i \in DOMAIN Documents : Append1(format, to_bytes(format, Documents[i]), Documents[i])

Receive ==
  \E i \in DOMAIN Foreign : Append1(Foreign[i].format, Foreign[i].bytes, Foreign[i].doc)

Lose ==
  /\ ~ lost
  /\ \E n \in 1 .. MaxLost : n <= Len(v) /\ v' = SubSeq(v, 1, Len(v) - n)
  /\ lost' = TRUE
  /\ got' = Nothing
  /\ UNCHANGED parts

(* from_msgpack() and from_cbor().                                         *)
ReadPart ==
  /\ \E k \in DOMAIN parts :
       got' = [part |-> k, value |-> from_bytes(parts[k].format, v, parts[k].from)]
  /\ UNCHANGED <<v, parts, lost>>

Next == (\E format \in Format : Write(format)) \/ Receive \/ Lose \/ ReadPart

Spec == Init /\ [][Next]_vars

-----------------------------------------------------------------------------
(* A document is read as it was written, wherever in the vector it is and  *)
(* whatever comes after it, or out_of_range is thrown if the end of it is  *)
(* lost.  What is no document is refused by invalid_argument, as the       *)
(* comments say, but for a key or a chunk that is no string, for which     *)
(* they are wrong: that is domain_error.  If its end is lost, either       *)
(* reason may come first.                                                  *)
ReadsWhatWasWritten ==
  got.part # 0 =>
    LET part    == parts[got.part]
        whole   == part.to <= Len(v)
        refusal == IF part.doc = NoString THEN "domain_error" ELSE "invalid_argument"
    IN IF Failed(part.doc)
       THEN got.value.type = refusal \/ (~ whole /\ got.value.type = "out_of_range")
       ELSE IF whole THEN Equal(got.value, part.doc) ELSE got.value.type = "out_of_range"

=============================================================================
