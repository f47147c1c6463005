---------------------------------- MODULE Text ----------------------------------
(***************************************************************************)
(* Text as the program's conversions see it: a sequence of symbols.  A     *)
(* symbol is a character that some conversion treats in a way of its own,  *)
(* a letter, or a whole word that is a key or a literal of a message.      *)
(* "SOH" stands for the control characters without a short JSON escape,    *)
(* "LF" for those with one (and for white space).  "xC3" is a byte that    *)
(* begins a character of two bytes in UTF-8, and "xA9" one that ends it.   *)
(***************************************************************************)
EXTENDS Integers, Sequences, FiniteSets

CONSTANT WORD   \* 2^w: an unsigned counts modulo WORD

ASSUME WordAssumption == WORD \in Nat \ {0} /\ WORD % 2 = 0

INT_MAX == WORD \div 2 - 1

(* The symbols by their byte values: the order of std::string.             *)
Order == <<"SOH", "LF", "\"", ",", "-", "/", "0", "1", "2", "3", "4", "5", "6", "7", "8", "9", ":",
           "\\", "add", "copy", "error", "false", "from", "host", "k", "l", "m",
           "move", "n", "nodes", "null", "op", "path", "port", "register_node",
           "remove", "replace", "test", "true", "u", "value", "{", "}", "~",
           "xA9", "xC3">>

Symbol == {Order[i] : i \in 1 .. Len(Order)}

Rank == [c \in Symbol |-> CHOOSE i \in 1 .. Len(Order) : Order[i] = c]

LessText(s, t) ==
  \E n \in 0 .. Len(s) :
    /\ n < Len(t)
    /\ \A i \in 1 .. n : s[i] = t[i]
    /\ n < Len(s) => Rank[s[n + 1]] < Rank[t[n + 1]]

FirstText(S) == CHOOSE s \in S : \A t \in S \ {s} : LessText(s, t)

(* Where the set of positions S of a text begins, or 0.                    *)
FirstAt(S) == IF S = {} THEN 0 ELSE CHOOSE i \in S : \A j \in S : i <= j

(* Every first byte of a character is followed by a last one, and the last *)
(* ones have no other place.                                               *)
UTF8(s) ==
  /\ \A i \in 1 .. Len(s) : s[i] = "xC3" => i < Len(s) /\ s[i + 1] = "xA9"
  /\ \A i \in 1 .. Len(s) : s[i] = "xA9" => i > 1 /\ s[i - 1] = "xC3"

Occurs(c, s) == \E i \in 1 .. Len(s) : s[i] = c

-----------------------------------------------------------------------------
DigitOf == [d \in 0 .. 9 |-> Order[d + 7]]

Digit == {DigitOf[d] : d \in 0 .. 9}

ValueOf(c) == Rank[c] - 7

(* std::to_string of an unsigned.                                          *)
RECURSIVE Decimal(_)
Decimal(n) ==
  IF n < 10 THEN <<DigitOf[n]>> ELSE Decimal(n \div 10) \o <<DigitOf[n % 10]>>

(* The value of the digits that a text begins with.                        *)
RECURSIVE Leading(_, _)
Leading(s, n) ==
  IF s = <<>> \/ s[1] \notin Digit THEN n ELSE Leading(Tail(s), 10 * n + ValueOf(s[1]))

(* std::stoi: white space, a sign, digits, and whatever follows them.      *)
RECURSIVE Stoi(_)
Stoi(s) ==
  LET negative == s # <<>> /\ s[1] = "-"
      digits   == IF negative THEN Tail(s) ELSE s
      value    == Leading(digits, 0)
  IN CASE s # <<>> /\ s[1] = "LF"                    -> Stoi(Tail(s))
       [] digits = <<>> \/ digits[1] \notin Digit   -> [throws |-> "invalid_argument", value |-> 0]
       [] value > INT_MAX + (IF negative THEN 1 ELSE 0) -> [throws |-> "out_of_range", value |-> 0]
       [] OTHER -> [throws |-> "none", value |-> IF negative THEN -value ELSE value]

=============================================================================
