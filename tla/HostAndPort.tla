------------------------------ MODULE HostAndPort ------------------------------
(***************************************************************************)
(* utils::HostAndPort: an address, and its form as text, in which a list   *)
(* of nodes travels.                                                       *)
(***************************************************************************)
EXTENDS Text

Address(host, port) == [host |-> host, port |-> port]

NoAddress == Address(<<>>, 0)

ToString(a) == a.host \o <<":">> \o Decimal(a.port)

(* std::string::find, cut to an unsigned: npos is cut to WORD - 1.         *)
ColonIdx(s) ==
  LET at == FirstAt({i \in 1 .. Len(s) : s[i] = ":"})
  IN IF at = 0 THEN WORD - 1 ELSE (at - 1) % WORD

(* Mutants: the host keeps the colon; the port is looked for from the      *)
(* colon on.                                                               *)
MutFromStringColonInHost(s) ==
  LET colon_idx == ColonIdx(s)
      port      == Stoi(SubSeq(s, colon_idx + 2, Len(s)))
  IN [throws  |-> port.throws,
      address |-> Address(SubSeq(s, 1, colon_idx + 1), port.value % WORD)]

MutFromStringFromColon(s) ==
  LET colon_idx == ColonIdx(s)
      port      == Stoi(SubSeq(s, colon_idx + 1, Len(s)))
  IN [throws  |-> port.throws,
      address |-> Address(SubSeq(s, 1, colon_idx), port.value % WORD)]

(* The port is what follows the first colon, an int that is stored in an   *)
(* unsigned; without a colon, colon_idx + 1 is 0 and the port is looked    *)
(* for at the start of the text.                                           *)
FromString(s) ==
  LET colon_idx == ColonIdx(s)
      after     == (colon_idx + 1) % WORD
      port      == Stoi(SubSeq(s, after + 1, Len(s)))
      end       == IF colon_idx < Len(s) THEN colon_idx ELSE Len(s)
  IN [throws  |-> port.throws,
      address |-> Address(SubSeq(s, 1, end), port.value % WORD)]

=============================================================================
