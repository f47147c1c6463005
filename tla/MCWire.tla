--------------------------------- MODULE MCWire ---------------------------------
(* A small instance of Wire for TLC.  The traveller's host is any text of one  *)
(* or two symbols, or of three with a colon, out of those that a conversion    *)
(* treats in a way of its own, or one that is read back with a negative port.  *)
EXTENDS Wire

HostSymbol == {"n", "1", ":", "-", "\"", "\\", "LF", "SOH", "xA9", "xC3"}

MCHost ==
  {<<a>> : a \in HostSymbol} \cup {<<a, b>> : a, b \in HostSymbol}
    \cup {<<":", a, b>> : a, b \in HostSymbol} \cup {<<a, ":", b>> : a \in {"n", "xC3"}, b \in HostSymbol}
    \cup {<<"n", ":", "-", "1">>}

MCPlain == [p \in {0, 2, 3} |-> Address(<<<<"k">>, <<>>, <<"l">>, <<"m">>>>[p + 1], p + 4)]

MCTravelling == {Address(h, p) : h \in MCHost, p \in {0, 7, 12}}

MCNode == {MCPlain[p] : p \in {0, 2, 3}} \cup MCTravelling

=============================================================================
