-------------------------------- MODULE Document --------------------------------
(***************************************************************************)
(* A program that keeps a document of json.hpp: it edits the document with *)
(* patches of any origin and, from wherever that has led, brings it to     *)
(* another document by the patch that diff() makes.  patch() works on a    *)
(* copy, one operation after the other.                                    *)
(***************************************************************************)
EXTENDS Patch

CONSTANTS
  Documents,   \* the documents to begin with and to come to, as a sequence
  Patches,     \* the patches that edit, JSON values, as a sequence
  MaxEdits     \* bound: edits of one behaviour

ASSUME DocumentAssumption ==
  /\ DOMAIN Documents = 1 .. Len(Documents)
  /\ DOMAIN Patches = 1 .. Len(Patches)
  /\ MaxEdits \in Nat

VARIABLES
  doc,       \* the program's document
  other,     \* the document that diff() is given as its target
  call,      \* "none", or what patch() runs for: "edit" or "diff"
  patch,     \* the operations of the patch
  next,      \* the operation that is next
  result,    \* patch()'s working copy
  outcome,   \* how the last call ended: what it ran for, "returned" or what it threw
  edits      \* how many edits there were

vars == <<doc, other, call, patch, next, result, outcome, edits>>

Init ==
  /\ \E i, j \in DOMAIN Documents : doc = Documents[i] /\ other = Documents[j]
  /\ call = "none"
  /\ patch = <<>>
  /\ next = 1
  /\ result = doc
  /\ outcome = [call |-> "none", how |-> "returned"]
  /\ edits = 0

(* patch() up to its loop.                                                 *)
Begin(purpose, json_patch) ==
  /\ call = "none"
  /\ outcome.how # "assertion"
  /\ result' = doc
  /\ next' = 1
  /\ IF json_patch.type = "array"
     THEN /\ call' = purpose
          /\ patch' = json_patch.value
          /\ outcome' = [call |-> "none", how |-> "returned"]
     ELSE /\ outcome' = [call |-> purpose, how |-> "invalid_argument"]
          /\ UNCHANGED <<call, patch>>
  /\ UNCHANGED <<doc, other>>

Edit ==
  /\ edits < MaxEdits
  /\ edits' = edits + 1
  /\ \E i \in DOMAIN Patches : Begin("edit", Patches[i])

GoToOther ==
  /\ Begin("diff", Array(diff(doc, other, <<>>)))
  /\ UNCHANGED edits

(* One round of the loop.                                                  *)
ApplyNext ==
  /\ call # "none"
  /\ next <= Len(patch)
  /\ \E leftFirst \in BOOLEAN :
       LET applied == Applied(result, patch[next], leftFirst)
       IN IF Failed(applied)
          THEN /\ outcome' = [call |-> call, how |-> applied.type]
               /\ call' = "none"
               /\ UNCHANGED <<result, next>>
          ELSE /\ result' = applied
               /\ next' = next + 1
               /\ UNCHANGED <<outcome, call>>
  /\ UNCHANGED <<doc, other, patch, edits>>

(* return result; the program takes it for its document.                   *)
Return ==
  /\ call # "none"
  /\ next > Len(patch)
  /\ doc' = result
  /\ outcome' = [call |-> call, how |-> "returned"]
  /\ call' = "none"
  /\ UNCHANGED <<other, patch, next, result, edits>>

Next == Edit \/ GoToOther \/ ApplyNext \/ Return

Spec == Init /\ [][Next]_vars

-----------------------------------------------------------------------------
(* source.patch(diff(source, target)) == target: wherever the edits have   *)
(* led, the operations of a diff, one after the other, each find what they *)
(* refer to and together make the target.                                  *)
DiffReaches ==
  outcome.call = "diff" => outcome.how = "returned" /\ Equal(doc, other)

RECURSIVE Holds(_, _)
(* A value within v, or v itself, is of the kind named.                    *)
Holds(v, kind) ==
  \/ kind = "empty" /\ ~ is_primitive(v) /\ size(v) = 0
  \/ kind = "0" /\ find(v, <<"0">>)
  \/ ~ is_primitive(v) /\ \E token \in ChildTokens(v) : Holds(Child(v, token), kind)

(* flatten() takes a document apart into pointers and values from which    *)
(* unflatten() makes the same document, whatever keys have to be escaped   *)
(* and in whatever order the pointers come, if it has no empty container   *)
(* and no key "0".                                                         *)
FlattenRestores ==
  ~ Holds(doc, "empty") /\ ~ Holds(doc, "0") => Equal(unflatten(flatten(doc)), doc)

=============================================================================
