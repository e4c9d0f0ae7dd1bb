--------------------------- MODULE MCCommandLine ---------------------------
(***************************************************************************)
(* Three calls: a publication, its retry or rival, and one more.  The      *)
(* requests collide in every way: the same records at the same places,     *)
(* other records there, the places exchanged, one place shared, one place  *)
(* for both records.  Each of the others is wrong in one place, or         *)
(* publishes nothing.                                                      *)
(***************************************************************************)
EXTENDS CommandLine, TLC

MCIdentityOf == [x \in Manifest \cup Final |-> x]
MCCites == [f1 |-> "m1", f2 |-> "m2"]

Publication(command, m, f, a, b) ==
  [command |-> command, operation |-> Operation[command], size |-> 1,
   json |-> "exact", fields |-> TRUE, packageValid |-> TRUE,
   response |-> [canonical |-> TRUE, size |-> 1],
   manifest |-> m, final |-> f, manifestAt |-> a, finalAt |-> b]

Good == Publication("resume", "m1", "f1", "a", "b")

Preparation(command) ==
  [command |-> command, operation |-> Operation[command], size |-> 1,
   json |-> "exact", fields |-> TRUE]

MCRequest ==
  {Good,
   Publication("offline", "m2", "f2", "a", "b"),
   Publication("resume", "m2", "f2", "b", "a"),
   [Publication("resume", "m1", "f1", "c", "b") EXCEPT !.json = "inexact"],
   Publication("offline", "m1", "f1", "c", "c"),
   [Good EXCEPT !.size = InputLimit + 1],
   [Good EXCEPT !.operation = Operation.offline],
   [Good EXCEPT !.fields = FALSE],
   [Good EXCEPT !.packageValid = FALSE],
   [Good EXCEPT !.response.canonical = FALSE],
   [Good EXCEPT !.response.size = ResponseLimit + 1],
   Preparation("prepare"),
   [Preparation("prepare") EXCEPT !.json = "inexact"],
   [Preparation("local_prepare") EXCEPT !.json = "inexact"],
   [command |-> "send"]}

Symmetric == Permutations(Call)
=============================================================================
