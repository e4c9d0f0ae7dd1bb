---------------------------- MODULE MCController ----------------------------
(***************************************************************************)
(* A small instance of Controller: calls that run the dependencies and     *)
(* publish, do either or neither, calls each of which one check alone      *)
(* refuses, and calls whose caller declares the results of an earlier run  *)
(* as dependencies, running them or not.                                   *)
(***************************************************************************)
EXTENDS Controller, TLC

CONSTANTS p, q, task, frozen, c1, c2, x, y

Symmetry == Permutations(Call) \cup Permutations(Content)

All == {"task", "normalization", "source_set", "budget", "estimate"}
Full == [transition |-> "HOLD", root |-> TRUE, place |-> p,
         counters |-> {"source_reads"}, supplied |-> All, declared |-> task,
         dependencies |-> {frozen}, artifacts |-> {}]

OldMr03(v) == [by |-> "mr03", capture |-> v, read |-> v]
OldMr04(v) == [by |-> "mr04", upstream |-> OldMr03(v), read |-> v]
OldResults == {OldMr03(v) : v \in Content} \cup {OldMr04(v) : v \in Content}

MCRequest ==
  {Full, [Full EXCEPT !.place = q], [Full EXCEPT !.supplied = {}],
   [Full EXCEPT !.root = FALSE, !.place = None],
   [Full EXCEPT !.transition = "PROGRESS"],
   [Full EXCEPT !.transition = "FAIL_CLOSED"],
   [Full EXCEPT !.root = FALSE], [Full EXCEPT !.place = None],
   [Full EXCEPT !.supplied = All \ {"task"}],
   [Full EXCEPT !.counters = {"model_call"}],
   [Full EXCEPT !.supplied = {}, !.counters = {"mr03_execution"}],
   [Full EXCEPT !.dependencies = {}],
   [Full EXCEPT !.dependencies = OldResults],
   [Full EXCEPT !.dependencies = OldResults, !.supplied = {}]}

=============================================================================
