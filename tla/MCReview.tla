------------------------------ MODULE MCReview ------------------------------
(***************************************************************************)
(* A small instance of Review: three rules, two failure codes with two     *)
(* severities of one and two wordings of the other, two contexts, and      *)
(* inputs, proposals and opinions that fit one of them or are off in one   *)
(* place.                                                                  *)
(***************************************************************************)
EXTENDS Review

CONSTANTS c1, c2, bounded, run, task, r1, r2, p1, p2, p3, claim, words,
          others, metrics, sources, elsewhere

MCRuleSeverity == <<3, 4, 4>>
MCCodeOrder == [AMBIGUOUS_PRECEDENCE |-> 1, HASH_MISMATCH |-> 2]

Fault(code, severity, message) ==
  [code |-> code, severity |-> severity, run |-> run, related |-> run,
   message |-> message]
Ambiguity == Fault("AMBIGUOUS_PRECEDENCE", 3, words)
Severe == Fault("AMBIGUOUS_PRECEDENCE", 4, words)
Mismatch == Fault("HASH_MISMATCH", 3, words)
Reworded == Fault("HASH_MISMATCH", 3, others)
MCFailures == {{}, {Ambiguity}, {Mismatch}, {Reworded}, {Ambiguity, Mismatch},
               {Ambiguity, Severe}, {Mismatch, Reworded}}

MCContext == {[id |-> c1, package |-> bounded, run |-> run, task |-> task,
               sources |-> sources, refs |-> {r1, r2}],
              [id |-> c2, package |-> bounded, run |-> run, task |-> task,
               sources |-> sources, refs |-> {r1}]}

Input(t, c, s) == [task |-> t, context |-> c, sources |-> s]
MCInputs == {Input(task, c1, sources), Input(task, c2, sources),
             Input(elsewhere, c1, sources), Input(task, c2, elsewhere)}

ProposalOf(id, c, refs) ==
  [id |-> id, context |-> c, run |-> run, task |-> task, refs |-> refs,
   claims |-> {claim}]
MCProposal == {ProposalOf(p1, c1, {r1, r2}), ProposalOf(p2, c2, {r1, r2}),
               ProposalOf(p3, c2, {r1})}

PassOn(input) == [input |-> input, failure |-> None, reason |-> "CHECK_PASS"]
Objection(f) ==
  [input |-> metrics, failure |-> FailureIdentity(f), reason |-> f.code]
Passing(c) == <<PassOn(metrics), PassOn(metrics), PassOn(c)>>
MCCheckSet ==
  {Passing(c1), Passing(c2),
   <<PassOn(metrics), PassOn(metrics)>>,
   [Passing(metrics) EXCEPT ![2] = Objection(Ambiguity)],
   [Passing(metrics) EXCEPT ![1] = Objection(Mismatch)],
   [Passing(metrics) EXCEPT ![1] = Objection(Mismatch), ![2] = Objection(Ambiguity)],
   [Passing(metrics) EXCEPT ![2] = Objection(Severe), ![3] = Objection(Ambiguity)],
   [Passing(metrics) EXCEPT ![1] = [Objection(Mismatch) EXCEPT !.reason = "AMBIGUOUS_PRECEDENCE"]]}

Said(result, codes, F, refs) ==
  [result |-> result, codes |-> codes, details |-> {Detail(f) : f \in F},
   refs |-> refs, unsupported |-> {}, findings |-> FALSE]
Fine == Said("PASS_FOR_REVIEW", <<>>, {}, {r1, r2})
Both == Said("DENY", <<"AMBIGUOUS_PRECEDENCE", "HASH_MISMATCH">>, {Ambiguity, Mismatch}, {r1})
MCOpinion ==
  {Fine, [Fine EXCEPT !.refs = {r1}], [Fine EXCEPT !.findings = TRUE],
   [Fine EXCEPT !.unsupported = {claim}], [Fine EXCEPT !.result = "DENY"],
   Said("ESCALATE", <<"AMBIGUOUS_PRECEDENCE">>, {Ambiguity}, {r1}),
   Said("DENY", <<"HASH_MISMATCH">>, {Mismatch}, {}),
   Said("DENY", <<"HASH_MISMATCH">>, {Reworded}, {}),
   Both, [Both EXCEPT !.codes = <<"HASH_MISMATCH", "AMBIGUOUS_PRECEDENCE">>],
   [Both EXCEPT !.result = "ESCALATE"],
   Said("ESCALATE", <<"AMBIGUOUS_PRECEDENCE">>, {Ambiguity, Severe}, {r1})}
=============================================================================
