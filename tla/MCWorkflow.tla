----------------------------- MODULE MCWorkflow ----------------------------
(***************************************************************************)
(* A small instance of Workflow: two run inputs, three contexts, and       *)
(* arguments that are those of a good call or deviate from one in one      *)
(* place, so that every check of the code is the only one to refuse some   *)
(* call.                                                                   *)
(***************************************************************************)
EXTENDS Workflow, TLC

CONSTANTS i1, i2, c1, c2, c3, r1, r2, q1, q2, amb, den, oth, sonnet, opus,
          acct, other, elsewhere, m1, m2

MCInput == {i1, i2}
MCContext == {c1, c2, c3}
MCInputOf == [x \in MCContext |-> IF x = c3 THEN i2 ELSE i1]
MCRefsOf == [x \in MCContext |-> IF x = c2 THEN {r1} ELSE {r1, r2}]
MCRule == {q1, q2}
MCFailure == {amb, den, oth}
MCFailureRun == [f \in MCFailure |-> IF f = oth THEN i2 ELSE i1]
MCMetricsOf == [x \in MCContext |-> IF x = c3 THEN m2 ELSE m1]
MCRelatedTo == [f \in MCFailure |-> CASE f = amb -> i1 [] f = den -> m1
                                      [] f = oth -> elsewhere]
MCAmbiguous == {amb}

Passing == [q \in MCRule |-> Pass]
Objecting(f) == [Passing EXCEPT ![q2] = f]

Symmetry == Permutations(Caller) \cup Permutations(Path)

(* prepare: an approval, and what differs from it. *)
Good == [run |-> [input |-> i1, state |-> "HUMAN_APPROVED"], context |-> c1,
         model |-> sonnet, account |-> acct, allowed |-> TRUE,
         checks |-> Passing, failures |-> {}]
InState(s) == [Good EXCEPT !.run.state = s]
On(checks, failures, s) ==
  [InState(s) EXCEPT !.checks = checks, !.failures = failures]
MCPrepareArg ==
  {Good, InState("FAILED"), InState("PROPOSED"),
   InState("VERIFIED_PASS_FOR_REVIEW"),
   [Good EXCEPT !.allowed = FALSE],
   [Good EXCEPT !.context = c3],
   [Good EXCEPT !.context = c2],
   [Good EXCEPT !.checks = [q \in {q1} |-> Pass]],
   [Good EXCEPT !.failures = {den}],
   On(Objecting(amb), {amb}, "HUMAN_APPROVED"),
   On(Objecting(amb), {amb}, "HUMAN_REWORK"),
   On(Objecting(den), {den}, "HUMAN_REJECTED"),
   On(Objecting(oth), {oth}, "HUMAN_REJECTED"),
   On(Objecting(den), {}, "HUMAN_REJECTED")}

(* Packages that mix those of two calls of prepare, and one that lost its  *)
(* failure records.                                                        *)
MCSupplied ==
  {[Package(On(Objecting(den), {den}, "HUMAN_REJECTED")) EXCEPT !.failures = {}],
   [Package(Good) EXCEPT !.request = Package([Good EXCEPT !.context = c2]).request],
   [Package(Good) EXCEPT !.authorization.request.model = opus],
   [Package(Good) EXCEPT !.run.input = i2]}

(* resume: a good answer to Good, and what differs from it. *)
Proposal == [request |-> Package(Good).request, input |-> i1, context |-> c1,
             task |-> i1, model |-> sonnet, refs |-> {r1, r2}]
Answer == [raw |-> Proposal, account |-> acct, model |-> sonnet, error |-> FALSE,
           result |-> "PASS_FOR_REVIEW", details |-> {}, refs |-> {r1, r2},
           findings |-> FALSE, gate |-> TRUE, decision |-> "APPROVE",
           failure |-> None, note |-> None]
Verdicts(result, details) ==
  [Answer EXCEPT !.result = result, !.details = details, !.decision = "REJECT"]
Silent(a) == [a EXCEPT !.gate = FALSE, !.decision = None]
MCResumeArg ==
  {Answer, Silent(Answer),
   [Answer EXCEPT !.raw = Garbage],
   [Answer EXCEPT !.raw.request.context = c2],
   [Answer EXCEPT !.raw.input = i2],
   [Answer EXCEPT !.raw.task = i2],
   [Answer EXCEPT !.raw.model = opus],
   [Answer EXCEPT !.raw.refs = {r1}],
   [Answer EXCEPT !.raw.refs = {r1}, !.refs = {r1}],
   [Answer EXCEPT !.refs = {r1}],
   [Answer EXCEPT !.account = other],
   [Answer EXCEPT !.model = opus],
   [Answer EXCEPT !.error = TRUE],
   [Answer EXCEPT !.findings = TRUE],
   [Answer EXCEPT !.details = {amb}],
   [Answer EXCEPT !.result = "DENY"],
   [Answer EXCEPT !.decision = "REJECT"],
   [Answer EXCEPT !.gate = FALSE],
   [Answer EXCEPT !.failure = den],
   [Silent(Answer) EXCEPT !.failure = den],
   [Silent(Answer) EXCEPT !.failure = amb],
   [Silent(Answer) EXCEPT !.failure = oth],
   [Verdicts("ESCALATE", {amb}) EXCEPT !.decision = "REQUEST_REWORK"],
   [Verdicts("ESCALATE", {amb}) EXCEPT !.decision = "APPROVE"],
   Verdicts("DENY", {den}), Verdicts("DENY", {oth}),
   [Answer EXCEPT !.raw.request.context = c2, !.raw.context = c2,
                  !.raw.refs = {r1}, !.refs = {r1}],
   [Answer EXCEPT !.raw.request.context = c2, !.raw.context = c2]}

=============================================================================
