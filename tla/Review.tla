------------------------------- MODULE Review -------------------------------
(***************************************************************************)
(* From the checks of the legacy verifier to a human's decision:           *)
(* verifier.py, human_gate.py, the failure records of failures.py, and     *)
(* the qualification of their records in evidence.py before final evidence *)
(* is built from them.                                                     *)
(*                                                                         *)
(* Checks, failures and opinions are the caller's, and so are the records  *)
(* that were built before: the code decides only what fits together.  The  *)
(* state is the records there are; any call may take any of them, and      *)
(* failure records are given anew to each call.                            *)
(*                                                                         *)
(* An identity is modelled as the value it is the SHA-256 of.  That of a   *)
(* failure leaves out its message, that of a verification does not leave   *)
(* out the explanations, which are such messages.                          *)
(***************************************************************************)
EXTENDS Naturals, Sequences, FiniteSets

CONSTANTS
  RuleSeverity,   \* the rules, numbered in the order of their identities,
                  \* with their severities
  CodeOrder,      \* the failure codes, with their lexical places
  Failures,       \* sets of failure records that callers supply
  Context,        \* cloud contexts
  Inputs,         \* the task, context and source set that results are built on
  Upstream,       \* the identities besides a context's that a check may be on
  Proposal,       \* admitted proposals
  CheckSet,       \* checks that callers supply: rules to outcomes
  Opinion,        \* public verifications that callers supply
  None,
  MaxResults,     \* bound: results of the verifier there are
  MaxRecords      \* bound: records there are

VARIABLES
  results,        \* results of the legacy verifier
  verifications,  \* public verifications that were adapted once
  gates,          \* human gates
  decisions,      \* human decisions
  concluded       \* what final evidence may be built from

vars == <<results, verifications, gates, decisions, concluded>>

Rule == DOMAIN RuleSeverity
Code == DOMAIN CodeOrder
Verdict == {"DENY", "ESCALATE", "PASS_FOR_REVIEW"}

(* The catalog is not empty; severities are ranked; there are finitely     *)
(* many codes, which have an order and come in lists; the identity of a    *)
(* cloud context is no bounded context's; the reason of a check is         *)
(* CHECK_PASS exactly if it has no failure.                                *)
ASSUME CatalogAssumption ==
  /\ RuleSeverity \in Seq(Nat) \ {<< >>}
  /\ IsFiniteSet(Code)
  /\ \A k \in Code : CodeOrder[k] \in Nat
  /\ \A k, m \in Code : CodeOrder[k] = CodeOrder[m] => k = m
  /\ \A F \in Failures : \A f \in F : f.code \in Code /\ f.severity \in Nat
  /\ \A c, d \in Context : c.id # d.package
  /\ \A o \in Opinion : o.codes \in Seq(Code)
  /\ \A checks \in CheckSet :
       /\ DOMAIN checks \subseteq Rule
       /\ \A r \in DOMAIN checks :
            checks[r].failure = None <=> checks[r].reason = "CHECK_PASS"
  /\ None # "APPROVE"

Room ==
  Cardinality(results) + Cardinality(verifications) + Cardinality(gates)
    + Cardinality(decisions) + Cardinality(concluded) < MaxRecords

ResultRoom == Cardinality(results) < MaxResults

-----------------------------------------------------------------------------
(* Failure records. *)

(* It holds the state and whether a human must be told as well, in which   *)
(* the records of a call do not differ here; owner follows from the code,  *)
(* and a retry is never allowed.                                           *)
FailureIdentity(f) ==
  [code |-> f.code, severity |-> f.severity, run |-> f.run,
   related |-> f.related]

NoDuplicate(F) ==
  \A f, g \in F : FailureIdentity(f) = FailureIdentity(g) => f = g

Supplied(F, identity) == CHOOSE f \in F : FailureIdentity(f) = identity

-----------------------------------------------------------------------------
(* The legacy verifier.  A check is [input, failure, reason]: it passed if *)
(* it has no failure.                                                      *)

Cited(checks) == {checks[r].failure : r \in DOMAIN checks} \ {None}

CitedOf(F, checks) == {f \in F : FailureIdentity(f) \in Cited(checks)}

CheckDecision(check) ==
  IF check.failure = None THEN "PASS_FOR_REVIEW"
  ELSE IF check.reason = "AMBIGUOUS_PRECEDENCE" THEN "ESCALATE"
  ELSE "DENY"

(* A missing rule denies, then any check denies, then any escalates. *)
Decision(checks) ==
  LET made == {CheckDecision(checks[r]) : r \in DOMAIN checks}
  IN IF DOMAIN checks # Rule \/ "DENY" \in made THEN "DENY"
     ELSE IF "ESCALATE" \in made THEN "ESCALATE" ELSE "PASS_FOR_REVIEW"

Outranks(r, s) ==
  \/ RuleSeverity[r] > RuleSeverity[s]
  \/ RuleSeverity[r] = RuleSeverity[s] /\ r <= s

(* The reason of the most severe rule among those that decided; of equals  *)
(* that of the least identity.                                             *)
WinningReason(checks) ==
  LET winners == {r \in DOMAIN checks : CheckDecision(checks[r]) = Decision(checks)}
  IN IF DOMAIN checks # Rule THEN "MISSING_REQUIRED_ARTIFACT"
     ELSE checks[CHOOSE r \in winners : \A s \in winners : Outranks(r, s)].reason

(* Every check is on an identity of the chain, and cites a failure that is *)
(* supplied and has the code it names as its reason.                       *)
ChecksBound(checks, context, F) ==
  \A r \in DOMAIN checks :
    LET check == checks[r]
    IN /\ check.input \in Upstream \cup {context}
       /\ check.failure # None =>
            \E f \in F : FailureIdentity(f) = check.failure /\ f.code = check.reason

Result(input, checks) ==
  [task |-> input.task, context |-> input.context, sources |-> input.sources,
   checks |-> checks,
   decision |-> Decision(checks), reason |-> WinningReason(checks)]

(* On identities that the caller declares, of records it does not show.    *)
BuildResult(input, checks, F) ==
  /\ NoDuplicate(F)
  /\ ChecksBound(checks, input.context, F)
  /\ results' = results \cup {Result(input, checks)}
  /\ UNCHANGED <<verifications, gates, decisions, concluded>>

(* On the bounded context that a cloud context was projected from, of its  *)
(* own task and sources: records upstream of others are refused.           *)
VerifySuppliedRecords(c, checks, F) ==
  BuildResult([task |-> c.task, context |-> c.package, sources |-> c.sources],
              checks, F)

-----------------------------------------------------------------------------
(* The public verification. *)

Detail(f) ==
  [code |-> f.code, severity |-> f.severity, related |-> f.related,
   explanation |-> f.message]

(* Whether code k is listed before code m. *)
Earlier(severity, k, m) ==
  \/ severity[k] > severity[m]
  \/ severity[k] = severity[m] /\ CodeOrder[k] < CodeOrder[m]

(* Each code once, with one severity; severe ones first, then lexically.   *)
CodesFit(codes, details) ==
  LET severity == [c \in {d.code : d \in details} |->
                     (CHOOSE d \in details : d.code = c).severity]
  IN /\ \A d, e \in details : d.code = e.code => d.severity = e.severity
     /\ {codes[i] : i \in DOMAIN codes} = DOMAIN severity
     /\ \A i, j \in DOMAIN codes : i < j => Earlier(severity, codes[i], codes[j])

(* build_verification_record binds an opinion to a proposal. *)
Verification(p, o) ==
  [proposal |-> p.id, result |-> o.result, codes |-> o.codes,
   details |-> o.details, refs |-> o.refs, unsupported |-> o.unsupported,
   findings |-> o.findings]

ProposalOnContext(p, c) == p.context = c.id /\ p.task = c.task /\ p.run = c.run

ResultOnContext(l, c) ==
  l.context = c.id /\ l.task = c.task /\ l.sources = c.sources

RefsBound(v, p, c) ==
  /\ p.refs \subseteq c.refs
  /\ v.refs \subseteq p.refs
  /\ v.result = "PASS_FOR_REVIEW" => v.refs = p.refs

\* Mutant: the explanations are not compared.
ReasonsBound_AnyWords(v, l, F) ==
  /\ DOMAIN l.checks = Rule
  /\ \A id \in Cited(l.checks) : \E f \in F : FailureIdentity(f) = id
  /\ {[d EXCEPT !.explanation = None] : d \in v.details} =
       {[Detail(Supplied(F, id)) EXCEPT !.explanation = None] : id \in Cited(l.checks)}
  /\ CodesFit(v.codes, v.details)

\* Mutant: a result of some rules only may be published.
ReasonsBound_AnyRules(v, l, F) ==
  /\ \A id \in Cited(l.checks) : \E f \in F : FailureIdentity(f) = id
  /\ v.details = {Detail(Supplied(F, id)) : id \in Cited(l.checks)}
  /\ CodesFit(v.codes, v.details)

(* The details are those of the failures that checks cite, in the words of *)
(* the records supplied.  (A list with repetitions in the code: failures   *)
(* of one run and state that differ have details that differ.)             *)
ReasonsBound(v, l, F) ==
  /\ DOMAIN l.checks = Rule
  /\ \A id \in Cited(l.checks) : \E f \in F : FailureIdentity(f) = id
  /\ v.details = {Detail(Supplied(F, id)) : id \in Cited(l.checks)}
  /\ CodesFit(v.codes, v.details)

(* Checks are compared with failures only if any failure is supplied. *)
Adaptable(v, p, c, l, F) ==
  /\ NoDuplicate(F)
  /\ F # {} => ChecksBound(l.checks, l.context, F)
  /\ v.result = l.decision
  /\ v.proposal = p.id
  /\ ProposalOnContext(p, c)
  /\ ResultOnContext(l, c)
  /\ RefsBound(v, p, c)
  /\ v.unsupported \subseteq p.claims
  /\ ReasonsBound(v, l, F)
  /\ v.result = "PASS_FOR_REVIEW" =>
       v.details = {} /\ v.unsupported = {} /\ ~v.findings

AdaptVerification(o, p, c, l, F) ==
  /\ Adaptable(Verification(p, o), p, c, l, F)
  /\ verifications' = verifications \cup {Verification(p, o)}
  /\ UNCHANGED <<results, gates, decisions, concluded>>

-----------------------------------------------------------------------------
(* The human gate and the decision. *)

Options == [DENY |-> {"REJECT"},
            ESCALATE |-> {"REJECT", "REQUEST_REWORK", "REQUEST_MORE_EVIDENCE"},
            PASS_FOR_REVIEW |-> {"APPROVE", "REJECT", "REQUEST_REWORK",
                                 "REQUEST_MORE_EVIDENCE"}]

(* The builder binds what it is told: it sees no verification. *)
BuildGate(p, v, result) ==
  /\ gates' = gates \cup
       {[run |-> p.run, task |-> p.task, proposal |-> p.id, context |-> p.context,
         verification |-> v, result |-> result]}
  /\ UNCHANGED <<results, verifications, decisions, concluded>>

LegalDecision(g, action) == action \in Options[g.result]

BuildDecision(g, action) ==
  /\ LegalDecision(g, action)
  /\ decisions' = decisions \cup {[gate |-> g, action |-> action]}
  /\ UNCHANGED <<results, verifications, gates, concluded>>

-----------------------------------------------------------------------------
(* What final evidence is built from. *)

\* Mutant: the gate may show another result.
GateBound_AnyResult(g, p, v) ==
  /\ g.run = p.run /\ g.task = p.task /\ g.proposal = p.id
  /\ g.context = p.context
  /\ g.verification = v

GateBound(g, p, v) ==
  /\ g.run = p.run /\ g.task = p.task /\ g.proposal = p.id
  /\ g.context = p.context
  /\ g.verification = v
  /\ g.result = v.result

Qualified(e) ==
  /\ e.proposal.run = e.context.run
  /\ {FailureIdentity(f) : f \in e.failures} = Cited(e.legacy.checks)
  /\ \A f \in e.failures : f.run = e.context.run
  /\ Adaptable(e.verification, e.proposal, e.context, e.legacy, e.failures)
  /\ e.gate # None => GateBound(e.gate, e.proposal, e.verification)
  /\ e.decision # None => e.gate # None /\ e.decision.gate = e.gate
                          /\ LegalDecision(e.gate, e.decision.action)

Conclude(p, c, l, F, v, g, d) ==
  LET entry == [proposal |-> p, context |-> c, legacy |-> l, failures |-> F,
                verification |-> v, gate |-> g, decision |-> d]
  IN /\ Qualified(entry)
     /\ concluded' = concluded \cup {entry}
     /\ UNCHANGED <<results, verifications, gates, decisions>>

-----------------------------------------------------------------------------
Init ==
  /\ results = {} /\ verifications = {} /\ gates = {}
  /\ decisions = {} /\ concluded = {}

Next ==
  /\ Room
  /\ \/ /\ ResultRoom
        /\ \E input \in Inputs, checks \in CheckSet, F \in Failures :
             BuildResult(input, checks, F)
     \/ /\ ResultRoom
        /\ \E c \in Context, checks \in CheckSet, F \in Failures :
             VerifySuppliedRecords(c, checks, F)
     \/ \E o \in Opinion, p \in Proposal, c \in Context, l \in results,
          F \in Failures : AdaptVerification(o, p, c, l, F)
     \/ \E p \in Proposal, v \in verifications, result \in Verdict :
          BuildGate(p, v, result)
     \/ \E g \in gates, action \in Options["PASS_FOR_REVIEW"] :
          BuildDecision(g, action)
     \/ \E p \in Proposal, c \in Context, l \in results, F \in Failures,
          v \in verifications, g \in gates \cup {None},
          d \in decisions \cup {None} : Conclude(p, c, l, F, v, g, d)

Spec == Init /\ [][Next]_vars

-----------------------------------------------------------------------------
(* A conclusion is earned.  If it passed for review or was approved, every *)
(* rule was checked and none objected, on this proposal's own context, and *)
(* every source the proposal cites is in that context and was verified;    *)
(* and whatever a human decided is legal for what the checks decide, not   *)
(* only for what the gate shows.                                           *)
ConclusionIsEarned ==
  \A e \in concluded :
    LET checks == e.legacy.checks
        action == IF e.decision = None THEN None ELSE e.decision.action
    IN /\ (e.verification.result = "PASS_FOR_REVIEW" \/ action = "APPROVE") =>
            /\ DOMAIN checks = Rule /\ Cited(checks) = {} /\ e.failures = {}
            /\ e.legacy.context = e.proposal.context
            /\ e.proposal.refs \subseteq e.context.refs \cap e.verification.refs
       /\ action # None => action \in Options[Decision(checks)]

(* The reasons published are the failures.  Those that go into the final   *)
(* evidence explain a verdict in exactly the words, codes and severities   *)
(* of the failure records beside them, though no identity of a failure     *)
(* holds the words; the codes come with the most severe first; and the one *)
(* reason of the legacy result, chosen by the severity of rules, is among  *)
(* them, chosen by the severity of failures.                               *)
ReasonsAreTheFailures ==
  \A e \in concluded :
    LET v == e.verification
        last == Len(v.codes)
    IN /\ {d.explanation : d \in v.details} = {f.message : f \in e.failures}
       /\ {v.codes[i] : i \in 1..last} = {f.code : f \in e.failures}
       /\ \A f \in e.failures, i \in 1..last :
            v.codes[i] = f.code =>
              \A g \in e.failures : g.severity > f.severity =>
                \E j \in 1..(i - 1) : v.codes[j] = g.code
       /\ IF last = 0 THEN e.legacy.reason = "CHECK_PASS"
          ELSE \E i \in 1..last : v.codes[i] = e.legacy.reason

(* Results that lead nowhere.  Whether any public verification of a result *)
(* can be accepted, whatever is said in it, is settled when the result is  *)
(* built: it can unless a rule is missing, two failures of one code differ *)
(* in severity, or it is not on the identity, task and sources of one and  *)
(* the same cloud context, as it is not if it was made on a bounded one.   *)
(* What there is to say is the failures its checks cite, whichever others  *)
(* are supplied.                                                           *)
DeadEnds ==
  \A l \in results :
    (\E p \in Proposal, c \in Context, F \in Failures,
        n \in 0..Cardinality(Code) : \E codes \in [1..n -> Code] :
        Adaptable(Verification(p, [result |-> l.decision, codes |-> codes,
                    details |-> {Detail(f) : f \in CitedOf(F, l.checks)},
                    refs |-> p.refs, unsupported |-> {}, findings |-> FALSE]),
                  p, c, l, F))
    <=> /\ DOMAIN l.checks = Rule
        /\ \A f, g \in Cited(l.checks) : f.code = g.code => f.severity = g.severity
        /\ \E c \in Context : ResultOnContext(l, c)

=============================================================================
