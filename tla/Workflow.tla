------------------------------ MODULE Workflow -----------------------------
(***************************************************************************)
(* The two-step workflow (src/src/hai_mr05/workflow.py).  prepare binds a  *)
(* run, its context, the checks of the legacy verifier, a request, its     *)
(* authorization and a handoff into a package and sends nothing.  resume   *)
(* takes a package somebody hands it and the answer that was obtained      *)
(* outside, rebuilds the chain from the response to the final result,      *)
(* publishes manifest and result, and only then validates the whole.       *)
(*                                                                         *)
(* Packages, answers and human decisions are plain arguments: nothing but  *)
(* the checks below keeps those of one run from being mixed with those of  *)
(* another.  An identity (a SHA-256 over canonical bytes) is modelled as   *)
(* the value it is computed from; what the code leaves out of an identity  *)
(* is left out here too: a run's identity does not cover its state, a      *)
(* manifest's not its observational note.                                  *)
(***************************************************************************)
EXTENDS Naturals, FiniteSets

CONSTANTS
  Caller,      \* processes that run the workflow once
  Input,       \* frozen run inputs: what a run identity is computed from
  Context,     \* cloud contexts, with the bounded contexts they project
  InputOf,     \* the run inputs each context was built for
  RefsOf,      \* the source references each context carries
  MetricsOf,   \* the metrics each context is bound to
  Rule,        \* the rule catalog of the verifier
  Failure,     \* failure records
  FailureRun,  \* the run inputs each failure record is bound to
  Ambiguous,   \* those whose code is AMBIGUOUS_PRECEDENCE
  RelatedTo,   \* the record each failure record is about
  Pass,        \* the outcome of a check that found nothing
  Path,        \* destinations of evidence
  PrepareArg,  \* the arguments of prepare
  ResumeArg,   \* the arguments of resume besides the package
  Supplied,    \* packages that do not come from prepare
  Garbage,     \* response bytes that are no proposal
  None

VerdictOf == [VERIFIED_DENY |-> "DENY", VERIFIED_ESCALATE |-> "ESCALATE",
              VERIFIED_PASS_FOR_REVIEW |-> "PASS_FOR_REVIEW"]
ActionOf == [HUMAN_APPROVED |-> "APPROVE", HUMAN_REJECTED |-> "REJECT",
             HUMAN_REWORK |-> "REQUEST_REWORK",
             HUMAN_MORE_EVIDENCE |-> "REQUEST_MORE_EVIDENCE"]
Options == [DENY |-> {"REJECT"},
            ESCALATE |-> {"REJECT", "REQUEST_REWORK", "REQUEST_MORE_EVIDENCE"},
            PASS_FOR_REVIEW |-> {"APPROVE", "REJECT", "REQUEST_REWORK",
                                 "REQUEST_MORE_EVIDENCE"}]
Verified == DOMAIN VerdictOf
Human == DOMAIN ActionOf

Terminal == Verified \cup Human \cup {"FAILED"}

VARIABLES
  pc,    \* where each caller is
  held,  \* the package it holds
  call,  \* the records resume has built for it and where they go
  shown  \* the record at each destination

vars == <<pc, held, call, shown>>

-----------------------------------------------------------------------------
(* The legacy verifier. *)

(* The failure records that checks cite. *)
Cited(checks) == {checks[r] : r \in DOMAIN checks} \ {Pass}

\* Mutant: an ambiguity is no reason to escalate.
Verdict_Lenient(checks) ==
  IF DOMAIN checks # Rule \/ ~(Cited(checks) \subseteq Ambiguous)
  THEN "DENY" ELSE "PASS_FOR_REVIEW"

(* A missing rule denies, then any check denies, then any escalates. *)
Verdict(checks) ==
  IF DOMAIN checks # Rule \/ ~(Cited(checks) \subseteq Ambiguous) THEN "DENY"
  ELSE IF Cited(checks) # {} THEN "ESCALATE"
  ELSE "PASS_FOR_REVIEW"

-----------------------------------------------------------------------------
(* What binds the records of the transport to one another. *)

AuthorizationBound(auth, req) == auth.request = req

HandoffBound(h, req, auth) ==
  /\ AuthorizationBound(auth, req)
  /\ h = [request |-> req, authorization |-> auth]

\* Mutant: the account that answered is not compared.
ResponseBound_AnyAccount(resp, req, auth) ==
  /\ AuthorizationBound(auth, req)
  /\ resp.request = req
  /\ resp.model = req.model
  /\ ~resp.error

ResponseBound(resp, req, auth) ==
  /\ AuthorizationBound(auth, req)
  /\ resp.request = req
  /\ resp.account = auth.account
  /\ resp.model = req.model
  /\ ~resp.error

ProposalOnRequest(prop, req) ==
  /\ prop.request = req
  /\ prop.input = InputOf[req.context]
  /\ prop.context = req.context

(* The task and the MR-03 and MR-04 results a proposal names. *)
ProposalOnRun(prop, run) == prop.task = run.input

-----------------------------------------------------------------------------
(* prepare. *)

(* What prepare binds together; the disclosure must allow the cloud, the   *)
(* checks may cite only failures that are supplied.                        *)
Preparable(a) ==
  /\ a.allowed
  /\ Cited(a.checks) \subseteq a.failures

Package(a) ==
  LET req == [context |-> a.context, model |-> a.model]
      auth == [request |-> req, account |-> a.account]
  IN [run |-> a.run, context |-> a.context, failures |-> a.failures,
      legacy |-> [context |-> a.context, checks |-> a.checks],
      request |-> req, authorization |-> auth,
      handoff |-> [request |-> req, authorization |-> auth]]

(* What prepare checks last and resume checks first.  The checks are       *)
(* compared with the failure records only if there is any such record.     *)
Qualified(p) ==
  /\ InputOf[p.context] = p.run.input
  /\ p.failures # {} => Cited(p.legacy.checks) \subseteq p.failures
  /\ p.legacy.context = p.context
  /\ p.request.context = p.context
  /\ AuthorizationBound(p.authorization, p.request)
  /\ HandoffBound(p.handoff, p.request, p.authorization)

-----------------------------------------------------------------------------
(* resume: from the answer to the records. *)

Response(req, a) ==
  [request |-> req, raw |-> a.raw, account |-> a.account, model |-> a.model,
   error |-> a.error]

\* Mutant: the model the proposal names need not be the one that answered.
Admitted_AnyModel(raw, resp, p) ==
  /\ HandoffBound(p.handoff, p.request, p.authorization)
  /\ ResponseBound(resp, p.request, p.authorization)
  /\ raw = resp.raw
  /\ raw # Garbage
  /\ ProposalOnRequest(raw, p.request)

(* The raw bytes are the response's, and a proposal for the request. *)
Admitted(raw, resp, p) ==
  /\ HandoffBound(p.handoff, p.request, p.authorization)
  /\ ResponseBound(resp, p.request, p.authorization)
  /\ raw = resp.raw
  /\ raw # Garbage
  /\ ProposalOnRequest(raw, p.request)
  /\ raw.model = resp.model

Verification(prop, a) ==
  [proposal |-> prop, result |-> a.result, details |-> a.details,
   refs |-> a.refs, findings |-> a.findings]

(* The public verification says what the legacy verifier decided before    *)
(* the request was sent, on the evidence it decided it on.                 *)
Adapted(v, prop, context, legacy, failures) ==
  /\ v.result = Verdict(legacy.checks)
  /\ v.proposal = prop
  /\ prop.context = context
  /\ prop.input = InputOf[context] /\ prop.task = InputOf[context]
  /\ legacy.context = context
  /\ prop.refs \subseteq RefsOf[context]
  /\ v.refs \subseteq prop.refs
  /\ DOMAIN legacy.checks = Rule
  /\ Cited(legacy.checks) \subseteq failures
  /\ v.details = Cited(legacy.checks)
  /\ v.result = "PASS_FOR_REVIEW" => v.refs = prop.refs /\ ~v.findings

(* Material for a gate and a decision comes exactly with a human state,    *)
(* and the decision must be one the verification result leaves open.       *)
HumanMaterial(run, v, a) ==
  IF run.state \in Human
  THEN a.gate /\ a.decision \in Options[v.result]
  ELSE ~a.gate /\ a.decision = None

Gate(run, prop, context, v) ==
  IF run.state \in Human
  THEN [input |-> run.input, proposal |-> prop, context |-> context,
        verification |-> v]
  ELSE None

Decision(gate, a) ==
  IF gate # None THEN [gate |-> gate, action |-> a.decision] ELSE None

GateBound(x) ==
  x.gate # None => /\ x.gate.input = x.run.input
                   /\ x.gate.proposal = x.proposal
                   /\ x.gate.context = x.proposal.context
                   /\ x.gate.verification = x.verification

HumanBound(x) ==
  /\ x.run.state \in Human => x.gate # None /\ x.decision # None
  /\ x.run.state \in Verified => x.gate = None /\ x.decision = None
  /\ GateBound(x)

(* All the records of one call. *)
Chain(p, a) ==
  LET v == Verification(a.raw, a)
      g == Gate(p.run, a.raw, p.context, v)
  IN [run |-> p.run, context |-> p.context, legacy |-> p.legacy,
      failures |-> p.failures, request |-> p.request,
      authorization |-> p.authorization, handoff |-> p.handoff,
      response |-> Response(p.request, a), proposal |-> a.raw,
      verification |-> v, gate |-> g, decision |-> Decision(g, a),
      failure |-> a.failure]

-----------------------------------------------------------------------------
(* Evidence: the manifest and the final result of a chain. *)

(* What evidence.py demands of the records before it uses them: stricter   *)
(* than prepare, which accepts spare failure records and those of other    *)
(* runs.                                                                   *)
UpstreamQualified(x) ==
  /\ InputOf[x.context] = x.run.input
  /\ x.request.context = x.context
  /\ x.legacy.context = x.context
  /\ x.failures = Cited(x.legacy.checks)
  /\ \A f \in x.failures : FailureRun[f] = x.run.input
  /\ ProposalOnRequest(x.proposal, x.request)
  /\ ProposalOnRun(x.proposal, x.run)
  /\ Adapted(x.verification, x.proposal, x.context, x.legacy, x.failures)
  /\ GateBound(x)
  /\ x.decision # None => /\ x.decision.gate = x.gate
                          /\ x.decision.action \in Options[x.gate.verification.result]
  /\ x.failure # None =>
       /\ FailureRun[x.failure] = x.run.input
       /\ RelatedTo[x.failure] \in
            {x.run.input, x.proposal, x.verification, MetricsOf[x.context]}
              \cup ({x.gate, x.decision} \ {None})

\* Mutant: the failure record of the final result is not in the manifest.
RequiredArtifacts_NoFailure(x) ==
  [run |-> x.run, context |-> x.context, request |-> x.request,
   proposal |-> x.proposal, legacy |-> x.legacy,
   verification |-> x.verification, failures |-> x.failures,
   gate |-> x.gate, decision |-> x.decision]

(* The artifacts by path; an optional one is absent as None. *)
RequiredArtifacts(x) ==
  [run |-> x.run, context |-> x.context, request |-> x.request,
   proposal |-> x.proposal, legacy |-> x.legacy,
   verification |-> x.verification, failures |-> x.failures,
   gate |-> x.gate, decision |-> x.decision, failure |-> x.failure]

TransportArtifacts(x) ==
  [authorization |-> x.authorization, handoff |-> x.handoff,
   response |-> x.response, raw |-> x.response.raw]

Manifest(x, note) ==
  [run |-> x.run.input, required |-> RequiredArtifacts(x),
   transport |-> TransportArtifacts(x), note |-> note]

(* The identity leaves the note out. *)
ManifestIdentity(m) ==
  [run |-> m.run, required |-> m.required, transport |-> m.transport]

Final(x, m, note) ==
  [run |-> x.run.input, state |-> x.run.state, result |-> x.verification.result,
   decision |-> IF x.decision = None THEN None ELSE x.decision.action,
   failure |-> x.failure, proposal |-> x.proposal,
   manifest |-> ManifestIdentity(m), note |-> note]

FinalIdentity(f) == [f EXCEPT !.note = None]

FinalValid(f) ==
  \/ /\ f.state \in Verified
     /\ f.result = VerdictOf[f.state] /\ f.decision = None /\ f.failure = None
  \/ /\ f.state \in Human
     /\ f.decision = ActionOf[f.state] /\ f.decision \in Options[f.result]
     /\ f.failure = None
  \/ /\ f.state = "FAILED"
     /\ f.failure # None /\ f.decision \in Options[f.result] \cup {None}

(* The validation of what resume returns, run after it is published. *)
ValidComposition(x, m, f) ==
  /\ HandoffBound(x.handoff, x.request, x.authorization)
  /\ ResponseBound(x.response, x.request, x.authorization)
  /\ InputOf[x.context] = x.run.input /\ x.request.context = x.context
  /\ ProposalOnRun(x.proposal, x.run)
  /\ ProposalOnRequest(x.proposal, x.request)
  /\ x.proposal.model = x.response.model
  /\ x.verification.proposal = x.proposal
  /\ HumanBound(x)
  /\ UpstreamQualified(x)
  /\ m = Manifest(x, m.note)
  /\ f = Final(x, m, f.note) /\ FinalValid(f)

-----------------------------------------------------------------------------
(* The callers. *)

(* What a caller may hold: a package of prepare, or one from elsewhere. *)
Packages == {Package(a) : a \in PrepareArg} \cup Supplied

(* The checks of a package are a mapping from rules; None is no record.    *)
ASSUME ArgumentsAssumption ==
  \A p \in Packages :
    /\ \E R \in SUBSET Rule : p.legacy.checks \in [R -> Failure \cup {Pass}]
    /\ p # None
    /\ \A a \in ResumeArg :
         LET x == Chain(p, a)
             m == Manifest(x, a.note)
             f == Final(x, m, a.note)
         IN /\ None \notin {m, f}
            /\ \A mp, fp \in Path :
                 None # [chain |-> x, manifest |-> m, final |-> f,
                         mpath |-> mp, fpath |-> fp]

Init ==
  /\ pc = [c \in Caller |-> "start"]
  /\ held = [c \in Caller |-> None]
  /\ call = [c \in Caller |-> None]
  /\ shown = [d \in Path |-> None]

Goto(c, l) == pc' = [pc EXCEPT ![c] = l]

(* prepare_top_level_workflow: a package, or an exception. *)
Prepare(c) ==
  /\ pc[c] = "start"
  /\ \E a \in PrepareArg :
       IF Preparable(a) /\ Qualified(Package(a))
       THEN /\ held' = [held EXCEPT ![c] = Package(a)]
            /\ Goto(c, "holding")
       ELSE Goto(c, "rejected") /\ UNCHANGED held
  /\ UNCHANGED <<call, shown>>

(* A package that comes from elsewhere, for instance from a file. *)
Receive(c) ==
  /\ pc[c] = "start"
  /\ \E p \in Supplied : held' = [held EXCEPT ![c] = p]
  /\ Goto(c, "holding")
  /\ UNCHANGED <<call, shown>>

(* Everything resume checks before it publishes. *)
Accepts(p, a, x, m, f) ==
  /\ Qualified(p)
  /\ Admitted(a.raw, x.response, p)
  /\ ProposalOnRun(a.raw, p.run)
  /\ Adapted(x.verification, a.raw, p.context, p.legacy, p.failures)
  /\ HumanMaterial(p.run, x.verification, a)
  /\ HumanBound(x)
  /\ UpstreamQualified(x)
  /\ FinalValid(f)

(* resume_top_level_workflow up to the call that persists. *)
Resume(c) ==
  /\ pc[c] = "holding"
  /\ \E a \in ResumeArg, mp, fp \in Path :
       LET p == held[c]
           x == Chain(p, a)
           m == Manifest(x, a.note)
           f == Final(x, m, a.note)
       IN /\ mp # fp
          /\ IF Accepts(p, a, x, m, f)
             THEN /\ call' = [call EXCEPT ![c] =
                        [chain |-> x, manifest |-> m, final |-> f,
                         mpath |-> mp, fpath |-> fp]]
                  /\ Goto(c, "built")
             ELSE Goto(c, "rejected") /\ UNCHANGED call
  /\ UNCHANGED <<held, shown>>

(* persist_final_evidence_records, in two steps: each record is created    *)
(* only where nothing is (FinalEvidence has the steps of each).            *)
PublishManifest(c) ==
  /\ pc[c] = "built"
  /\ shown[call[c].mpath] = None
  /\ shown' = [shown EXCEPT ![call[c].mpath] = call[c].manifest]
  /\ Goto(c, "half")
  /\ UNCHANGED <<held, call>>

\* Mutant: the final result replaces what is at its destination.
PublishFinal_Replacing(c) ==
  /\ pc[c] = "half"
  /\ shown' = [shown EXCEPT ![call[c].fpath] = call[c].final]
  /\ Goto(c, "published")
  /\ UNCHANGED <<held, call>>

PublishFinal(c) ==
  /\ pc[c] = "half"
  /\ shown[call[c].fpath] = None
  /\ shown' = [shown EXCEPT ![call[c].fpath] = call[c].final]
  /\ Goto(c, "published")
  /\ UNCHANGED <<held, call>>

(* An occupied destination, any error of the file system, or the end of    *)
(* the process: the call ends and what it has published stays.             *)
Fail(c) ==
  /\ pc[c] \in {"built", "half", "published"}
  /\ Goto(c, "failed")
  /\ UNCHANGED <<held, call, shown>>

(* validate_workflow_composition_result, then return. *)
Return(c) ==
  /\ pc[c] = "published"
  /\ Goto(c, IF ValidComposition(call[c].chain, call[c].manifest, call[c].final)
             THEN "done" ELSE "late")
  /\ UNCHANGED <<held, call, shown>>

Next ==
  \E c \in Caller :
    \/ Prepare(c) \/ Receive(c) \/ Resume(c)
    \/ PublishManifest(c) \/ PublishFinal(c) \/ Fail(c) \/ Return(c)

Spec == Init /\ [][Next]_vars

-----------------------------------------------------------------------------
(* Properties. *)

IsFinal(r) == r # None /\ "state" \in DOMAIN r
IsManifest(r) == r # None /\ "required" \in DOMAIN r
Finals == {shown[d] : d \in {e \in Path : IsFinal(shown[e])}}

(* Records are where records go, and each call is where its pc says. *)
TypeOK ==
  /\ pc \in [Caller -> {"start", "holding", "built", "half", "published",
                        "done", "rejected", "failed", "late"}]
  /\ \A c \in Caller :
       /\ held[c] = None => pc[c] \in {"start", "rejected"}
       /\ call[c] = None <=> pc[c] \in {"start", "holding", "rejected"}
       /\ call[c] # None => {call[c].mpath, call[c].fpath} \subseteq Path
  /\ \A d \in Path : shown[d] = None \/ IsManifest(shown[d]) \/ IsFinal(shown[d])

(* What the evidence alone shows an auditor: every result is of a run that *)
(* came to an end and is backed by a published manifest, and the artifacts *)
(* this manifest names are those of one run, from the authorized request   *)
(* and account to the decision of the human, however packages, answers and *)
(* decisions of several runs were combined in the calls                    *)
(* (workflow.py 973-1140, evidence.py 835-1232).                           *)
ChainClosed ==
  \A f \in Finals :
    LET a == f.manifest.required
        t == f.manifest.transport
    IN /\ \E d \in Path : IsManifest(shown[d]) /\ ManifestIdentity(shown[d]) = f.manifest
       /\ f.state \in Terminal
       /\ InputOf[a.context] = f.run /\ a.run.input = f.run
       /\ a.request.context = a.context
       /\ t.authorization.request = a.request
       /\ t.response.request = a.request
       /\ t.response.account = t.authorization.account
       /\ t.response.model = a.request.model /\ ~t.response.error
       /\ t.raw = a.proposal /\ a.proposal.request = a.request
       /\ a.verification.proposal = f.proposal
       /\ a.decision # None => a.decision.gate.verification = a.verification

(* A run is approved only on a proposal all of whose sources are in the    *)
(* context that was sent and verified, after every rule of the catalog was *)
(* checked and none objected (verifier.py 671-683, 1924-2071,              *)
(* human_gate.py 35-39, evidence.py 896-910).                              *)
ApprovalEarned ==
  \A f \in Finals : f.state = "HUMAN_APPROVED" =>
    LET a == f.manifest.required
    IN /\ a.legacy.checks = [r \in Rule |-> Pass]
       /\ a.proposal.refs \subseteq RefsOf[a.context]
       /\ a.verification.refs = a.proposal.refs /\ ~a.verification.findings
       /\ f.decision = "APPROVE"

(* A manifest settles its result: two published results that cite the same *)
(* manifest identity are the same result up to their notes, whichever      *)
(* calls published them (evidence.py 1239-1265).                           *)
ManifestDeterminesResult ==
  \A f, g \in Finals : f.manifest = g.manifest => FinalIdentity(f) = FinalIdentity(g)

(* Resume validates the composition only after it has published it, so a   *)
(* rejection there would leave evidence of a chain the caller was told is  *)
(* invalid: nothing it checks there was left unchecked before              *)
(* (workflow.py 798-934, 1140).                                            *)
NoLateRejection == \A c \in Caller : pc[c] # "late"

(* What a call returned as persisted stays where it said, whatever other   *)
(* calls publish (workflow.py 1111-1140).                                  *)
ReturnedStays ==
  \A c \in Caller : pc[c] = "done" =>
    /\ shown[call[c].mpath] = call[c].manifest
    /\ shown[call[c].fpath] = call[c].final

=============================================================================
