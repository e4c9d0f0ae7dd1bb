--------------------------- MODULE WorkflowProofs ---------------------------
(***************************************************************************)
(* Proofs about Workflow, for any number of callers and destinations, any  *)
(* runs, contexts and failure records, and any arguments and packages.     *)
(*                                                                         *)
(* All that is ever published are the manifest and the final result of a   *)
(* package and an answer that resume accepted, and nothing published is    *)
(* ever replaced.  What the records of one accepted call have to do with   *)
(* one another are lemmas without a state.                                 *)
(***************************************************************************)
EXTENDS Workflow, TLAPS

ManifestOf(p, a) == Manifest(Chain(p, a), a.note)
FinalOf(p, a) == Final(Chain(p, a), ManifestOf(p, a), a.note)

(* Resume published, or is about to publish, the records of p and a.       *)
Accepted(p, a) ==
  /\ p \in Packages /\ a \in ResumeArg
  /\ Accepts(p, a, Chain(p, a), ManifestOf(p, a), FinalOf(p, a))

(* What k holds was built from p and a. *)
Built(k, p, a) ==
  /\ k.chain = Chain(p, a)
  /\ k.manifest = ManifestOf(p, a)
  /\ k.final = FinalOf(p, a)
  /\ k.mpath \in Path /\ k.fpath \in Path /\ k.mpath # k.fpath
  /\ k # None

CallInv(c) ==
  /\ pc[c] \notin {"start", "rejected"} => held[c] \in Packages
  /\ pc[c] \in {"start", "holding", "rejected"} => call[c] = None
  /\ pc[c] \in {"built", "half", "published", "done", "failed"} =>
       \E p \in Packages, a \in ResumeArg : Accepted(p, a) /\ Built(call[c], p, a)
  /\ pc[c] \in {"half", "published", "done"} =>
       shown[call[c].mpath] = call[c].manifest
  /\ pc[c] \in {"published", "done"} => shown[call[c].fpath] = call[c].final
  /\ pc[c] # "late"

PlaceInv(d) ==
  \/ shown[d] = None
  \/ \E p \in Packages, a \in ResumeArg :
       /\ Accepted(p, a)
       /\ \/ shown[d] = ManifestOf(p, a)
          \/ shown[d] = FinalOf(p, a) /\ \E e \in Path : shown[e] = ManifestOf(p, a)

IInv ==
  /\ pc \in [Caller -> {"start", "holding", "built", "half", "published",
                        "done", "rejected", "failed", "late"}]
  /\ DOMAIN call = Caller /\ DOMAIN held = Caller /\ DOMAIN shown = Path
  /\ \A c \in Caller : CallInv(c)
  /\ \A d \in Path : PlaceInv(d)

-----------------------------------------------------------------------------
(* The records of an accepted call. *)

LEMMA NoRecordIsNone ==
  ASSUME NEW p, NEW a, Accepted(p, a)
  PROVE  ManifestOf(p, a) # None /\ FinalOf(p, a) # None
  BY ArgumentsAssumption DEF Accepted, ManifestOf, FinalOf

(* A manifest is told from a final result by its fields. *)
LEMMA ManifestShape ==
  ASSUME NEW x, NEW note
  PROVE  /\ "required" \in DOMAIN Manifest(x, note)
         /\ "state" \notin DOMAIN Manifest(x, note)
  BY DEF Manifest

LEMMA FinalShape ==
  ASSUME NEW x, NEW m, NEW note
  PROVE  /\ "state" \in DOMAIN Final(x, m, note)
         /\ "required" \notin DOMAIN Final(x, m, note)
  BY DEF Final

(* The manifest identity of a final result gives back every record of the  *)
(* chain that the manifest names.                                          *)
LEMMA ManifestOfFinal ==
  ASSUME NEW p, NEW a
  PROVE  LET f == FinalOf(p, a)
             x == Chain(p, a)
         IN /\ f.run = x.run.input /\ f.state = x.run.state
            /\ f.result = x.verification.result
            /\ f.decision = IF x.decision = None THEN None ELSE x.decision.action
            /\ f.failure = x.failure /\ f.proposal = x.proposal
            /\ f.manifest = ManifestIdentity(ManifestOf(p, a))
            /\ f.manifest.required = RequiredArtifacts(x)
            /\ f.manifest.transport = TransportArtifacts(x)
  BY DEF FinalOf, ManifestOf, Final, Manifest, ManifestIdentity

(* What a final result says beside its note is in the artifacts of its     *)
(* manifest.                                                               *)
LEMMA IdentityFromManifest ==
  ASSUME NEW p, NEW a, NEW q, NEW b,
         FinalOf(p, a).manifest = FinalOf(q, b).manifest
  PROVE  FinalIdentity(FinalOf(p, a)) = FinalIdentity(FinalOf(q, b))
<1> DEFINE x == Chain(p, a)
           y == Chain(q, b)
           f == FinalOf(p, a)
           g == FinalOf(q, b)
<1>1. RequiredArtifacts(x) = RequiredArtifacts(y)
  BY ManifestOfFinal
<1>2. /\ x.run = y.run /\ x.proposal = y.proposal /\ x.failure = y.failure
      /\ x.verification = y.verification /\ x.decision = y.decision
  <2> HIDE DEF x, y
  <2> QED
    BY <1>1 DEF RequiredArtifacts
<1>3. f.manifest = ManifestIdentity(ManifestOf(p, a))
      /\ g.manifest = ManifestIdentity(ManifestOf(q, b))
  BY ManifestOfFinal
<1>4. ManifestIdentity(ManifestOf(p, a)) = ManifestIdentity(ManifestOf(q, b))
  BY <1>3
<1> HIDE DEF x, y
<1>5. FinalIdentity(Final(x, ManifestOf(p, a), a.note))
        = FinalIdentity(Final(y, ManifestOf(q, b), b.note))
  BY <1>2, <1>4 DEF FinalIdentity, Final
<1> QED
  BY <1>5 DEF FinalOf, x, y

(* An accepted chain links up from the request to the decision. *)
LEMMA AcceptedChain ==
  ASSUME NEW p, NEW a, Accepted(p, a)
  PROVE  LET x == Chain(p, a)
         IN /\ InputOf[x.context] = x.run.input
            /\ x.request.context = x.context
            /\ x.authorization.request = x.request
            /\ x.response.request = x.request
            /\ x.response.account = x.authorization.account
            /\ x.response.model = x.request.model /\ ~x.response.error
            /\ x.response.raw = x.proposal /\ x.proposal.request = x.request
            /\ x.verification.proposal = x.proposal
            /\ x.decision # None =>
                 /\ x.gate # None /\ x.decision.gate = x.gate
                 /\ x.gate.verification = x.verification
                 /\ x.decision.action \in Options[x.verification.result]
<1> DEFINE x == Chain(p, a)
<1>1. /\ x.run = p.run /\ x.context = p.context /\ x.request = p.request
      /\ x.authorization = p.authorization
      /\ x.response = Response(p.request, a) /\ x.proposal = a.raw
      /\ x.verification = Verification(a.raw, a)
      /\ x.gate = Gate(p.run, a.raw, p.context, Verification(a.raw, a))
      /\ x.decision = Decision(x.gate, a)
  BY DEF Chain
<1>2. Qualified(p) /\ Admitted(a.raw, x.response, p) /\ UpstreamQualified(x)
  BY DEF Accepted, Accepts
<1> HIDE DEF x
<1>3. InputOf[x.context] = x.run.input /\ x.request.context = x.context
  BY <1>2 DEF UpstreamQualified
<1>4. /\ x.authorization.request = x.request
      /\ x.response.request = x.request
      /\ x.response.account = x.authorization.account
      /\ x.response.model = x.request.model /\ ~x.response.error
      /\ x.response.raw = x.proposal /\ x.proposal.request = x.request
  BY <1>1, <1>2 DEF Admitted, ResponseBound, AuthorizationBound, ProposalOnRequest
<1>5. x.verification.proposal = x.proposal
  BY <1>1 DEF Verification
<1>6. x.decision # None => x.gate # None
  BY <1>1 DEF Decision
<1>7. x.decision # None => /\ x.decision.gate = x.gate
                           /\ x.gate.verification = x.verification
                           /\ x.decision.action \in Options[x.verification.result]
  BY <1>2, <1>6 DEF UpstreamQualified, GateBound
<1> QED
  BY <1>3, <1>4, <1>5, <1>6, <1>7 DEF x

(* Resume finds out before it publishes whatever the last validation could *)
(* object to.                                                              *)
LEMMA AcceptedIsValid ==
  ASSUME NEW p, NEW a, Accepted(p, a)
  PROVE  ValidComposition(Chain(p, a), ManifestOf(p, a), FinalOf(p, a))
<1> DEFINE x == Chain(p, a)
           m == ManifestOf(p, a)
           f == FinalOf(p, a)
<1>1. /\ Admitted(a.raw, x.response, p) /\ ProposalOnRun(a.raw, p.run)
      /\ HumanBound(x) /\ UpstreamQualified(x) /\ FinalValid(f)
  BY DEF Accepted, Accepts
<1>2. /\ x.run = p.run /\ x.request = p.request /\ x.handoff = p.handoff
      /\ x.authorization = p.authorization /\ x.proposal = a.raw
  BY DEF Chain
<1>3. m.note = a.note /\ m = Manifest(x, a.note)
  BY DEF ManifestOf, Manifest
<1>4. f.note = a.note /\ f = Final(x, m, a.note)
  BY DEF FinalOf, Final
<1>5. x.verification.proposal = x.proposal
  BY AcceptedChain
<1> HIDE DEF x, m, f
<1>6. /\ HandoffBound(x.handoff, x.request, x.authorization)
      /\ ResponseBound(x.response, x.request, x.authorization)
      /\ ProposalOnRun(x.proposal, x.run)
      /\ ProposalOnRequest(x.proposal, x.request)
      /\ x.proposal.model = x.response.model
  BY <1>1, <1>2 DEF Admitted
<1>7. InputOf[x.context] = x.run.input /\ x.request.context = x.context
  BY <1>1 DEF UpstreamQualified
<1>8. ValidComposition(x, m, f)
  BY <1>1, <1>3, <1>4, <1>5, <1>6, <1>7 DEF ValidComposition
<1> QED
  BY <1>8 DEF x, m, f

(* Only a clean verification leaves an approval open. *)
LEMMA ApprovalIsForPass ==
  ASSUME NEW checks, "APPROVE" \in Options[Verdict(checks)]
  PROVE  /\ Verdict(checks) = "PASS_FOR_REVIEW"
         /\ DOMAIN checks = Rule /\ Cited(checks) = {}
<1>1. Verdict(checks) \in {"DENY", "ESCALATE", "PASS_FOR_REVIEW"}
  BY DEF Verdict
<1>2. Verdict(checks) = "PASS_FOR_REVIEW"
  BY <1>1 DEF Options
<1> QED
  BY <1>2 DEF Verdict

LEMMA AcceptedApproval ==
  ASSUME NEW p, NEW a, Accepted(p, a), p.run.state = "HUMAN_APPROVED"
  PROVE  LET x == Chain(p, a)
         IN /\ x.legacy.checks = [r \in Rule |-> Pass]
            /\ x.proposal.refs \subseteq RefsOf[x.context]
            /\ x.verification.refs = x.proposal.refs /\ ~x.verification.findings
            /\ FinalOf(p, a).decision = "APPROVE"
<1> DEFINE x == Chain(p, a)
           f == FinalOf(p, a)
<1>1. /\ x.run = p.run /\ x.legacy = p.legacy /\ x.verification.result = a.result
      /\ x.verification = Verification(a.raw, a)
  BY DEF Chain, Verification
<1>2. /\ HumanBound(x) /\ UpstreamQualified(x) /\ FinalValid(f)
      /\ p \in Packages
  BY DEF Accepted, Accepts
<1>3. /\ f.state = x.run.state
      /\ f.decision = IF x.decision = None THEN None ELSE x.decision.action
  BY ManifestOfFinal
<1>4. x.decision # None => x.decision.action \in Options[x.verification.result]
  BY AcceptedChain
<1> HIDE DEF x, f
<1>5. x.run.state \in Human /\ "HUMAN_APPROVED" \notin Verified
  BY <1>1 DEF Human, ActionOf, Verified, VerdictOf
<1>6. f.decision = ActionOf["HUMAN_APPROVED"]
  BY <1>1, <1>2, <1>3, <1>5 DEF FinalValid
<1>7. x.decision # None /\ f.decision = "APPROVE"
  BY <1>2, <1>5, <1>6 DEF HumanBound, ActionOf
<1>8. Adapted(x.verification, x.proposal, x.context, x.legacy, x.failures)
  BY <1>2 DEF UpstreamQualified
<1>9. "APPROVE" \in Options[Verdict(x.legacy.checks)]
  BY <1>3, <1>4, <1>7, <1>8 DEF Adapted
<1>10. /\ x.verification.result = "PASS_FOR_REVIEW"
       /\ DOMAIN x.legacy.checks = Rule /\ Cited(x.legacy.checks) = {}
  BY <1>8, <1>9, ApprovalIsForPass DEF Adapted
<1>11. PICK R \in SUBSET Rule : x.legacy.checks \in [R -> Failure \cup {Pass}]
  BY <1>1, <1>2, ArgumentsAssumption
<1>12. \A r \in Rule : x.legacy.checks[r] = Pass
  BY <1>10 DEF Cited
<1>13. x.legacy.checks = [r \in Rule |-> Pass]
  BY <1>10, <1>11, <1>12
<1>14. /\ x.proposal.refs \subseteq RefsOf[x.context]
       /\ x.verification.refs = x.proposal.refs /\ ~x.verification.findings
  BY <1>8, <1>10 DEF Adapted
<1> QED
  BY <1>7, <1>13, <1>14 DEF x, f

-----------------------------------------------------------------------------
(* What every step keeps. *)

(* No step replaces or removes a record. *)
Kept ==
  /\ DOMAIN shown' = Path
  /\ \A d \in Path : shown[d] # None => shown'[d] = shown[d]

LEMMA PlaceKept ==
  ASSUME NEW d \in Path, PlaceInv(d), Kept, shown'[d] = shown[d]
  PROVE  PlaceInv(d)'
<1>1. CASE shown[d] = None
  BY <1>1 DEF PlaceInv
<1>2. ASSUME NEW p \in Packages, NEW a \in ResumeArg, Accepted(p, a),
             \/ shown[d] = ManifestOf(p, a)
             \/ shown[d] = FinalOf(p, a) /\ \E e \in Path : shown[e] = ManifestOf(p, a)
      PROVE  PlaceInv(d)'
  <2>1. ASSUME NEW e \in Path, shown[e] = ManifestOf(p, a)
        PROVE  shown'[e] = ManifestOf(p, a)
    BY <1>2, <2>1, NoRecordIsNone DEF Kept
  <2> QED
    BY <1>2, <2>1 DEF PlaceInv
<1> QED
  BY <1>1, <1>2 DEF PlaceInv

(* A step of somebody else takes nothing from a call. *)
LEMMA CallKept ==
  ASSUME NEW c \in Caller, CallInv(c), Kept,
         pc'[c] = pc[c], held'[c] = held[c], call'[c] = call[c]
  PROVE  CallInv(c)'
<1>1. CASE pc[c] \in {"built", "half", "published", "done", "failed"}
  <2>1. PICK p \in Packages, a \in ResumeArg : Accepted(p, a) /\ Built(call[c], p, a)
    BY <1>1 DEF CallInv
  <2>2. /\ call[c].mpath \in Path /\ call[c].manifest # None
        /\ call[c].fpath \in Path /\ call[c].final # None
    BY <2>1, NoRecordIsNone DEF Built
  <2>3. pc[c] \in {"half", "published", "done"} =>
          shown'[call[c].mpath] = call[c].manifest
    BY <2>2 DEF CallInv, Kept
  <2>4. pc[c] \in {"published", "done"} => shown'[call[c].fpath] = call[c].final
    BY <2>2 DEF CallInv, Kept
  <2> QED
    BY <2>1, <2>3, <2>4 DEF CallInv
<1>2. CASE pc[c] \notin {"built", "half", "published", "done", "failed"}
  BY <1>2 DEF CallInv
<1> QED
  BY <1>1, <1>2

(* What a step of c has to show for the invariant: that nothing is         *)
(* replaced, that what is new at a destination is accepted, and that c is  *)
(* where its pc says.                                                      *)
LEMMA StepOfOne ==
  ASSUME IInv, NEW c \in Caller, Kept,
         DOMAIN call' = Caller, DOMAIN held' = Caller,
         NEW l \in {"start", "holding", "built", "half", "published",
                    "done", "rejected", "failed", "late"},
         pc' = [pc EXCEPT ![c] = l],
         \A o \in Caller \ {c} : held'[o] = held[o] /\ call'[o] = call[o],
         CallInv(c)',
         \A d \in Path : shown'[d] = shown[d] \/ PlaceInv(d)'
  PROVE  IInv'
<1>1. \A o \in Caller \ {c} : CallInv(o)'
  BY CallKept DEF IInv
<1>2. \A d \in Path : PlaceInv(d)'
  BY PlaceKept DEF IInv
<1>3. pc' \in [Caller -> {"start", "holding", "built", "half", "published",
                          "done", "rejected", "failed", "late"}]
  BY DEF IInv
<1> QED
  BY <1>1, <1>2, <1>3 DEF IInv, Kept

LEMMA SameShown == IInv /\ UNCHANGED shown => Kept
  BY DEF IInv, Kept

-----------------------------------------------------------------------------
(* The actions. *)

LEMMA PrepareStep == ASSUME IInv, NEW c \in Caller, Prepare(c) PROVE IInv'
<1>1. /\ UNCHANGED <<call, shown>> /\ Kept
      /\ DOMAIN call' = Caller /\ DOMAIN held' = Caller
      /\ call'[c] = None
  BY SameShown DEF Prepare, IInv, CallInv
<1>2. PICK a \in PrepareArg :
        IF Preparable(a) /\ Qualified(Package(a))
        THEN /\ held' = [held EXCEPT ![c] = Package(a)]
             /\ Goto(c, "holding")
        ELSE Goto(c, "rejected") /\ UNCHANGED held
  BY DEF Prepare
<1>3. CASE held' = [held EXCEPT ![c] = Package(a)] /\ Goto(c, "holding")
  <2>1. held'[c] \in Packages /\ pc'[c] = "holding"
    BY <1>3 DEF Packages, IInv, Goto
  <2>2. CallInv(c)'
    BY <1>1, <2>1 DEF CallInv
  <2> QED
    BY <1>1, <1>3, <2>2, StepOfOne DEF Goto, IInv
<1>4. CASE Goto(c, "rejected") /\ UNCHANGED held
  <2>1. pc'[c] = "rejected"
    BY <1>4 DEF IInv, Goto
  <2>2. CallInv(c)'
    BY <1>1, <2>1 DEF CallInv
  <2> QED
    BY <1>1, <1>4, <2>2, StepOfOne DEF Goto, IInv
<1> QED
  BY <1>2, <1>3, <1>4

LEMMA ReceiveStep == ASSUME IInv, NEW c \in Caller, Receive(c) PROVE IInv'
<1>1. PICK p \in Supplied : held' = [held EXCEPT ![c] = p]
  BY DEF Receive
<1>2. held'[c] \in Packages /\ pc'[c] = "holding" /\ call'[c] = None
  BY <1>1 DEF Receive, Packages, IInv, CallInv, Goto
<1>3. CallInv(c)'
  BY <1>2 DEF CallInv
<1>4. Kept /\ UNCHANGED <<call, shown>> /\ Goto(c, "holding")
  BY SameShown DEF Receive
<1> QED
  BY <1>1, <1>3, <1>4, StepOfOne DEF Goto, IInv

LEMMA ResumeStep == ASSUME IInv, NEW c \in Caller, Resume(c) PROVE IInv'
<1>1. Kept /\ UNCHANGED <<held, shown>> /\ call[c] = None
  BY SameShown DEF Resume, IInv, CallInv
<1>2. PICK a \in ResumeArg, mp \in Path, fp \in Path :
        LET p == held[c]
            x == Chain(p, a)
            m == Manifest(x, a.note)
            f == Final(x, m, a.note)
        IN /\ mp # fp
           /\ IF Accepts(p, a, x, m, f)
              THEN /\ call' = [call EXCEPT ![c] =
                         [chain |-> x, manifest |-> m, final |-> f,
                          mpath |-> mp, fpath |-> fp]]
                   /\ Goto(c, "built")
              ELSE Goto(c, "rejected") /\ UNCHANGED call
  BY DEF Resume
<1> DEFINE p == held[c]
           k == [chain |-> Chain(p, a), manifest |-> ManifestOf(p, a),
                 final |-> FinalOf(p, a), mpath |-> mp, fpath |-> fp]
<1>3. \/ /\ Accepts(p, a, Chain(p, a), ManifestOf(p, a), FinalOf(p, a))
         /\ call' = [call EXCEPT ![c] = k] /\ Goto(c, "built")
      \/ Goto(c, "rejected") /\ UNCHANGED call
  BY <1>2 DEF ManifestOf, FinalOf
<1>4. mp # fp /\ p \in Packages
  BY <1>2 DEF Resume, IInv, CallInv
<1>5. CASE /\ Accepts(p, a, Chain(p, a), ManifestOf(p, a), FinalOf(p, a))
           /\ call' = [call EXCEPT ![c] = k] /\ Goto(c, "built")
  <2>0. k # None
    BY <1>4, ArgumentsAssumption DEF ManifestOf, FinalOf
  <2>1. Accepted(p, a) /\ Built(k, p, a)
    BY <1>4, <1>5, <2>0 DEF Accepted, Built
  <2> HIDE DEF k
  <2>2. call'[c] = k /\ pc'[c] = "built"
    BY <1>5 DEF IInv, Goto
  <2>3. CallInv(c)'
    BY <1>1, <1>4, <2>1, <2>2 DEF CallInv
  <2> QED
    BY <1>1, <1>5, <2>3, StepOfOne DEF Goto, IInv
<1>6. CASE Goto(c, "rejected") /\ UNCHANGED call
  <2>1. pc'[c] = "rejected" /\ call'[c] = None
    BY <1>1, <1>6 DEF IInv, Goto
  <2>2. CallInv(c)'
    BY <2>1 DEF CallInv
  <2> QED
    BY <1>1, <1>6, <2>2, StepOfOne DEF Goto, IInv
<1> QED
  BY <1>3, <1>5, <1>6

LEMMA PublishManifestStep ==
  ASSUME IInv, NEW c \in Caller, PublishManifest(c) PROVE IInv'
<1>1. PICK p \in Packages, a \in ResumeArg : Accepted(p, a) /\ Built(call[c], p, a)
  BY DEF PublishManifest, IInv, CallInv
<1>2. /\ call[c].mpath \in Path /\ call[c].manifest = ManifestOf(p, a)
      /\ shown[call[c].mpath] = None
      /\ shown' = [shown EXCEPT ![call[c].mpath] = call[c].manifest]
      /\ Goto(c, "half") /\ UNCHANGED <<held, call>>
  BY <1>1 DEF PublishManifest, Built
<1>3. DOMAIN shown = Path /\ Kept
  BY <1>2 DEF Kept, IInv
<1>4. shown'[call[c].mpath] = ManifestOf(p, a) /\ PlaceInv(call[c].mpath)'
  <2>1. shown'[call[c].mpath] = ManifestOf(p, a)
    BY <1>2, <1>3
  <2> QED
    BY <1>1, <1>2, <2>1 DEF PlaceInv
<1>5. CallInv(c)'
  <2>1. pc'[c] = "half" /\ held'[c] \in Packages /\ call'[c] = call[c]
    BY <1>2 DEF PublishManifest, CallInv, IInv, Goto
  <2> QED
    BY <1>1, <1>2, <1>4, <2>1 DEF CallInv
<1>6. \A d \in Path : shown'[d] = shown[d] \/ PlaceInv(d)'
  BY <1>2, <1>4 DEF IInv
<1> QED
  BY <1>2, <1>3, <1>5, <1>6, StepOfOne DEF Goto, IInv

LEMMA PublishFinalStep ==
  ASSUME IInv, NEW c \in Caller, PublishFinal(c) PROVE IInv'
<1>1. PICK p \in Packages, a \in ResumeArg : Accepted(p, a) /\ Built(call[c], p, a)
  BY DEF PublishFinal, IInv, CallInv
<1>2. /\ call[c].fpath \in Path /\ call[c].final = FinalOf(p, a)
      /\ call[c].mpath \in Path /\ call[c].manifest = ManifestOf(p, a)
      /\ call[c].mpath # call[c].fpath
      /\ shown[call[c].fpath] = None
      /\ shown' = [shown EXCEPT ![call[c].fpath] = call[c].final]
      /\ Goto(c, "published") /\ UNCHANGED <<held, call>>
      /\ shown[call[c].mpath] = call[c].manifest
  BY <1>1 DEF PublishFinal, Built, IInv, CallInv
<1>3. Kept
  BY <1>2 DEF Kept, IInv
<1>4. /\ shown'[call[c].fpath] = FinalOf(p, a)
      /\ shown'[call[c].mpath] = ManifestOf(p, a)
  BY <1>2 DEF IInv
<1>5. PlaceInv(call[c].fpath)'
  BY <1>1, <1>2, <1>4 DEF PlaceInv
<1>6. CallInv(c)'
  <2>1. pc'[c] = "published" /\ held'[c] \in Packages /\ call'[c] = call[c]
    BY <1>2 DEF PublishFinal, CallInv, IInv, Goto
  <2> QED
    BY <1>1, <1>2, <1>4, <2>1 DEF CallInv
<1>7. \A d \in Path : shown'[d] = shown[d] \/ PlaceInv(d)'
  BY <1>2, <1>5 DEF IInv
<1> QED
  BY <1>2, <1>3, <1>6, <1>7, StepOfOne DEF Goto, IInv

LEMMA FailStep == ASSUME IInv, NEW c \in Caller, Fail(c) PROVE IInv'
<1>1. Kept /\ Goto(c, "failed") /\ UNCHANGED <<held, call, shown>>
  BY SameShown DEF Fail
<1>2. CallInv(c) /\ pc[c] \in {"built", "half", "published"} /\ pc'[c] = "failed"
  BY <1>1 DEF Fail, IInv, Goto
<1>3. CallInv(c)'
  BY <1>1, <1>2 DEF CallInv
<1> QED
  BY <1>1, <1>3, StepOfOne DEF Goto, IInv

LEMMA ReturnStep == ASSUME IInv, NEW c \in Caller, Return(c) PROVE IInv'
<1>1. PICK p \in Packages, a \in ResumeArg : Accepted(p, a) /\ Built(call[c], p, a)
  BY DEF Return, IInv, CallInv
<1>2. ValidComposition(call[c].chain, call[c].manifest, call[c].final)
  BY <1>1, AcceptedIsValid DEF Built
<1>3. Kept /\ Goto(c, "done") /\ UNCHANGED <<held, call, shown>>
  BY <1>2, SameShown DEF Return
<1>4. pc[c] = "published" /\ CallInv(c) /\ pc'[c] = "done"
  BY <1>3 DEF Return, IInv, Goto
<1>5. CallInv(c)'
  BY <1>1, <1>3, <1>4 DEF CallInv
<1> QED
  BY <1>3, <1>5, StepOfOne DEF Goto, IInv

LEMMA InitIInv == Init => IInv
  BY DEF Init, IInv, CallInv, PlaceInv

LEMMA NextIInv == IInv /\ [Next]_vars => IInv'
<1> SUFFICES ASSUME IInv, [Next]_vars PROVE IInv'
  OBVIOUS
<1>1. ASSUME NEW c \in Caller,
             \/ Prepare(c) \/ Receive(c) \/ Resume(c)
             \/ PublishManifest(c) \/ PublishFinal(c) \/ Fail(c) \/ Return(c)
      PROVE  IInv'
  BY <1>1, PrepareStep, ReceiveStep, ResumeStep, PublishManifestStep,
     PublishFinalStep, FailStep, ReturnStep
<1>2. CASE UNCHANGED vars
  <2>1. \A c \in Caller : CallInv(c)'
    BY <1>2 DEF vars, IInv, CallInv
  <2>2. \A d \in Path : PlaceInv(d)'
    BY <1>2 DEF vars, IInv, PlaceInv
  <2> QED
    BY <1>2, <2>1, <2>2 DEF vars, IInv
<1> QED
  BY <1>1, <1>2 DEF Next

LEMMA Inductive == Spec => []IInv
  BY InitIInv, NextIInv, PTL DEF Spec

-----------------------------------------------------------------------------
(* What follows for the evidence. *)

(* A published record is that of an accepted call, and a final result has  *)
(* the manifest of its call beside it.                                     *)
LEMMA FinalIsAccepted ==
  ASSUME IInv, NEW f \in Finals
  PROVE  \E p \in Packages, a \in ResumeArg :
           /\ Accepted(p, a) /\ f = FinalOf(p, a)
           /\ \E e \in Path : shown[e] = ManifestOf(p, a)
<1>1. PICK d \in Path : f = shown[d] /\ IsFinal(shown[d])
  BY DEF Finals
<1>2. PICK p \in Packages, a \in ResumeArg :
        /\ Accepted(p, a)
        /\ \/ shown[d] = ManifestOf(p, a)
           \/ shown[d] = FinalOf(p, a) /\ \E e \in Path : shown[e] = ManifestOf(p, a)
  BY <1>1 DEF IInv, PlaceInv, IsFinal
<1>3. shown[d] # ManifestOf(p, a)
  BY <1>1, ManifestShape DEF IsFinal, ManifestOf
<1> QED
  BY <1>1, <1>2, <1>3

LEMMA FinalLeavesTerminal ==
  ASSUME NEW p, NEW a, Accepted(p, a)
  PROVE  FinalOf(p, a).state \in Terminal
  BY DEF Accepted, Accepts, FinalValid, Terminal

LEMMA ClosedChains == IInv => ChainClosed
<1> SUFFICES ASSUME IInv, NEW f \in Finals
             PROVE  LET a == f.manifest.required
                        t == f.manifest.transport
                    IN /\ \E d \in Path :
                            /\ IsManifest(shown[d])
                            /\ ManifestIdentity(shown[d]) = f.manifest
                       /\ f.state \in Terminal
                       /\ InputOf[a.context] = f.run /\ a.run.input = f.run
                       /\ a.request.context = a.context
                       /\ t.authorization.request = a.request
                       /\ t.response.request = a.request
                       /\ t.response.account = t.authorization.account
                       /\ t.response.model = a.request.model /\ ~t.response.error
                       /\ t.raw = a.proposal /\ a.proposal.request = a.request
                       /\ a.verification.proposal = f.proposal
                       /\ a.decision # None => a.decision.gate.verification = a.verification
  BY DEF ChainClosed
<1>1. PICK p \in Packages, b \in ResumeArg :
        /\ Accepted(p, b) /\ f = FinalOf(p, b)
        /\ \E e \in Path : shown[e] = ManifestOf(p, b)
  BY FinalIsAccepted
<1> DEFINE x == Chain(p, b)
<1>2. \E d \in Path : /\ IsManifest(shown[d])
                      /\ ManifestIdentity(shown[d]) = f.manifest
  BY <1>1, NoRecordIsNone, ManifestShape, ManifestOfFinal DEF IsManifest, ManifestOf
<1>3. f.state \in Terminal
  BY <1>1, FinalLeavesTerminal
<1>4. /\ f.run = x.run.input /\ f.proposal = x.proposal
      /\ f.manifest.required = RequiredArtifacts(x)
      /\ f.manifest.transport = TransportArtifacts(x)
  BY <1>1, ManifestOfFinal
<1>5. /\ InputOf[x.context] = x.run.input
      /\ x.request.context = x.context
      /\ x.authorization.request = x.request
      /\ x.response.request = x.request
      /\ x.response.account = x.authorization.account
      /\ x.response.model = x.request.model /\ ~x.response.error
      /\ x.response.raw = x.proposal /\ x.proposal.request = x.request
      /\ x.verification.proposal = x.proposal
      /\ x.decision # None => /\ x.decision.gate = x.gate
                              /\ x.gate.verification = x.verification
  BY <1>1, AcceptedChain
<1> HIDE DEF x
<1> QED
  BY <1>2, <1>3, <1>4, <1>5 DEF RequiredArtifacts, TransportArtifacts

LEMMA EarnedApprovals == IInv => ApprovalEarned
<1> SUFFICES ASSUME IInv, NEW f \in Finals, f.state = "HUMAN_APPROVED"
             PROVE  LET a == f.manifest.required
                    IN /\ a.legacy.checks = [r \in Rule |-> Pass]
                       /\ a.proposal.refs \subseteq RefsOf[a.context]
                       /\ a.verification.refs = a.proposal.refs
                       /\ ~a.verification.findings
                       /\ f.decision = "APPROVE"
  BY DEF ApprovalEarned
<1>1. PICK p \in Packages, b \in ResumeArg : Accepted(p, b) /\ f = FinalOf(p, b)
  BY FinalIsAccepted
<1> DEFINE x == Chain(p, b)
<1>2. f.state = x.run.state /\ f.manifest.required = RequiredArtifacts(x)
  BY <1>1, ManifestOfFinal
<1>3. x.run = p.run
  BY DEF Chain
<1>4. /\ x.legacy.checks = [r \in Rule |-> Pass]
      /\ x.proposal.refs \subseteq RefsOf[x.context]
      /\ x.verification.refs = x.proposal.refs /\ ~x.verification.findings
      /\ f.decision = "APPROVE"
  BY <1>1, <1>2, <1>3, AcceptedApproval
<1> HIDE DEF x
<1> QED
  BY <1>2, <1>4 DEF RequiredArtifacts

LEMMA DeterminedResults == IInv => ManifestDeterminesResult
<1> SUFFICES ASSUME IInv, NEW f \in Finals, NEW g \in Finals,
                    f.manifest = g.manifest
             PROVE  FinalIdentity(f) = FinalIdentity(g)
  BY DEF ManifestDeterminesResult
<1>1. PICK p \in Packages, a \in ResumeArg : f = FinalOf(p, a)
  BY FinalIsAccepted
<1>2. PICK q \in Packages, b \in ResumeArg : g = FinalOf(q, b)
  BY FinalIsAccepted
<1> QED
  BY <1>1, <1>2, IdentityFromManifest

LEMMA TypedRecords == IInv => TypeOK
<1> SUFFICES ASSUME IInv PROVE TypeOK
  OBVIOUS
<1>1. ASSUME NEW c \in Caller
      PROVE  /\ held[c] = None => pc[c] \in {"start", "rejected"}
             /\ call[c] = None <=> pc[c] \in {"start", "holding", "rejected"}
             /\ call[c] # None => {call[c].mpath, call[c].fpath} \subseteq Path
  BY ArgumentsAssumption DEF IInv, CallInv, Built
<1>2. ASSUME NEW d \in Path
      PROVE  shown[d] = None \/ IsManifest(shown[d]) \/ IsFinal(shown[d])
  <2>1. CASE shown[d] = None
    BY <2>1
  <2>2. ASSUME NEW p \in Packages, NEW a \in ResumeArg, Accepted(p, a),
               shown[d] \in {ManifestOf(p, a), FinalOf(p, a)}
        PROVE  IsManifest(shown[d]) \/ IsFinal(shown[d])
    BY <2>2, NoRecordIsNone, ManifestShape, FinalShape
       DEF IsManifest, IsFinal, ManifestOf, FinalOf
  <2> QED
    BY <2>1, <2>2 DEF IInv, PlaceInv
<1> QED
  BY <1>1, <1>2 DEF TypeOK, IInv

-----------------------------------------------------------------------------
(* The theorems. *)

(* Every call is where its pc says, and all that is published is a         *)
(* manifest or a final result (workflow.py 973-1140).                      *)
THEOREM WorkflowTypes == Spec => []TypeOK
<1> QED
  BY TypedRecords, Inductive, PTL


(* Whatever packages, answers and decisions of however many runs are       *)
(* combined in however many calls, every published result is that of a     *)
(* finished run, backed by a published manifest, whose artifacts are those *)
(* of one run from the request to the decision (workflow.py 973-1140,      *)
(* evidence.py 835-1232).                                                  *)
THEOREM EvidenceIsOneChain == Spec => []ChainClosed
<1>1. IInv => ChainClosed
  BY ClosedChains
<1> QED
  BY <1>1, Inductive, PTL

(* A published approval was earned: every rule of the catalog was checked, *)
(* none objected, and every source the proposal cites is in the context    *)
(* that was sent and was verified (verifier.py 671-683, evidence.py        *)
(* 896-910).                                                               *)
THEOREM ApprovalsAreEarned == Spec => []ApprovalEarned
<1>1. IInv => ApprovalEarned
  BY EarnedApprovals
<1> QED
  BY <1>1, Inductive, PTL

(* A manifest identity settles the final result that cites it, up to its   *)
(* note, over all calls (evidence.py 1239-1265).                           *)
THEOREM ManifestSettlesResult == Spec => []ManifestDeterminesResult
<1>1. IInv => ManifestDeterminesResult
  BY DeterminedResults
<1> QED
  BY <1>1, Inductive, PTL

(* The validation that follows publication never rejects: resume has       *)
(* checked before all that it checks (workflow.py 798-934, 1140).          *)
THEOREM NothingIsRejectedLate == Spec => []NoLateRejection
<1>1. IInv => NoLateRejection
  BY DEF IInv, CallInv, NoLateRejection
<1> QED
  BY <1>1, Inductive, PTL

(* What a call returned as persisted stays at its destinations, whatever   *)
(* other calls publish (workflow.py 1111-1140).                            *)
THEOREM ReturnedEvidenceStays == Spec => []ReturnedStays
<1>1. IInv => ReturnedStays
  BY DEF IInv, CallInv, ReturnedStays
<1> QED
  BY <1>1, Inductive, PTL

=============================================================================
