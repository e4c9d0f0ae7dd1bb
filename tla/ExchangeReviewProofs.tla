------------------------- MODULE ExchangeReviewProofs -----------------------
(***************************************************************************)
(* Proofs about the records of a proposal on its way: CloudExchange, from  *)
(* the disclosure decision to the admitted answer, and Review, from the    *)
(* checks of the verifier to what final evidence is built from.  Neither   *)
(* keeps a state but the records there are, so their invariants say of     *)
(* every record from which records, under which checks, it was made; sets  *)
(* of records only grow, so what made a record is still there.             *)
(***************************************************************************)
EXTENDS CloudExchange, Review, FiniteSetTheorems, WellFoundedInduction, TLAPS

-----------------------------------------------------------------------------
(* Disclosure. *)

LEMMA RankIsTotal ==
  ASSUME NEW floors \in SUBSET {"ALLOW", "ESCALATE", "DENY"}, floors # {}
  PROVE  \E r \in floors : \A s \in floors : Rank[s] <= Rank[r]
<1>1. CASE "DENY" \in floors
  BY <1>1 DEF Rank
<1>2. CASE "DENY" \notin floors /\ "ESCALATE" \in floors
  BY <1>2 DEF Rank
<1>3. CASE floors = {"ALLOW"}
  BY <1>3 DEF Rank
<1> QED
  BY <1>1, <1>2, <1>3

(* Only public material is allowed, and only if no finding asks for more.  *)
LEMMA OnlyPublicIsAllowed ==
  ASSUME NEW class \in DOMAIN ClassFloor,
         NEW findings \in SUBSET DOMAIN ActionFloor,
         DisclosureResult(class, findings) = "ALLOW"
  PROVE  class = "PUBLIC" /\ findings \subseteq {"ALLOW"}
<1> DEFINE floors == {ClassFloor[class]} \cup {ActionFloor[a] : a \in findings}
           top == CHOOSE r \in floors : \A s \in floors : Rank[s] <= Rank[r]
<1>1. /\ ClassFloor[class] \in {"ALLOW", "ESCALATE", "DENY"}
      /\ ClassFloor[class] = "ALLOW" => class = "PUBLIC"
  BY DEF ClassFloor
<1>2. ASSUME NEW a \in findings
      PROVE  /\ ActionFloor[a] \in {"ALLOW", "ESCALATE", "DENY"}
             /\ ActionFloor[a] = "ALLOW" => a = "ALLOW"
  BY DEF ActionFloor
<1>3. floors \in SUBSET {"ALLOW", "ESCALATE", "DENY"} /\ floors # {}
  BY <1>1, <1>2
<1>4. \E r \in floors : \A s \in floors : Rank[s] <= Rank[r]
  <2> HIDE DEF floors
  <2> QED
    BY <1>3, RankIsTotal
<1>5. top \in floors /\ \A s \in floors : Rank[s] <= Rank[top]
  <2> HIDE DEF floors
  <2> QED
    BY <1>4
<1>6. top = "ALLOW"
  BY DEF DisclosureResult
<1>7. \A s \in floors : s = "ALLOW"
  <2> HIDE DEF floors, top
  <2> QED
    BY <1>3, <1>5, <1>6 DEF Rank
<1> QED
  BY <1>1, <1>2, <1>7

-----------------------------------------------------------------------------
(* The invariant of the exchange: what each record was made from. *)

(* Entry e was admitted: cleared, valid, and a projection of its package.  *)
Admitted(e) ==
  /\ Cleared(e) /\ ValidContext(e.context)
  /\ \E run \in Run, budget \in Budget, note \in Note :
       e.context = CloudContext(run, e.package, budget, note)

ClearedInv == \A e \in cleared : Admitted(e)

RequestInv ==
  \A q \in requests : \E c \in Contexts :
    q.run = c.run /\ q.context = ContextIdentity(c)

HandoffInv ==
  \A h \in handoffs : \E q \in Requests, a \in authorizations :
    HandoffBound(h, q, a)

(* By what r was admitted: AdmitProposal's guard. *)
Admissible(r, q, a, h) ==
  /\ HandoffBound(h, q, a) /\ ResponseBound(r, q, a)
  /\ ProposalOnRequest(r.raw, q) /\ DeliveredBy(r.raw, r)

AdmittedInv ==
  \A r \in admitted :
    \E q \in Requests, a \in authorizations, h \in handoffs : Admissible(r, q, a, h)

ExchangeInv == ClearedInv /\ RequestInv /\ HandoffInv /\ AdmittedInv

-----------------------------------------------------------------------------
(* The steps of the exchange. *)

(* A step makes at most one kind of record and loses none. *)
LEMMA RecordsGrow ==
  [ExchangeNext]_exchangeVars =>
    /\ cleared \subseteq cleared' /\ requests \subseteq requests'
    /\ authorizations \subseteq authorizations'
    /\ handoffs \subseteq handoffs' /\ admitted \subseteq admitted'
    /\ Contexts \subseteq Contexts' /\ Requests \subseteq Requests'
<1> SUFFICES ASSUME [ExchangeNext]_exchangeVars
             PROVE  /\ cleared \subseteq cleared' /\ requests \subseteq requests'
                    /\ authorizations \subseteq authorizations'
                    /\ handoffs \subseteq handoffs' /\ admitted \subseteq admitted'
                    /\ Contexts \subseteq Contexts' /\ Requests \subseteq Requests'
  OBVIOUS
<1>1. /\ cleared \subseteq cleared' /\ requests \subseteq requests'
      /\ authorizations \subseteq authorizations'
      /\ handoffs \subseteq handoffs' /\ admitted \subseteq admitted'
  BY DEF ExchangeNext, MakeRecord, exchangeVars, AdmitContext, BuildRequest,
     BuildAuthorization, BuildHandoff, RecordResponse,
     AdaptResponse, AdmitProposal
<1> QED
  BY <1>1 DEF Contexts, Requests

LEMMA ClearedStep == ClearedInv /\ [ExchangeNext]_exchangeVars => ClearedInv'
<1> SUFFICES ASSUME ClearedInv, [ExchangeNext]_exchangeVars PROVE ClearedInv'
  OBVIOUS
<1>1. ASSUME NEW run \in Run, NEW p \in Package, NEW d \in Disclosure,
             NEW budget \in Budget, NEW note \in Note,
             AdmitContext(run, p, d, budget, note)
      PROVE  ClearedInv'
  <2> DEFINE context == CloudContext(run, p, budget, note)
             entry == [context |-> context, package |-> p, disclosure |-> d]
  <2>1. d.class = "PUBLIC" /\ d.findings \subseteq {"ALLOW"}
    <3>1. PICK class \in DOMAIN ClassFloor,
               findings \in SUBSET DOMAIN ActionFloor :
            d = BuildDisclosure(class, findings)
      BY DEF Disclosure
    <3>2. DisclosureResult(class, findings) = "ALLOW"
      BY <1>1, <3>1 DEF AdmitContext, BuildDisclosure
    <3> QED
      BY <3>1, <3>2, OnlyPublicIsAllowed DEF BuildDisclosure
  <2>2. \A i \in p.items : i \in context.items /\ i.refs \subseteq context.refs
    BY DEF CloudContext, ProjectedRefs
  <2>3. ValidContext(context) /\ cleared' = cleared \cup {entry}
    BY <1>1 DEF AdmitContext
  <2>4. entry.context = context /\ entry.package = p /\ entry.disclosure = d
    OBVIOUS
  <2>5. Admitted(entry)
    <3> HIDE DEF entry
    <3> QED
      BY <2>1, <2>2, <2>3, <2>4 DEF Admitted, Cleared
  <2> QED
    BY <2>3, <2>5 DEF ClearedInv
<1>2. CASE UNCHANGED cleared
  BY <1>2 DEF ClearedInv
<1> QED
  BY <1>1, <1>2 DEF ExchangeNext, MakeRecord, exchangeVars, BuildRequest,
     BuildAuthorization, BuildHandoff, RecordResponse,
     AdaptResponse, AdmitProposal

LEMMA RequestStep == RequestInv /\ [ExchangeNext]_exchangeVars => RequestInv'
<1> SUFFICES ASSUME RequestInv, [ExchangeNext]_exchangeVars, NEW q \in requests'
             PROVE  \E c \in Contexts' : q.run = c.run /\ q.context = ContextIdentity(c)
  BY DEF RequestInv
<1>1. CASE q \in requests
  BY <1>1, RecordsGrow DEF RequestInv
<1>2. ASSUME NEW c \in Contexts, NEW model \in Model, NEW human \in Human,
             BuildRequest(c, model, human), q \notin requests
      PROVE  \E d \in Contexts' : q.run = d.run /\ q.context = ContextIdentity(d)
  BY <1>2, RecordsGrow DEF BuildRequest
<1>3. CASE UNCHANGED requests
  BY <1>1, <1>3
<1> QED
  BY <1>1, <1>2, <1>3 DEF ExchangeNext, MakeRecord, exchangeVars, AdmitContext,
     BuildAuthorization, BuildHandoff, RecordResponse,
     AdaptResponse, AdmitProposal

LEMMA HandoffStep == HandoffInv /\ [ExchangeNext]_exchangeVars => HandoffInv'
<1> SUFFICES ASSUME HandoffInv, [ExchangeNext]_exchangeVars, NEW h \in handoffs'
             PROVE  \E q \in Requests', a \in authorizations' : HandoffBound(h, q, a)
  BY DEF HandoffInv
<1>1. CASE h \in handoffs
  BY <1>1, RecordsGrow DEF HandoffInv
<1>2. ASSUME NEW q \in Requests, NEW a \in authorizations, BuildHandoff(q, a),
             h \notin handoffs
      PROVE  \E r \in Requests', b \in authorizations' : HandoffBound(h, r, b)
  BY <1>2, RecordsGrow DEF BuildHandoff, HandoffBound
<1>3. CASE UNCHANGED handoffs
  BY <1>1, <1>3
<1> QED
  BY <1>1, <1>2, <1>3 DEF ExchangeNext, MakeRecord, exchangeVars, AdmitContext,
     BuildRequest, BuildAuthorization, RecordResponse,
     AdaptResponse, AdmitProposal

LEMMA AdmittedStep == AdmittedInv /\ [ExchangeNext]_exchangeVars => AdmittedInv'
<1> SUFFICES ASSUME AdmittedInv, [ExchangeNext]_exchangeVars, NEW r \in admitted'
             PROVE  \E q \in Requests', a \in authorizations', h \in handoffs' :
                      Admissible(r, q, a, h)
  BY DEF AdmittedInv
<1>1. CASE r \in admitted
  BY <1>1, RecordsGrow DEF AdmittedInv
<1>2. ASSUME NEW q \in Requests, NEW a \in authorizations, NEW h \in handoffs,
             NEW s \in responses, NEW t \in responses,
             AdmitProposal(t.raw, s, q, a, h), r \notin admitted
      PROVE  Admissible(r, q, a, h)
  BY <1>2 DEF AdmitProposal, Admissible
<1>3. CASE UNCHANGED admitted
  BY <1>1, <1>3
<1> QED
  BY <1>1, <1>2, <1>3, RecordsGrow DEF ExchangeNext, MakeRecord, exchangeVars,
     AdmitContext, BuildRequest, BuildAuthorization, BuildHandoff,
     RecordResponse, AdaptResponse

LEMMA ExchangeInductive == ExchangeSpec => []ExchangeInv
<1>1. ExchangeInit => ExchangeInv
  BY DEF ExchangeInit, ExchangeInv, ClearedInv, RequestInv, HandoffInv,
     AdmittedInv
<1>2. ExchangeInv /\ [ExchangeNext]_exchangeVars => ExchangeInv'
  BY ClearedStep, RequestStep, HandoffStep, AdmittedStep DEF ExchangeInv
<1> QED
  BY <1>1, <1>2, PTL DEF ExchangeSpec

-----------------------------------------------------------------------------
(* What the invariant of the exchange implies. *)

(* Whatever records of several runs a caller combines, a handoff of a      *)
(* request that was built here is for a valid context of its run, and one  *)
(* that was not written elsewhere was admitted from public material and    *)
(* carries all of its package (disclosure.py 240-253, cloud_boundary.py    *)
(* 1495-1538, 1640-1675).                                                  *)
THEOREM HandoffsAreCleared == ExchangeSpec => []NothingLeavesUncleared
<1>1. ASSUME ExchangeInv, NEW h \in handoffs,
             \A q \in OtherRequest : h.request # RequestIdentity(q)
      PROVE  \E c \in Contexts :
               /\ h.context = ContextIdentity(c) /\ h.run = c.run
               /\ ValidContext(c)
               /\ c \in OtherContext \/ \E e \in cleared : e.context = c /\ Cleared(e)
  <2>1. PICK q \in Requests, a \in authorizations : HandoffBound(h, q, a)
    BY <1>1 DEF ExchangeInv, HandoffInv
  <2>2. h.run = q.run /\ h.context = q.context /\ h.request = RequestIdentity(q)
    BY <2>1 DEF HandoffBound, Handoff
  <2>3. q \in requests
    BY <1>1, <2>2 DEF Requests
  <2>4. PICK c \in Contexts : q.run = c.run /\ q.context = ContextIdentity(c)
    BY <1>1, <2>3 DEF ExchangeInv, RequestInv
  <2>5. \/ c \in OtherContext /\ ValidContext(c)
        \/ \E e \in cleared : e.context = c /\ Cleared(e) /\ ValidContext(c)
    BY <1>1 DEF ExchangeInv, ClearedInv, Admitted, Contexts
  <2> QED
    BY <2>2, <2>4, <2>5
<1>2. ExchangeInv => NothingLeavesUncleared
  BY <1>1 DEF NothingLeavesUncleared
<1> QED
  BY <1>2, ExchangeInductive, PTL

(* An admitted answer is to a human's request for what its proposal is     *)
(* about, was authorized by that human for the account and the provider    *)
(* that gave it, and the two were handed off; whatever records it was      *)
(* recorded under (proposal.py 545-601, cloud_boundary.py 1805-1834).      *)
THEOREM AnswersAreAuthorized == ExchangeSpec => []AnswerIsAuthorized
<1>1. ASSUME ExchangeInv, NEW r \in admitted
      PROVE  \E q \in Requests, a \in authorizations, h \in handoffs :
               /\ r.raw.request = RequestIdentity(q) /\ r.raw.model = q.model
               /\ r.raw.run = q.run /\ r.raw.context = q.context
               /\ a.human = q.human /\ a.account = r.account /\ a.provider = r.provider
               /\ h.authorization = a /\ h.request = r.raw.request
               /\ q \in requests =>
                    \E c \in Contexts : /\ r.raw.context = ContextIdentity(c)
                                        /\ q.run = c.run
  <2>1. PICK q \in Requests, a \in authorizations, h \in handoffs :
          Admissible(r, q, a, h)
    BY <1>1 DEF ExchangeInv, AdmittedInv
  <2>2. /\ r.raw.request = RequestIdentity(q) /\ r.raw.run = q.run
        /\ r.raw.context = q.context
    BY <2>1 DEF Admissible, ProposalOnRequest
  <2>3. r.raw.model = q.model /\ a.account = r.account /\ a.provider = r.provider
    BY <2>1 DEF Admissible, ResponseBound, DeliveredBy
  <2>4. a.human = q.human /\ h.authorization = a /\ h.request = RequestIdentity(q)
    BY <2>1 DEF Admissible, HandoffBound, AuthorizationBound,
       Handoff
  <2>5. q \in requests =>
          \E c \in Contexts : r.raw.context = ContextIdentity(c) /\ q.run = c.run
    BY <1>1, <2>2 DEF ExchangeInv, RequestInv
  <2> QED
    BY <2>2, <2>3, <2>4, <2>5
<1>2. ExchangeInv => AnswerIsAuthorized
  BY <1>1 DEF AnswerIsAuthorized
<1> QED
  BY <1>2, ExchangeInductive, PTL

(* Two admitted answers with one response identity come from one delivery, *)
(* as far as the provider tells deliveries apart; two with one proposal    *)
(* identity are answers of one model to one request, though neither        *)
(* identity covers that (cloud_boundary.py 1805-1834, proposal.py          *)
(* 545-601).                                                               *)
THEOREM IdentitiesHideNoExchange == ExchangeSpec => []SameAnswerSameOrigin
<1>1. ASSUME ExchangeInv, NEW r \in admitted, NEW s \in admitted
      PROVE  /\ ResponseIdentity(r) = ResponseIdentity(s) =>
                  /\ r.id = s.id /\ r.usage = s.usage /\ r.model = s.model
             /\ ProposalIdentity(r.raw) = ProposalIdentity(s.raw) =>
                  r.request = s.request /\ r.model = s.model
  <2>1. PICK q \in Requests, a \in authorizations, h \in handoffs :
          Admissible(r, q, a, h)
    BY <1>1 DEF ExchangeInv, AdmittedInv
  <2>2. PICK p \in Requests, b \in authorizations, g \in handoffs :
          Admissible(s, p, b, g)
    BY <1>1 DEF ExchangeInv, AdmittedInv
  <2>3. ResponseIdentity(r) = ResponseIdentity(s) => r.raw = s.raw
    BY DEF ResponseIdentity
  <2>4. ProposalIdentity(r.raw) = ProposalIdentity(s.raw) =>
          r.raw.request = s.raw.request
    BY DEF ProposalIdentity
  <2>5. /\ r.request = r.raw.request /\ r.raw.request = RequestIdentity(q)
        /\ s.request = s.raw.request /\ s.raw.request = RequestIdentity(p)
    BY <2>1, <2>2 DEF Admissible, ResponseBound, ProposalOnRequest
  <2>6. r.model = q.model /\ s.model = p.model
    BY <2>1, <2>2 DEF Admissible, ResponseBound
  <2>7. RequestIdentity(q) = RequestIdentity(p) => q.model = p.model
    BY DEF RequestIdentity
  <2> QED
    BY <2>1, <2>2, <2>3, <2>4, <2>5, <2>6, <2>7 DEF Admissible,
       DeliveredBy
<1>2. ExchangeInv => SameAnswerSameOrigin
  BY <1>1 DEF SameAnswerSameOrigin
<1> QED
  BY <1>2, ExchangeInductive, PTL

-----------------------------------------------------------------------------
(* Induction over the naturals, said of sets. *)

LEMMA LeastNatural ==
  ASSUME NEW S \in SUBSET Nat, S # {}
  PROVE  \E m \in S : \A k \in S : m <= k
<1>1. \A k, m \in Nat : k < m => <<k, m>> \in OpToRel(<, Nat)
  BY DEF OpToRel
<1>2. \E R : IsWellFoundedOn(R, Nat) /\ \A k, m \in Nat : k < m => <<k, m>> \in R
  BY <1>1, NatLessThanWellFounded, Zenon
<1>3. PICK R : IsWellFoundedOn(R, Nat) /\ \A k, m \in Nat : k < m => <<k, m>> \in R
  BY <1>2, Zenon
<1>4. \E m \in S : \A k \in S : ~ (<<k, m>> \in R)
  <2>1. IsWellFoundedOn(R, Nat) /\ S \subseteq Nat /\ S # {}
    BY <1>3, Zenon
  <2> QED
    BY <2>1, WFMin, Zenon
<1>5. PICK m \in S : \A k \in S : ~ (<<k, m>> \in R)
  BY <1>4, Zenon
<1>6. ASSUME NEW k \in S PROVE m <= k
  <2>1. ~ (k < m)
    BY <1>3, <1>5, Zenon
  <2> QED
    BY <2>1
<1> QED
  BY <1>6, Zenon

LEMMA SetInduction ==
  ASSUME NEW S, 0 \in S, \A n \in Nat : n \in S => n + 1 \in S
  PROVE  Nat \subseteq S
<1> SUFFICES ASSUME Nat \ S # {} PROVE FALSE
  OBVIOUS
<1>1. PICK m \in Nat \ S : \A k \in Nat \ S : m <= k
  BY LeastNatural
<1>2. m # 0 /\ m - 1 \in Nat /\ m - 1 \in S
  BY <1>1
<1> QED
  BY <1>1, <1>2

-----------------------------------------------------------------------------
(* The legacy verifier. *)

(* Among any rules there is one that outranks all the others. *)
LEMMA SomeRuleOutranks ==
  ASSUME NEW W \in SUBSET Rule, W # {}
  PROVE  \E r \in W : \A s \in W : Outranks(r, s)
<1> DEFINE Top(S) == \E r \in S : \A s \in S : Outranks(r, s)
           T == {n \in Nat : \A S \in SUBSET (Rule \cap 1..n) : S # {} => Top(S)}
<1>1. /\ Rule \subseteq Nat \ {0} /\ \A r \in Rule : RuleSeverity[r] \in Nat
      /\ Rule = 1..Len(RuleSeverity) /\ Len(RuleSeverity) \in Nat
  BY CatalogAssumption DEF Rule
<1>2. 0 \in T
  OBVIOUS
<1>3. ASSUME NEW n \in Nat, n \in T PROVE n + 1 \in T
  <2> SUFFICES ASSUME NEW S \in SUBSET (Rule \cap 1..(n + 1)), S # {} PROVE Top(S)
    OBVIOUS
  <2>1. S \ {n + 1} \in SUBSET (Rule \cap 1..n)
    BY <1>1
  <2>2. CASE S \ {n + 1} = {}
    <3>1. S = {n + 1}
      BY <2>2
    <3>2. n + 1 \in Rule /\ n + 1 <= n + 1
      BY <3>1
    <3>3. Outranks(n + 1, n + 1)
      BY <3>2 DEF Outranks
    <3> QED
      BY <3>1, <3>3
  <2>3. CASE S \ {n + 1} # {}
    <3>1. PICK r \in S \ {n + 1} : \A s \in S \ {n + 1} : Outranks(r, s)
      BY <1>3, <2>1, <2>3
    <3>2. CASE n + 1 \in S /\ RuleSeverity[n + 1] > RuleSeverity[r]
      <4>1. \A s \in S : Outranks(n + 1, s)
        BY <1>1, <3>1, <3>2 DEF Outranks
      <4> QED
        BY <3>2, <4>1
    <3>3. CASE ~ (n + 1 \in S /\ RuleSeverity[n + 1] > RuleSeverity[r])
      <4>1. r <= n + 1 /\ \A s \in S : Outranks(r, s)
        BY <1>1, <3>1, <3>3 DEF Outranks
      <4> QED
        BY <4>1
    <3> QED
      BY <3>2, <3>3
  <2> QED
    BY <2>2, <2>3
<1>4. Nat \subseteq T
  <2> HIDE DEF T
  <2> QED
    BY <1>2, <1>3, SetInduction
<1>5. Len(RuleSeverity) \in T
  BY <1>1, <1>4
<1> QED
  BY <1>1, <1>5

LEMMA DecisionIsVerdict ==
  ASSUME NEW checks
  PROVE  Decision(checks) \in Verdict
  BY DEF Decision, Verdict

LEMMA PassMeansAllPassed ==
  ASSUME NEW checks, Decision(checks) = "PASS_FOR_REVIEW"
  PROVE  DOMAIN checks = Rule /\ Cited(checks) = {}
<1> DEFINE made == {CheckDecision(checks[r]) : r \in DOMAIN checks}
<1>1. DOMAIN checks = Rule /\ "DENY" \notin made /\ "ESCALATE" \notin made
  BY DEF Decision
<1>2. \A r \in DOMAIN checks : checks[r].failure = None
  BY <1>1 DEF CheckDecision
<1> QED
  BY <1>1, <1>2 DEF Cited

(* With all rules checked, the reason is that of a check that decided.     *)
LEMMA ReasonIsOfAWinner ==
  ASSUME NEW checks, DOMAIN checks = Rule
  PROVE  \E r \in Rule : /\ CheckDecision(checks[r]) = Decision(checks)
                         /\ WinningReason(checks) = checks[r].reason
<1> DEFINE made == {CheckDecision(checks[r]) : r \in DOMAIN checks}
           winners == {r \in DOMAIN checks : CheckDecision(checks[r]) = Decision(checks)}
           first == CHOOSE r \in winners : \A s \in winners : Outranks(r, s)
<1>1. 1 \in Rule
  BY CatalogAssumption DEF Rule
<1>2. \A r \in Rule : CheckDecision(checks[r]) \in Verdict
  BY DEF CheckDecision, Verdict
<1>3. Decision(checks) \in made
  BY <1>1, <1>2 DEF Decision, Verdict
<1>4. winners \in SUBSET Rule /\ winners # {}
  BY <1>3
<1>5. first \in winners
  <2> HIDE DEF winners
  <2> QED
    BY <1>4, SomeRuleOutranks
<1>6. WinningReason(checks) = checks[first].reason
  BY DEF WinningReason
<1> QED
  BY <1>5, <1>6

-----------------------------------------------------------------------------
(* The invariant: what each record was made from. *)

(* A result was made with failures that its checks are bound to.           *)
MadeWith(l, F) ==
  NoDuplicate(F) /\ ChecksBound(l.checks, l.context, F)

ResultInv ==
  \A l \in results :
    /\ l.checks \in CheckSet
    /\ l.decision = Decision(l.checks) /\ l.reason = WinningReason(l.checks)
    /\ \E F \in Failures : MadeWith(l, F)

VerificationInv == \A v \in verifications : v.codes \in Seq(Code)

Concluded(e) ==
  /\ Qualified(e)
  /\ e.failures \in Failures
  /\ e.verification \in verifications /\ e.legacy \in results

ConcludedInv == \A e \in concluded : Concluded(e)

ReviewInv == ResultInv /\ VerificationInv /\ ConcludedInv

LEMMA ReviewRecordsGrow ==
  [Next]_vars => /\ results \subseteq results' /\ verifications \subseteq verifications'
                 /\ concluded \subseteq concluded'
  BY DEF Next, vars, BuildResult, VerifySuppliedRecords, AdaptVerification,
         BuildGate, BuildDecision, Conclude

LEMMA ResultStep == ResultInv /\ [Next]_vars => ResultInv'
<1> DEFINE Good(l) == /\ l.checks \in CheckSet
                      /\ l.decision = Decision(l.checks)
                      /\ l.reason = WinningReason(l.checks)
                      /\ \E F \in Failures : MadeWith(l, F)
<1> SUFFICES ASSUME ResultInv, [Next]_vars, NEW l \in results' PROVE Good(l)
  BY DEF ResultInv
<1>1. CASE l \in results
  BY <1>1 DEF ResultInv
<1>2. ASSUME NEW input, NEW checks \in CheckSet, NEW F \in Failures,
             BuildResult(input, checks, F)
      PROVE  Good(l)
  <2>1. CASE l = Result(input, checks)
    <3>1. /\ l.context = input.context /\ l.checks = checks
          /\ l.decision = Decision(checks) /\ l.reason = WinningReason(checks)
      BY <2>1 DEF Result
    <3>2. NoDuplicate(F) /\ ChecksBound(checks, input.context, F)
      BY <1>2 DEF BuildResult
    <3>3. MadeWith(l, F)
      BY <3>1, <3>2 DEF MadeWith
    <3> QED
      BY <3>1, <3>3
  <2>2. l \in results \/ l = Result(input, checks)
    BY <1>2 DEF BuildResult
  <2> QED
    BY <1>1, <2>1, <2>2
<1>3. CASE UNCHANGED results
  BY <1>1, <1>3
<1>4. ASSUME NEW c \in Context, NEW checks \in CheckSet, NEW F \in Failures,
             VerifySuppliedRecords(c, checks, F)
      PROVE  Good(l)
  BY <1>2, <1>4 DEF VerifySuppliedRecords
<1> HIDE DEF Good
<1> QED
  BY <1>2, <1>3, <1>4 DEF Next, vars, AdaptVerification, BuildGate, BuildDecision, Conclude

LEMMA VerificationStep == VerificationInv /\ [Next]_vars => VerificationInv'
<1> SUFFICES ASSUME VerificationInv, [Next]_vars, NEW v \in verifications'
             PROVE  v.codes \in Seq(Code)
  BY DEF VerificationInv
<1>1. CASE v \in verifications
  BY <1>1 DEF VerificationInv
<1>2. ASSUME NEW o \in Opinion, NEW p \in Proposal, NEW c \in Context,
             NEW l \in results, NEW F \in Failures,
             AdaptVerification(o, p, c, l, F), v \notin verifications
      PROVE  v.codes \in Seq(Code)
  <2>1. v = Verification(p, o)
    BY <1>2 DEF AdaptVerification
  <2> QED
    BY <2>1, CatalogAssumption DEF Verification
<1>3. CASE UNCHANGED verifications
  BY <1>1, <1>3
<1> QED
  BY <1>1, <1>2, <1>3 DEF Next, vars, BuildResult, VerifySuppliedRecords,
     BuildGate, BuildDecision, Conclude

LEMMA ConcludedStep == ConcludedInv /\ [Next]_vars => ConcludedInv'
<1> SUFFICES ASSUME ConcludedInv, [Next]_vars, NEW e \in concluded'
             PROVE  Concluded(e)'
  BY DEF ConcludedInv
<1>1. CASE e \in concluded
  <2>1. Concluded(e)
    BY <1>1 DEF ConcludedInv
  <2> QED
    BY <2>1, ReviewRecordsGrow DEF Concluded
<1>2. ASSUME NEW p \in Proposal, NEW c \in Context, NEW l \in results,
             NEW F \in Failures, NEW v \in verifications, NEW g, NEW d,
             Conclude(p, c, l, F, v, g, d), e \notin concluded
      PROVE  Concluded(e)'
  <2> DEFINE entry == [proposal |-> p, context |-> c, legacy |-> l, failures |-> F,
                       verification |-> v, gate |-> g, decision |-> d]
  <2>1. /\ Qualified(entry) /\ e = entry
        /\ UNCHANGED <<results, verifications>>
    BY <1>2 DEF Conclude
  <2>2. entry.failures = F /\ entry.verification = v /\ entry.legacy = l
    OBVIOUS
  <2> HIDE DEF entry
  <2> QED
    BY <2>1, <2>2 DEF Concluded
<1>3. CASE UNCHANGED concluded
  BY <1>1, <1>3
<1> QED
  BY <1>1, <1>2, <1>3 DEF Next, vars, BuildResult, VerifySuppliedRecords,
     AdaptVerification, BuildGate, BuildDecision

LEMMA ReviewInductive == Spec => []ReviewInv
<1>1. Init => ReviewInv
  BY DEF Init, ReviewInv, ResultInv, VerificationInv, ConcludedInv
<1>2. ReviewInv /\ [Next]_vars => ReviewInv'
  BY ResultStep, VerificationStep, ConcludedStep DEF ReviewInv
<1> QED
  BY <1>1, <1>2, PTL DEF Spec

-----------------------------------------------------------------------------
(* What the invariant of the review implies. *)

(* A conclusion that passed or was approved rests on every rule, none of   *)
(* which objected, and on sources that are all verified; and a human's     *)
(* decision is legal for what the checks decide (verifier.py 1920-2072,    *)
(* human_gate.py 492-499, evidence.py 1119-1188).                          *)
THEOREM ConclusionsAreEarned == Spec => []ConclusionIsEarned
<1>1. ASSUME ReviewInv, NEW e \in concluded
      PROVE  LET checks == e.legacy.checks
                 action == IF e.decision = None THEN None ELSE e.decision.action
             IN /\ (e.verification.result = "PASS_FOR_REVIEW" \/ action = "APPROVE") =>
                     /\ DOMAIN checks = Rule /\ Cited(checks) = {} /\ e.failures = {}
                     /\ e.legacy.context = e.proposal.context
                     /\ e.proposal.refs \subseteq e.context.refs \cap e.verification.refs
                /\ action # None => action \in Options[Decision(checks)]
  <2> DEFINE checks == e.legacy.checks
             action == IF e.decision = None THEN None ELSE e.decision.action
  <2>1. /\ Qualified(e) /\ e.legacy \in results
    BY <1>1 DEF ReviewInv, ConcludedInv, Concluded
  <2>2. /\ Adaptable(e.verification, e.proposal, e.context, e.legacy, e.failures)
        /\ {FailureIdentity(f) : f \in e.failures} = Cited(checks)
    BY <2>1 DEF Qualified
  <2>3. e.verification.result = Decision(checks)
    BY <1>1, <2>1, <2>2 DEF Adaptable, ReviewInv, ResultInv
  <2>4. action # None => action \in Options[Decision(checks)]
    BY <2>1, <2>3 DEF Qualified, GateBound, LegalDecision
  <2>5. action = "APPROVE" => Decision(checks) = "PASS_FOR_REVIEW"
    BY <2>4, DecisionIsVerdict, CatalogAssumption DEF Options, Verdict
  <2>6. ASSUME Decision(checks) = "PASS_FOR_REVIEW"
        PROVE  /\ DOMAIN checks = Rule /\ Cited(checks) = {} /\ e.failures = {}
               /\ e.legacy.context = e.proposal.context
               /\ e.proposal.refs \subseteq e.context.refs \cap e.verification.refs
    <3>1. DOMAIN checks = Rule /\ Cited(checks) = {}
      BY <2>6, PassMeansAllPassed
    <3>2. e.failures = {}
      BY <2>2, <3>1
    <3>3. e.legacy.context = e.proposal.context
      BY <2>2 DEF Adaptable, ProposalOnContext, ResultOnContext
    <3>4. e.proposal.refs \subseteq e.context.refs \cap e.verification.refs
      BY <2>2, <2>3, <2>6 DEF Adaptable, RefsBound
    <3> QED
      BY <3>1, <3>2, <3>3, <3>4
  <2> HIDE DEF checks, action
  <2>7. /\ (e.verification.result = "PASS_FOR_REVIEW" \/ action = "APPROVE") =>
             /\ DOMAIN checks = Rule /\ Cited(checks) = {} /\ e.failures = {}
             /\ e.legacy.context = e.proposal.context
             /\ e.proposal.refs \subseteq e.context.refs \cap e.verification.refs
        /\ action # None => action \in Options[Decision(checks)]
    BY <2>3, <2>4, <2>5, <2>6
  <2> QED
    BY <2>7 DEF checks, action
<1>2. ReviewInv => ConclusionIsEarned
  BY <1>1 DEF ConclusionIsEarned
<1> QED
  BY <1>2, ReviewInductive, PTL

(* A failure is found again by its identity, so the details of a record    *)
(* that may be adapted are those of the failures it was given.             *)
LEMMA DetailsAreTheFailures ==
  ASSUME NEW v, NEW p, NEW c, NEW l, NEW F, Adaptable(v, p, c, l, F),
         {FailureIdentity(f) : f \in F} = Cited(l.checks)
  PROVE  v.details = {Detail(f) : f \in F}
<1>1. \A f \in F : Supplied(F, FailureIdentity(f)) = f
  BY DEF Adaptable, NoDuplicate, Supplied
<1>2. v.details = {Detail(Supplied(F, id)) : id \in Cited(l.checks)}
  BY DEF Adaptable, ReasonsBound
<1>3. {Detail(Supplied(F, id)) : id \in {FailureIdentity(f) : f \in F}}
        = {Detail(f) : f \in F}
  BY <1>1
<1> QED
  BY <1>2, <1>3

LEMMA DetailSays ==
  ASSUME NEW F, NEW D, D = {Detail(f) : f \in F}
  PROVE  /\ {d.explanation : d \in D} = {f.message : f \in F}
         /\ {d.code : d \in D} = {f.code : f \in F}
<1>1. \A f : /\ Detail(f).explanation = f.message /\ Detail(f).code = f.code
  BY DEF Detail
<1>2. /\ \A f \in F : Detail(f) \in D
      /\ \A d \in D : \E f \in F : d = Detail(f)
  OBVIOUS
<1>3. {d.explanation : d \in D} = {f.message : f \in F}
  BY <1>1, <1>2
<1>4. {d.code : d \in D} = {f.code : f \in F}
  BY <1>1, <1>2
<1> QED
  BY <1>3, <1>4

(* The codes of fitting details: each once, and more severe ones earlier.  *)
LEMMA CodesAreOrdered ==
  ASSUME NEW codes \in Seq(Code), NEW details, CodesFit(codes, details),
         \A d \in details : d.severity \in Nat
  PROVE  /\ {codes[i] : i \in 1..Len(codes)} = {d.code : d \in details}
         /\ \A d, x \in details, i, j \in 1..Len(codes) :
              codes[i] = d.code /\ codes[j] = x.code /\ x.severity > d.severity => j < i
<1> DEFINE severity == [c \in {d.code : d \in details} |->
                          (CHOOSE d \in details : d.code = c).severity]
<1>1. DOMAIN codes = 1..Len(codes) /\ Len(codes) \in Nat
  OBVIOUS
<1>2. /\ \A d, x \in details : d.code = x.code => d.severity = x.severity
      /\ {codes[i] : i \in DOMAIN codes} = DOMAIN severity
      /\ \A i, j \in DOMAIN codes : i < j =>
           \/ severity[codes[i]] > severity[codes[j]]
           \/ /\ severity[codes[i]] = severity[codes[j]]
              /\ CodeOrder[codes[i]] < CodeOrder[codes[j]]
  BY DEF CodesFit, Earlier
<1>3. ASSUME NEW d \in details PROVE severity[d.code] = d.severity
  <2> DEFINE x == CHOOSE y \in details : y.code = d.code
  <2>1. x \in details /\ x.code = d.code
    OBVIOUS
  <2>2. severity[d.code] = x.severity
    OBVIOUS
  <2> HIDE DEF x
  <2> QED
    BY <1>2, <2>1, <2>2
<1>4. DOMAIN severity = {d.code : d \in details}
  OBVIOUS
<1> HIDE DEF severity
<1>5. ASSUME NEW d \in details, NEW x \in details,
             NEW i \in 1..Len(codes), NEW j \in 1..Len(codes),
             codes[i] = d.code, codes[j] = x.code, x.severity > d.severity
      PROVE  j < i
  <2>1. severity[codes[i]] = d.severity /\ severity[codes[j]] = x.severity
    BY <1>3, <1>5
  <2>2. d.severity \in Nat /\ x.severity \in Nat
    OBVIOUS
  <2>3. i # j
    BY <1>5, <2>1, <2>2
  <2>4. ~ (i < j)
    BY <1>1, <1>2, <1>5, <2>1, <2>2
  <2> QED
    BY <2>3, <2>4
<1> QED
  BY <1>1, <1>2, <1>4, <1>5

(* The one reason of a result that final evidence is built from is the     *)
(* code of one of the failures, unless there is none.                      *)
LEMMA ReasonIsAFailure ==
  ASSUME NEW checks \in CheckSet, DOMAIN checks = Rule, NEW context, NEW F,
         F # {} => ChecksBound(checks, context, F),
         {FailureIdentity(f) : f \in F} = Cited(checks)
  PROVE  IF F = {} THEN WinningReason(checks) = "CHECK_PASS"
         ELSE \E f \in F : WinningReason(checks) = f.code
<1>1. PICK r \in Rule : /\ CheckDecision(checks[r]) = Decision(checks)
                        /\ WinningReason(checks) = checks[r].reason
  BY ReasonIsOfAWinner
<1>2. CASE F = {}
  <2>1. checks[r].failure = None
    BY <1>2 DEF Cited
  <2> QED
    BY <1>1, <1>2, <2>1, CatalogAssumption
<1>3. CASE F # {}
  <2>1. Cited(checks) # {}
    BY <1>3
  <2>2. Decision(checks) # "PASS_FOR_REVIEW"
    BY <2>1, PassMeansAllPassed
  <2>3. checks[r].failure # None
    BY <1>1, <2>2 DEF CheckDecision
  <2> QED
    BY <1>1, <1>3, <2>3 DEF ChecksBound
<1> QED
  BY <1>2, <1>3

(* The reasons that go into the final evidence are the failures beside     *)
(* them: in the same words though no identity of a failure covers words,   *)
(* the most severe first, and with the reason of the legacy result among   *)
(* them (verifier.py 686-702, 1535-1563, 1920-2072).                       *)
THEOREM PublishedReasonsAreFailures == Spec => []ReasonsAreTheFailures
<1>1. ASSUME ReviewInv, NEW e \in concluded
      PROVE  LET v == e.verification
                 last == Len(v.codes)
             IN /\ {d.explanation : d \in v.details} = {f.message : f \in e.failures}
                /\ {v.codes[i] : i \in 1..last} = {f.code : f \in e.failures}
                /\ \A f \in e.failures, i \in 1..last :
                     v.codes[i] = f.code =>
                       \A g \in e.failures : g.severity > f.severity =>
                         \E j \in 1..(i - 1) : v.codes[j] = g.code
                /\ IF last = 0 THEN e.legacy.reason = "CHECK_PASS"
                   ELSE \E i \in 1..last : v.codes[i] = e.legacy.reason
  <2> DEFINE v == e.verification
             last == Len(v.codes)
             F == e.failures
             checks == e.legacy.checks
  <2>1. /\ Adaptable(v, e.proposal, e.context, e.legacy, F)
        /\ {FailureIdentity(f) : f \in F} = Cited(checks)
        /\ F \in Failures /\ v.codes \in Seq(Code)
        /\ checks \in CheckSet /\ e.legacy.reason = WinningReason(checks)
    BY <1>1 DEF ReviewInv, ConcludedInv, Concluded, Qualified, ResultInv,
       VerificationInv
  <2>2. /\ CodesFit(v.codes, v.details) /\ DOMAIN checks = Rule
        /\ F # {} => ChecksBound(checks, e.legacy.context, F)
    BY <2>1 DEF Adaptable, ReasonsBound
  <2>3. v.details = {Detail(f) : f \in F}
    BY <2>1, DetailsAreTheFailures
  <2> HIDE DEF v, F, checks
  <2>4. /\ {d.explanation : d \in v.details} = {f.message : f \in F}
        /\ {d.code : d \in v.details} = {f.code : f \in F}
    BY <2>3, DetailSays
  <2>5. \A d \in v.details : d.severity \in Nat
    BY <2>1, <2>3, CatalogAssumption DEF Detail
  <2>6. /\ {v.codes[i] : i \in 1..last} = {f.code : f \in F}
        /\ last \in Nat
    <3>1. {v.codes[i] : i \in 1..last} = {d.code : d \in v.details}
      BY <2>1, <2>2, <2>5, CodesAreOrdered
    <3>2. last \in Nat
      BY <2>1
    <3> QED
      BY <2>4, <3>1, <3>2
  <2>7. ASSUME NEW f \in F, NEW i \in 1..last, v.codes[i] = f.code,
               NEW g \in F, g.severity > f.severity
        PROVE  \E j \in 1..(i - 1) : v.codes[j] = g.code
    <3>1. PICK j \in 1..last : v.codes[j] = g.code
      BY <2>6
    <3>2. /\ Detail(f) \in v.details /\ Detail(f).code = f.code
          /\ Detail(f).severity = f.severity
          /\ Detail(g) \in v.details /\ Detail(g).code = g.code
          /\ Detail(g).severity = g.severity
      BY <2>3 DEF Detail
    <3>3. j < i
      BY <2>1, <2>2, <2>5, <2>7, <3>1, <3>2, CodesAreOrdered
    <3> QED
      BY <2>6, <3>1, <3>3
  <2>8. IF F = {} THEN e.legacy.reason = "CHECK_PASS"
        ELSE \E f \in F : e.legacy.reason = f.code
    BY <2>1, <2>2, ReasonIsAFailure
  <2>9. last = 0 <=> F = {}
    <3>1. (\E i \in 1..last : TRUE) <=> \E f \in F : TRUE
      BY <2>6
    <3>2. (\E i \in 1..last : TRUE) <=> last # 0
      BY <2>6
    <3> QED
      BY <3>1, <3>2
  <2>10. IF last = 0 THEN e.legacy.reason = "CHECK_PASS"
         ELSE \E i \in 1..last : v.codes[i] = e.legacy.reason
    BY <2>6, <2>8, <2>9
  <2> QED
    BY <2>4, <2>6, <2>7, <2>10 DEF v, F, checks
<1>2. ReviewInv => ReasonsAreTheFailures
  BY <1>1 DEF ReasonsAreTheFailures
<1> QED
  BY <1>2, ReviewInductive, PTL

(* A result with a rule missing, with two failures of one code that differ *)
(* in severity, or not on the identity, task and sources of one cloud      *)
(* context leads nowhere: no public verification of it is accepted,        *)
(* whatever it says (the half of DeadEnds that does not depend on which    *)
(* proposals, failures and opinions callers have; verifier.py 1535-1563,   *)
(* 1920-2072).                                                             *)
THEOREM DeadEndsStayDead ==
  ASSUME NEW l, NEW v, NEW p, NEW c \in Context, NEW F, Adaptable(v, p, c, l, F)
  PROVE  /\ DOMAIN l.checks = Rule
         /\ \A f, g \in Cited(l.checks) : f.code = g.code => f.severity = g.severity
         /\ \E b \in Context : ResultOnContext(l, b)
<1>1. /\ DOMAIN l.checks = Rule
      /\ \A id \in Cited(l.checks) : \E f \in F : FailureIdentity(f) = id
      /\ v.details = {Detail(Supplied(F, id)) : id \in Cited(l.checks)}
      /\ CodesFit(v.codes, v.details)
  BY DEF Adaptable, ReasonsBound
<1>2. \E b \in Context : ResultOnContext(l, b)
  BY DEF Adaptable
<1>3. ASSUME NEW id \in Cited(l.checks)
      PROVE  /\ Detail(Supplied(F, id)).code = id.code
             /\ Detail(Supplied(F, id)).severity = id.severity
  <2>1. FailureIdentity(Supplied(F, id)) = id
    BY <1>1 DEF Supplied
  <2> QED
    BY <2>1 DEF FailureIdentity, Detail
<1>4. ASSUME NEW f \in Cited(l.checks), NEW g \in Cited(l.checks), f.code = g.code
      PROVE  f.severity = g.severity
  <2>1. /\ Detail(Supplied(F, f)) \in v.details
        /\ Detail(Supplied(F, g)) \in v.details
    BY <1>1
  <2>2. \A d, e \in v.details : d.code = e.code => d.severity = e.severity
    BY <1>1 DEF CodesFit
  <2> QED
    BY <1>3, <1>4, <2>1, <2>2
<1> QED
  BY <1>1, <1>2, <1>4

-----------------------------------------------------------------------------
(* What the others lead to.  Codes can always be listed.                   *)

LEMMA CodesAreCompared ==
  ASSUME NEW S \in SUBSET Code, NEW severity, \A k \in S : severity[k] \in Nat
  PROVE  /\ \A k, m \in S : k # m =>
              Earlier(severity, k, m) \/ Earlier(severity, m, k)
         /\ \A k, m, n \in S :
              Earlier(severity, k, m) /\ Earlier(severity, m, n)
                => Earlier(severity, k, n)
<1>1. \A k, m \in S : /\ CodeOrder[k] \in Nat /\ CodeOrder[m] \in Nat
                      /\ CodeOrder[k] = CodeOrder[m] => k = m
  BY CatalogAssumption
<1>2. ASSUME NEW k \in S, NEW m \in S, k # m
      PROVE  Earlier(severity, k, m) \/ Earlier(severity, m, k)
  BY <1>1, <1>2 DEF Earlier
<1>3. ASSUME NEW k \in S, NEW m \in S, NEW n \in S,
             Earlier(severity, k, m), Earlier(severity, m, n)
      PROVE  Earlier(severity, k, n)
  BY <1>1, <1>3 DEF Earlier
<1> QED
  BY <1>2, <1>3

(* Of finitely many codes one comes after all the others. *)
LEMMA SomeCodeIsLast ==
  ASSUME NEW severity, NEW A \in SUBSET Code, IsFiniteSet(A), A # {},
         \A k \in A : severity[k] \in Nat
  PROVE  \E m \in A : \A k \in A \ {m} : Earlier(severity, k, m)
<1> DEFINE HasLast(S) == \E m \in S : \A k \in S \ {m} : Earlier(severity, k, m)
           T == {n \in Nat : \A S \in SUBSET A :
                   IsFiniteSet(S) /\ Cardinality(S) = n + 1 => HasLast(S)}
<1>1. 0 \in T
  <2> SUFFICES ASSUME NEW S \in SUBSET A, IsFiniteSet(S), Cardinality(S) = 1
               PROVE  HasLast(S)
    OBVIOUS
  <2>1. PICK m : S = {m}
    BY FS_Singleton
  <2> QED
    BY <2>1
<1>2. ASSUME NEW n \in Nat, n \in T PROVE n + 1 \in T
  <2> SUFFICES ASSUME NEW S \in SUBSET A, IsFiniteSet(S), Cardinality(S) = n + 1 + 1
               PROVE  HasLast(S)
    OBVIOUS
  <2>1. PICK x : x \in S
    BY FS_EmptySet
  <2>2. IsFiniteSet(S \ {x}) /\ Cardinality(S \ {x}) = n + 1
    BY <2>1, FS_RemoveElement
  <2>3. PICK m \in S \ {x} : \A k \in (S \ {x}) \ {m} : Earlier(severity, k, m)
    BY <1>2, <2>2
  <2>4. CASE Earlier(severity, x, m)
    BY <2>3, <2>4
  <2>5. CASE Earlier(severity, m, x)
    <3>1. \A k \in S \ {x} : Earlier(severity, k, x)
      BY <2>1, <2>3, <2>5, CodesAreCompared
    <3> QED
      BY <2>1, <3>1
  <2>6. Earlier(severity, x, m) \/ Earlier(severity, m, x)
    BY <2>1, <2>3, CodesAreCompared
  <2> QED
    BY <2>4, <2>5, <2>6
<1>3. Nat \subseteq T
  <2> HIDE DEF T
  <2> QED
    BY <1>1, <1>2, SetInduction
<1>4. Cardinality(A) \in Nat /\ Cardinality(A) # 0
  BY FS_CardinalityType, FS_EmptySet
<1>5. PICK n \in Nat : Cardinality(A) = n + 1
  <2>1. Cardinality(A) - 1 \in Nat /\ Cardinality(A) = (Cardinality(A) - 1) + 1
    BY <1>4
  <2> QED
    BY <2>1
<1>6. n \in T
  BY <1>3
<1> QED
  BY <1>5, <1>6

Listed(codes, S, severity) ==
  /\ {codes[i] : i \in DOMAIN codes} = S
  /\ \A i, j \in DOMAIN codes : i < j => Earlier(severity, codes[i], codes[j])

LEMMA CodesCanBeListed ==
  ASSUME NEW severity, NEW A \in SUBSET Code, IsFiniteSet(A),
         \A k \in A : severity[k] \in Nat
  PROVE  \E codes \in [1..Cardinality(A) -> A] : Listed(codes, A, severity)
<1> DEFINE T == {n \in Nat : \A S \in SUBSET A :
                   IsFiniteSet(S) /\ Cardinality(S) = n =>
                     \E codes \in [1..n -> S] : Listed(codes, S, severity)}
<1>1. 0 \in T
  <2> SUFFICES ASSUME NEW S \in SUBSET A, IsFiniteSet(S), Cardinality(S) = 0
               PROVE  \E codes \in [1..0 -> S] : Listed(codes, S, severity)
    OBVIOUS
  <2> DEFINE none == [i \in 1..0 |-> CHOOSE k \in S : TRUE]
  <2>1. S = {}
    BY FS_EmptySet
  <2>2. none \in [1..0 -> S] /\ DOMAIN none = {}
    BY SMT
  <2>3. Listed(none, S, severity)
    BY <2>1, <2>2 DEF Listed
  <2> QED
    BY <2>2, <2>3
<1>2. ASSUME NEW n \in Nat, n \in T PROVE n + 1 \in T
  <2> SUFFICES ASSUME NEW S \in SUBSET A, IsFiniteSet(S), Cardinality(S) = n + 1
               PROVE  \E codes \in [1..(n + 1) -> S] : Listed(codes, S, severity)
    OBVIOUS
  <2>1. S # {}
    BY FS_EmptySet
  <2>2. PICK m \in S : \A k \in S \ {m} : Earlier(severity, k, m)
    BY <2>1, SomeCodeIsLast
  <2>3. IsFiniteSet(S \ {m}) /\ Cardinality(S \ {m}) = n
    <3>1. IsFiniteSet(S \ {m}) /\ Cardinality(S \ {m}) = Cardinality(S) - 1
      BY <2>2, FS_RemoveElement
    <3> QED
      BY <3>1
  <2>4. PICK rest \in [1..n -> S \ {m}] : Listed(rest, S \ {m}, severity)
    BY <1>2, <2>3
  <2> DEFINE codes == [i \in 1..(n + 1) |-> IF i = n + 1 THEN m ELSE rest[i]]
  <2>5. /\ codes \in [1..(n + 1) -> S] /\ codes[n + 1] = m
        /\ \A i \in 1..n : i \in 1..(n + 1) /\ codes[i] = rest[i]
        /\ \A i \in 1..(n + 1) : i = n + 1 \/ i \in 1..n
        /\ n + 1 \in 1..(n + 1)
    OBVIOUS
  <2> HIDE DEF codes
  <2>6. {codes[i] : i \in 1..(n + 1)} = S
    <3>1. {rest[i] : i \in 1..n} = S \ {m}
      BY <2>4 DEF Listed
    <3>2. ASSUME NEW k \in S PROVE \E i \in 1..(n + 1) : codes[i] = k
      <4>1. CASE k = m
        BY <2>5, <4>1
      <4>2. CASE k # m
        <5>1. PICK i \in 1..n : rest[i] = k
          BY <3>1, <4>2
        <5> QED
          BY <2>5, <5>1
      <4> QED
        BY <4>1, <4>2
    <3> QED
      BY <2>5, <3>2
  <2>7. ASSUME NEW i \in 1..(n + 1), NEW j \in 1..(n + 1), i < j
        PROVE  Earlier(severity, codes[i], codes[j])
    <3>1. i \in 1..n /\ codes[i] = rest[i] /\ rest[i] \in S \ {m}
      BY <2>5, <2>7
    <3>2. CASE j = n + 1
      BY <2>2, <2>5, <3>1, <3>2
    <3>3. CASE j \in 1..n
      BY <2>4, <2>5, <2>7, <3>1, <3>3 DEF Listed
    <3> QED
      BY <2>5, <3>2, <3>3
  <2>8. Listed(codes, S, severity)
    BY <2>5, <2>6, <2>7 DEF Listed
  <2> QED
    BY <2>5, <2>8
<1>3. Nat \subseteq T
  <2> HIDE DEF T
  <2> QED
    BY <1>1, <1>2, SetInduction
<1> QED
  BY <1>3, FS_CardinalityType

(* The details of the failures that are cited can be published.            *)
LEMMA SomeCodesFit ==
  ASSUME NEW details, NEW ids,
         {d.code : d \in details} \subseteq Code,
         \A d \in details : d.severity \in Nat,
         \A d, e \in details : d.code = e.code => d.severity = e.severity
  PROVE  \E n \in 0..Cardinality(Code) : \E codes \in [1..n -> Code] :
           CodesFit(codes, details)
<1> DEFINE S == {d.code : d \in details}
           severity == [c \in S |-> (CHOOSE d \in details : d.code = c).severity]
<1>1. \A k \in S : severity[k] \in Nat
  OBVIOUS
<1>2. S \in SUBSET Code /\ IsFiniteSet(S)
  BY FS_Subset, CatalogAssumption
<1>3. Cardinality(S) \in 0..Cardinality(Code)
  BY <1>2, FS_Subset, FS_CardinalityType, CatalogAssumption
<1>4. DOMAIN severity = S
  OBVIOUS
<1>5. \E codes \in [1..Cardinality(S) -> S] : Listed(codes, S, severity)
  <2> HIDE DEF S, severity
  <2> QED
    BY <1>1, <1>2, CodesCanBeListed
<1>6. PICK codes \in [1..Cardinality(S) -> S] : Listed(codes, S, severity)
  BY <1>5
<1>7. codes \in [1..Cardinality(S) -> Code]
  BY <1>2
<1>8. CodesFit(codes, details)
  <2>1. /\ {codes[i] : i \in DOMAIN codes} = DOMAIN severity
        /\ \A i, j \in DOMAIN codes : i < j => Earlier(severity, codes[i], codes[j])
    <3> HIDE DEF S, severity
    <3> QED
      BY <1>4, <1>6 DEF Listed
  <2> QED
    BY <2>1 DEF CodesFit
<1> QED
  BY <1>3, <1>7, <1>8

(* A result whose rules are all there, whose failures agree on severities  *)
(* and which is on a cloud context can be published: the details of what   *)
(* its checks cite, listed as the code lists them, are accepted with a     *)
(* proposal on that context.                                               *)
LEMMA OthersLeadOn ==
  ASSUME NEW l, NEW c \in Context, NEW F \in Failures, NEW p,
         l.decision = Decision(l.checks), ResultOnContext(l, c), MadeWith(l, F),
         ProposalOnContext(p, c), p.refs \subseteq c.refs,
         DOMAIN l.checks = Rule,
         \A f, g \in Cited(l.checks) : f.code = g.code => f.severity = g.severity
  PROVE  \E n \in 0..Cardinality(Code) : \E codes \in [1..n -> Code] :
           Adaptable(Verification(p, [result |-> l.decision, codes |-> codes,
                       details |-> {Detail(f) : f \in CitedOf(F, l.checks)},
                       refs |-> p.refs, unsupported |-> {}, findings |-> FALSE]),
                     p, c, l, F)
<1> DEFINE ids == Cited(l.checks)
           details == {Detail(f) : f \in CitedOf(F, l.checks)}
<1>1. \A f : /\ Detail(f).code = FailureIdentity(f).code
            /\ Detail(f).severity = FailureIdentity(f).severity
            /\ Detail(f).code = f.code /\ Detail(f).severity = f.severity
  BY DEF Detail, FailureIdentity
<1>2. \A id \in ids : \E f \in F : FailureIdentity(f) = id
  BY DEF MadeWith, ChecksBound, Cited
<1>3. \A f \in F : Supplied(F, FailureIdentity(f)) = f
  BY DEF MadeWith, NoDuplicate, Supplied
<1>4. details = {Detail(Supplied(F, id)) : id \in ids}
  BY <1>2, <1>3 DEF CitedOf
<1>5. \A d \in details : \E f \in F : d = Detail(f) /\ FailureIdentity(f) \in ids
  BY DEF CitedOf
<1>6. /\ {d.code : d \in details} \subseteq Code
      /\ \A d \in details : d.severity \in Nat
      /\ \A d, e \in details : d.code = e.code => d.severity = e.severity
  <2> HIDE DEF details, ids
  <2>1. \A d \in details : d.code \in Code /\ d.severity \in Nat
    BY <1>1, <1>5, CatalogAssumption
  <2>2. ASSUME NEW d \in details, NEW e \in details, d.code = e.code
        PROVE  d.severity = e.severity
    <3>1. PICK f \in F : d = Detail(f) /\ FailureIdentity(f) \in ids
      BY <1>5
    <3>2. PICK g \in F : e = Detail(g) /\ FailureIdentity(g) \in ids
      BY <1>5
    <3> QED
      BY <1>1, <2>2, <3>1, <3>2 DEF ids
  <2> QED
    BY <2>1, <2>2
<1>7. PICK n \in 0..Cardinality(Code) : \E codes \in [1..n -> Code] : CodesFit(codes, details)
  <2> HIDE DEF details
  <2> QED
    BY <1>6, SomeCodesFit
<1>8. PICK codes \in [1..n -> Code] : CodesFit(codes, details)
  BY <1>7
<1> DEFINE o == [result |-> l.decision, codes |-> codes, details |-> details,
                 refs |-> p.refs, unsupported |-> {}, findings |-> FALSE]
           v == Verification(p, o)
<1>9. /\ v.result = l.decision /\ v.codes = codes /\ v.details = details
      /\ v.proposal = p.id /\ v.refs = p.refs /\ v.unsupported = {}
      /\ v.findings = FALSE
  BY DEF Verification
<1>10. v.result = "PASS_FOR_REVIEW" => v.details = {}
  <2>1. ids = {} => details = {}
    BY DEF CitedOf
  <2> HIDE DEF v, details
  <2> QED
    BY <1>9, <2>1, PassMeansAllPassed
<1>11. ReasonsBound(v, l, F)
  <2> HIDE DEF v, details
  <2> QED
    BY <1>2, <1>4, <1>8, <1>9 DEF ReasonsBound, ids
<1>12. Adaptable(v, p, c, l, F)
  <2> HIDE DEF v, details
  <2>1. /\ NoDuplicate(F) /\ ChecksBound(l.checks, l.context, F)
        /\ ResultOnContext(l, c)
    BY DEF MadeWith
  <2>2. RefsBound(v, p, c)
    BY <1>9 DEF RefsBound
  <2> QED
    BY <1>9, <1>10, <1>11, <2>1, <2>2 DEF Adaptable
<1> QED
  BY <1>12

(* Which results lead nowhere is settled when they are built: if every     *)
(* cloud context has a proposal on it that cites only its sources, then a  *)
(* result can be published in some words unless a rule is missing, two     *)
(* failures of one code differ in severity, or it is not on the identity,  *)
(* task and sources of one cloud context (verifier.py 671-702, 1535-1563,  *)
(* 1920-2072).                                                             *)
THEOREM OnlyTheseLeadNowhere ==
  ASSUME \A c \in Context : \E p \in Proposal :
           ProposalOnContext(p, c) /\ p.refs \subseteq c.refs
  PROVE  Spec => []DeadEnds
<1> DEFINE Published(l) ==
      \E p \in Proposal, c \in Context, F \in Failures,
         n \in 0..Cardinality(Code) : \E codes \in [1..n -> Code] :
        Adaptable(Verification(p, [result |-> l.decision, codes |-> codes,
                    details |-> {Detail(f) : f \in CitedOf(F, l.checks)},
                    refs |-> p.refs, unsupported |-> {}, findings |-> FALSE]),
                  p, c, l, F)
      Alive(l) ==
        /\ DOMAIN l.checks = Rule
        /\ \A f, g \in Cited(l.checks) : f.code = g.code => f.severity = g.severity
        /\ \E c \in Context : ResultOnContext(l, c)
<1>1. ASSUME ReviewInv, NEW l \in results, Alive(l) PROVE Published(l)
  <2>1. PICK F \in Failures : MadeWith(l, F)
    BY <1>1 DEF ReviewInv, ResultInv
  <2>2. l.decision = Decision(l.checks)
    BY <1>1 DEF ReviewInv, ResultInv
  <2>3. PICK c \in Context : ResultOnContext(l, c)
    BY <1>1
  <2>4. PICK p \in Proposal : ProposalOnContext(p, c) /\ p.refs \subseteq c.refs
    OBVIOUS
  <2>5. \E n \in 0..Cardinality(Code) : \E codes \in [1..n -> Code] :
          Adaptable(Verification(p, [result |-> l.decision, codes |-> codes,
                      details |-> {Detail(f) : f \in CitedOf(F, l.checks)},
                      refs |-> p.refs, unsupported |-> {}, findings |-> FALSE]),
                    p, c, l, F)
    BY <1>1, <2>1, <2>2, <2>3, <2>4, OthersLeadOn
  <2> QED
    BY <2>5
<1>2. ASSUME NEW l, Published(l) PROVE Alive(l)
  <2>1. PICK p \in Proposal, c \in Context, F \in Failures :
               \E v : Adaptable(v, p, c, l, F)
    BY <1>2
  <2> QED
    BY <2>1, DeadEndsStayDead
<1>3. ReviewInv => DeadEnds
  <2>1. ReviewInv => \A l \in results : Published(l) <=> Alive(l)
    <3> HIDE DEF Published, Alive
    <3> QED
      BY <1>1, <1>2
  <2> QED
    BY <2>1 DEF DeadEnds
<1> QED
  BY <1>3, ReviewInductive, PTL

=============================================================================
