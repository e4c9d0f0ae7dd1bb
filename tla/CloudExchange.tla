---------------------------- MODULE CloudExchange ---------------------------
(***************************************************************************)
(* From a disclosure decision to an admitted proposal: disclosure.py, the  *)
(* records of cloud_boundary.py, and the admission of an answer in         *)
(* proposal.py.                                                            *)
(*                                                                         *)
(* These modules keep no state.  They build and check immutable records,   *)
(* and the callers keep the records: any call may be given any record that *)
(* was ever built, of this run or of another, in any order.  The state is  *)
(* therefore the collection of the records there are, and an action is one *)
(* call on some of them.  A record that is given as a mapping is checked   *)
(* like the record and has its identity recomputed, so it stands for the   *)
(* record itself.                                                          *)
(*                                                                         *)
(* A call cannot tell by whom a record was made: an identity is keyed by   *)
(* nothing and the disclosure result a context carries is its own word.    *)
(* Contexts and requests that somebody has written without the calls here  *)
(* are therefore used like any other.  An authorization, a handoff or a    *)
(* response that is written so and is bound to its request is one the      *)
(* calls would have built from that request, and needs no case of its own. *)
(*                                                                         *)
(* An identity is modelled as the value it is the SHA-256 of: the fields   *)
(* the code hashes, and none of those it leaves out.                       *)
(***************************************************************************)
EXTENDS Naturals, FiniteSets

CONSTANTS
  Run,         \* run identities
  Package,     \* bounded contexts, as the context builder qualified them
  Budget,      \* bytes a cloud context may have
  Note,        \* bytes of the observational metadata of a context
  Model, Provider, Account, Human,  \* what requests and authorizations name
  Transport,   \* what a provider may have answered, and how it says it did
  Garbage,     \* answers that are no JSON of a proposal
  LongId,      \* provider request ids longer than a proposal can carry
  OtherContext,  \* cloud contexts written without admit_cloud_context
  OtherRequest,  \* cloud requests written without build_cloud_request
  MaxExchanges \* bound: records there are, admitted ones not counted again

VARIABLES
  cleared,         \* the cloud contexts, with what each was admitted from
  requests,        \* cloud requests
  authorizations,  \* execution authorizations
  handoffs,        \* execution handoffs
  responses,       \* response records
  admitted         \* the responses whose bytes were admitted as a proposal

exchangeVars == <<cleared, requests, authorizations, handoffs, responses, admitted>>

ExchangeRoom ==
  Cardinality(cleared) + Cardinality(requests) + Cardinality(authorizations)
    + Cardinality(handoffs) + Cardinality(responses) < MaxExchanges

-----------------------------------------------------------------------------
(* Disclosure. *)

Rank == [ALLOW |-> 0, ESCALATE |-> 1, DENY |-> 2]
ClassFloor == [PUBLIC |-> "ALLOW", INTERNAL |-> "ESCALATE",
               PROTECTED |-> "DENY", SECRET_LIKE |-> "DENY", UNKNOWN |-> "DENY"]
ActionFloor == [ALLOW |-> "ALLOW", REDACT |-> "ESCALATE",
                ESCALATE |-> "ESCALATE", DENY |-> "DENY"]

\* Mutant: the classification alone decides.
DisclosureResult_ByClass(class, findings) == ClassFloor[class]

(* The most restrictive floor: of the class, and of each finding's action. *)
DisclosureResult(class, findings) ==
  LET floors == {ClassFloor[class]} \cup {ActionFloor[a] : a \in findings}
  IN CHOOSE r \in floors : \A s \in floors : Rank[s] <= Rank[r]

BuildDisclosure(class, findings) ==
  [class |-> class, findings |-> findings,
   result |-> DisclosureResult(class, findings)]

Disclosure == {BuildDisclosure(class, findings) :
                 class \in DOMAIN ClassFloor, findings \in SUBSET DOMAIN ActionFloor}

-----------------------------------------------------------------------------
(* The cloud context: an exact projection of a bounded context. *)

(* Every source reference of the package's items, each once. *)
ProjectedRefs(p) == UNION {i.refs : i \in p.items}

CloudContext(run, p, budget, note) ==
  [run |-> run, task |-> p.task, set |-> p.set, items |-> p.items,
   refs |-> ProjectedRefs(p), chain |-> p.chain, budget |-> budget,
   disclosure |-> "ALLOW", note |-> note]

(* The note is no part of the identity, but it counts as bytes. *)
ContextIdentity(c) ==
  [f \in DOMAIN c \ {"note"} |-> c[f]]

(* In units of an item, a reference or a note. *)
Bytes(c) == Cardinality(c.items) + Cardinality(c.refs) + c.note

(* What can be checked of a context alone.                                 *)
ValidContext(c) ==
  /\ c.disclosure = "ALLOW"
  /\ c.items # {} /\ c.refs # {}
  /\ \A r \in c.refs : r.set = c.set
  /\ \A i, j \in c.items : i.id = j.id => i = j
  /\ Bytes(c) <= c.budget

(* The contexts a call may be given and takes.                             *)
Contexts == {e.context : e \in cleared} \cup {c \in OtherContext : ValidContext(c)}

AdmitContext(run, p, disclosure, budget, note) ==
  LET context == CloudContext(run, p, budget, note)
      entry == [context |-> context, package |-> p, disclosure |-> disclosure]
  IN /\ disclosure.result = "ALLOW"
     /\ ValidContext(context)
     /\ cleared' = cleared \cup {entry}
     /\ UNCHANGED <<requests, authorizations, handoffs, responses, admitted>>

-----------------------------------------------------------------------------
(* Requests, authorizations and handoffs. *)

(* Who authorized a request is not part of what the request is. *)
RequestIdentity(q) == [run |-> q.run, context |-> q.context, model |-> q.model]

(* The requests a call may be given.                                       *)
Requests == requests \cup OtherRequest

BuildRequest(c, model, human) ==
  /\ requests' = requests \cup
       {[run |-> c.run, context |-> ContextIdentity(c), model |-> model,
         human |-> human]}
  /\ UNCHANGED <<cleared, authorizations, handoffs, responses, admitted>>

BuildAuthorization(q, provider, account) ==
  /\ authorizations' = authorizations \cup
       {[run |-> q.run, context |-> q.context, request |-> RequestIdentity(q),
         model |-> q.model, provider |-> provider, account |-> account,
         human |-> q.human]}
  /\ UNCHANGED <<cleared, requests, handoffs, responses, admitted>>

AuthorizationBound(a, q) ==
  /\ a.run = q.run /\ a.context = q.context /\ a.model = q.model
  /\ a.request = RequestIdentity(q)
  /\ a.human = q.human

(* The handoff of a request and its authorization; it repeats both. *)
Handoff(q, a) ==
  [run |-> q.run, context |-> q.context, request |-> RequestIdentity(q),
   authorization |-> a, model |-> q.model, provider |-> a.provider,
   account |-> a.account, human |-> a.human]

HandoffBound(h, q, a) == AuthorizationBound(a, q) /\ h = Handoff(q, a)

BuildHandoff(q, a) ==
  /\ AuthorizationBound(a, q)
  /\ handoffs' = handoffs \cup {Handoff(q, a)}
  /\ UNCHANGED <<cleared, requests, authorizations, responses, admitted>>

-----------------------------------------------------------------------------
(* Responses.  What the transport reports is the caller's word. *)

Response(q, t) ==
  [request |-> RequestIdentity(q), attempt |-> 1, raw |-> t.raw,
   provider |-> t.provider, model |-> t.model, id |-> t.id,
   account |-> t.account, usage |-> t.usage, error |-> t.error]

(* Neither the account nor the provider's ids are part of the identity. *)
ResponseIdentity(r) ==
  [request |-> r.request, attempt |-> r.attempt, raw |-> r.raw]

\* Mutant: the account that answered is not compared.
ResponseBound_AnyAccount(r, q, a) ==
  /\ AuthorizationBound(a, q)
  /\ r.request = RequestIdentity(q)
  /\ r.provider = a.provider
  /\ r.model = a.model
  /\ ~r.error

ResponseBound(r, q, a) ==
  /\ AuthorizationBound(a, q)
  /\ r.request = RequestIdentity(q)
  /\ r.attempt = 1
  /\ r.provider = a.provider
  /\ r.model = a.model /\ r.model = q.model
  /\ r.account = a.account
  /\ ~r.error

(* build_cloud_response_record: a record of whatever the transport says.   *)
RecordResponse(q, a, t) ==
  /\ AuthorizationBound(a, q)
  /\ responses' = responses \cup {Response(q, t)}
  /\ UNCHANGED <<cleared, requests, authorizations, handoffs, admitted>>

(* adapt_governed_external_transport_response: only with the handoff, and  *)
(* only what is bound.                                                     *)
AdaptResponse(q, a, h, t) ==
  /\ HandoffBound(h, q, a)
  /\ ResponseBound(Response(q, t), q, a)
  /\ RecordResponse(q, a, t)

-----------------------------------------------------------------------------
(* Admission of an answer as a proposal. *)

(* What a proposal is, without who delivered it and its prose. *)
ProposalIdentity(p) ==
  [request |-> p.request, run |-> p.run, task |-> p.task, context |-> p.context,
   claims |-> p.claims, refs |-> p.refs]

(* The bytes parse as a proposal whose declared identity is its own. *)
Parses(raw) ==
  /\ raw \notin Garbage
  /\ raw.declared = ProposalIdentity(raw)
  /\ raw.claims # {} /\ raw.refs # {}
  /\ raw.id \notin LongId

ProposalOnRequest(p, q) ==
  /\ p.request = RequestIdentity(q)
  /\ p.run = q.run
  /\ p.context = q.context

\* Mutant: the proposal may name another provider request id.
DeliveredBy_AnyId(p, r) ==
  p.model = r.model /\ p.attempt = r.attempt /\ p.usage = r.usage

DeliveredBy(p, r) ==
  /\ p.model = r.model /\ p.id = r.id
  /\ p.attempt = r.attempt /\ p.usage = r.usage

AdmitProposal(raw, r, q, a, h) ==
  /\ HandoffBound(h, q, a)
  /\ ResponseBound(r, q, a)
  /\ raw = r.raw
  /\ Parses(raw)
  /\ ProposalOnRequest(raw, q)
  /\ DeliveredBy(raw, r)
  /\ admitted' = admitted \cup {r}
  /\ UNCHANGED <<cleared, requests, authorizations, handoffs, responses>>

-----------------------------------------------------------------------------
ExchangeInit ==
  /\ cleared = {} /\ requests = {} /\ authorizations = {}
  /\ handoffs = {} /\ responses = {} /\ admitted = {}

(* The calls that make a record. *)
MakeRecord ==
  \/ \E run \in Run, p \in Package, d \in Disclosure, budget \in Budget,
        note \in Note : AdmitContext(run, p, d, budget, note)
  \/ \E c \in Contexts, model \in Model, human \in Human :
        BuildRequest(c, model, human)
  \/ \E q \in Requests, provider \in Provider, account \in Account :
        BuildAuthorization(q, provider, account)
  \/ \E q \in Requests, a \in authorizations :
        \/ BuildHandoff(q, a)
        \/ \E t \in Transport : RecordResponse(q, a, t)
        \/ \E h \in handoffs, t \in Transport : AdaptResponse(q, a, h, t)

ExchangeNext ==
  \/ ExchangeRoom /\ MakeRecord
  \/ \E q \in Requests, a \in authorizations, h \in handoffs,
        r \in responses, s \in responses : AdmitProposal(s.raw, r, q, a, h)

ExchangeSpec == ExchangeInit /\ [][ExchangeNext]_exchangeVars

-----------------------------------------------------------------------------
(* Entry e was cleared: it is public material on which no finding asks for *)
(* more than to allow it, and it carries all of its package.               *)
Cleared(e) ==
  /\ e.disclosure.class = "PUBLIC" /\ e.disclosure.findings \subseteq {"ALLOW"}
  /\ \A i \in e.package.items : i \in e.context.items /\ i.refs \subseteq e.context.refs

(* What is handed out was cleared, whatever records of several runs a      *)
(* caller combines.  Unless its request was written elsewhere, a handoff   *)
(* is for a context of this very run that names ALLOW, has references of   *)
(* its own source set only and was, with its note, which its identity does *)
(* not cover, within its budget; and unless that was written elsewhere as  *)
(* well, it was admitted as Cleared says.  These two are the ways around.  *)
NothingLeavesUncleared ==
  \A h \in handoffs :
    (\A q \in OtherRequest : h.request # RequestIdentity(q)) =>
      \E c \in Contexts :
        /\ h.context = ContextIdentity(c) /\ h.run = c.run
        /\ ValidContext(c)
        /\ c \in OtherContext \/ \E e \in cleared : e.context = c /\ Cleared(e)

(* An admitted answer is one somebody authorized: a human's request for    *)
(* what the proposal is about and the model it names, that human's         *)
(* authorization of the account and the provider that answered, and a      *)
(* handoff of the two.  The response may have been recorded under other    *)
(* records than those it was admitted with, and names neither the human    *)
(* nor, in its identity, the account.  A request that was built here is    *)
(* for a context of its own run.                                           *)
AnswerIsAuthorized ==
  \A r \in admitted : \E q \in Requests, a \in authorizations, h \in handoffs :
    /\ r.raw.request = RequestIdentity(q) /\ r.raw.model = q.model
    /\ r.raw.run = q.run /\ r.raw.context = q.context
    /\ a.human = q.human /\ a.account = r.account /\ a.provider = r.provider
    /\ h.authorization = a /\ h.request = r.raw.request
    /\ q \in requests =>
         \E c \in Contexts : r.raw.context = ContextIdentity(c) /\ q.run = c.run

(* An identity does not hide an exchange.  Two admitted answers with one   *)
(* response identity are of one delivery as far as the provider tells      *)
(* them apart, though that identity covers none of it; two with one        *)
(* proposal identity are answers of one model to one request, though that  *)
(* identity leaves out who answered.                                       *)
SameAnswerSameOrigin ==
  \A r, s \in admitted :
    /\ ResponseIdentity(r) = ResponseIdentity(s) =>
         /\ r.id = s.id /\ r.usage = s.usage /\ r.model = s.model
    /\ ProposalIdentity(r.raw) = ProposalIdentity(s.raw) =>
         r.request = s.request /\ r.model = s.model

=============================================================================
