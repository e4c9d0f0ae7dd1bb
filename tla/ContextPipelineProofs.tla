----------------------- MODULE ContextPipelineProofs -----------------------
(***************************************************************************)
(* Proofs about ContextPipeline, for any sources, tasks, annotations and   *)
(* chains, and however often the caller calls what.                        *)
(***************************************************************************)
EXTENDS ContextPipeline, TLAPS

(* What discover returns accounts for every candidate and has what the     *)
(* task requires among the selected.                                       *)
LEMMA DiscoverIsComplete ==
  ASSUME NEW a, Discoverable(a)
  PROVE  DiscoveryComplete(DiscoveryResult(a))
<1>1. Selected(a.task, a.candidates) \subseteq Identities(a.candidates)
  BY DEF Selected
<1>2. DOMAIN Excluded(a.task, a.candidates)
        = Identities(a.candidates) \ Selected(a.task, a.candidates)
  BY DEF Excluded
<1>3. RequiredPresent(a.task, a.candidates)
  BY DEF Discoverable
<1>4. QED
  BY <1>1, <1>2, <1>3 DEF DiscoveryComplete, DiscoveryResult, RequiredPresent

(* What build_context accepts has one lineage. *)
LEMMA BuiltLineage ==
  ASSUME NEW d, NEW n, NEW bs, NEW chain, NEW m, NEW limit,
         Buildable(d, n, bs, chain, m, limit)
  PROVE  Lineage(BoundedContext(d, n, bs, chain, m, limit))
<1> DEFINE c == BoundedContext(d, n, bs, chain, m, limit)
<1>1. /\ c.inputs = Inputs(d, n) /\ c.bindings = bs /\ c.provenance = chain
  BY DEF BoundedContext
<1>2. /\ c.inputs.task = d.task /\ c.inputs.sources = d.sources
      /\ c.inputs.discovery = d /\ c.inputs.normalization = n
  BY <1>1 DEF Inputs
<1>3. n.discovery = d
  BY DEF Buildable, MembershipValid
<1>4. ASSUME NEW b \in bs
      PROVE  b.inputs = Inputs(d, n) /\ b.source.id \in d.selected
  <2>1. b.inputs = Inputs(d, n)
        /\ b.source \in {Reference(d, id) : id \in d.selected}
    BY DEF Buildable, BindingsValid
  <2>2. PICK id \in d.selected : b.source = Reference(d, id)
    BY <2>1
  <2>3. QED
    BY <2>1, <2>2 DEF Reference
<1>5. {<<"discovery", d>>, <<"normalization", n>>} \cup {<<b.role, b>> : b \in bs}
        \subseteq chain.nodes
  BY DEF Buildable, ProvenanceValid, RequiredNodes
<1>6. \A e \in chain.edges : e[1] \in chain.nodes /\ e[2] \in chain.nodes
  BY DEF Buildable, ProvenanceValid
<1> HIDE DEF c
<1>7. Lineage(c)
  BY <1>1, <1>2, <1>3, <1>4, <1>5, <1>6 DEF Lineage
<1>8. QED
  BY <1>7 DEF c

(* The rows of a context, by what became of them. *)
LEMMA BuiltRows ==
  ASSUME NEW d, NEW n, NEW bs, NEW chain, NEW m, NEW limit,
         NEW c, c = BoundedContext(d, n, bs, chain, m, limit)
  PROVE  Rows(c) = Included(n) /\ LeftOut(c) = Omitted(n)
<1> DEFINE item(r) == [row |-> r, source |-> Reference(d, r.id)]
           left(r) == [row |-> r, reason |-> OmissionReason(r.note)]
<1>1. /\ c.items = {item(r) : r \in Included(n)}
      /\ c.omitted = {left(r) : r \in Omitted(n)}
  BY DEF BoundedContext
<1>2. /\ \A r : item(r).row = r
      /\ \A r : left(r).row = r
  OBVIOUS
<1> HIDE DEF item, left
<1>3. QED
  BY <1>1, <1>2 DEF Rows, LeftOut

(* What build_context makes of a complete discovery disposes of every      *)
(* source in one way.                                                      *)
LEMMA BuiltDisposed ==
  ASSUME NEW d, NEW n, NEW bs, NEW chain, NEW m, NEW limit,
         DiscoveryComplete(d), Buildable(d, n, bs, chain, m, limit),
         NEW c, c = BoundedContext(d, n, bs, chain, m, limit)
  PROVE  Disposed(c)
<1>1. /\ c.inputs.task = d.task /\ c.inputs.sources = d.sources
      /\ c.inputs.discovery = d
  BY DEF BoundedContext, Inputs
<1>2. /\ Ids(n.rows) = d.selected
      /\ \A r, s \in n.rows : r.id = s.id => r = s
  BY DEF Buildable, MembershipValid, Ids
<1>3. Ids(Included(n)) \cup Ids(Omitted(n)) = d.selected
  BY <1>2 DEF Included, Omitted, Ids
<1>4. Ids(Included(n)) \cap Ids(Omitted(n)) = {}
  BY <1>2 DEF Included, Omitted, Ids
<1>5. Rows(c) = Included(n) /\ LeftOut(c) = Omitted(n)
  BY BuiltRows
<1>6. QED
  BY <1>1, <1>3, <1>4, <1>5 DEF DiscoveryComplete, Disposed

(* What build_context accepts carries eligible rows and all mandatory ones. *)
LEMMA BuiltSound ==
  ASSUME NEW d, NEW n, NEW bs, NEW chain, NEW m, NEW limit,
         Buildable(d, n, bs, chain, m, limit),
         NEW c, c = BoundedContext(d, n, bs, chain, m, limit)
  PROVE  Sound(c)
<1>1. c.inputs.normalization = n
  BY DEF BoundedContext, Inputs
<1>2. Rows(c) = Included(n)
  BY BuiltRows
<1>3. Included(n) # {} /\ \A r \in Omitted(n) : ~r.note.mandatory
  BY DEF Buildable, Admissible
<1>4. \A r \in Included(n) : Eligible(r.note)
  BY DEF Included, Omitted
<1>5. {r \in n.rows : r.note.mandatory} \subseteq Included(n)
  BY <1>3 DEF Included
<1>6. QED
  BY <1>1, <1>2, <1>3, <1>4, <1>5 DEF Sound

LEMMA BuiltIsGood ==
  ASSUME NEW d, NEW n, NEW bs, NEW chain, NEW m, NEW limit,
         DiscoveryComplete(d), Buildable(d, n, bs, chain, m, limit)
  PROVE  LET c == BoundedContext(d, n, bs, chain, m, limit)
         IN ContextGood(c) /\ c.inputs = Inputs(d, n)
BY BuiltLineage, BuiltDisposed, BuiltSound DEF ContextGood, BoundedContext

-----------------------------------------------------------------------------
(* The invariant. *)

LEMMA InvInit == Init => IInv
BY DEF Init, IInv

LEMMA InvStep ==
  ASSUME IInv, [Next]_vars
  PROVE  IInv'
<1>1. CASE UNCHANGED vars
  BY <1>1 DEF IInv, vars
<1>2. CASE Discover
  <2>1. PICK a \in DiscoverArg : /\ Discoverable(a)
                                 /\ discovery' = DiscoveryResult(a)
    BY <1>2 DEF Discover
  <2>2. DiscoveryComplete(discovery')
    BY <2>1, DiscoverIsComplete
  <2>3. QED
    BY <1>2, <2>2 DEF Discover, IInv
<1>3. CASE Normalize
  BY <1>3 DEF Normalize, IInv
<1>4. ASSUME NEW role \in Role, Bind(role) PROVE IInv'
  BY <1>4 DEF Bind, IInv
<1>5. ASSUME Ready, \E c \in BuiltContexts : context' = c,
             UNCHANGED <<discovery, normalization, prepared>>
      PROVE  IInv'
  <2> DEFINE bs == {binding[role] : role \in Role}
             chain(x) == Chain(discovery, normalization, bs, Metrics(x.calls),
                               x.arg)
  <2>0. PICK c \in BuiltContexts : context' = c
    BY <1>5
  <2>1. PICK x : /\ Buildable(discovery, normalization, bs, chain(x),
                              Metrics(x.calls), x.limit)
                 /\ context' = BoundedContext(discovery, normalization, bs,
                                 chain(x), Metrics(x.calls), x.limit)
    BY <2>0 DEF BuiltContexts
  <2>2. DiscoveryComplete(discovery)
    BY <1>5 DEF Ready, IInv
  <2> HIDE DEF bs, chain
  <2>3. ContextGood(context')
    BY <2>1, <2>2, BuiltIsGood
  <2>4. QED
    BY <1>5, <2>3 DEF IInv
<1>6. CASE BuildContext
  BY <1>5, <1>6 DEF BuildContext
<1>7. CASE Materialize
  BY <1>5, <1>7 DEF Materialize
<1>8. CASE BuildRun
  BY <1>8 DEF BuildRun, IInv
<1>9. CASE Prepare
  <2>1. /\ prepared'.run = run /\ prepared'.context = context
        /\ context.inputs = run /\ context # None
    BY <1>9 DEF Prepare, Joins
  <2>2. QED
    BY <1>9, <2>1 DEF Prepare, IInv
<1>10. CASE LocalPrepare
  <2>1. PICK a \in LocalArg : LocalPrepareOf(a)
    BY <1>10 DEF LocalPrepare
  <2> DEFINE args == [task |-> a.task, candidates |-> <<a.captured>>,
                      maxItems |-> 1, maxBytes |-> a.maxBytes]
             d == DiscoveryResult(args)
             n == NormalizationResult(d, <<Row(a.captured.id, a.note)>>)
             bs == LocalBindings(d, n, a.captured.id)
             chain == LocalChain(d, n, bs)
             c == BoundedContext(d, n, bs, chain, Metrics(0), a.limit)
  <2>2. /\ Discoverable(args)
        /\ Buildable(d, n, bs, chain, Metrics(0), a.limit)
        /\ prepared' = [run |-> c.inputs, context |-> c]
    BY <2>1 DEF LocalPrepareOf
  <2> HIDE DEF args
  <2>3. DiscoveryComplete(d)
    BY <2>2, DiscoverIsComplete
  <2> HIDE DEF d, n, bs, chain
  <2>4. ContextGood(c)
    BY <2>2, <2>3, BuiltIsGood
  <2> HIDE DEF c
  <2>5. QED
    BY <1>10, <2>2, <2>4 DEF LocalPrepare, IInv
<1>11. QED
  BY <1>1, <1>2, <1>3, <1>4, <1>6, <1>7, <1>8, <1>9, <1>10 DEF Next

(* In every state the contexts there are are good, and so is the           *)
(* discovery that the next one would be built from.                        *)
THEOREM Invariant == Spec => []IInv
BY InvInit, InvStep, PTL DEF Spec

(* prepare accepts only a run and a context of one lineage.  *)
THEOREM PreparedIsOneLineage == Spec => []OneLineage
<1>1. IInv => OneLineage
  BY DEF IInv, OneLineage, ContextGood
<1>2. QED
  BY <1>1, Invariant, PTL

(* Every candidate is carried, omitted or excluded, and what the task      *)
(* requires is not excluded.                                               *)
THEOREM SourcesAreDisposed == Spec => []NoSourceLost
<1>1. IInv => NoSourceLost
  BY DEF IInv, NoSourceLost, ContextGood
<1>2. QED
  BY <1>1, Invariant, PTL

(* A context carries eligible rows only, and every mandatory one.  *)
THEOREM ContextsAreSound == Spec => []AdmissionSound
<1>1. IInv => AdmissionSound
  BY DEF IInv, AdmissionSound, ContextGood
<1>2. QED
  BY <1>1, Invariant, PTL

=============================================================================
