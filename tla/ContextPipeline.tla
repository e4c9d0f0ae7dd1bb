--------------------------- MODULE ContextPipeline --------------------------
(***************************************************************************)
(* How the context of a run is put together: discover selects sources for  *)
(* a task, normalize annotates them, the MR-03 and MR-04 adapters bind the *)
(* two frozen dependencies to that result, a provenance chain and metrics  *)
(* are recorded, build_context admits rows into the bounded context, and   *)
(* prepare joins it with the record of a run.  materialize builds context  *)
(* and run in one call, orchestrate_local_prepare everything from one      *)
(* file.                                                                   *)
(*                                                                         *)
(* All records are plain values in the caller's hands.  It may call any    *)
(* builder again at any time, so that what it holds of a later stage is of *)
(* an earlier run than what it holds of the stage before; only the checks  *)
(* below keep such records from being combined.  The caller holds one      *)
(* record of each kind, obtained from its builder: records assembled field *)
(* by field with from_mapping are left out, and so is the form of discover *)
(* that takes a bare task identity in place of a task.                     *)
(*                                                                         *)
(* An identity is the value it is computed from, so that a record stands   *)
(* for its own identity.  A descriptor's identity covers all of it but its *)
(* kind (content_kind and the observations).  The canonical order of lists *)
(* is immaterial to identities: they are sets, where the code has no       *)
(* repetitions, or count them.                                             *)
(***************************************************************************)
EXTENDS Naturals, FiniteSets, Sequences, FiniteSetsExt

CONSTANTS
  AliasOf,      \* the source alias in each canonical locator
  SizeOf,       \* the bytes of each content
  DiscoverArg,  \* the arguments of discover: task, candidates, budget
  Annotation,   \* what a caller says of the sources: locators to annotations
  ChainArg,     \* how a chain differs from one that covers the run exactly
  Calls,        \* model calls that a metrics record may count
  Limit,        \* values of max_context_bytes
  LocalArg,     \* the arguments of orchestrate_local_prepare
  Result,       \* identities a caller may name as the result of MR-03
  Foreign,      \* an identity that is of no record here
  None

Role == {"MR03_PACKAGER", "MR04_GUARD"}
EligibleValidity ==
  {"VALID", "VALID_WITH_SCOPE_LIMITATION", "AUTHORITATIVE_TERMINAL_POLICY"}

VARIABLES
  discovery,      \* the discovery result held
  normalization,  \* the normalization result held
  binding,        \* the binding held for each role
  context,        \* the bounded context built
  run,            \* the frozen run record held
  prepared        \* what prepare has accepted

vars == <<discovery, normalization, binding, context, run, prepared>>

-----------------------------------------------------------------------------
(* Discovery. *)

Identities(candidates) == {candidates[i].id : i \in DOMAIN candidates}

(* One identity with two descriptors, or one locator with two identities.  *)
Conflict(candidates) ==
  \E i, j \in DOMAIN candidates :
    LET x == candidates[i]
        y == candidates[j]
    IN \/ x.id = y.id /\ x # y
       \/ x.id.locator = y.id.locator /\ x.id # y.id

(* Why a source is left out: the first ground there is. *)
ExclusionReason(task, id) ==
  IF AliasOf[id.locator] \notin task.aliases THEN "SOURCE_ALIAS_NOT_APPROVED"
  ELSE IF task.types # None /\ id.type \notin task.types
    THEN "SOURCE_TYPE_NOT_APPROVED"
  ELSE IF ~id.available THEN "SOURCE_UNAVAILABLE"
  ELSE IF ~id.immutable THEN "SOURCE_IMMUTABILITY_UNVERIFIED"
  ELSE None

Selected(task, candidates) ==
  {id \in Identities(candidates) : ExclusionReason(task, id) = None}

(* A selected source supplied twice is selected once; an excluded one is   *)
(* listed, and counted into the discovery's identity, each time.           *)
Excluded(task, candidates) ==
  [id \in Identities(candidates) \ Selected(task, candidates) |->
     [reason |-> ExclusionReason(task, id),
      times |-> Cardinality({i \in DOMAIN candidates : candidates[i].id = id})]]

TotalBytes(ids) == MapThenSumSet(LAMBDA id : SizeOf[id.content], ids)

RequiredPresent(task, candidates) ==
  LET chosen == Selected(task, candidates)
  IN /\ task.ids \subseteq chosen
     /\ task.locators \subseteq {id.locator : id \in chosen}

(* discover either returns all that is selected or refuses.  *)
Discoverable(a) ==
  LET chosen == Selected(a.task, a.candidates)
  IN /\ ~Conflict(a.candidates)
     /\ RequiredPresent(a.task, a.candidates)
     /\ chosen # {}
     /\ Cardinality(chosen) <= a.maxItems
     /\ TotalBytes(chosen) \in 1..a.maxBytes

DiscoveryResult(a) ==
  [task |-> a.task, sources |-> Identities(a.candidates),
   selected |-> Selected(a.task, a.candidates),
   excluded |-> Excluded(a.task, a.candidates)]

-----------------------------------------------------------------------------
(* Normalization. *)

Row(id, note) == [id |-> id, note |-> note]

(* Validity and supersession must tell the same story.  *)
Consistent(note) ==
  /\ note.supersession = "NONE"
       => note.validity \notin {"SUPERSEDED", "INVALIDATED_SPECIFICALLY"}
  /\ note.supersession = "EXPLICIT_SUPERSEDED" => note.validity = "SUPERSEDED"
  /\ note.supersession = "EXPLICIT_INVALIDATED"
       => note.validity = "INVALIDATED_SPECIFICALLY"

(* Each selected source has one row, and no other source has any.  *)
Covers(rows, d) ==
  /\ \A i \in DOMAIN rows : rows[i].id \in d.selected
  /\ \A id \in d.selected :
       Cardinality({i \in DOMAIN rows : rows[i].id = id}) = 1

Normalizable(d, rows) ==
  /\ \A i \in DOMAIN rows : Consistent(rows[i].note)
  /\ Covers(rows, d)

NormalizationResult(d, rows) ==
  [discovery |-> d, rows |-> {rows[i] : i \in DOMAIN rows}]

-----------------------------------------------------------------------------
(* The adapters. *)

Inputs(d, n) ==
  [task |-> d.task, sources |-> d.sources, discovery |-> d, normalization |-> n]

Reference(d, id) == [id |-> id, sources |-> d.sources]

(* MR-03 has no upstream; that of MR-04 is what the caller names as the    *)
(* result of MR-03.                                                        *)
Binding(role, d, n, id, upstream) ==
  [role |-> role, source |-> Reference(d, id), inputs |-> Inputs(d, n),
   upstream |-> IF role = "MR03_PACKAGER" THEN None ELSE upstream]

Bindable(d, n, id) == n.discovery = d /\ id \in d.selected

-----------------------------------------------------------------------------
(* Provenance and metrics. *)

(* The identities a chain must cover.  The kind of a node is no part of    *)
(* what the code compares; here it keeps values of different shape apart.  *)
RequiredNodes(d, n, bs, m) ==
  {<<"task", d.task>>, <<"sources", d.sources>>, <<"discovery", d>>,
   <<"normalization", n>>, <<"metrics", m>>} \cup {<<b.role, b>> : b \in bs}

(* A chain over the records held, less the nodes of the kinds it misses,   *)
(* with an edge to something else if it strays.                            *)
Chain(d, n, bs, m, arg) ==
  [nodes |-> {v \in RequiredNodes(d, n, bs, m) : v[1] \notin arg.missing},
   edges |-> IF arg.strays
             THEN {<<<<"discovery", d>>, <<"foreign", Foreign>>>>} ELSE {}]

(* build_context takes metrics of a run that has called no model. *)
Metrics(calls) == [calls |-> calls]

-----------------------------------------------------------------------------
(* The bounded context. *)

Eligible(note) ==
  note.classification = "PUBLIC" /\ note.validity \in EligibleValidity

(* Why a row is not carried: its classification first, then its validity.  *)
OmissionReason(note) ==
  IF note.classification # "PUBLIC"
  THEN [INTERNAL |-> "INTERNAL_DISCLOSURE_POLICY_REQUIRED",
        PROTECTED |-> "PROTECTED_CONTENT",
        SECRET_LIKE |-> "SECRET_LIKE_CONTENT",
        UNKNOWN |-> "UNKNOWN_CLASSIFICATION"][note.classification]
  ELSE [SUPERSEDED |-> "SUPERSEDED",
        INVALIDATED_SPECIFICALLY |-> "INVALIDATED",
        HISTORICAL_BLOCK_ONLY |-> "HISTORICAL_BLOCK_ONLY",
        UNKNOWN |-> "UNKNOWN_VALIDITY"][note.validity]

(* The normalization is of this discovery and has its sources, once each.  *)
MembershipValid(d, n) ==
  /\ n.discovery = d
  /\ n.rows # {}
  /\ {r.id : r \in n.rows} = d.selected
  /\ \A r, s \in n.rows : r.id = s.id => r = s

\* Mutant: the normalization a binding is of is not compared.
BindingsValid_AnyNormalization(d, n, bs) ==
  /\ Cardinality(bs) = 2
  /\ {b.role : b \in bs} = Role
  /\ \A b \in bs :
       /\ b.source \in {Reference(d, id) : id \in d.selected}
       /\ [b.inputs EXCEPT !.normalization = n] = Inputs(d, n)
       /\ b.role = "MR03_PACKAGER" <=> b.upstream = None

(* Exactly one binding of each role, both of these inputs.  That the       *)
(* upstream of MR-04 is the MR-03 binding beside it is not compared.       *)
BindingsValid(d, n, bs) ==
  /\ Cardinality(bs) = 2
  /\ {b.role : b \in bs} = Role
  /\ \A b \in bs :
       /\ b.source \in {Reference(d, id) : id \in d.selected}
       /\ b.inputs = Inputs(d, n)
       /\ b.role = "MR03_PACKAGER" <=> b.upstream = None

ProvenanceValid(chain, d, n, bs, m) ==
  /\ RequiredNodes(d, n, bs, m) \subseteq chain.nodes
  /\ \A e \in chain.edges : e[1] \in chain.nodes /\ e[2] \in chain.nodes

Omitted(n) == {r \in n.rows : ~Eligible(r.note)}

\* Mutant: rows that are not mandatory are left out without a word.
Included_MandatoryOnly(n) == {r \in n.rows \ Omitted(n) : r.note.mandatory}

Included(n) == n.rows \ Omitted(n)

(* The canonical length of a context: whole rows, never parts of one.  A   *)
(* row counts for what it carries, an omission for its reason.             *)
ContextBytes(n) == 2 * Cardinality(Included(n)) + Cardinality(Omitted(n))

\* Mutant: a mandatory row is left out like any other.
Admissible_Lenient(n, limit) ==
  /\ Included(n) # {}
  /\ ContextBytes(n) <= limit

(* No mandatory row is left out, some row is carried, and all fit.  *)
Admissible(n, limit) ==
  /\ \A r \in Omitted(n) : ~r.note.mandatory
  /\ Included(n) # {}
  /\ ContextBytes(n) <= limit

Buildable(d, n, bs, chain, m, limit) ==
  /\ m.calls = 0
  /\ MembershipValid(d, n)
  /\ BindingsValid(d, n, bs)
  /\ ProvenanceValid(chain, d, n, bs, m)
  /\ Admissible(n, limit)

BoundedContext(d, n, bs, chain, m, limit) ==
  [inputs |-> Inputs(d, n),
   items |-> {[row |-> r, source |-> Reference(d, r.id)] : r \in Included(n)},
   omitted |-> {[row |-> r, reason |-> OmissionReason(r.note)] :
                  r \in Omitted(n)},
   bindings |-> bs, provenance |-> chain, metrics |-> m, limit |-> limit]

-----------------------------------------------------------------------------
(* The caller's steps. *)

Init ==
  /\ discovery = None
  /\ normalization = None
  /\ binding = [role \in Role |-> None]
  /\ context = None
  /\ run = None
  /\ prepared = None

Discover ==
  /\ prepared = None
  /\ \E a \in DiscoverArg : /\ Discoverable(a)
                            /\ discovery' = DiscoveryResult(a)
  /\ UNCHANGED <<normalization, binding, context, run, prepared>>

(* Rows are supplied in any order and number, and may be of another        *)
(* discovery.                                                              *)
Normalize ==
  /\ prepared = None /\ discovery # None
  /\ \E ids \in {Identities(a.candidates) : a \in DiscoverArg},
        note \in Annotation :
     \E s \in UNION {[1..k -> ids] : k \in 1..Cardinality(ids) + 1} :
       LET rows == [i \in DOMAIN s |-> Row(s[i], note[s[i].locator])]
       IN /\ Normalizable(discovery, rows)
          /\ normalization' = NormalizationResult(discovery, rows)
  /\ UNCHANGED <<discovery, binding, context, run, prepared>>

(* bind_mr03_dependency, bind_mr04_dependency.  The caller forgets its     *)
(* bindings once it has a context: prepare takes the context alone.        *)
Bind(role) ==
  /\ context = None /\ prepared = None
  /\ discovery # None /\ normalization # None
  /\ \E id \in discovery.selected, upstream \in Result :
       /\ Bindable(discovery, normalization, id)
       /\ binding' = [binding EXCEPT ![role] =
                        Binding(role, discovery, normalization, id, upstream)]
  /\ UNCHANGED <<discovery, normalization, context, run, prepared>>

(* The contexts that build_context makes of the records held.  *)
BuiltContexts ==
  LET bs == {binding[role] : role \in Role}
      made == [arg : ChainArg, calls : Calls, limit : Limit]
      chain(x) == Chain(discovery, normalization, bs, Metrics(x.calls), x.arg)
  IN {BoundedContext(discovery, normalization, bs, chain(x), Metrics(x.calls),
                     x.limit) :
        x \in {y \in made : Buildable(discovery, normalization, bs, chain(y),
                                      Metrics(y.calls), y.limit)}}

Ready ==
  /\ context = None /\ prepared = None
  /\ discovery # None /\ normalization # None
  /\ \A role \in Role : binding[role] # None

BuildContext ==
  /\ Ready
  /\ \E c \in BuiltContexts : context' = c
  /\ binding' = [role \in Role |-> None]
  /\ UNCHANGED <<discovery, normalization, run, prepared>>

(* The run record takes its identities from the context it is built with.  *)
Materialize ==
  /\ Ready
  /\ \E c \in BuiltContexts : context' = c /\ run' = c.inputs
  /\ binding' = [role \in Role |-> None]
  /\ UNCHANGED <<discovery, normalization, prepared>>

(* build_frozen_run_record compares the four identities with nothing.  *)
BuildRun ==
  /\ context # None /\ prepared = None
  /\ run' = Inputs(discovery, normalization)
  /\ UNCHANGED <<discovery, normalization, binding, context, prepared>>

\* Mutant: the run is taken as it comes.
Joins_AnyRun(r, c, m) == m = c.metrics

(* What prepare_top_level_workflow compares of run, context and metrics.   *)
(* What it does with them then is in Workflow.                             *)
Joins(r, c, m) ==
  /\ c.inputs = r
  /\ m = c.metrics

Prepare ==
  /\ context # None /\ run # None /\ prepared = None
  /\ \E calls \in Calls : Joins(run, context, Metrics(calls))
  /\ prepared' = [run |-> run, context |-> context]
  /\ UNCHANGED <<discovery, normalization, binding, context, run>>

(* Both bindings of one source, MR-03's as upstream of MR-04's.            *)
LocalBindings(d, n, id) ==
  LET mr03 == Binding("MR03_PACKAGER", d, n, id, None)
  IN {mr03, Binding("MR04_GUARD", d, n, id, mr03)}

(* A node for each record and no edge.                                     *)
LocalChain(d, n, bs) ==
  Chain(d, n, bs, Metrics(0), [missing |-> {}, strays |-> FALSE])

(* orchestrate_local_prepare: one captured file, one row, the MR-03        *)
(* binding as upstream of MR-04, a chain that covers everything, and no    *)
(* record that the caller could mix in.  It is a caller's only call.       *)
LocalPrepareOf(a) ==
  LET id == a.captured.id
      args == [task |-> a.task, candidates |-> <<a.captured>>,
               maxItems |-> 1, maxBytes |-> a.maxBytes]
      rows == <<Row(id, a.note)>>
      d == DiscoveryResult(args)
      n == NormalizationResult(d, rows)
      bs == LocalBindings(d, n, id)
      chain == LocalChain(d, n, bs)
      c == BoundedContext(d, n, bs, chain, Metrics(0), a.limit)
  IN /\ a.note.classification = "PUBLIC" /\ a.disclosed = "PUBLIC"
     /\ Discoverable(args)
     /\ Normalizable(d, rows)
     /\ Bindable(d, n, id)
     /\ Buildable(d, n, bs, chain, Metrics(0), a.limit)
     /\ Joins(c.inputs, c, Metrics(0))
     /\ prepared' = [run |-> c.inputs, context |-> c]

LocalPrepare ==
  /\ vars = <<None, None, [role \in Role |-> None], None, None, None>>
  /\ \E a \in LocalArg : LocalPrepareOf(a)
  /\ UNCHANGED <<discovery, normalization, binding, context, run>>

Next ==
  \/ Discover \/ Normalize \/ (\E role \in Role : Bind(role))
  \/ BuildContext \/ Materialize \/ BuildRun \/ Prepare \/ LocalPrepare

Spec == Init /\ [][Next]_vars

-----------------------------------------------------------------------------
(* Properties. *)

(* One context is of one run: its normalization is of its discovery, both  *)
(* bindings were made for exactly these and for a source that was          *)
(* selected, and the provenance chain has a node for each record and no    *)
(* edge out of it.                                                         *)
Lineage(c) ==
  LET own == c.inputs
  IN /\ own.normalization.discovery = own.discovery
     /\ own.discovery.task = own.task /\ own.discovery.sources = own.sources
     /\ \A b \in c.bindings : /\ b.inputs = own
                              /\ b.source.id \in own.discovery.selected
     /\ {<<"discovery", own.discovery>>, <<"normalization", own.normalization>>}
          \cup {<<b.role, b>> : b \in c.bindings} \subseteq c.provenance.nodes
     /\ \A e \in c.provenance.edges : /\ e[1] \in c.provenance.nodes
                                      /\ e[2] \in c.provenance.nodes

(* Whatever the caller mixed, what prepare accepts is of one run: its      *)
(* context is, and the run record names the task, source set, discovery    *)
(* and normalization that the context was built from.                      *)
OneLineage ==
  prepared # None => /\ prepared.run = prepared.context.inputs
                     /\ Lineage(prepared.context)

(* The rows a context carries and those it records as omitted.  *)
Rows(c) == {i.row : i \in c.items}
LeftOut(c) == {o.row : o \in c.omitted}
Ids(rows) == {r.id : r \in rows}

(* From the candidates to the context no source gets lost: each one is     *)
(* carried, omitted or excluded, and in one way only; and what the task    *)
(* requires is carried or omitted, never excluded, although only discover  *)
(* looks at what the task requires.                                        *)
Disposed(c) ==
  LET carried == Ids(Rows(c))
      omitted == Ids(LeftOut(c))
      excluded == DOMAIN c.inputs.discovery.excluded
  IN /\ carried \cup omitted \cup excluded = c.inputs.sources
     /\ carried \cap omitted = {}
     /\ excluded \cap (carried \cup omitted) = {}
     /\ c.inputs.task.ids \subseteq carried \cup omitted
     /\ c.inputs.task.locators
          \subseteq {id.locator : id \in carried \cup omitted}

NoSourceLost ==
  /\ context # None => Disposed(context)
  /\ prepared # None => Disposed(prepared.context)

(* A context carries public and current rows only, at least one, and every *)
(* mandatory row of the normalization: one that may not be carried leaves  *)
(* no context at all.                                                      *)
Sound(c) ==
  /\ Rows(c) # {}
  /\ \A r \in Rows(c) : Eligible(r.note)
  /\ {r \in c.inputs.normalization.rows : r.note.mandatory} \subseteq Rows(c)

AdmissionSound ==
  /\ context # None => Sound(context)
  /\ prepared # None => Sound(prepared.context)

-----------------------------------------------------------------------------
(* The inductive invariant.  A context keeps what build_context checked,   *)
(* whatever becomes of the records it was built from; of those only the    *)
(* discovery has a past that matters, since nothing later compares its     *)
(* selection with its candidates.                                          *)
DiscoveryComplete(d) ==
  /\ d.selected \cup DOMAIN d.excluded = d.sources
  /\ d.selected \cap DOMAIN d.excluded = {}
  /\ d.task.ids \subseteq d.selected
  /\ d.task.locators \subseteq {id.locator : id \in d.selected}

ContextGood(c) == Lineage(c) /\ Disposed(c) /\ Sound(c)

IInv ==
  /\ discovery # None => DiscoveryComplete(discovery)
  /\ context # None => ContextGood(context)
  /\ prepared # None => /\ prepared.run = prepared.context.inputs
                        /\ ContextGood(prepared.context)

=============================================================================
