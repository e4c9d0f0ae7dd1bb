# Verification of hai_mr05

TLA+ models of the deterministic MR-05 runtime in `src/src/hai_mr05`, checked
with TLC on small instances and proved with TLAPS for all instances: every safety
property that a run checks is also a theorem. File and line numbers below refer to `src/src/hai_mr05`.

## 1. The system

hai_mr05 prepares a bounded piece of local text for a cloud model, admits the
model's answer when somebody brings it back, and leaves evidence of what was
decided. It sends nothing itself. Nearly all of it is a library of functions
over immutable records that are identified by SHA-256 hashes of canonical
bytes. What goes on in time is at its edges, where it meets a file system that
other programs use: a source is captured, a frozen dependency is run, evidence
is published create-once and read back. The rest is a protocol of
two calls, `prepare` and `resume`, in which a caller may combine records of
several runs.

| component | state | operations | correct if |
|---|---|---|---|
| evidence publication (`evidence.py` 324-586, 1573-1735) | directory entries and files below an evidence root, what of them survives a power failure | `persist_evidence`, `persist_final_evidence_records` | nothing is replaced; no partial record; no result without its manifest; success is durable |
| read-back audit (`evidence.py` 1495-1570, 1738-1849) | open descriptors | `audit_persisted_final_evidence_records` | passing means both records were in place at once; other work raises no alarm |
| evidence records (`evidence.py` 652-1367) | none | build the manifest and the final result from all records upstream | the manifest determines the result; everything bound belongs to one run |
| source acquisition (`source_acquisition.py`) | open descriptors | `capture_source` | what is returned was at the path, whole, at one moment |
| dependency runtime (`dependency_runtime.py`) | a descriptor, `sys.modules` | `invoke_mr03`, `invoke_mr04`, verification | no code runs but the verified code; replacing the path fails closed |
| workflow (`workflow.py`) | none (packages are values) | `prepare`, `resume`, `compose`, `validate_workflow_composition_result` | the chain is closed; an approval is earned; no rejection after publication |
| verifier (`verifier.py`), failure registry (`failures.py`) | none | build the legacy result and the public verification, compare them | deny before escalate before pass; no rule missing; the reasons published are the failures |
| human gate (`human_gate.py`) | none | build gate and decision | only decisions the result leaves open |
| disclosure (`disclosure.py`) | none | classify material, take the most restrictive floor | nothing is let out that a class or a finding holds back |
| cloud boundary (`cloud_boundary.py`), proposal (`proposal.py`) | none | project a context, bind request, authorization, handoff, response; admit a proposal | all are of one request, and the answer is of who was authorized |
| discovery, normalization, context builder, provenance, dependency bindings | none | select sources, normalize, build the bounded context | what is selected and included is accounted for exactly |
| materialization, local orchestration | none | drive the pipeline from a file to a package | identities agree between stages |
| command line (`cli.py`) | a buffered report, an exit code | `offline`, `prepare`, `resume`, `materialize`, `local-prepare` | what it reports is true and stays true |
| controller (`controller.py`) | none | capture, invoke, build a run and a manifest, publish | what is bound is what was run |
| metrics, canonical bytes, identity | none | pure functions | encodings |
| run ledger, coordination, multi-agent, memory, operational controller | none | validate single records | record validation |

Interaction: `local_orchestration` calls `capture_source`, then discovery,
normalization, bindings, metrics, provenance and materialization, which calls
`prepare`. The package goes to whoever sends it. `resume` takes the package and
the answer, calls the boundary, proposal, verifier and gate, then the evidence
builders, then `persist_final_evidence_records`, then the final validation. The
audit is called separately. `controller` calls `capture_source`, `invoke_mr03`,
`invoke_mr04` and `persist_evidence`. The command line reads a request from
standard input and delegates to `workflow`, `materialization` or
`local_orchestration`. Processes share only the file system.

What is hard in it:

* any number of processes publish, audit and capture in the same directories,
  and other programs rename and rewrite things between any two system calls;
* processes die and machines lose power between any two system calls;
* a command that published may be unable to say so, and is then repeated;
* a package can be kept, copied, resumed twice, or combined with another run's
  answer;
* validation runs after publication (`workflow.py` 1140), so what it rejects
  would already be public;
* Python's module cache outlives an invocation of the dependency, and the byte
  code it may leave on disk outlives the process;
* identities are hashes without a key: that a record has one does not show by
  whom it was made.

`PROJECT.json` lists each of these hazards at its line, with the properties that
cover it.

## 2. Modules

| module | models | uses |
|---|---|---|
| `EvidenceStore` | what publication promises: whole records appear once, a result only over a settled manifest, settled records stay | |
| `FinalEvidence` | publication, one action per system call | `EvidenceStore` (refinement) |
| `FinalEvidenceProofs` | proofs about `FinalEvidence` | |
| `CommandLine` | the five commands: input, report, exit code | `EvidenceStore` (extended: its variables are the store that the calls share) |
| `CommandLineProofs` | proofs about `EvidenceStore` and `CommandLine` | |
| `FileTree` | a directory tree that other programs change | |
| `TreeReader` | what capture and audit have in common | `FileTree` |
| `SourceCapture` | `capture_source` | `TreeReader` |
| `ReadbackAudit` | the read-back audit | `TreeReader` |
| `TreeReaderProofs` | proofs about `SourceCapture` and `ReadbackAudit` | |
| `DependencyPin` | `invoke_mr03` and `invoke_mr04` | |
| `DependencyPinProofs` | proofs about `DependencyPin` | |
| `ContextPipeline` | from candidates to a context that `prepare` accepts | |
| `ContextPipelineProofs` | proofs about `ContextPipeline` | |
| `Workflow` | `prepare`, `resume`, and what binds all records | |
| `WorkflowProofs` | proofs about `Workflow` | |
| `CloudExchange` | disclosure, the cloud boundary and the admission of a proposal | |
| `Review` | checks, failures, verification, human gate, and what is concluded from them | |
| `ExchangeReviewProofs` | proofs about `CloudExchange` and `Review` | |
| `Controller` | `orchestrate_deterministic_run` | |
| `ControllerProofs` | proofs about `Controller` | |
| `MC*` | instances for TLC | |

### FinalEvidence

A *publisher* is one call of a persist function in its own process. `pc` is the
next system call, `req` the arguments, `root` and `parent` the open directories.
The file system is `entry` (what each name leads to), `disk` (what it may lead to
after a power failure), `data` and `synced`. `link` and exclusive creation are
atomic and never replace; a name reaches the disk when its directory is fsynced,
bytes when the file is; both may also do so earlier. The environment may make a
system call fail (`IOError`), kill a process (`Crash`), take the power away from
all (`PowerLoss`), and rename directories at the root or below it (`MoveRoot`,
`MoveFolder`), together at most `MaxFaults` times. The actions follow the code in
order: validate and open the root (324-335, 1707-1714), open the directory,
check that the destination is absent, create the temporary, write, fsync, read
back, link, fsync the directory, stat, unlink the temporary, fsync again; the
same for the final result; read both back; requalify the root. A call that fails
leaves its temporary behind, as the code does. The directories between the root and
a destination are one: a path stands for its last component, and the walk to it,
which opens one directory after the other, is one lookup of one name. A temporary
is named after its kind of record and its identity, and so never as a destination
(`Path` and `Identity` are disjoint).

### CommandLine

A *call* is a process that runs one command. It reads a bounded request, parses
it strictly, hands it on, publishes if it is `offline` or `resume`, writes its
report, flushes it and exits. `out` is what the reader of standard output has:
`nothing`, `part` or the `whole` of it. A flush may fail after some bytes; the
call then says `FAIL_CLOSED` on standard error, or fails at that as well, and the
interpreter tries to flush the rest once more when it exits (`ExitFailed`), so a
complete PASS report next to exit code 2 is possible. Exit codes other than 0 and
2 are one value. Calls may be killed at any step and the machine may lose its
power. Publication is its four effects on the store (`ShowManifest`,
`SyncManifest`, `ShowFinal`, `SyncFinal`), each of which may be refused; that the
system calls amount to this is what `FinalEvidence` shows. `finished` is history.
Whether the store's rules are kept is not built into the actions: `ShowFinal`
does not ask whether the result is backed, the order of the calls sees to it.

### FileTree, TreeReader, SourceCapture, ReadbackAudit

`FileTree` is the environment: a *slot* is a name in a directory; `Exchange`
makes it name something else, `Rewrite` changes a file. `State(i)` is what
`_state_tuple` compares: identity, times and size. Each change gives what it
touches new times. That is finer than the clock of some file systems, where two
changes within a tick may look alike, and is an assumption of all results here. So is that a file has one name at a time:
there are no hard links in the tree at first, and others only move and replace.

`TreeReader` is what the two readers share, each with its own copy of the code: the
root is validated (`Validate`), opened (`OpenRoot`) and requalified at the end
(`RequalifyRoot`). In `SourceCapture` and `ReadbackAudit` each action is one system call on what
others can change. Two calls are one action where only one of them can see a
change: `lstat` and `realpath` of the root (`realpath` can only add a refusal),
and `open` with the `fstat` of what it opened. `held` is the list of open
descriptors. `offered`, `showing` and `together` are history: what the path led to
during the call, whether each of the two places shows its bytes, did so once or
does so again, and whether both did at one moment. `returned` records that a name
or a content went away and came back, which inode numbers cannot show: the
properties about "was there" are said of calls during which nothing did.
`BothAtOnce` needs the same of the records (`showing`): with six changes each
place can be emptied and filled again with another file of the same bytes between
two reads of it, so that all four reads succeed though the two were never there
together. Without these conditions the properties fail, as they must.

### DependencyPin

`pathAt` is the directory the canonical path names, `files` whether each module
of each tree is as frozen, `strays` the entries that are in a tree and should not
be, `modules` what `sys.modules` holds. An invocation pins the tree, lists its
folders (`listed`), reads the files of those it has listed (`walked`), purges,
loads, runs, requalifies and unwinds; the `finally` clause is `Finally`. Others
exchange the directory, edit files in place, add entries and take them away.

An added entry matters in two ways. The listing of its folder reports it
(`FolderOf`), unless it is a link to a directory, which `os.walk` puts among the
directories and does not enter. And an import may find it in place of a frozen
module (`Displaces`): a package directory or an extension module comes before the
source file of that name, cached byte code stands for it. The code checks only that
`__file__` begins with the root. So `Import` may run the frozen file or any entry
that displaces it. The interpreter's own byte code is one more such entry, which
displaces nothing as it is of the code that was loaded, and which makes the path set
a different one. Whether the interpreter writes any is not for the package to say
(`writes`): nothing under `src/src/hai_mr05` keeps it from doing so, only the test
command (`pyproject.toml` 16) does.

The commit and tree that git reports count as one more file of the tree. The
MR-03 worktree and the frozen code itself are external: verification of the first
may succeed or fail, the second may return or raise. Modules of the standard library
that a file below `src/` would displace are not modelled. Arguments and payloads are
valid: they are checked before the root is opened or after it is closed, or end in
the same unwinding as a failing callable.

### Workflow

An identity is modelled as the value it is computed from, so that two identities
are equal exactly when the records are, up to what the code leaves out of them
(a run's state, a manifest's note). `Prepare` and `Resume` are the two calls with
all of their checks up to publication; `PublishManifest` and `PublishFinal`
abstract `FinalEvidence`; `Return` is the validation that follows. `Receive` is a
package that did not come from this process's `prepare`. Contexts, with the run
they were built for, their metrics and the sources they carry, are constants here;
`ContextPipeline` shows how they come to be.

### CloudExchange, Review

These two take apart what `Workflow` treats as arguments that fit a run or fail to
in one place. The code behind them keeps no state: callers keep the records, and
may give any record to any call. The state is therefore the set of records there
are, of every kind, and an action is one call on some of them with all of its
checks. An identity is the value it is computed from, without what the code leaves
out of it (a context's note, who authorized a request, who answered, the message
of a failure): two records that differ only there are told apart by the model and
not by the identity, which is what the properties are about. Records that are
passed as mappings are checked like the records and have their identities
recomputed.

No call can tell by whom a record was made: identities are keyed by nothing, and a
cloud context says itself that its disclosure result is ALLOW
(`cloud_boundary.py` 740, 760-767). `CloudExchange` therefore has records that
somebody has written without its calls: contexts (`OtherContext`) and requests
(`OtherRequest`), which every call takes like those it has built, if they pass what
can be checked of them alone. Authorizations, handoffs and responses need no such
case: one that is bound to its request is what the calls build from that request.

`CloudExchange` goes from a disclosure decision to an admitted proposal:
`AdmitContext` (disclosure, projection of a bounded context, validation, budget),
`BuildRequest`, `BuildAuthorization`, `BuildHandoff`, `RecordResponse` (whatever
the transport reports), `AdaptResponse` (only with the handoff, and only what is
bound) and `AdmitProposal`. What comes back from a provider is one of 17 answers,
each of which is good for some request or wrong in one place.

`Review` goes from the checks to what final evidence is built from: `BuildResult`
and `VerifySuppliedRecords` (the decision, its reason, and the binding of checks
to failures), `AdaptVerification` (an opinion against the result), `BuildGate`,
`BuildDecision`, and `Conclude` (what `evidence.py` qualifies once more before it
builds). Opinions, checks and failure records are the callers' and given anew to
each call, and so are the task, the context and the source set that a result is said
to be on (`Inputs`): `verifier.py` 1981-1987 compares them only when the result is
adapted. Left out are the wording of messages and, of a failure record, its state
and whether it asks for a human, which its identity covers and nothing here reads.

### ContextPipeline

A caller holds one record of each kind (`discovery`, `normalization`, the two
`binding`s, `context`, `run`, `prepared`) and may call any builder again at any
time, so that a later record may be of an earlier run. Each action is one builder
with all of its checks: `Discover` (selection, exclusion, budget, what the task
requires), `Normalize` (one consistent row for each selected source), `Bind`
(the two adapters), `BuildContext` (membership, bindings, provenance, metrics,
admission, omission, byte limit), `BuildRun`, `Materialize` (context and run at
once), `Prepare` (its join of run, context and metrics; its other checks are in
`Workflow`) and `LocalPrepare` (`orchestrate_local_prepare`, all stages from one
captured file, with the bindings and the chain it makes itself: `LocalBindings`,
`LocalChain`). A chain and the metrics are given to `BuildContext` as arguments
that fit the run, or fail to in one place. Sizes are counts of content for a
source and of rows for a context: that the limits count canonical bytes is a
matter of encoding. Left out are records assembled with `from_mapping` and the
form of `discover` that takes a bare task identity. Once a context exists the
model forgets the bindings it was built from, which nothing later reads; a caller
that binds again reaches the same states.

### Controller

One call of `orchestrate_deterministic_run` is a sequence of steps: qualification
of transition, destination and counters (`Begin`), `Capture`, `CheckArguments`,
`InvokeMr03`, `InvokeMr04`, `Build`, `Publish`. Calls run side by side in
processes of their own, may die at any step, and the source changes meanwhile.
Capture, invocation and publication are one step each and may fail, the last also
after it has published: `SourceCapture`, `DependencyPin` and `FinalEvidence` say
what is inside. `executed` is history: whose code a call has let run, whether it
succeeded or not. The run record binds one set of dependencies, in which the
identities that the caller declared and the results of the two invocations are not
told apart (`controller.py` 173): a caller may declare the result of an earlier run
and run nothing. Artifacts are likewise the caller's and the `source_id` of the
capture.

## 3. Runs

| run | question | bounds |
|---|---|---|
| `race` | can two calls disturb each other, and does publication implement `EvidenceStore`? | 2 publishers over 6 requests that collide in every way (same call twice, same destinations for other bytes or crosswise, one record at two places), 1 failure |
| `retry` | does anything torn, unbacked or lost survive failures? | a call and its retry, or a retry elsewhere, 2 failures, so also a failure during the retry |
| `live` | do racing calls all end, and does one win? | 3 publishers for the same 2 destinations, no failure, weak fairness of each publisher |
| `cli` | is what a command reports true, and said once? | 3 calls (symmetric) over 15 requests: 5 publications that collide in every way at 3 places, 6 that differ from a good one in one place, 4 others |
| `capture` | is what was captured there, and whole? | path of 3 names, 2 files of up to 2 blocks, 3 changes |
| `audit` | does passing mean both records were there at once? | manifest in the root, result below it, 2 changes (3 also pass, in five minutes) |
| `pin` | does only verified code run, but for what is known to escape verification? | 2 trees of 2 folders, 4 modules, 4 entries that may be added (one that displaces nothing, an extension module, a link to a directory, byte code), 2 invocations, 3 changes, an interpreter that writes byte code or not |
| `context` | can records of several runs be combined, or sources get lost? | 3 locators under 2 aliases, 13 arguments of `discover`, 5 annotations, 6 chains, 2 byte limits, 11 local files |
| `controller` | does published evidence tell what was done? | 2 calls over 14 requests, 2 of which declare the results of earlier runs, 2 places, 2 contents of the source, 2 changes; symmetric in calls and contents |
| `workflow` | do mixed packages, answers and decisions ever produce a bad chain? | 2 callers, 4 destinations, 14 arguments of `prepare`, 4 foreign packages, 28 answers |
| `exchange` | can records of several runs, models, accounts or humans be combined into a handoff or an admission nobody cleared? | 6 records out of 2 runs, 2 models, 2 humans (symmetric), 17 answers; beside them 3 contexts and a request per human that were written elsewhere |
| `review` | does a verdict, with its reasons, follow from the checks whatever is combined? | 5 records, at most 2 of them results, out of 3 rules, 2 codes, 7 sets of failures, 2 contexts, 4 inputs that fit one of them or are of another task or source set, 3 proposals, 12 opinions |

Why these are enough. Two publishers reach every pair of system calls, and
properties about publication relate two calls at most; the third in `live` makes
starvation by turns possible. Two failures include a failure of the recovery from
a failure. In the file-tree runs an error needs one change while something is
read and one to hide it; the third change covers a change below one that was
moved. In `workflow`, `context`, `controller`, `exchange` and `review` each
argument is that of a good call or differs from one in the place that a check of
the code is there to look at, so that dropping the check lets it through. Every
property is accompanied by a mutant, a variant of a definition (`X_Something`
beside `X`) with a plausible mistake, under which TLC finds the property
violated.

Two final results that cite one manifest identity (`MCFinalEvidence`) are real: a
manifest's observational metadata is not part of its identity.

Fairness. `FairSpec` assumes only that a process whose next system call can be
made makes it eventually, unless it failed: calls are sequential code without
locks, so nothing else is needed and nothing else is assumed. `Termination` and
`SomebodyWins` use it; no other property uses fairness.

Deadlock is not checked: every model ends when its calls have returned.

## 4. Proofs

The assumptions are those named in the modules (`ConstantsAssumption`,
`StoreAssumption`, `RequestAssumption`, `NoneAssumption`, `DependencyAssumption`,
`ControllerAssumption`, `ArgumentsAssumption`, `CatalogAssumption`,
`TreeAssumption`, `RootAssumption`, `PathAssumption`,
`AuditAssumption`): constants have the type their comment says, sentinels differ
from values, the result a command publishes cites the manifest it publishes, which
`Workflow` checks, the catalog of rules is not empty and a check has the reason
`CHECK_PASS` exactly if it has no failure, there are finitely many failure codes
in one order, the identity of a cloud context (a hash of another kind of record)
is no bounded context's, paths are not empty, and the tree has no hard links at
first. `ContextPipeline` needs no assumption. Nothing is assumed
about the sizes of constants.

**FinalEvidenceProofs.** For any number of publishers, paths, directories and
failures: types, `OwnTempOnly`, `NoTornDestination`, `FinalAfterManifest`,
`SuccessIsDurable`, `OneWinner`, `NoReplace`, `NoCleanup`, and that
`FinalEvidence` implements `EvidenceStore`. None of these is inductive. The
invariant `IInv` adds: what each call knows at its program point (`CallInv`);
how far its file has been written and synced (`DataInv`); whatever a destination
shows or may show after a power failure is one whole synced file whose call has
come that far (`EntryInv`); a call past its directory fsync has a durable record
(`PublishedInv`). The key is `EntryInv`: a destination is only ever linked to a
file that is already synced, so `disk` of a destination holds at most nothing and
that one file, and a power failure leaves nothing or the whole record. The order
of the records follows because the second is begun only in a state where
`PublishedInv` holds for the first, and nothing takes a durable entry away. Each
action preserves each part by a lemma of its own; the refinement maps every step
to `Publish`, `Settle`, `PowerLoss` or a stutter.

Of the two liveness properties, what they rest on beside fairness. For
`Termination`: a call never has more to do than before, and each step of its own
brings it closer to its end (`EveryStepLeadsToTheEnd`); 27 steps are
enough. For `SomebodyWins`: as long as nothing fails from outside, a call has been
refused only if another is still at work or has succeeded (`OnlyARivalRefuses`),
for calls that are admissible, agree on the first destination, find their
directories, and whose manifests have no hash in common with a result (`Rivals`).
Its invariant (`RaceInv`) follows who is ahead: whoever is linked at the
destination has passed the last point at which a rival can stop it
(`WinnerGoesOn`); and as soon as a call was refused, a temporary is there, or the
root was touched under a call that has validated it, some call is linked at the
destination or holds a temporary and goes for it (`SomebodyAhead`). The hash matters because a temporary is named by it: a result
with the hash of a manifest could have the name that a rival's manifest needs.

**CommandLineProofs.** First about `EvidenceStore` itself: a result is shown only
over a settled manifest and what settled stays. Then, for any calls, requests,
places and records: `ReportIsTrue`, `ReportedOnce`, types, and that every step of
the command line is one of the store or none, so that the store's theorems hold of
it. The invariant says what a call knows of its records at each point (`CallInv`),
in particular that whoever is about to speak of a publication, has spoken, or owes
it, has finished it, and that the places which calls have filled and rely on are
never shared (`HoldsApart`). The last is what makes `ReportedOnce` inductive: a
place is only filled when it is empty, and a held place never is.

**DependencyPinProofs.** For any trees, folders, modules, entries that may be added,
invocations and changes: `RunsWhatWasVerified`, `ReplacementFailsClosed`,
`QuietInvocationSucceeds` and types. What runs is frozen code but for three ways
around, and the proof shows that there is no fourth. The invariant adds that a file
verification has read is as frozen unless edited since, and that an added entry in a
folder it has listed was added since (`WalkedIsGood`); that after the purge
whatever is loaded comes from the pinned tree and is accounted for (`LoadedIsGood`);
and that while nobody interferes the pinned tree is the one at the path, and is given
up only if it is flawed (`QuietIsPinned`). The last needs to know whose byte code is
in a tree: only what this process's imports have left, so that at verification it is
of an earlier invocation.

**ContextPipelineProofs.** For any sources, tasks, annotations, chains and
limits: `OneLineage`, `NoSourceLost`, `AdmissionSound`. The invariant says that a
context keeps what `build_context` checked, whatever becomes of the records it
was built from (`ContextGood`), and that a discovery accounts for each of its
candidates and holds what its task requires (`DiscoveryComplete`). The second
is what makes the first inductive: no later stage looks at the candidates or
at what the task requires, so a context can only be complete because the discovery
it names was. Lineage, disposal and soundness of a new context are a lemma each.

**ControllerProofs.** For any number of calls, requests, places and changes:
`WorkIsAllowed` and `EvidenceIsTrue`. The invariant says for each program point
what a call there has captured and executed (`CallInv`), and of each published
manifest that it is of a call that is over, had done its work and was admitted.
The counters tell whether the dependencies ran (`CountsTrue`); what is bound beside
the caller's declarations is then the call's own two results. That these fit each
other and, while nobody changed the source, the input (`BindsItsResults`) needs that
until then a capture is what is still there.
A call that is over takes no step, so evidence stays true of it; two calls do not
disturb each other because publication only fills an empty place.

**WorkflowProofs.** For any callers, destinations, arguments and packages:
`ChainClosed`, `ApprovalEarned`, `ManifestDeterminesResult`, `NoLateRejection` and
`ReturnedStays`. The invariant says that all that is ever published, or about to
be, was built from one package and one answer that `Accepts` let through
(`Accepted`, `Built`), and that a call past a publication finds its record where it
put it. The rest is about the records of one accepted call and has no state: that
they form a chain, that an approval among them is earned, that their manifest
determines their result, and that the validation after publication looks at nothing
that was not settled before it. The last compares `ValidComposition` conjunct by
conjunct with `Accepts`.

**ExchangeReviewProofs.** For any records that callers have and combine. Of
`CloudExchange`: `NothingLeavesUncleared`, `AnswerIsAuthorized`,
`SameAnswerSameOrigin`. Of `Review`: `ConclusionIsEarned` and
`ReasonsAreTheFailures`. As these modules keep nothing but a set of records, the
invariants say of each kind of record from which others, under which checks, it
was made. For `NothingLeavesUncleared` that is the records a request can have: its
context is one the admission cleared or one that was written elsewhere, and of the
second nothing is claimed but what validation checks. Two things are not obvious: that only public material without findings
is let out by the most restrictive floor (`OnlyPublicIsAllowed`), and that the one
reason of a result, chosen by the severity of rules, is among the published codes,
which needs that a most severe rule exists among those that decided. That is an
induction over a finite set of rules, by a least element. `DeadEnds` has two
halves. What the right-hand side rules out is never accepted, whatever is said
(`DeadEndsStayDead`). Everything else can be, and the proof says how: publish the
failures that the checks cite, each code once, severe ones first. That such a list
exists is an induction over finite sets of codes. A result is published only if its
context, task and sources are those of one cloud context, whichever call made it. The
theorem (`OnlyTheseLeadNowhere`) supposes that every cloud context has an admitted
proposal that cites only sources of it, without which there is nothing to verify.

**TreeReaderProofs.** For any trees, paths, files and sequences of changes. Of
`SourceCapture`: types, `CapturedWasThere`, `CaptureIsWhole`, `NoFalseRefusal`; of
`ReadbackAudit`: types (one of which says that the audit reads at most one block more
than it expects), `BothAtOnce`, `NoFalseAlarm`. Where a path leads is a recursive
function of its length; what is needed of it (a path leads on through what its
parts lead to, a change off the path leaves it alone, an inode is on a path at one
place) is proved by induction said of sets of numbers (`SetInduction`), which the
provers can use where they cannot use the library's theorem. The two invariants
(`CaptureInv`, `AuditInv`) rest on these ideas, the fourth on the audit's side only:

* each component that was opened is still named by its entry, or that it was is
  among the things known to have gone (`OpenedInPlace`, `AuditInPlace`); so if
  `returned` is false, an entry that is requalified never changed in between;
* a file with the stamp it was opened with has the bytes it had, since every change
  of it gives a new stamp, and a block that was read is a block of it
  (`ReadInPlace`, `AuditRead`);
* hence, when all entries have been requalified, the path led to the opened file at
  the moment of the last of the reads (`ReadWasThere`, `ReadsAreEvident`);
* what each place has shown since is known (`ShowingKnown`): a place read
  successfully twice and never "again" has shown its bytes all the time between;
* a call that nobody disturbed finds everything as it was when it was opened, so
  none of its checks fails (`NothingMoved`, `AuditCalm`).

For the audit the first two reads show that both records were there, but not at
once; the third, of the manifest, shows that the manifest was there all the while,
and so at the moment the result was. The proof needs no fourth read.

The inductive invariants of `FinalEvidence` (`RaceInv` too, with three publishers
and no failure), `ContextPipeline`, `Controller`, `SourceCapture` and
`ReadbackAudit` were checked with TLC on the instances of section 3 before they
were proved, that of `DependencyPin` with two changes rather than three; the runs
list what they imply. The type invariants of the modules
that no run lists were checked in the same way.

Only model-checked: `Termination` and `SomebodyWins`, which are liveness under
fairness and out of reach of these provers; what they rest on is proved.

## 5. What the models say about the code

All properties hold. Some limits of the code show in how they had to be stated:

* An audit or capture cannot tell that a name or a content went away and came
  back (`returned`), nor an audit that a record did, as another file with the same
  bytes (`showing`).
* The audit reads each record twice; its second read of the final result is not
  needed for what passing means (section 4), only its second read of the manifest.
* The dependency's descriptor pins a directory, not what is in it, so that
  verified code can be got around in three ways, which `RunsWhatWasVerified` names:
  a file is edited after it was read (`edited`); an entry that an import finds in
  place of a module is added after its folder was listed (`late`); or such an entry
  is a link to a directory, which the walk never reports, whenever it was added
  (`FolderOf` is `Nothing`). The `__file__` of what was imported in its place begins
  with the root, or is found not to when it has run (435-438).
* Unless the interpreter is told to write none, an invocation leaves byte code in the
  frozen tree (429), and every later one is refused for its path set (394-400), in
  this process or another, until somebody removes it. Only the test command tells it
  (`writes` in `QuietInvocationSucceeds`).
* Only the first destination is looked at before the manifest is published: if
  the result's destination is occupied, a manifest without a result stays
  (`FinalAfterManifest` is one-directional for that reason).
* A leftover temporary blocks every retry of the same record in that directory;
  nothing removes it (`NoCleanup` is what the code promises).
* Two publications in one root may refuse each other when one touches the root
  between the other's validation and open (1713); `SomebodyWins` shows that they
  cannot all be refused.
* A package may be resumed any number of times to different destinations.
* The controller's run record binds what was captured and what the dependencies
  made of the directory when they read it later; if the source changed in between
  the two are of different contents, and nothing compares them (`BindsItsResults`
  says that they agree only while it did not).
* Nor does a run record tell results from declarations: a caller that declares the
  results of an earlier run gets a manifest that binds them without running
  anything. What tells is the counters, which a caller cannot set
  (`CountsTrue` in `EvidenceIsTrue`).
* The result that the MR-04 binding names as its upstream is not compared with
  the MR-03 binding beside it.
* An excluded candidate that is supplied twice is listed twice, so two discoveries
  of one source set and one selection can have different identities. The stages
  then refuse each other's records; none gets mixed.
* A row's classification is the caller's: nothing ties it to what the descriptor
  of its source says.
* Exit code 2 and `FAIL_CLOSED` do not mean that nothing was published: the report
  may have been lost after the evidence was durable, and a retry then meets its
  own records and fails too. Only reading the evidence back tells
  (`ReportedOnce`).
* `prepare` prints packages of any size; what `resume` reads, package and response
  together, is limited. A large package can be built by the command line and never
  be concluded by it.
* A cloud context or a request that was written without the calls of the boundary
  passes like one that was built by them, if it is consistent in itself: its
  identity can be recomputed by anybody and `ALLOW` is its own word. Only of
  what was not written so can `NothingLeavesUncleared` say that its material was
  cleared.
* An authorization says that it covers one request; nothing remembers that it was
  used, and `MR05_PROPOSAL_REPLAY_BLOCKED` is never raised.
* A disclosure decision is bound to nothing in the package it lets out: the caller
  says which material it is about (`NothingLeavesUncleared` is said of the entry
  that was admitted together with it).
* A response may carry a provider request id of 2048 characters, a proposal one of
  512, and the two are compared: an answer with a longer id is recorded and can
  never be admitted (`LongId`).
* Some results of the verifier lead nowhere, whatever is said of them: a rule is
  missing, one code has two severities, or its context, task and source set are not
  those of one cloud context: the caller named others, or made it by
  `verify_supplied_records` on a bounded context, whose identity the adapter then
  compares with that of the cloud context (`DeadEnds` says that these are all).
* Checks are compared with failures in the adapter only if failure records are
  given; evidence compares them always.
* The gate repeats reason codes and source references that evidence does not
  compare with the verification; claims' references are not compared with the
  proposal's.
* The one-shot commands `offline` and `prepare` refuse inexact numbers in their
  request; `resume` and the local commands accept them.

## 6. Not modelled, and the plan

Not modelled: encodings, schemas and identities as byte strings; record
validation for agents outside this repository (run ledger, coordination, memory,
multi-agent, operational results); the arithmetic of metrics; recorded data under
`src/evidence`.

The order so far was: what publication promises and how it keeps it, the other
edges with the file system, the protocol of `prepare` and `resume`, the pipeline
before it, the controller, and then the records that `Workflow` had as
arguments, in `CloudExchange` and `Review`. Then the proofs, module by
module. Next, in this order:

1. The audit against concurrent publishers: `ReadbackAudit` over `EvidenceStore`.
2. An abstract controller (a call leaves whole evidence or none) that
   `Controller` implements, and with it the composition with `EvidenceStore`.
