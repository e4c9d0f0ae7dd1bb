----------------------------- MODULE Controller -----------------------------
(***************************************************************************)
(* orchestrate_deterministic_run (src/src/hai_mr05/controller.py): one     *)
(* call qualifies its transition and arguments, captures a source, runs    *)
(* the two frozen dependencies over the directory it came from if asked    *)
(* to, and publishes a manifest of what it did if asked to.  Calls run     *)
(* side by side in processes of their own; others rewrite the source.      *)
(*                                                                         *)
(* What SourceCapture, DependencyPin and FinalEvidence show of the parts   *)
(* is used here: a capture is of one moment, an invocation returns a       *)
(* result or fails, publication creates a whole record or none and never   *)
(* replaces one; it may fail after it has published, and a process may die *)
(* at any step.  An identity is the value it is computed from.             *)
(***************************************************************************)
EXTENDS Naturals

CONSTANTS
  Call,        \* the calls made
  Request,     \* the arguments they may have
  Place,       \* destinations below the evidence root
  Content,     \* what may be at the source's path
  MaxChanges,  \* bound: how often others change the source
  None

ASSUME ControllerAssumption ==
  /\ MaxChanges \in Nat
  /\ None \notin Place \cup Content
  /\ \A r \in Request : r.place \in Place \cup {None}

VARIABLES
  source,     \* what is at the source's path
  changes,    \* how often others have changed it
  pc,         \* the next step of each call
  req,        \* its arguments
  captured,   \* what it captured
  mr03,       \* the result of its invocation of MR-03
  mr04,       \* the result of its invocation of MR-04
  manifest,   \* the manifest it has built
  published,  \* the manifests at each destination, at most one
  executed    \* history: the dependencies whose code it has let run

callVars == <<req, captured, mr03, mr04, manifest>>
envVars == <<source, changes>>
vars == <<envVars, pc, callVars, published, executed>>

Goto(c, l) == pc' = [pc EXCEPT ![c] = l]
Check(c, ok, l) == Goto(c, IF ok THEN l ELSE "failed")

(* Counters that a caller may not set: they are the controller's own, or   *)
(* count what this runtime never does (two stand for eleven).              *)
Derived == {"mr03_execution", "mr04_execution", "subprocess",
            "filesystem_dependency", "evidence_persistence",
            "filesystem_evidence_write"}
Forbidden == Derived \cup {"model_call", "human_approval"}

(* Only these transitions are executed at all.                             *)
Executable == {"HOLD", "READY_FOR_HUMAN_REVIEW_GATE"}

(* What is checked before anything is read.  Counters are those the caller *)
(* sets to something other than zero.  The identities it declares as       *)
(* dependencies and artifacts are not compared with anything.              *)
Admitted(r) ==
  /\ r.transition \in Executable
  /\ r.root <=> r.place # None
  /\ r.dependencies # {}
  /\ r.counters \cap Forbidden = {}

(* Any of the five arguments asks for the dependencies, but all must be    *)
(* there and well-formed.                                                  *)
DependencyRequested(r) == r.supplied # {}
DependencyComplete(r) ==
  r.supplied = {"task", "normalization", "source_set", "budget", "estimate"}

Init ==
  /\ source \in Content \cup {None}
  /\ changes = 0
  /\ pc = [c \in Call |-> "idle"]
  /\ req = [c \in Call |-> None]
  /\ captured = [c \in Call |-> None]
  /\ mr03 = [c \in Call |-> None]
  /\ mr04 = [c \in Call |-> None]
  /\ manifest = [c \in Call |-> None]
  /\ published = [p \in Place |-> {}]
  /\ executed = [c \in Call |-> {}]

Begin(c) ==
  /\ pc[c] = "idle"
  /\ \E r \in Request : /\ req' = [req EXCEPT ![c] = r]
                        /\ Check(c, Admitted(r), "capture")
  /\ UNCHANGED <<envVars, captured, mr03, mr04, manifest, published, executed>>

(* capture_source may refuse a source that is there (see SourceCapture).   *)
Capture(c) ==
  /\ pc[c] = "capture"
  /\ \/ /\ source # None
        /\ captured' = [captured EXCEPT ![c] = source]
        /\ Goto(c, IF DependencyRequested(req[c]) THEN "arguments" ELSE "build")
     \/ Goto(c, "failed") /\ UNCHANGED captured
  /\ UNCHANGED <<envVars, req, mr03, mr04, manifest, published, executed>>

\* Mutant: whatever is there of the arguments is taken.
CheckArguments_Any(c) ==
  /\ pc[c] = "arguments"
  /\ Goto(c, "mr03")
  /\ UNCHANGED <<envVars, callVars, published, executed>>

(* These arguments are checked when the source has been captured.          *)
CheckArguments(c) ==
  /\ pc[c] = "arguments"
  /\ Check(c, DependencyComplete(req[c]), "mr03")
  /\ UNCHANGED <<envVars, callVars, published, executed>>

(* MR-03 reads the directory itself; its result names the capture it was   *)
(* asked for.  It may be verified or fail before or after its code ran.    *)
InvokeMr03(c) ==
  /\ pc[c] = "mr03"
  /\ \/ /\ mr03' = [mr03 EXCEPT ![c] = [by |-> "mr03", capture |-> captured[c],
                                         read |-> source]]
        /\ executed' = [executed EXCEPT ![c] = @ \cup {"mr03"}]
        /\ Goto(c, "mr04")
     \/ /\ executed' \in {executed, [executed EXCEPT ![c] = @ \cup {"mr03"}]}
        /\ Goto(c, "failed") /\ UNCHANGED mr03
  /\ UNCHANGED <<envVars, req, captured, mr04, manifest, published>>

(* So does MR-04, which gets the result of MR-03.                          *)
InvokeMr04(c) ==
  /\ pc[c] = "mr04"
  /\ \/ /\ mr04' = [mr04 EXCEPT ![c] = [by |-> "mr04", upstream |-> mr03[c],
                                         read |-> source]]
        /\ executed' = [executed EXCEPT ![c] = @ \cup {"mr04"}]
        /\ Goto(c, "build")
     \/ /\ executed' \in {executed, [executed EXCEPT ![c] = @ \cup {"mr04"}]}
        /\ Goto(c, "failed") /\ UNCHANGED mr04
  /\ UNCHANGED <<envVars, req, captured, mr03, manifest, published>>

\* Mutant: the invocations of the dependencies are not counted.
Counters_Given(c) ==
  req[c].counters
  \cup (IF req[c].root THEN {"evidence_persistence", "filesystem_evidence_write"}
        ELSE {})

(* The counters that are not zero: the caller's and the controller's own.  *)
Counters(c) ==
  req[c].counters
  \cup (IF DependencyRequested(req[c])
        THEN Derived \ {"evidence_persistence", "filesystem_evidence_write"}
        ELSE {})
  \cup (IF req[c].root THEN {"evidence_persistence", "filesystem_evidence_write"}
        ELSE {})

Results(c) == IF DependencyRequested(req[c]) THEN {mr03[c], mr04[c]} ELSE {}

(* The results the call has go among the identities the caller has         *)
(* declared as dependencies, and nothing tells them apart afterwards.      *)
RunRecord(c) ==
  [declared |-> req[c].declared, input |-> captured[c],
   dependencies |-> req[c].dependencies \cup Results(c)]

(* The descriptor's source_id: the content and where it was found.         *)
SourceId(content) == [source |-> content]

Artifacts(c) == req[c].artifacts \cup {SourceId(captured[c])}

(* build_run_record and build_evidence_manifest.                           *)
Build(c) ==
  /\ pc[c] = "build"
  /\ manifest' = [manifest EXCEPT ![c] =
                    [run |-> RunRecord(c), artifacts |-> Artifacts(c),
                     counters |-> Counters(c)]]
  /\ Goto(c, IF req[c].root THEN "publish" ELSE "returned")
  /\ UNCHANGED <<envVars, req, captured, mr03, mr04, published, executed>>

(* persist_evidence publishes create-once.  It may fail, and having        *)
(* published as well.                                                      *)
Publish(c) ==
  /\ pc[c] = "publish"
  /\ \/ /\ published[req[c].place] = {}
        /\ published' = [published EXCEPT ![req[c].place] = {manifest[c]}]
        /\ \E l \in {"returned", "failed"} : Goto(c, l)
     \/ Goto(c, "failed") /\ UNCHANGED published
  /\ UNCHANGED <<envVars, callVars, executed>>

(* The process dies. *)
Crash(c) ==
  /\ pc[c] \notin {"idle", "returned", "failed"}
  /\ Goto(c, "failed")
  /\ UNCHANGED <<envVars, callVars, published, executed>>

(* Another program rewrites, removes or puts back the source.              *)
Change ==
  /\ changes < MaxChanges
  /\ changes' = changes + 1
  /\ source' \in (Content \cup {None}) \ {source}
  /\ UNCHANGED <<pc, callVars, published, executed>>

Next ==
  \/ \E c \in Call :
       \/ Begin(c) \/ Capture(c) \/ CheckArguments(c) \/ InvokeMr03(c)
       \/ InvokeMr04(c) \/ Build(c) \/ Publish(c) \/ Crash(c)
  \/ Change

Spec == Init /\ [][Next]_vars
-----------------------------------------------------------------------------
(* Properties. *)

(* A call that is refused for its transition, its counters or half a       *)
(* destination has read nothing; dependencies run only for a call that     *)
(* gave all of their arguments and has captured its source, and MR-04 only *)
(* over a result of MR-03 for that capture.                                *)
WorkIsAllowed ==
  \A c \in Call :
    /\ captured[c] # None =>
         /\ req[c].transition \notin {"PROGRESS", "FAIL_CLOSED"}
         /\ req[c].counters \cap Forbidden = {}
         /\ req[c].root <=> req[c].place # None
    /\ executed[c] # {} => DependencyComplete(req[c]) /\ captured[c] # None
    /\ "mr04" \in executed[c] => mr03[c].capture = captured[c]

ExecutionCounter == [mr03 |-> "mr03_execution", mr04 |-> "mr04_execution"]

(* A manifest counts as executed what its call has executed.               *)
CountsTrue(m, c) ==
  \A d \in {"mr03", "mr04"} : d \in executed[c] <=> ExecutionCounter[d] \in m.counters

(* What a manifest binds beside what the caller declared is the call's own *)
(* two results if it counts them, and nothing otherwise.  They fit each    *)
(* other and its input: MR-04 worked on the result of MR-03 bound beside   *)
(* its own, and MR-03 was asked about the input; as long as nobody has     *)
(* changed the source, both read it.                                       *)
BindsItsResults(m, c) ==
  IF "mr04_execution" \in m.counters
    THEN /\ m.run.dependencies = req[c].dependencies \cup {mr03[c], mr04[c]}
         /\ mr04[c].upstream = mr03[c] /\ mr03[c].capture = m.run.input
         /\ changes = 0 => mr03[c].read = m.run.input /\ mr04[c].read = m.run.input
    ELSE m.run.dependencies = req[c].dependencies

(* Published evidence tells what was done: it is of a call that captured   *)
(* what it binds, ran the dependencies if and only if it counts them, on   *)
(* that input and on each other, and meant to publish it there; and a call *)
(* that returns has its own evidence where it asked for it, whatever calls *)
(* run beside it.  It is the counters that tell: a caller may declare the  *)
(* result of an earlier run as a dependency, so that a manifest binds it,  *)
(* and run nothing.                                                        *)
EvidenceIsTrue ==
  /\ \A p \in Place : \A m \in published[p] :
       \E c \in Call : /\ manifest[c] = m /\ req[c].place = p
                       /\ captured[c] = m.run.input
                       /\ SourceId(m.run.input) \in m.artifacts
                       /\ CountsTrue(m, c)
                       /\ BindsItsResults(m, c)
                       /\ "evidence_persistence" \in m.counters
  /\ \A c \in Call : pc[c] = "returned" /\ req[c].root =>
                       published[req[c].place] = {manifest[c]}

-----------------------------------------------------------------------------
(* What makes them inductive: how far a call has come says what it has,    *)
(* and what is published is of a call that has come to its end.            *)
Fresh(c) ==
  captured[c] = None /\ executed[c] = {}

Over(c) == pc[c] \in {"returned", "failed"}

(* A call that has built its manifest, or is about to.                     *)
WorkDone(c) ==
  /\ captured[c] # None
  /\ IF DependencyRequested(req[c])
       THEN /\ executed[c] = {"mr03", "mr04"}
            /\ mr04[c].upstream = mr03[c] /\ mr03[c].capture = captured[c]
            /\ changes = 0 => /\ mr03[c].read = captured[c]
                              /\ mr04[c].read = captured[c]
       ELSE executed[c] = {}

Built(c) ==
  /\ WorkDone(c)
  /\ manifest[c] = [run |-> RunRecord(c), artifacts |-> Artifacts(c),
                    counters |-> Counters(c)]

Allowed(c) ==
  /\ captured[c] # None => Admitted(req[c])
  /\ executed[c] # {} => DependencyComplete(req[c]) /\ captured[c] # None
  /\ "mr04" \in executed[c] => mr03[c].capture = captured[c]

CallInv(c) ==
  /\ Allowed(c)
  /\ changes = 0 /\ captured[c] # None => captured[c] = source
  /\ pc[c] # "idle" => req[c] \in Request
  /\ pc[c] \in {"idle", "capture"} => Fresh(c)
  /\ pc[c] \notin {"idle", "failed"} => Admitted(req[c])
  /\ pc[c] \in {"arguments", "mr03", "mr04"} => DependencyRequested(req[c])
  /\ pc[c] \in {"mr03", "mr04"} => DependencyComplete(req[c])
  /\ pc[c] \in {"arguments", "mr03"} => captured[c] # None /\ executed[c] = {}
  /\ pc[c] = "mr04" => /\ captured[c] # None /\ executed[c] = {"mr03"}
                       /\ mr03[c].capture = captured[c]
                       /\ changes = 0 => mr03[c].read = captured[c]
  /\ pc[c] = "build" => WorkDone(c)
  /\ pc[c] = "publish" => Built(c) /\ req[c].root
  /\ pc[c] = "returned" /\ req[c].root => published[req[c].place] = {manifest[c]}

Shape ==
  /\ DOMAIN pc = Call /\ DOMAIN req = Call /\ DOMAIN captured = Call
  /\ DOMAIN mr03 = Call /\ DOMAIN mr04 = Call /\ DOMAIN manifest = Call
  /\ DOMAIN executed = Call
  /\ DOMAIN published = Place
  /\ changes \in Nat

IInv ==
  /\ Shape
  /\ \A c \in Call : CallInv(c)
  /\ \A p \in Place : \A m \in published[p] :
       \E c \in Call : /\ Over(c) /\ manifest[c] = m /\ Built(c)
                       /\ req[c].root /\ req[c].place = p
                       /\ Admitted(req[c])
=============================================================================
