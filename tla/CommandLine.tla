---------------------------- MODULE CommandLine ----------------------------
(***************************************************************************)
(* The command line, cli.py: processes that each read one request from     *)
(* their standard input, do the work, and say on standard output what came *)
(* of it.  Two of the five commands publish evidence, in the store that    *)
(* EvidenceStore describes; the others print a package.                    *)
(*                                                                         *)
(* A report is bytes in a buffer that is flushed to a reader who may have  *)
(* gone, by a process that may be killed, on a machine that may lose its   *)
(* power.  So what the reader was told, how the process ended and what is  *)
(* in the store can come apart; the properties say how far.                *)
(*                                                                         *)
(* What the workflow makes of the arguments is another module's matter: it *)
(* may refuse.  Publication is what FinalEvidence implements, in its four  *)
(* effects on the store; it may also be refused at any of them.            *)
(***************************************************************************)
EXTENDS EvidenceStore, Naturals

CONSTANTS
  Call,           \* processes that run a command, once each
  Request,        \* what their command and standard input may be
  InputLimit,     \* the size of a standard input
  ResponseLimit   \* the size of a decoded provider response

VARIABLES
  pc,             \* what a call does next
  req,            \* its request
  out,            \* what its reader has of the report
  owed,           \* calls that failed to flush a report and still hold it
  code,           \* its exit code; 1 stands for all but 0 and 2
  finished        \* history: calls whose publication succeeded

callVars == <<pc, req, out, owed, code, finished>>
allVars == <<vars, callVars>>

-----------------------------------------------------------------------------
(* Requests. *)

Operation ==
  [offline  |-> "OFFLINE_COMPOSE_PREOBTAINED_RESPONSE",
   prepare  |-> "PREPARE_PRE_SEND_HANDOFF",
   resume   |-> "RESUME_PREOBTAINED_RESPONSE",
   materialize   |-> "MATERIALIZE_LOCAL_PREPARE_INPUTS",
   local_prepare |-> "LOCAL_PREPARE_FROM_APPROVED_SOURCE"]

Command == DOMAIN Operation

Publishes(r) == r.command \in {"offline", "resume"}

(* The records a publishing request leads to, and where they are to go.    *)
ASSUME RequestAssumption ==
  \A r \in Request : Publishes(r) =>
    /\ r.manifest \in Manifest /\ r.final \in Final
    /\ Cites[r.final] = IdentityOf[r.manifest]
    /\ r.manifestAt \in Place /\ r.finalAt \in Place

ASSUME NoneAssumption == None \notin {0, 1, 2}

Places(r) == IF Publishes(r) THEN {r.manifestAt, r.finalAt} ELSE {}

(* Strict JSON; two of the commands also refuse inexact numbers in it.     *)
StrictJson(r) ==
  r.json \in IF r.command \in {"offline", "prepare"}
             THEN {"exact"} ELSE {"exact", "inexact"}

(* The operation is the command's, and the fields are those of the frozen  *)
(* signature of the function it is for.                                    *)
FieldsExact(r) == r.operation = Operation[r.command] /\ r.fields

(* Canonical base64 of not too many bytes. *)
ResponseDecodes(r) == r.response.canonical /\ r.response.size <= ResponseLimit

(* At most so many bytes are read. *)
Bounded(r) == r.size <= InputLimit

Admissible(r) ==
  /\ Bounded(r)
  /\ StrictJson(r)
  /\ FieldsExact(r)
  /\ r.command = "resume" => r.packageValid
  /\ Publishes(r) => ResponseDecodes(r)

-----------------------------------------------------------------------------
(* One call. *)

Goto(c, here, there) ==
  /\ pc[c] = here
  /\ pc' = [pc EXCEPT ![c] = there]

Start(c, r) ==
  /\ pc[c] = "idle"
  /\ req' = [req EXCEPT ![c] = r]
  /\ IF r.command \in Command
     THEN /\ pc' = [pc EXCEPT ![c] = "parse"]
          /\ UNCHANGED code
     ELSE /\ pc' = [pc EXCEPT ![c] = "over"]
          /\ code' = [code EXCEPT ![c] = 1]
  /\ UNCHANGED <<vars, out, owed, finished>>

Parse(c) ==
  /\ Goto(c, "parse", IF Admissible(req[c]) THEN "work" ELSE "failing")
  /\ UNCHANGED <<vars, req, out, owed, code, finished>>

(* The workflow accepts; if there is something to publish, that is next.   *)
Work(c) ==
  /\ Goto(c, "work", IF Publishes(req[c]) THEN "manifest" ELSE "report")
  /\ UNCHANGED <<vars, req, out, owed, code, finished>>

Publishing == {"manifest", "syncManifest", "final", "syncFinal"}

(* The workflow or the publication refuses: bad arguments, a place that is *)
(* taken, an input or output error, a root that others touched.            *)
Refuse(c) ==
  /\ pc[c] \in {"work"} \cup Publishing
  /\ pc' = [pc EXCEPT ![c] = "failing"]
  /\ UNCHANGED <<vars, req, out, owed, code, finished>>

\* Mutant: what is there already is as good.
Show_Again(s, x) ==
  /\ shown[s] \in {None, x}
  /\ shown' = [shown EXCEPT ![s] = x]
  /\ UNCHANGED settled

\* Mutant: what is there already is replaced.
Show_Replacing(s, x) ==
  /\ shown' = [shown EXCEPT ![s] = x]
  /\ UNCHANGED settled

Show(s, x) ==
  /\ shown[s] = None
  /\ shown' = [shown EXCEPT ![s] = x]
  /\ UNCHANGED settled

Sync(s) ==
  /\ settled' = settled \cup {s}
  /\ UNCHANGED shown

ShowManifest(c) ==
  /\ Goto(c, "manifest", "syncManifest")
  /\ Show(req[c].manifestAt, req[c].manifest)
  /\ UNCHANGED <<req, out, owed, code, finished>>

\* Mutant: the result is begun before the manifest is durable.
SyncManifest_Skipped(c) ==
  /\ Goto(c, "syncManifest", "final")
  /\ UNCHANGED <<vars, req, out, owed, code, finished>>

SyncManifest(c) ==
  /\ Goto(c, "syncManifest", "final")
  /\ Sync(req[c].manifestAt)
  /\ UNCHANGED <<req, out, owed, code, finished>>

ShowFinal(c) ==
  /\ Goto(c, "final", "syncFinal")
  /\ Show(req[c].finalAt, req[c].final)
  /\ UNCHANGED <<req, out, owed, code, finished>>

\* Mutant: success is reported before the result is durable.
SyncFinal_Skipped(c) ==
  /\ Goto(c, "syncFinal", "report")
  /\ finished' = finished \cup {c}
  /\ UNCHANGED <<vars, req, out, owed, code>>

SyncFinal(c) ==
  /\ Goto(c, "syncFinal", "report")
  /\ Sync(req[c].finalAt)
  /\ finished' = finished \cup {c}
  /\ UNCHANGED <<req, out, owed, code>>

-----------------------------------------------------------------------------
(* The report, and the end. *)

(* The whole report is written and flushed. *)
Report(c) ==
  /\ Goto(c, "report", "passed")
  /\ out' = [out EXCEPT ![c] = "whole"]
  /\ UNCHANGED <<vars, req, owed, code, finished>>

(* Writing it fails, after some of it or none; the rest may stay buffered. *)
ReportFails(c) ==
  /\ Goto(c, "report", "failing")
  /\ \E o \in {"nothing", "part"} : out' = [out EXCEPT ![c] = o]
  /\ owed' \in {owed, owed \cup {c}}
  /\ UNCHANGED <<vars, req, code, finished>>

End(c, n) ==
  /\ pc' = [pc EXCEPT ![c] = "over"]
  /\ code' = [code EXCEPT ![c] = n]
  /\ UNCHANGED <<vars, req, owed, finished>>

ExitPassed(c) ==
  /\ pc[c] = "passed"
  /\ End(c, 0)
  /\ UNCHANGED out

(* FAIL_CLOSED on standard error, or an exception if that fails too.  Then *)
(* the interpreter flushes what is owed, or fails to, which changes the    *)
(* exit code.                                                              *)
ExitFailed(c) ==
  /\ pc[c] = "failing"
  /\ \/ /\ \E n \in {1, 2} : End(c, n)
        /\ IF c \in owed THEN out' = [out EXCEPT ![c] = "whole"] ELSE UNCHANGED out
     \/ /\ c \in owed
        /\ End(c, 1)
        /\ \E o \in {out[c], "part"} : out' = [out EXCEPT ![c] = o]

(* An interrupt or a signal, at whatever has been written of the report.   *)
Kill(c) ==
  /\ pc[c] \notin {"idle", "over"}
  /\ End(c, 1)
  /\ \E o \in {out[c]} \cup (IF pc[c] = "report" \/ c \in owed
                             THEN {"part", "whole"} ELSE {}) :
        out' = [out EXCEPT ![c] = o]

-----------------------------------------------------------------------------
(* The machine. *)

PowerFails ==
  /\ PowerLoss
  /\ pc' = [c \in Call |-> IF pc[c] = "idle" THEN "idle" ELSE "over"]
  /\ code' = [c \in Call |-> IF pc[c] \in {"idle", "over"} THEN code[c] ELSE 1]
  /\ UNCHANGED <<req, out, owed, finished>>

SystemSyncs == Settle /\ UNCHANGED callVars

CallInit ==
  /\ Init
  /\ pc = [c \in Call |-> "idle"]
  /\ req = [c \in Call |-> None]
  /\ out = [c \in Call |-> "nothing"]
  /\ owed = {}
  /\ code = [c \in Call |-> None]
  /\ finished = {}

CallNext ==
  \/ \E c \in Call :
       \/ \E r \in Request : Start(c, r)
       \/ Parse(c) \/ Work(c) \/ Refuse(c)
       \/ ShowManifest(c) \/ SyncManifest(c) \/ ShowFinal(c) \/ SyncFinal(c)
       \/ Report(c) \/ ReportFails(c)
       \/ ExitPassed(c) \/ ExitFailed(c) \/ Kill(c)
  \/ PowerFails
  \/ SystemSyncs

CallSpec == CallInit /\ [][CallNext]_allVars

-----------------------------------------------------------------------------
CallTypeOK ==
  /\ TypeOK
  /\ pc \in [Call -> {"idle", "parse", "work", "report", "passed", "failing",
                      "over"} \cup Publishing]
  /\ req \in [Call -> Request \cup {None}]
  /\ out \in [Call -> {"nothing", "part", "whole"}]
  /\ owed \subseteq Call
  /\ code \in [Call -> {None, 0, 1, 2}]
  /\ finished \subseteq Call

(* A report is true.  As soon as anything of a PASS summary has reached    *)
(* its reader, both records are at the places it names and stay there      *)
(* through power failures, however the process ends; and exit code 0 means *)
(* that the reader has all of it.                                          *)
ReportIsTrue ==
  \A c \in Call :
    /\ out[c] # "nothing" /\ Publishes(req[c]) =>
         /\ Places(req[c]) \subseteq settled
         /\ shown[req[c].manifestAt] = req[c].manifest
         /\ shown[req[c].finalAt] = req[c].final
    /\ code[c] = 0 => out[c] = "whole"

(* At most one word is said of a place.  When a call has published, no     *)
(* other call that is to publish at one of its places ever says anything,  *)
(* not even a retry of the same request after the first report was lost:   *)
(* exit code 2 does not mean that nothing was published, and repeating the *)
(* command does not tell.                                                  *)
ReportedOnce ==
  \A c \in finished, d \in Call :
    d # c /\ out[d] # "nothing" => Places(req[c]) \cap Places(req[d]) = {}

=============================================================================
