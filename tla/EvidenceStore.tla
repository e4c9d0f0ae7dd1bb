--------------------------- MODULE EvidenceStore ---------------------------
(***************************************************************************)
(* What a store of evidence promises to whoever reads it, with no word on  *)
(* how records get there.  A place (a file name in a directory) shows      *)
(* nothing or one whole record.  A record shown at a place is never        *)
(* replaced; it may be lost by a power failure until it has settled, and   *)
(* never afterwards.  A final result is shown only once the manifest it    *)
(* cites has settled.                                                      *)
(***************************************************************************)
EXTENDS FiniteSets

CONSTANTS
  Place,       \* where a record can be shown
  Manifest,    \* evidence manifests, as exact canonical bytes
  Final,       \* final results, as exact canonical bytes
  Identity,    \* the hashes that name records
  IdentityOf,  \* the hash each record carries
  Cites,       \* the manifest hash each final result is bound to
  None

Record == Manifest \cup Final

ASSUME StoreAssumption ==
  /\ Manifest \cap Final = {}
  /\ IdentityOf \in [Record -> Identity]
  /\ Cites \in [Final -> Identity]
  /\ None \notin Record

VARIABLES
  shown,       \* what a reader finds at each place
  settled      \* the places whose record survives a power failure

vars == <<shown, settled>>

Init ==
  /\ shown = [s \in Place |-> None]
  /\ settled = {}

(* Some settled place shows the manifest that final result x is bound to. *)
Backed(x) ==
  \E s \in settled : /\ shown[s] \in Manifest
                     /\ IdentityOf[shown[s]] = Cites[x]

(* A whole record appears at a place that showed nothing. *)
Publish(s, x) ==
  /\ shown[s] = None
  /\ x \in Final => Backed(x)
  /\ shown' = [shown EXCEPT ![s] = x]
  /\ UNCHANGED settled

(* Records on show become durable. *)
Settle ==
  /\ settled' \in SUBSET {s \in Place : shown[s] # None}
  /\ settled \subseteq settled'
  /\ UNCHANGED shown

(* A power failure takes back any of the records that had not settled; *)
(* those it spares are on disk.                                        *)
PowerLoss ==
  /\ shown' \in [Place -> Record \cup {None}]
  /\ \A s \in Place : \/ shown'[s] = shown[s]
                      \/ shown'[s] = None /\ s \notin settled
  /\ settled' = {s \in Place : shown'[s] # None}

Next ==
  \/ \E s \in Place, x \in Record : Publish(s, x)
  \/ Settle
  \/ PowerLoss

Spec == Init /\ [][Next]_vars

-----------------------------------------------------------------------------

TypeOK ==
  /\ shown \in [Place -> Record \cup {None}]
  /\ settled \subseteq {s \in Place : shown[s] # None}

(* Every final result on show has the manifest it cites on show too, and *)
(* that manifest can no longer be lost.                                   *)
FinalHasManifest ==
  \A s \in Place : shown[s] \in Final => Backed(shown[s])

(* A settled record stays where it is, unchanged, through everything. *)
SettledIsPermanent ==
  [][\A s \in settled : s \in settled' /\ shown'[s] = shown[s]]_vars

=============================================================================
