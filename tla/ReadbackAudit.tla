--------------------------- MODULE ReadbackAudit ---------------------------
(***************************************************************************)
(* audit_persisted_final_evidence_records (src/src/hai_mr05/evidence.py):  *)
(* the manifest and the final result that a call has published are read    *)
(* back, each twice and in turns, while other programs change the tree.    *)
(* Only a tree that showed exactly the expected bytes at both places is to *)
(* pass.                                                                   *)
(***************************************************************************)
EXTENDS TreeReader

CONSTANTS
  Manifest,     \* the manifest's path below the root, a sequence of names
  Final,        \* the final result's
  Expected      \* the canonical bytes of each

Records == {Manifest, Final}

ASSUME AuditAssumption ==
  /\ Records \subseteq Seq(STRING) \ {<< >>}
  /\ Manifest # Final
  /\ Expected \in [Records -> Content]
  /\ Nothing \notin {Escape, "HASH_MISMATCH"}

VARIABLES
  reading,      \* which of the four reads is under way
  file,         \* the inode the entry named before it was opened
  showing,      \* history: whether each place shows what it should, or did
  together      \* history: both places showed what they should, at once

auditVars == <<treeVars, readerVars, reading, file, showing, together>>

\* Mutant: each record is read back once.
Reads_Once == <<Manifest, Final>>

(* The order of the reads. *)
Reads == <<Manifest, Final, Manifest, Final>>

Target == Reads[reading]
Leaf == Len(Target)                       \* held[Leaf] holds the entry
Deepest == held[Len(held)]
FileEntry == Named(held[Leaf], Target[Leaf])
Want == Expected[Target]

(* Below the root, the place p shows exactly its expected bytes.           *)
FullPath(p) == <<RootName>> \o p
Shows(p) == Leads(FullPath(p)) \in File
              /\ content[Leads(FullPath(p))] = Expected[p]

(* What is known of a place once it does, or does not, show its bytes.     *)
Later(was, now) ==
  CASE was = "again" -> "again"
    [] was # "again" /\ now -> IF was = "gone" THEN "again" ELSE "now"
    [] was # "again" /\ ~now -> IF was = "now" THEN "gone" ELSE was

AuditInit ==
  /\ TreeInit
  /\ ReaderInit
  /\ reading = 1
  /\ file = Nothing
  /\ showing = [p \in Records |-> IF Shows(p) THEN "now" ELSE "never"]
  /\ together = \A p \in Records : Shows(p)

(* _open_directory: the next directory of the path, whose entry must still *)
(* name what was opened.                                                   *)
EnterDirectory ==
  /\ pc = "open" /\ Len(held) < Leaf
  /\ LET e == Named(Deepest, Target[Len(held)])
     IN  IF e \in Folder THEN held' = Append(held, e) /\ Goto("verify")
                         ELSE UNCHANGED held /\ Fail(Escape)
  /\ UNCHANGED <<reading, root, file, before, after, buffer, checked>>

VerifyDirectory ==
  /\ pc = "verify"
  /\ FailUnless(Named(held[Len(held) - 1], Target[Len(held) - 1]) = Deepest,
                "open", Escape)
  /\ UNCHANGED <<reading, root, held, file, before, after, buffer, checked>>

(* The entry is inspected before it is opened: only a regular file is.     *)
Inspect ==
  /\ pc = "open" /\ Len(held) = Leaf
  /\ IF FileEntry \in File THEN file' = FileEntry /\ Goto("openFile")
                           ELSE UNCHANGED file /\ Fail(Escape)
  /\ UNCHANGED <<reading, root, held, before, after, buffer, checked>>

(* What is opened must be what was inspected, and of the expected size.    *)
OpenInspected ==
  /\ pc = "openFile"
  /\ before' = IF FileEntry \in File THEN State(FileEntry) ELSE Nothing
  /\ IF FileEntry = file
       THEN FailUnless(Size(file) = Len(Want), "read", "HASH_MISMATCH")
       ELSE Fail(Escape)
  /\ UNCHANGED <<reading, root, held, file, after, buffer, checked>>

(* Read on until end of file or one block more than expected.              *)
ReadOn ==
  /\ pc = "read"
  /\ Len(buffer) < Size(file) /\ Len(buffer) <= Len(Want)
  /\ buffer' = Append(buffer, content[file][Len(buffer) + 1])
  /\ UNCHANGED <<pc, code, reading, root, held, file, before, after, checked>>

StopReading ==
  /\ pc = "read"
  /\ Len(buffer) >= Size(file) \/ Len(buffer) > Len(Want)
  /\ after' = State(file)
  /\ checked' = 1
  /\ Goto("recheck")
  /\ UNCHANGED <<reading, root, held, file, before, buffer>>

(* _requalify_open_directory_entry, from the root down. *)
RecheckDirectory ==
  /\ pc = "recheck" /\ checked < Leaf
  /\ checked' = checked + 1
  /\ FailUnless(Named(held[checked], Target[checked]) = held[checked + 1],
                "recheck", Escape)
  /\ UNCHANGED <<reading, root, held, file, before, after, buffer>>

(* The entry must still name the file that was read. *)
RecheckFile ==
  /\ pc = "recheck" /\ checked = Leaf
  /\ FailUnless(FileEntry = file, "compare", Escape)
  /\ UNCHANGED <<reading, root, held, file, before, after, buffer, checked>>

(* The file must not have changed while it was read, and must hold exactly *)
(* the expected bytes; then the next read starts again from the root.      *)
CompareBytes ==
  /\ pc = "compare"
  /\ IF before = after /\ buffer = Want
       THEN IF reading < Len(Reads)
              THEN /\ reading' = reading + 1
                   /\ held' = <<held[1]>>
                   /\ file' = Nothing /\ before' = Nothing /\ after' = Nothing
                   /\ buffer' = << >> /\ checked' = 0
                   /\ Goto("open")
              ELSE /\ Goto("requalify")
                   /\ UNCHANGED <<reading, held, file, before, after, buffer,
                                  checked>>
       ELSE /\ Fail("HASH_MISMATCH")
            /\ UNCHANGED <<reading, held, file, before, after, buffer, checked>>
  /\ UNCHANGED root

AuditStep ==
  \/ (Validate \/ OpenRoot \/ RequalifyRoot) /\ UNCHANGED <<reading, file>>
  \/ EnterDirectory \/ VerifyDirectory \/ Inspect \/ OpenInspected \/ ReadOn
  \/ StopReading \/ RecheckDirectory \/ RecheckFile \/ CompareBytes

AuditNext ==
  /\ pc \notin {"done", "failed"}
  /\ \/ AuditStep /\ UNCHANGED treeVars
     \/ Change /\ UNCHANGED <<readerVars, reading, file>>
  /\ showing' = [p \in Records |-> Later(showing[p], Shows(p)')]
  /\ together' = (together \/ \A p \in Records : Shows(p)')

AuditSpec == AuditInit /\ [][AuditNext]_auditVars
-----------------------------------------------------------------------------
(* Every variable keeps to the values the code can give it. *)
AuditTypeOK ==
  /\ TreeTypeOK
  /\ pc \in {"validate", "openRoot", "open", "verify", "openFile", "read",
            "recheck", "compare", "requalify", "done", "failed"}
  /\ reading \in 1..4
  /\ held \in Seq(Folder) /\ Len(held) <= Leaf
  /\ file \in File \cup {Nothing}
  /\ buffer \in Seq(Block) /\ Len(buffer) <= Len(Want) + 1
  /\ checked \in 0..Leaf
  /\ code \in {Escape, "HASH_MISMATCH", Nothing}
  /\ (code # Nothing) <=> (pc = "failed")
  /\ showing \in [Records -> {"never", "now", "gone", "again"}]
  /\ together \in BOOLEAN

(* A passed audit means that at one moment of the call both places showed  *)
(* exactly the expected bytes: what is read in turns, twice, held at once. *)
(* Neither inode numbers nor bytes can show that a name went away and came *)
(* back, or that a record did, as the same file or as another, so this is  *)
(* said of the calls during which nothing did.                             *)
BothAtOnce ==
  pc = "done" /\ ~returned /\ (\A p \in Records : showing[p] # "again")
    => together

(* An audit of a tree that shows both records is refused only if an entry  *)
(* on their paths or one of the files was changed, or the root was touched *)
(* before it was opened: publishing more evidence beside them does no      *)
(* harm.                                                                   *)
NoFalseAlarm ==
  pc = "failed" /\ (\A p \in Records : Shows(p)) =>
    \/ \E p \in Records :
         \/ \E x \in pastBytes : x[1] = Leads(FullPath(p))
         \/ \E x \in pastNames, k \in 1..Len(p) + 1 :
              x[1] = OnPath(FullPath(p), k)
    \/ held = << >> /\ stamp[RootEntry] > 0
=============================================================================
