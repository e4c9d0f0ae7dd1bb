----------------------------- MODULE TreeReader ----------------------------
(***************************************************************************)
(* What capture_source (src/src/hai_mr05/source_acquisition.py) and        *)
(* audit_persisted_final_evidence_records (src/src/hai_mr05/evidence.py)   *)
(* have in common, each with its own copy of the code: the approved root   *)
(* is validated, opened once and requalified at the end, while other       *)
(* programs change the tree.  Each action of a reader is one system call,  *)
(* or two of which only one sees the tree others can change.               *)
(***************************************************************************)
EXTENDS FileTree

CONSTANT
  RootName      \* the name of the approved root, in Outside

ASSUME RootAssumption == RootName \in STRING

VARIABLES
  pc,           \* the next step of the call
  held,         \* the inodes opened so far, root first
  root,         \* the state of the root when it was validated
  before,       \* the state of the file when it was opened
  after,        \* its state when it had been read
  buffer,       \* the blocks read so far
  checked,      \* the components requalified since the last read
  code          \* the failure code of a refused call

readerVars == <<pc, held, root, before, after, buffer, checked, code>>

RootEntry == Named(Outside, RootName)

ReaderInit ==
  /\ pc = "validate"
  /\ held = << >>
  /\ root = Nothing
  /\ before = Nothing
  /\ after = Nothing
  /\ buffer = << >>
  /\ checked = 0
  /\ code = Nothing

Goto(l) == pc' = l /\ UNCHANGED code
Fail(c) == pc' = "failed" /\ code' = c
FailUnless(ok, l, c) == IF ok THEN Goto(l) ELSE Fail(c)
Escape == "SOURCE_PATH_ESCAPE"

(* _validated_root: lstat of the root; realpath only adds refusals.        *)
Validate ==
  /\ pc = "validate"
  /\ root' = IF RootEntry \in Folder THEN State(RootEntry) ELSE Nothing
  /\ FailUnless(RootEntry \in Folder, "openRoot", Escape)
  /\ UNCHANGED <<held, before, after, buffer, checked>>

(* The root is opened and must be exactly as it was validated.             *)
OpenRoot ==
  /\ pc = "openRoot"
  /\ IF RootEntry \in Folder /\ State(RootEntry) = root
       THEN held' = <<RootEntry>> /\ Goto("open")
       ELSE UNCHANGED held /\ Fail(Escape)
  /\ UNCHANGED <<root, before, after, buffer, checked>>

\* Mutant: only the open descriptor is compared, not what the path names.
RequalifyRoot_Descriptor ==
  /\ pc = "requalify"
  /\ FailUnless(held[1] = root[1], "done", Escape)
  /\ UNCHANGED <<held, root, before, after, buffer, checked>>

\* Mutant: the times of the root must not have changed either.
RequalifyRoot_Times ==
  /\ pc = "requalify"
  /\ FailUnless(RootEntry \in Folder /\ State(RootEntry) = root, "done", Escape)
  /\ UNCHANGED <<held, root, before, after, buffer, checked>>

(* The approved path must still name the very directory that was opened;   *)
(* its times may have changed.                                             *)
RequalifyRoot ==
  /\ pc = "requalify"
  /\ FailUnless(RootEntry = root[1], "done", Escape)
  /\ UNCHANGED <<held, root, before, after, buffer, checked>>
=============================================================================
