--------------------------- MODULE SourceCapture ---------------------------
(***************************************************************************)
(* capture_source (src/src/hai_mr05/source_acquisition.py): one regular    *)
(* file under the approved root is read through descriptors opened         *)
(* component by component, while other programs change the tree.           *)
(***************************************************************************)
EXTENDS TreeReader

CONSTANT
  RelativePath  \* the names of directories and file below the root

Codes == {Escape, "MR05_MISSING_SOURCE", "UNSUPPORTED_INPUT", "HASH_MISMATCH"}

ASSUME PathAssumption ==
  /\ RelativePath \in Seq(STRING) \ {<< >>}
  /\ Nothing \notin Codes

VARIABLE
  offered       \* history: the contents the path led to during the call

captureVars == <<treeVars, readerVars, offered>>

Path == <<RootName>> \o RelativePath
Last == Len(Path)
Depth == Len(held)
Parent(k) == IF k = 1 THEN Outside ELSE held[k - 1]
Entry(k) == Named(Parent(k), Path[k])  \* what component k names there now

Offer(e, c) == IF e \in File THEN {c[e]} ELSE {}

CaptureInit ==
  /\ TreeInit
  /\ ReaderInit
  /\ offered = Offer(Leads(Path), content)

Missing(e) == IF e = Nothing THEN "MR05_MISSING_SOURCE" ELSE Escape

(* Open the next directory; O_NOFOLLOW refuses links, O_DIRECTORY files.   *)
OpenDirectory ==
  /\ pc = "open" /\ Depth < Last - 1
  /\ LET e == Entry(Depth + 1)
     IN  IF e \in Folder
           THEN held' = Append(held, e) /\ Goto("verify")
           ELSE UNCHANGED held /\ Fail(Missing(e))
  /\ UNCHANGED <<root, before, after, buffer, checked>>

(* Open the file and fstat it.  A directory opens, but is not regular.     *)
OpenFile ==
  /\ pc = "open" /\ Depth = Last - 1
  /\ LET e == Entry(Last)
     IN  CASE e \in File -> /\ held' = Append(held, e)
                            /\ before' = State(e)
                            /\ Goto("verify")
           [] e \in Folder -> /\ UNCHANGED <<held, before>>
                              /\ Fail("UNSUPPORTED_INPUT")
           [] OTHER -> UNCHANGED <<held, before>> /\ Fail(Missing(e))
  /\ UNCHANGED <<root, after, buffer, checked>>

(* The entry just opened must still name what was opened.                  *)
Verify ==
  /\ pc = "verify"
  /\ IF Entry(Depth) = held[Depth]
       THEN Goto(IF Depth = Last THEN "read" ELSE "open")
       ELSE Fail(Escape)
  /\ UNCHANGED <<held, root, before, after, buffer, checked>>

(* Read the next block, until there is none.                               *)
Read ==
  /\ pc = "read"
  /\ Len(buffer) < Len(content[held[Last]])
  /\ buffer' = Append(buffer, content[held[Last]][Len(buffer) + 1])
  /\ UNCHANGED <<pc, code, held, root, before, after, checked>>

(* End of file, and the second fstat.                                      *)
Finish ==
  /\ pc = "read"
  /\ Len(buffer) >= Size(held[Last])
  /\ after' = State(held[Last])
  /\ checked' = 1
  /\ Goto("recheck")
  /\ UNCHANGED <<held, root, before, buffer>>

(* The directories below the root, then the file: each entry must still    *)
(* name what was opened.                                                   *)
Recheck ==
  /\ pc = "recheck" /\ checked < Last
  /\ IF Entry(checked + 1) = held[checked + 1]
       THEN checked' = checked + 1 /\ UNCHANGED <<pc, code>>
       ELSE UNCHANGED checked /\ Fail(Escape)
  /\ UNCHANGED <<held, root, before, after, buffer>>

(* The file must not have changed since it was opened, and all of it must  *)
(* have been read.                                                         *)
Compare ==
  /\ pc = "recheck" /\ checked = Last
  /\ IF before = after /\ Len(buffer) = after[3]
       THEN Goto("requalify") ELSE Fail("HASH_MISMATCH")
  /\ UNCHANGED <<held, root, before, after, buffer, checked>>

CaptureStep ==
  \/ Validate \/ OpenRoot \/ OpenDirectory \/ OpenFile \/ Verify \/ Read
  \/ Finish \/ Recheck \/ Compare \/ RequalifyRoot

CaptureNext ==
  /\ pc \notin {"done", "failed"}
  /\ \/ CaptureStep /\ UNCHANGED treeVars
     \/ Change /\ UNCHANGED readerVars
  /\ offered' = offered \cup Offer(Leads(Path)', content')

CaptureSpec == CaptureInit /\ [][CaptureNext]_captureVars
-----------------------------------------------------------------------------
(* Every variable keeps to the values the code can give it. *)
CaptureTypeOK ==
  /\ TreeTypeOK
  /\ pc \in {"validate", "openRoot", "open", "verify", "read", "recheck",
            "requalify", "done", "failed"}
  /\ held \in Seq(Inode) /\ Len(held) <= Last
  /\ \A k \in 1..Len(held) : held[k] \in IF k = Last THEN File ELSE Folder
  /\ buffer \in Seq(Block)
  /\ checked \in 0..Last
  /\ code \in Codes \cup {Nothing}
  /\ (code # Nothing) <=> (pc = "failed")
  /\ offered \subseteq Content

(* What capture_source returns was, at one moment of the call, what the    *)
(* whole path led to: no mixture of two versions, and nothing from a       *)
(* directory that had been renamed away.  Inode numbers cannot show that   *)
(* a name went away and came back, so this is said of the calls during     *)
(* which nothing did.                                                      *)
CapturedWasThere == pc = "done" /\ ~returned => buffer \in offered

(* Whatever comes and goes, a capture that is about to be accepted holds   *)
(* the bytes its file has at the second fstat, all written before it was   *)
(* opened: every change of the file while it is read shows in its state.   *)
CaptureIsWhole ==
  [][pc = "read" /\ pc' = "recheck" /\ after' = before
       => buffer = content[held[Last]]]_captureVars

(* A call on a path that leads to a regular file is refused only if an     *)
(* entry of the path or the file was changed, or the root was touched      *)
(* before it was opened.  Work elsewhere in the tree, new files in the     *)
(* root included, does not disturb it.                                     *)
NoFalseRefusal ==
  pc = "failed" /\ Leads(Path) \in File =>
    \/ \E x \in pastBytes : x[1] = Leads(Path)
    \/ \E x \in pastNames, k \in 1..Last : x[1] = OnPath(Path, k)
    \/ held = << >> /\ stamp[RootEntry] > 0
=============================================================================
