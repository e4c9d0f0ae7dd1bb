--------------------------- MODULE DependencyPin ---------------------------
(***************************************************************************)
(* The frozen MR-04 dependency (src/src/hai_mr05/dependency_runtime.py).   *)
(* invoke_mr03 and invoke_mr04 pin its root by a descriptor, verify every  *)
(* file below it, load its modules through the descriptor, run them, and   *)
(* ask whether the canonical path still names the root.  Meanwhile others  *)
(* exchange the directory at that path, edit files in place, or add files  *)
(* and take them away, and the interpreter may leave byte code there.      *)
(*                                                                         *)
(* One process makes one invocation after another, as the controller does. *)
(* A tree is a directory that may be found at the canonical path; whatever *)
(* else may be there (nothing, a link, a file) is Nothing.  An entry that  *)
(* is added to a tree matters in two ways: the listing of the folder it is *)
(* in reports it, unless it is a link to a directory, which os.walk names  *)
(* in no list of files; and an import may find it in place of a frozen     *)
(* module (a package directory or an extension module comes before the     *)
(* source, and cached byte code stands for it).                            *)
(***************************************************************************)
EXTENDS Naturals, Sequences, SequencesExt

CONSTANTS
  Tree,            \* directories that may be at the canonical path
  Module,          \* the modules of hai_mr04
  Folder,          \* the directories of a tree that a walk lists
  Added,           \* entries that may be added to a tree
  FolderOf,        \* the folder that reports a file, Nothing if none does
  Displaces,       \* the modules an import finds an added entry in place of
  Bytecode,        \* the added entry that is the interpreter's byte code
  Callables,       \* for each kind of invocation, the modules it loads
  InitFiles,       \* the contents the trees may have at first
  InitLoaded,      \* what sys.modules may hold at first
  MaxChanges,      \* bound: changes others make
  MaxInvocations,  \* bound: invocations the process makes
  Good, Bad,       \* the content of a file: as frozen, or different
  Nothing

Kind == {"mr03", "mr04"}
Version == {Good, Bad}
Code == Version \cup Added            \* what an import may run
Files == [Module -> Version]
Loaded == [Module -> (Tree \X Code) \cup {Nothing}]

ASSUME DependencyAssumption ==
  /\ Callables \in [Kind -> Seq(Module)]
  /\ \A k \in Kind : Callables[k] # << >>
  /\ FolderOf \in [Module \cup Added -> Folder \cup {Nothing}]
  /\ Displaces \in [Added -> SUBSET Module]
  /\ Bytecode \in Added /\ FolderOf[Bytecode] \in Folder
  /\ Displaces[Bytecode] = {}
  /\ InitFiles \subseteq [Tree -> Files]
  /\ InitLoaded \subseteq Loaded
  /\ MaxChanges \in Nat /\ MaxInvocations \in Nat
  /\ Nothing \notin Tree \cup Folder \cup (Tree \X Code)

VARIABLES
  pathAt,    \* the tree the canonical path names
  files,     \* the content of the files of each tree
  strays,    \* entries in the trees that are not in the frozen path set
  writes,    \* whether the interpreter writes byte code: nothing here says
  changes,   \* changes others have made
  modules,   \* sys.modules: where each module was loaded from, and its code
  pc,        \* the next step of the invocation
  kind,      \* its kind
  pinned,    \* the tree its descriptor is open on
  listed,    \* the folders verification has listed
  walked,    \* the files verification has read
  imported,  \* how many of its modules it has loaded
  ran,       \* the modules whose code it has run, with what was loaded
  made,      \* invocations begun so far
  edited,    \* history: files edited since verification read them
  late,      \* history: entries added since verification listed their folder
  disturbed  \* history: whether anything was changed since it began

envVars == <<pathAt, files, changes, writes>>
callVars == <<kind, pinned, listed, walked, imported, ran, made>>
historyVars == <<edited, late, disturbed>>
vars == <<envVars, strays, modules, pc, callVars, historyVars>>

Init ==
  /\ pathAt \in Tree \cup {Nothing}
  /\ files \in InitFiles
  /\ strays = {}
  /\ changes = 0
  /\ writes \in BOOLEAN
  /\ modules \in InitLoaded
  /\ pc = "idle" /\ kind = "mr03"
  /\ pinned = Nothing /\ listed = {} /\ walked = {} /\ imported = 0
  /\ ran = {} /\ made = 0
  /\ edited = {} /\ late = {} /\ disturbed = FALSE

Goto(l) == pc' = l
Check(ok, l) == pc' = IF ok THEN l ELSE "unwind"
Idle == pc \in {"idle", "done", "failed"}

(* The controller goes from one invocation to the next.                    *)
Invoke(k) ==
  /\ Idle /\ made < MaxInvocations
  /\ made' = made + 1
  /\ kind' = k
  /\ listed' = {} /\ walked' = {} /\ imported' = 0 /\ ran' = {}
  /\ edited' = {} /\ late' = {} /\ disturbed' = FALSE
  /\ Goto(IF k = "mr03" THEN "mr03" ELSE "pin")
  /\ UNCHANGED <<envVars, strays, modules, pinned>>

(* build_mr03_invocation: the MR-03 worktree is where it should be, at the *)
(* frozen commit, or it is not.  It is not part of this model, and an      *)
(* invocation it fails has opened nothing yet.                             *)
VerifyMr03 ==
  /\ pc = "mr03"
  /\ \/ Goto("pin") /\ UNCHANGED disturbed
     \/ Goto("failed") /\ disturbed' = TRUE
  /\ UNCHANGED <<envVars, strays, modules, callVars, edited, late>>

OpenRoot ==
  /\ pc = "pin"
  /\ IF pathAt # Nothing THEN pinned' = pathAt /\ Goto("pinned")
                         ELSE UNCHANGED pinned /\ Goto("failed")
  /\ UNCHANGED <<envVars, strays, modules, kind, listed, walked, imported, ran, made,
                 historyVars>>

\* Mutant: the descriptor stays open when the check fails.
CheckRoot_Leak ==
  /\ pc = "pinned"
  /\ Goto(IF pathAt = pinned THEN "verify" ELSE "failed")
  /\ UNCHANGED <<envVars, strays, modules, callVars, historyVars>>

(* What was opened must still be at the path, or the descriptor is closed. *)
CheckRoot ==
  /\ pc = "pinned"
  /\ IF pathAt = pinned THEN UNCHANGED pinned /\ Goto("verify")
                        ELSE pinned' = Nothing /\ Goto("failed")
  /\ UNCHANGED <<envVars, strays, modules, kind, listed, walked, imported, ran, made,
                 historyVars>>

(* Verification lists a folder: an entry that is reported and should not   *)
(* be there makes the path set another one.                                *)
ListFolder(f) ==
  /\ pc = "verify" /\ f \notin listed
  /\ listed' = listed \cup {f}
  /\ Check(\A a \in Added : FolderOf[a] = f => <<pinned, a>> \notin strays, "verify")
  /\ UNCHANGED <<envVars, strays, modules, kind, pinned, walked, imported, ran, made,
                 historyVars>>

(* It reads the files of the folders it has listed, through the descriptor *)
(* and one by one.  The commit and tree git reports there count as one     *)
(* more file, which is in no folder.                                       *)
ReadFile(m) ==
  /\ pc = "verify" /\ m \notin walked
  /\ FolderOf[m] \in listed \cup {Nothing}
  /\ walked' = walked \cup {m}
  /\ Check(files[pinned][m] = Good, "verify")
  /\ UNCHANGED <<envVars, strays, modules, kind, pinned, listed, imported, ran, made,
                 historyVars>>

(* The path set and the contents are the frozen ones, as each folder was   *)
(* when it was listed and each file when it was read.                      *)
Verified ==
  /\ pc = "verify" /\ listed = Folder /\ walked = Module
  /\ Goto("purge")
  /\ UNCHANGED <<envVars, strays, modules, callVars, historyVars>>

Unloaded == [m \in Module |-> Nothing]

\* Mutant: modules that are already there are used again.
Purge_Skipped ==
  /\ pc = "purge"
  /\ Goto("load")
  /\ UNCHANGED <<envVars, strays, modules, callVars, historyVars>>

(* _purge_mr04_modules. *)
Purge ==
  /\ pc = "purge"
  /\ modules' = Unloaded
  /\ Goto("load")
  /\ UNCHANGED <<envVars, strays, callVars, historyVars>>

Following == Callables[kind][imported + 1]    \* the next module to import

(* What an import of m may run: the frozen file, or an entry beside it     *)
(* that the interpreter finds first.                                       *)
Loadable(m) ==
  {files[pinned][m]} \cup {a \in Added : <<pinned, a>> \in strays /\ m \in Displaces[a]}

(* Importing m finds it in sys.modules or loads it through the descriptor, *)
(* and running the module's code is part of loading it.                    *)
Import(m) ==
  /\ \E code \in Loadable(m) :
       modules' = IF modules[m] # Nothing THEN modules
                  ELSE [modules EXCEPT ![m] = <<pinned, code>>]
  /\ ran' = ran \cup {<<m, modules'[m]>>}

(* The module is from below the root, or the invocation ends.  Code that   *)
(* is not the frozen code may itself raise, or lie outside the root at the *)
(* end of a link, which is found when it has run.                          *)
LoadEnds(loaded, next) ==
  \/ loaded[1] = pinned /\ Goto(next)
  \/ (loaded[1] # pinned \/ loaded[2] # Good) /\ Goto("unwind")

LoadStep(leaves) ==
  /\ pc = "load" /\ imported < Len(Callables[kind])
  /\ Import(Following)
  /\ strays' \in {strays} \cup IF leaves THEN {strays \cup {<<pinned, Bytecode>>}} ELSE {}
  /\ imported' = imported + 1
  /\ LoadEnds(modules'[Following],
              IF imported' = Len(Callables[kind]) THEN "run" ELSE "load")
  /\ UNCHANGED <<envVars, kind, pinned, listed, walked, made, historyVars>>

\* Mutant: byte code is left beside the modules whatever the interpreter does.
Load_Bytecode == LoadStep(TRUE)

(* _load_mr04_module: import the next module.  The interpreter leaves its  *)
(* byte code in the tree if it writes any and may: no line of the package  *)
(* tells it not to.                                                        *)
Load == LoadStep(writes)

(* The callables run: what they do is not modelled, nor how they fail.     *)
Run ==
  /\ pc = "run"
  /\ \/ Goto("requalify") /\ UNCHANGED disturbed
     \/ Goto("unwind") /\ disturbed' = TRUE
  /\ UNCHANGED <<envVars, strays, modules, callVars, edited, late>>

\* Mutant: the path only has to lead to some directory.
Requalify_AnyRoot ==
  /\ pc = "requalify"
  /\ Check(pathAt # Nothing, "return")
  /\ UNCHANGED <<envVars, strays, modules, callVars, historyVars>>

(* _requalify_mr04_root. *)
Requalify ==
  /\ pc = "requalify"
  /\ Check(pathAt = pinned, "return")
  /\ UNCHANGED <<envVars, strays, modules, callVars, historyVars>>

(* The finally clause, on return and on failure. *)
Finally ==
  /\ pc \in {"return", "unwind"}
  /\ modules' = Unloaded
  /\ pinned' = Nothing
  /\ Goto(IF pc = "return" THEN "done" ELSE "failed")
  /\ UNCHANGED <<envVars, strays, kind, listed, walked, imported, ran, made, historyVars>>

(* Someone exchanges the directory at the canonical path.                  *)
Exchange ==
  /\ changes < MaxChanges
  /\ changes' = changes + 1
  /\ pathAt' \in (Tree \cup {Nothing}) \ {pathAt}
  /\ disturbed' = TRUE
  /\ UNCHANGED <<files, writes, strays, modules, pc, callVars, edited, late>>

(* Someone edits a file in place.                                          *)
Edit(t, m) ==
  /\ changes < MaxChanges
  /\ changes' = changes + 1
  /\ files' = [files EXCEPT ![t][m] = IF @ = Good THEN Bad ELSE Good]
  /\ edited' = IF t = pinned /\ m \in walked THEN edited \cup {m} ELSE edited
  /\ disturbed' = TRUE
  /\ UNCHANGED <<pathAt, writes, strays, modules, pc, callVars, late>>

(* Someone adds an entry to a tree.                                        *)
Add(t, a) ==
  /\ changes < MaxChanges
  /\ changes' = changes + 1
  /\ a # Bytecode /\ <<t, a>> \notin strays
  /\ strays' = strays \cup {<<t, a>>}
  /\ late' = IF t = pinned /\ FolderOf[a] \in listed THEN late \cup {a} ELSE late
  /\ disturbed' = TRUE
  /\ UNCHANGED <<pathAt, files, writes, modules, pc, callVars, edited>>

(* Someone takes away an entry that was added, or the byte code.           *)
TakeAway(t, a) ==
  /\ changes < MaxChanges
  /\ changes' = changes + 1
  /\ <<t, a>> \in strays
  /\ strays' = strays \ {<<t, a>>}
  /\ disturbed' = TRUE
  /\ UNCHANGED <<pathAt, files, writes, modules, pc, callVars, edited, late>>

Next ==
  \/ \E k \in Kind : Invoke(k)
  \/ VerifyMr03 \/ OpenRoot \/ CheckRoot \/ Verified \/ Purge \/ Load \/ Run
  \/ Requalify \/ Finally \/ Exchange
  \/ \E f \in Folder : ListFolder(f)
  \/ \E m \in Module : ReadFile(m) \/ \E t \in Tree : Edit(t, m)
  \/ \E t \in Tree, a \in Added : Add(t, a) \/ TakeAway(t, a)

Spec == Init /\ [][Next]_vars
-----------------------------------------------------------------------------
(* Every variable keeps to the values the code can give it, and the root's *)
(* descriptor is open exactly while an invocation needs it: however it     *)
(* ends, none is left open.                                                *)
TypeOK ==
  /\ pathAt \in Tree \cup {Nothing}
  /\ files \in [Tree -> Files]
  /\ strays \subseteq Tree \X Added
  /\ changes \in 0..MaxChanges
  /\ writes \in BOOLEAN
  /\ modules \in Loaded
  /\ pc \in {"idle", "mr03", "pin", "pinned", "verify", "purge", "load", "run",
            "requalify", "return", "unwind", "done", "failed"}
  /\ kind \in Kind
  /\ pinned \in Tree \cup {Nothing}
  /\ (pinned = Nothing) <=> (Idle \/ pc \in {"mr03", "pin"})
  /\ listed \subseteq Folder /\ walked \subseteq Module
  /\ imported \in 0..Len(Callables[kind])
  /\ ran \subseteq Module \X (Tree \X Code)
  /\ made \in 0..MaxInvocations
  /\ edited \subseteq Module /\ late \subseteq Added
  /\ disturbed \in BOOLEAN

(* What an import of m may have run: the frozen code; a file edited since  *)
(* it was read; an entry found in its place that was added since its       *)
(* folder was listed, or that no listing reports.                          *)
Accounted(m, code) ==
  \/ code = Good
  \/ code = Bad /\ m \in edited
  \/ /\ code \in Added /\ m \in Displaces[code]
     /\ code \in late \/ FolderOf[code] = Nothing

(* The code that runs is from the tree whose verification this invocation  *)
(* has just completed, and is the frozen code, whatever was loaded in the  *)
(* process before and whatever is moved to the canonical path meanwhile.   *)
(* The descriptor pins the directory and not what is in it, so there are   *)
(* exactly three ways around: a file edited after it was read, an entry    *)
(* added after its folder was listed that an import finds in place of a    *)
(* module, and a link to a directory that does so, which verification      *)
(* never reports whenever it was added.                                    *)
RunsWhatWasVerified ==
  \A x \in ran : /\ pinned # Nothing => x[2][1] = pinned
                 /\ Accounted(x[1], x[2][2])

(* An invocation returns only if the canonical path names, at the last     *)
(* moment it looks, the tree whose code has run: replacing the path fails  *)
(* closed.                                                                 *)
ReplacementFailsClosed ==
  [][pc' = "return" /\ pc # "return" => \A x \in ran : x[2][1] = pathAt]_vars

(* What makes verification or an import fail in a tree that stays as it    *)
(* is.  Byte code is there only if the interpreter writes it and an        *)
(* invocation before this one has left it: an invocation is not defeated   *)
(* by its own.                                                             *)
Flawed(t) ==
  \/ \E m \in Module : files[t][m] = Bad
  \/ \E a \in Added \ {Bytecode} : <<t, a>> \in strays
  \/ writes /\ made > 1 /\ <<t, Bytecode>> \in strays

(* A frozen tree at the canonical path that nobody touches meanwhile is    *)
(* accepted: the first time always, and afterwards unless an earlier       *)
(* invocation's imports have left byte code in it, which takes an          *)
(* interpreter that writes byte code.  In an ordinary process they do, and *)
(* every later invocation is refused.                                      *)
QuietInvocationSucceeds ==
  pc = "failed" /\ ~disturbed => pathAt = Nothing \/ Flawed(pathAt)
-----------------------------------------------------------------------------
(* What makes the properties inductive. *)

BeforeLoad == {"mr03", "pin", "pinned", "verify", "purge"}

(* What verification has read or listed is as frozen but for what was      *)
(* edited or added since, or goes unreported.                              *)
WalkedIsGood ==
  /\ pc \in {"mr03", "pin", "pinned"} => walked = {} /\ listed = {}
  /\ pc \in {"verify", "purge", "load", "run"} =>
       /\ \A m \in walked : files[pinned][m] = Good \/ m \in edited
       /\ \A a \in Added \ {Bytecode} :
            <<pinned, a>> \in strays /\ FolderOf[a] \in listed => a \in late

(* From the purge on everything has been read, and what is loaded came     *)
(* from the pinned tree after that.                                        *)
LoadedIsGood ==
  /\ pc \in {"purge", "load", "run"} => walked = Module /\ listed = Folder
  /\ pc = "load" =>
       \A m \in Module : modules[m] # Nothing =>
         modules[m][1] = pinned /\ Accounted(m, modules[m][2])
  /\ pc \in BeforeLoad => imported = 0 /\ ran = {}

(* While nobody interferes, the pinned tree is the one at the path, and    *)
(* only a tree that is not as frozen is given up.  Byte code is from       *)
(* imports this process has made.                                          *)
QuietIsPinned ==
  /\ pc # "idle" => made >= 1
  /\ \A t \in Tree : <<t, Bytecode>> \in strays =>
       /\ writes /\ made >= 1
       /\ pc \in BeforeLoad => made > 1
  /\ ~disturbed =>
       /\ pinned # Nothing => pathAt = pinned
       /\ pc = "unwind" => Flawed(pinned)
       /\ pc = "load" =>
            \A m \in Module : modules[m] # Nothing =>
              modules[m][2] = Good \/ Flawed(pinned)

IInv ==
  /\ TypeOK /\ WalkedIsGood /\ LoadedIsGood /\ QuietIsPinned
  /\ RunsWhatWasVerified /\ QuietInvocationSucceeds
=============================================================================
