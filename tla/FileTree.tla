------------------------------ MODULE FileTree -----------------------------
(***************************************************************************)
(* A directory tree that other programs change while hai_mr05 reads it:    *)
(* the environment of SourceCapture and ReadbackAudit.  A slot is a name   *)
(* in a directory; what it names may be exchanged (rename, unlink, link,   *)
(* mkdir) and the bytes of a file may be rewritten, at any moment.         *)
(*                                                                         *)
(* Every change gives the inodes it touches a state tuple they never had   *)
(* before.  This is finer than the clock of some file systems, where two   *)
(* changes in one tick leave the same times.                               *)
(***************************************************************************)
EXTENDS Naturals, Sequences

CONSTANTS
  Folder, File, Link,  \* inodes: directories, regular files, symbolic links
  Outside,             \* the directory the approved root's name is in
  Fits,                \* for each slot, the inodes that may be put there
  Block,               \* what one read(2) returns
  MaxBlocks,           \* bound: the length of a file
  MaxChanges,          \* bound: the changes other programs make
  InitEntries,         \* what the slots may name at first
  InitContents,        \* what the files may hold at first
  Nothing

Inode == Folder \cup File \cup Link
Slot == DOMAIN Fits
Content == UNION {[1..n -> Block] : n \in 0..MaxBlocks}

ASSUME TreeAssumption ==
  /\ Slot \subseteq (Folder \cup {Outside}) \X STRING
  /\ \A s \in Slot : Fits[s] \subseteq Inode
  /\ Folder \cap File = {} /\ Folder \cap Link = {} /\ File \cap Link = {}
  /\ Outside \notin Inode
  /\ Nothing \notin Inode \cup {Outside}
  /\ InitEntries \subseteq [Slot -> Inode \cup {Nothing}]
  /\ \A e \in InitEntries : \A s, t \in Slot :
       e[s] = e[t] /\ e[s] # Nothing => s = t  \* an inode has one name
  /\ InitContents \subseteq [File -> Content]
  /\ MaxChanges \in Nat

VARIABLES
  entry,     \* the inode each slot names
  content,   \* the blocks of each file
  stamp,     \* the change each inode was last touched by
  changes,   \* the changes made so far
  pastNames, \* what slots have named and then no longer did
  pastBytes, \* what files have held and then no longer did
  returned   \* whether one of those has come back

treeVars == <<entry, content, stamp, changes, pastNames, pastBytes,
              returned>>

TreeTypeOK ==
  /\ entry \in [Slot -> Inode \cup {Nothing}]
  /\ content \in [File -> Content]
  /\ stamp \in [Inode -> 0..MaxChanges]
  /\ changes \in 0..MaxChanges
  /\ pastNames \subseteq Slot \X (Inode \cup {Nothing})
  /\ pastBytes \subseteq File \X Content
  /\ returned \in BOOLEAN

TreeInit ==
  /\ entry \in InitEntries
  /\ content \in InitContents
  /\ stamp = [i \in Inode |-> 0]
  /\ changes = 0
  /\ pastNames = {}
  /\ pastBytes = {}
  /\ returned = FALSE

Named(d, n) == IF <<d, n>> \in Slot THEN entry[<<d, n>>] ELSE Nothing

(* Where a path, a sequence of names from Outside, leads.  Symbolic links  *)
(* lead nowhere of interest: no reader here follows one.                   *)
Leads(path) ==
  LET at[k \in 0..Len(path)] ==
        IF k = 0 THEN Outside
        ELSE IF at[k - 1] \in Folder \cup {Outside}
               THEN Named(at[k - 1], path[k])
               ELSE Nothing
  IN  at[Len(path)]

(* The slot that the k-th name of a path is looked up in.                  *)
OnPath(path, k) == <<Leads(SubSeq(path, 1, k - 1)), path[k]>>

Size(i) == IF i \in File THEN Len(content[i]) ELSE 0

\* Mutant: the times are not part of the state.
State_Timeless(i) == <<i, 0, Size(i)>>

(* What lstat or fstat tells of an inode: who it is, when it last changed, *)
(* and its size.                                                           *)
State(i) == <<i, stamp[i], Size(i)>>

Touched(inodes) ==
  /\ changes < MaxChanges
  /\ changes' = changes + 1
  /\ stamp' = [i \in Inode |-> IF i \in inodes THEN changes' ELSE stamp[i]]

(* Someone makes slot s name i, or nothing.  An inode that has a name      *)
(* elsewhere is not given a second one.                                    *)
Exchange(s, i) ==
  /\ i # entry[s]
  /\ \A t \in Slot : i # Nothing => entry[t] # i
  /\ Touched({s[1], entry[s], i} \cap Inode)
  /\ entry' = [entry EXCEPT ![s] = i]
  /\ pastNames' = pastNames \cup {<<s, entry[s]>>}
  /\ returned' = (returned \/ <<s, i>> \in pastNames)
  /\ UNCHANGED <<content, pastBytes>>

(* Someone writes, appends or truncates, one block at a time.              *)
Rewrite(f, c) ==
  /\ c # content[f]
  /\ Len(c) \in Len(content[f]) - 1 .. Len(content[f]) + 1
  /\ Touched({f})
  /\ content' = [content EXCEPT ![f] = c]
  /\ pastBytes' = pastBytes \cup {<<f, content[f]>>}
  /\ returned' = (returned \/ <<f, c>> \in pastBytes)
  /\ UNCHANGED <<entry, pastNames>>

Change ==
  \/ \E s \in Slot : \E i \in Fits[s] \cup {Nothing} : Exchange(s, i)
  \/ \E f \in File, c \in Content : Rewrite(f, c)
=============================================================================
