--------------------------- MODULE FinalEvidence ---------------------------
(***************************************************************************)
(* Create-once publication of evidence (src/src/hai_mr05/evidence.py):     *)
(* persist_evidence publishes one manifest, persist_final_evidence_records *)
(* a manifest and then the final result bound to it.  Every publisher is   *)
(* one call, in a process of its own; the calls share one file system and  *)
(* nothing else.  Each action is one system call (or a run of calls on     *)
(* objects nobody else can reach), so publishers interleave between any    *)
(* two of them.                                                            *)
(*                                                                         *)
(* The file system is modelled as POSIX promises it: link and O_EXCL       *)
(* creation are atomic and never replace a name, while data and names      *)
(* reach the disk only when they are fsynced, in any order before that.    *)
(***************************************************************************)
EXTENDS Naturals, FiniteSets

CONSTANTS
  Publisher,     \* calls of the two persist functions
  Folder,        \* directory inodes
  DirName,       \* the directory parts of relative paths
  Top,           \* the directory part of a path without "/"
  Path,          \* relative destination paths
  DirOf,         \* the directory part of each path
  InRepository,  \* the paths that fall inside the source repository
  Manifest, Final, Identity, IdentityOf, Cites,
  Request,       \* the calls that may be made
  InitRoot,      \* the directory the approved root names at first
  InitDirAt,     \* what each directory name leads to at first
  MaxFaults,     \* bound: failures the environment may inject
  Torn,          \* bytes that are not a whole record
  None

Record == Manifest \cup Final
Name == Path \cup Identity           \* temporaries are named after a hash
Slot == Folder \X Name               \* directory entries
Inode == Publisher \X {1, 2}         \* the files a call creates, in order

ASSUME ConstantsAssumption ==
  /\ Manifest \cap Final = {}
  /\ IdentityOf \in [Record -> Identity]
  /\ Cites \in [Final -> Identity]
  /\ Path \cap Identity = {}
  /\ Top \in DirName
  /\ DirOf \in [Path -> DirName]
  /\ InRepository \subseteq Path
  /\ Request \subseteq [manifest : Manifest, mpath : Path,
                        final : Final \cup {None}, fpath : Path]
  /\ InitRoot \in Folder
  /\ InitDirAt \in [Folder \X DirName -> Folder \cup {None}]
  /\ \A f \in Folder : InitDirAt[<<f, Top>>] = f
  /\ MaxFaults \in Nat
  /\ Torn # None
  /\ {Torn, None} \cap Record = {}
  /\ None \notin Inode
  /\ None \notin Folder
  /\ None \notin Request

VARIABLES
  pc,       \* where each publisher is
  req,      \* the arguments of its call
  at,       \* which of its records it is publishing: 1 or 2
  root,     \* the directory it validated, later the one it holds open
  parent,   \* the directory it opened for each of its files
  stale,    \* publishers whose validated root changed state since
  rootAt,   \* the directory the approved root path names now
  dirAt,    \* the directory a directory name leads to now
  entry,    \* the inode each directory entry names now
  disk,     \* what that entry may name after a power failure
  data,     \* the bytes of each inode
  synced,   \* the inodes whose bytes survive a power failure
  faults    \* failures injected so far

fsVars == <<entry, disk, data, synced>>
pathVars == <<rootAt, dirAt>>
callVars == <<req, at, root, parent, stale>>
vars == <<pc, callVars, pathVars, fsVars, faults>>

-----------------------------------------------------------------------------
(* One record of a call. *)

\* Mutant: the result is published first, the manifest it cites second.
RecordOf_Swapped(p, k) ==
  IF k = 1 /\ req[p].final # None THEN req[p].final ELSE req[p].manifest

RecordOf(p, k) == IF k = 1 THEN req[p].manifest ELSE req[p].final
PathOf(p, k) == IF k = 1 THEN req[p].mpath ELSE req[p].fpath

Own(p) == <<p, at[p]>>                            \* its current file
Rec(p) == RecordOf(p, at[p])

(* The entries it uses in the directory it has open.  A path stands for    *)
(* its own last component: paths of one directory differ in it, those of   *)
(* two directories in DirOf.  A temporary is named after the kind and the  *)
(* identity of its record, by which identities of different records differ *)
(* and none is a path.                                                     *)
TempSlot(p) == <<parent[Own(p)], IdentityOf[Rec(p)]>>
DestSlot(p) == <<parent[Own(p)], PathOf(p, at[p])>>

Terminal == {"idle", "done", "failed", "crashed"}
Active(p) == pc[p] \notin Terminal

Goto(p, l) == pc' = [pc EXCEPT ![p] = l]

(* A change of directory f shows in the times of its state tuple, which    *)
(* a publisher that has validated f and not yet opened it will compare.    *)
Touch(f) ==
  stale' = stale \cup {q \in Publisher : pc[q] = "openRoot" /\ root[q] = f}

(* Make entry s name i (or nothing); until the next fsync of its directory *)
(* a power failure may bring back what it named before.                    *)
SetEntry(s, i) ==
  /\ entry' = [entry EXCEPT ![s] = i]
  /\ disk' = [disk EXCEPT ![s] = @ \cup {i}]
  /\ Touch(s[1])

\* Mutant: the directory is not fsynced after link and unlink.
SyncFolder_Skipped(f) == disk' = disk

SyncFolder(f) ==
  disk' = [s \in Slot |-> IF s[1] = f THEN {entry[s]} ELSE disk[s]]

Init ==
  /\ pc = [p \in Publisher |-> "idle"]
  /\ req = [p \in Publisher |-> None]
  /\ at = [p \in Publisher |-> 1]
  /\ root = [p \in Publisher |-> None]
  /\ parent = [i \in Inode |-> None]
  /\ stale = {}
  /\ rootAt = InitRoot
  /\ dirAt = InitDirAt
  /\ entry = [s \in Slot |-> None]
  /\ disk = [s \in Slot |-> {None}]
  /\ data = [i \in Inode |-> None]
  /\ synced = {}
  /\ faults = 0

-----------------------------------------------------------------------------
(* The call. *)

(* What the arguments must satisfy before the file system is touched. *)
Admissible(r) ==
  r.final # None => /\ r.mpath # r.fpath
                    /\ Cites[r.final] = IdentityOf[r.manifest]
                    /\ {r.mpath, r.fpath} \cap InRepository = {}

(* The arguments are qualified and the approved root is inspected. *)
Start(p) ==
  /\ pc[p] = "idle"
  /\ \E r \in Request :
       /\ req' = [req EXCEPT ![p] = r]
       /\ root' = [root EXCEPT ![p] = rootAt]
       /\ Goto(p, IF Admissible(r) /\ rootAt # None THEN "openRoot" ELSE "failed")
  /\ UNCHANGED <<at, parent, stale, pathVars, fsVars, faults>>

(* The root is opened by its path and must be what was inspected, down to *)
(* its times.                                                             *)
OpenRoot(p) ==
  /\ pc[p] = "openRoot"
  /\ Goto(p, IF rootAt = root[p] /\ p \notin stale THEN "openFolder" ELSE "failed")
  /\ UNCHANGED <<callVars, pathVars, fsVars, faults>>

(* The directories of the destination are walked down from the open root.  *)
(* The walk is one lookup, of one name: a directory that is moved or made  *)
(* between its components shows as a change of that name before it.        *)
OpenFolder(p) ==
  LET f == dirAt[<<root[p], DirOf[PathOf(p, at[p])]>>]
  IN /\ pc[p] = "openFolder"
     /\ parent' = [parent EXCEPT ![Own(p)] = f]
     /\ Goto(p, IF f # None THEN "checkAbsent" ELSE "failed")
     /\ UNCHANGED <<req, at, root, stale, pathVars, fsVars, faults>>

\* Mutant: a destination that exists counts as published already.
CheckAbsent_Idempotent(p) ==
  /\ pc[p] = "checkAbsent"
  /\ Goto(p, IF entry[DestSlot(p)] = None THEN "createTemp" ELSE "syncUnlink")
  /\ UNCHANGED <<callVars, pathVars, fsVars, faults>>

\* Mutant: the call waits for the destination to go away.
CheckAbsent_Waiting(p) ==
  /\ pc[p] = "checkAbsent"
  /\ entry[DestSlot(p)] = None
  /\ Goto(p, "createTemp")
  /\ UNCHANGED <<callVars, pathVars, fsVars, faults>>

CheckAbsent(p) ==
  /\ pc[p] = "checkAbsent"
  /\ Goto(p, IF entry[DestSlot(p)] = None THEN "createTemp" ELSE "failed")
  /\ UNCHANGED <<callVars, pathVars, fsVars, faults>>

\* Mutant: a temporary somebody left is replaced (no O_EXCL).
CreateTemp_Replacing(p) ==
  /\ pc[p] = "createTemp"
  /\ SetEntry(TempSlot(p), Own(p))
  /\ data' = [data EXCEPT ![Own(p)] = Torn]
  /\ Goto(p, "write")
  /\ UNCHANGED <<req, at, root, parent, pathVars, synced, faults>>

\* Mutant: a call that finds a temporary removes it before it fails.
CreateTemp_Cleaning(p) ==
  /\ pc[p] = "createTemp"
  /\ IF entry[TempSlot(p)] = None
     THEN /\ SetEntry(TempSlot(p), Own(p))
          /\ data' = [data EXCEPT ![Own(p)] = Torn]
          /\ Goto(p, "write")
     ELSE /\ SetEntry(TempSlot(p), None)
          /\ Goto(p, "failed")
          /\ UNCHANGED data
  /\ UNCHANGED <<req, at, root, parent, pathVars, synced, faults>>

\* Mutant: the record is written in place, at its destination.
CreateTemp_InPlace(p) ==
  /\ pc[p] = "createTemp"
  /\ SetEntry(DestSlot(p), Own(p))
  /\ data' = [data EXCEPT ![Own(p)] = Torn]
  /\ Goto(p, "write")
  /\ UNCHANGED <<req, at, root, parent, pathVars, synced, faults>>

(* O_CREAT | O_EXCL: an existing name, whoever left it, ends the call. *)
CreateTemp(p) ==
  /\ pc[p] = "createTemp"
  /\ \/ /\ entry[TempSlot(p)] = None
        /\ SetEntry(TempSlot(p), Own(p))
        /\ data' = [data EXCEPT ![Own(p)] = Torn]
        /\ Goto(p, "write")
     \/ /\ entry[TempSlot(p)] # None
        /\ Goto(p, "failed")
        /\ UNCHANGED <<entry, disk, data, stale>>
  /\ UNCHANGED <<req, at, root, parent, pathVars, synced, faults>>

(* One write call: a short one is not continued, it ends the call. *)
Write(p) ==
  /\ pc[p] = "write"
  /\ \/ /\ data' = [data EXCEPT ![Own(p)] = Rec(p)]
        /\ Goto(p, "syncTemp")
        /\ UNCHANGED faults
     \/ /\ faults < MaxFaults
        /\ faults' = faults + 1
        /\ Goto(p, "failed")
        /\ UNCHANGED data
  /\ UNCHANGED <<callVars, pathVars, entry, disk, synced>>

\* Mutant: the temporary is not fsynced.
SyncTemp_Skipped(p) ==
  /\ pc[p] = "syncTemp"
  /\ Goto(p, "verifyTemp")
  /\ UNCHANGED <<callVars, pathVars, fsVars, faults>>

SyncTemp(p) ==
  /\ pc[p] = "syncTemp"
  /\ synced' = synced \cup {Own(p)}
  /\ Goto(p, "verifyTemp")
  /\ UNCHANGED <<callVars, pathVars, entry, disk, data, faults>>

VerifyTemp(p) ==
  /\ pc[p] = "verifyTemp"
  /\ Goto(p, IF data[Own(p)] = Rec(p) THEN "link" ELSE "failed")
  /\ UNCHANGED <<callVars, pathVars, fsVars, faults>>

\* Mutant: rename instead of link replaces what the destination names.
Link_Replacing(p) ==
  /\ pc[p] = "link"
  /\ entry[TempSlot(p)] # None
  /\ SetEntry(DestSlot(p), entry[TempSlot(p)])
  /\ Goto(p, "syncLink")
  /\ UNCHANGED <<req, at, root, parent, pathVars, data, synced, faults>>

(* link: the temporary's name is looked up again, and the destination is *)
(* never replaced.                                                       *)
Link(p) ==
  /\ pc[p] = "link"
  /\ \/ /\ entry[TempSlot(p)] # None
        /\ entry[DestSlot(p)] = None
        /\ SetEntry(DestSlot(p), entry[TempSlot(p)])
        /\ Goto(p, "syncLink")
     \/ /\ \/ entry[TempSlot(p)] = None
           \/ entry[DestSlot(p)] # None
        /\ Goto(p, "failed")
        /\ UNCHANGED <<entry, disk, stale>>
  /\ UNCHANGED <<req, at, root, parent, pathVars, data, synced, faults>>

SyncLink(p) ==
  /\ pc[p] = "syncLink"
  /\ SyncFolder(parent[Own(p)])
  /\ Goto(p, "statDest")
  /\ UNCHANGED <<callVars, pathVars, entry, data, synced, faults>>

StatDest(p) ==
  /\ pc[p] = "statDest"
  /\ Goto(p, IF entry[DestSlot(p)] = Own(p) THEN "unlinkTemp" ELSE "failed")
  /\ UNCHANGED <<callVars, pathVars, fsVars, faults>>

UnlinkTemp(p) ==
  /\ pc[p] = "unlinkTemp"
  /\ \/ /\ entry[TempSlot(p)] # None
        /\ SetEntry(TempSlot(p), None)
        /\ Goto(p, "syncUnlink")
     \/ /\ entry[TempSlot(p)] = None
        /\ Goto(p, "failed")
        /\ UNCHANGED <<entry, disk, stale>>
  /\ UNCHANGED <<req, at, root, parent, pathVars, data, synced, faults>>

\* Mutant: the call moves on to a next record whether it has one or not.
SyncUnlink_Counting(p) ==
  /\ pc[p] = "syncUnlink"
  /\ SyncFolder(parent[Own(p)])
  /\ at' = [at EXCEPT ![p] = @ + 1]
  /\ Goto(p, IF at[p] = 1 /\ req[p].final # None THEN "openFolder" ELSE "readManifest")
  /\ UNCHANGED <<req, root, parent, stale, pathVars, entry, data, synced, faults>>

(* The second fsync ends the publication of one record: the final result  *)
(* follows the manifest; then everything published is read back.          *)
SyncUnlink(p) ==
  /\ pc[p] = "syncUnlink"
  /\ SyncFolder(parent[Own(p)])
  /\ \/ /\ at[p] = 1 /\ req[p].final # None
        /\ at' = [at EXCEPT ![p] = 2]
        /\ Goto(p, "openFolder")
     \/ /\ at[p] = 2 \/ req[p].final = None
        /\ Goto(p, "readManifest")
        /\ UNCHANGED at
  /\ UNCHANGED <<req, root, parent, stale, pathVars, entry, data, synced, faults>>

(* Reading record x back at path n below root r: the directories are      *)
(* walked again, and the bytes must be the expected ones.                 *)
ReadsBack(r, n, x) ==
  LET f == dirAt[<<r, DirOf[n]>>]
  IN /\ f # None
     /\ entry[<<f, n>>] # None
     /\ data[entry[<<f, n>>]] = x

ReadManifest(p) ==
  /\ pc[p] = "readManifest"
  /\ Goto(p, IF ~ReadsBack(root[p], PathOf(p, 1), RecordOf(p, 1)) THEN "failed"
             ELSE IF at[p] = 2 THEN "readFinal" ELSE "requalify")
  /\ UNCHANGED <<callVars, pathVars, fsVars, faults>>

ReadFinal(p) ==
  /\ pc[p] = "readFinal"
  /\ Goto(p, IF ReadsBack(root[p], PathOf(p, 2), RecordOf(p, 2))
             THEN "requalify" ELSE "failed")
  /\ UNCHANGED <<callVars, pathVars, fsVars, faults>>

\* Mutant: the times of the root are compared again, which the call itself
\* has changed when it published in the root.
RequalifyRoot_Times(p) ==
  /\ pc[p] = "requalify"
  /\ Goto(p, IF rootAt = root[p] /\ \A k \in {1, 2} : parent[<<p, k>>] # root[p]
             THEN "done" ELSE "failed")
  /\ UNCHANGED <<callVars, pathVars, fsVars, faults>>

(* Last, the approved path must still name the directory held open. *)
RequalifyRoot(p) ==
  /\ pc[p] = "requalify"
  /\ Goto(p, IF rootAt = root[p] THEN "done" ELSE "failed")
  /\ UNCHANGED <<callVars, pathVars, fsVars, faults>>

Step(p) ==
  \/ OpenRoot(p) \/ OpenFolder(p) \/ CheckAbsent(p) \/ CreateTemp(p)
  \/ Write(p) \/ SyncTemp(p) \/ VerifyTemp(p) \/ Link(p) \/ SyncLink(p)
  \/ StatDest(p) \/ UnlinkTemp(p) \/ SyncUnlink(p)
  \/ ReadManifest(p) \/ ReadFinal(p) \/ RequalifyRoot(p)

-----------------------------------------------------------------------------
(* The environment. *)

Fault == /\ faults < MaxFaults
         /\ faults' = faults + 1

(* A system call fails: the call raises and leaves the file system as is. *)
IOError(p) ==
  /\ Active(p)
  /\ Fault
  /\ Goto(p, "failed")
  /\ UNCHANGED <<callVars, pathVars, fsVars>>

(* The process of the call dies. *)
Crash(p) ==
  /\ Active(p)
  /\ Fault
  /\ Goto(p, "crashed")
  /\ UNCHANGED <<callVars, pathVars, fsVars>>

(* The machine loses power: every process dies, every entry comes back as *)
(* one of the things it may name on disk, bytes never fsynced may be torn.*)
PowerLoss ==
  LET loose == {s \in Slot : disk[s] # {entry[s]}}
      created == {i \in Inode : data[i] # None}
  IN /\ Fault
     /\ pc' = [p \in Publisher |-> IF Active(p) THEN "crashed" ELSE pc[p]]
     /\ \E e \in [loose -> Inode \cup {None}], torn \in SUBSET (created \ synced) :
          /\ \A s \in loose : e[s] \in disk[s]
          /\ entry' = [s \in Slot |-> IF s \in loose THEN e[s] ELSE entry[s]]
          /\ data' = [i \in Inode |-> IF i \in torn THEN Torn ELSE data[i]]
     /\ disk' = [s \in Slot |-> {entry'[s]}]
     /\ synced' = created
     /\ UNCHANGED <<callVars, pathVars>>

(* Somebody renames directories: the approved path, or a directory below a *)
(* root, comes to name another directory, a link or nothing.               *)
MoveRoot ==
  /\ Fault
  /\ \E f \in (Folder \cup {None}) \ {rootAt} :
       /\ rootAt' = f
       /\ stale' = stale \cup {q \in Publisher :
                                 pc[q] = "openRoot" /\ root[q] \in {f, rootAt}}
  /\ UNCHANGED <<pc, req, at, root, parent, dirAt, fsVars>>

MoveFolder ==
  /\ Fault
  /\ \E r \in Folder, d \in DirName \ {Top}, f \in Folder \cup {None} :
       /\ f # dirAt[<<r, d>>]
       /\ dirAt' = [dirAt EXCEPT ![<<r, d>>] = f]
       /\ Touch(r)
  /\ UNCHANGED <<pc, req, at, root, parent, rootAt, fsVars>>

Next ==
  \/ \E p \in Publisher : Start(p)
  \/ \E p \in Publisher : Step(p)
  \/ \E p \in Publisher : IOError(p)
  \/ \E p \in Publisher : Crash(p)
  \/ PowerLoss
  \/ MoveRoot
  \/ MoveFolder

Spec == Init /\ [][Next]_vars

(* A call that has begun runs: nothing in it waits for anybody. *)
Fairness == \A p \in Publisher : WF_vars(Step(p))

FairSpec == Spec /\ Fairness

-----------------------------------------------------------------------------
(* Properties. *)

(* Every variable ranges over the values the code can give it (whole       *)
(* module).                                                                *)
TypeOK ==
  /\ pc \in [Publisher -> {"idle", "openRoot", "openFolder", "checkAbsent",
                           "createTemp", "write", "syncTemp", "verifyTemp",
                           "link", "syncLink", "statDest", "unlinkTemp",
                           "syncUnlink", "readManifest", "readFinal",
                           "requalify", "done", "failed", "crashed"}]
  /\ req \in [Publisher -> Request \cup {None}]
  /\ at \in [Publisher -> {1, 2}]
  /\ root \in [Publisher -> Folder \cup {None}]
  /\ parent \in [Inode -> Folder \cup {None}]
  /\ stale \subseteq Publisher
  /\ rootAt \in Folder \cup {None}
  /\ dirAt \in [Folder \X DirName -> Folder \cup {None}]
  /\ entry \in [Slot -> Inode \cup {None}]
  /\ disk \in [Slot -> SUBSET (Inode \cup {None})]
  /\ data \in [Inode -> Record \cup {Torn, None}]
  /\ synced \subseteq Inode
  /\ faults \in Nat

DestSlots == Folder \X Path

(* The record slot s shows cannot be taken back by a power failure. *)
Durable(s) == /\ entry[s] # None
              /\ disk[s] = {entry[s]}
              /\ entry[s] \in synced

(* A destination never shows a partial record, not even after a power      *)
(* failure between any two system calls: whatever its entry names, or may  *)
(* name once the machine is back, holds a whole record whose bytes have    *)
(* been fsynced (the order fsync, link in _publish_final_evidence_bytes).  *)
NoTornDestination ==
  \A s \in DestSlots : \A i \in disk[s] \ {None} :
    /\ data[i] \in Record
    /\ i \in synced

(* From the creation of its temporary file until it removes it, a          *)
(* publisher's temporary name is its own: it links and unlinks by name, yet *)
(* never publishes or removes the file of another call, also when calls     *)
(* for the same record race or one restarts after a crash.                  *)
OwnTempOnly ==
  \A p \in Publisher :
    pc[p] \in {"write", "syncTemp", "verifyTemp", "link", "syncLink",
               "statDest", "unlinkTemp"}
      => entry[TempSlot(p)] = Own(p)

(* A final result can be found, now or after a power failure, only if the   *)
(* manifest it is bound to is durable at some destination: a crash anywhere *)
(* between the two publications leaves a manifest without result, never the *)
(* reverse.                                                                 *)
FinalAfterManifest ==
  \A s \in DestSlots : \A i \in disk[s] \ {None} :
    data[i] \in Final =>
      \E t \in DestSlots : /\ Durable(t)
                           /\ data[entry[t]] \in Manifest
                           /\ IdentityOf[data[entry[t]]] = Cites[data[i]]

Records(p) == IF req[p].final = None THEN {1} ELSE {1, 2}

(* A call that returned left every record of its request durable, under its *)
(* own name and with its own bytes, for good: no later call, crash or power *)
(* failure undoes it.                                                       *)
SuccessIsDurable ==
  \A p \in Publisher : pc[p] = "done" =>
    \A k \in Records(p) :
      LET s == <<parent[<<p, k>>], PathOf(p, k)>>
      IN /\ Durable(s)
         /\ data[entry[s]] = RecordOf(p, k)

(* A destination belongs to one call: two calls that both returned have    *)
(* published nowhere in common, whatever they raced through.               *)
OneWinner ==
  \A p, q \in Publisher : pc[p] = "done" /\ pc[q] = "done" /\ p # q =>
    \A k \in Records(p), l \in Records(q) :
      <<parent[<<p, k>>], PathOf(p, k)>> # <<parent[<<q, l>>], PathOf(q, l)>>

(* Create-once, no cleanup, no rollback: no step but a power failure takes  *)
(* a destination away or makes it name another file, and no step at all     *)
(* undoes one whose directory has been fsynced.                             *)
NoReplace ==
  [][\A s \in DestSlots : entry[s] # None =>
       \/ entry'[s] = entry[s]
       \/ PowerLoss /\ None \in disk[s]]_vars

(* A temporary file left behind by a failed or dead call is never removed   *)
(* by another ("no automatic cleanup"): as long as the machine is up, only  *)
(* the call that created a name removes it.                                 *)
NoCleanup ==
  [][\A p \in Publisher, k \in {1, 2}, s \in Slot :
       (entry[s] = <<p, k>> /\ pc[p] \in Terminal) =>
         entry'[s] = entry[s] \/ PowerLoss]_vars

(* Every call ends, whatever the others do. *)
Termination ==
  \A p \in Publisher : Active(p) ~> ~Active(p)

(* When every call wants the same destinations and nothing fails, racing    *)
(* calls do not defeat one another: once one has begun, one succeeds.       *)
SomebodyWins ==
  (\E p \in Publisher : Active(p)) ~>
    (faults > 0 \/ \E p \in Publisher : pc[p] = "done")

(* What a reader finds at each destination, and where that is on disk. *)
Shown == [s \in DestSlots |-> IF entry[s] = None THEN None ELSE data[entry[s]]]
Settled == {s \in DestSlots : None \notin disk[s]}

Store == INSTANCE EvidenceStore WITH
  Place <- DestSlots, shown <- Shown, settled <- Settled

(* Publication implements the abstract store: whole records appear once, a  *)
(* final result only over its settled manifest, and settled records stay.   *)
ImplementsStore == Store!Spec

-----------------------------------------------------------------------------
(* The inductive invariant the proofs rest on. *)

Reading == {"readManifest", "readFinal", "requalify", "done"}
Holding == {"checkAbsent", "createTemp", "write", "syncTemp", "verifyTemp",
            "link", "syncLink", "statDest", "unlinkTemp", "syncUnlink"}

(* Record k of publisher p is durable at its destination. *)
Published(p, k) ==
  LET s == <<parent[<<p, k>>], PathOf(p, k)>>
  IN /\ parent[<<p, k>>] \in Folder
     /\ entry[s] = <<p, k>>
     /\ disk[s] = {<<p, k>>}
     /\ <<p, k>> \in synced
     /\ data[<<p, k>>] = RecordOf(p, k)

CallOK(p) ==
  /\ pc[p] # "idle" => req[p] \in Request
  /\ pc[p] \in {"idle", "openRoot"} => at[p] = 1
  /\ pc[p] = "readFinal" => at[p] = 2
  /\ at[p] = 2 => req[p].final # None
  /\ Active(p) \/ at[p] = 2 => Admissible(req[p])
  /\ Active(p) => root[p] \in Folder
  /\ pc[p] \in Holding => parent[Own(p)] \in Folder

CallInv == \A p \in Publisher : CallOK(p)

DataOK(p) ==
  /\ at[p] = 1 => data[<<p, 2>>] = None
  /\ pc[p] \in {"idle", "openRoot", "openFolder", "checkAbsent", "createTemp"}
       => data[Own(p)] = None
  /\ pc[p] \in {"syncTemp", "verifyTemp", "link", "syncLink"}
       => data[Own(p)] = Rec(p)
  /\ pc[p] \in {"verifyTemp", "link", "syncLink"} => Own(p) \in synced

DataInv == \A p \in Publisher : DataOK(p)

(* File i, found at destination s now or after a power failure, is whole: *)
(* it carries the record its call published there.                        *)
Whole(i) == /\ i \in synced
            /\ data[i] = RecordOf(i[1], i[2])
            /\ i[2] <= at[i[1]]

EntryOK(s) ==
  /\ entry[s] \in disk[s]
  /\ \A i \in disk[s] \ {None} : data[i] # None
  /\ s[2] \in Path => /\ disk[s] \subseteq {None, entry[s]}
                      /\ \A i \in disk[s] \ {None} : Whole(i)

EntryInv == \A s \in Slot : EntryOK(s)

PublishedOK(p) ==
  /\ pc[p] = "syncLink" => entry[DestSlot(p)] = Own(p)
  /\ pc[p] \in {"statDest", "unlinkTemp", "syncUnlink"} \cup Reading
       => Published(p, at[p])
  /\ at[p] = 2 => Published(p, 1)
  /\ pc[p] \in Reading /\ at[p] = 1 => req[p].final = None

PublishedInv == \A p \in Publisher : PublishedOK(p)

(* Every step preserves the conjunction (module FinalEvidenceProofs), and   *)
(* with it the state properties above, in the code of evidence.py 486-1735. *)
IInv == TypeOK /\ CallInv /\ DataInv /\ EntryInv /\ OwnTempOnly /\ PublishedInv

=============================================================================
