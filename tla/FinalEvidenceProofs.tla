------------------------ MODULE FinalEvidenceProofs ------------------------
(***************************************************************************)
(* Proofs about FinalEvidence, for any number of calls, directories, paths *)
(* and records and for any number of failures.                             *)
(***************************************************************************)
EXTENDS FinalEvidence, TLAPS

(* What a call works on is what its request names, of the right kinds. *)
LEMMA RequestFacts ==
  ASSUME NEW p \in Publisher, req[p] \in Request,
         NEW k \in {1, 2}, k = 2 => req[p].final # None
  PROVE  /\ PathOf(p, k) \in Path
         /\ RecordOf(p, k) \in Record
         /\ IdentityOf[RecordOf(p, k)] \in Identity
BY ConstantsAssumption DEF PathOf, RecordOf, Record

(* A publisher at work has a request, and its current record is one of it. *)
LEMMA ActiveFacts ==
  ASSUME TypeOK, CallInv, NEW p \in Publisher, Active(p)
  PROVE  /\ req[p] \in Request
         /\ at[p] \in {1, 2}
         /\ Own(p) \in Inode
         /\ Own(p) # None
         /\ PathOf(p, at[p]) \in Path
         /\ Rec(p) \in Record
         /\ IdentityOf[Rec(p)] \in Identity
         /\ root[p] \in Folder
<1>1. /\ req[p] \in Request
      /\ at[p] \in {1, 2}
      /\ at[p] = 2 => req[p].final # None
      /\ root[p] \in Folder
  BY DEF TypeOK, CallInv, CallOK, Active, Terminal
<1>2. Own(p) \in Inode /\ Own(p) # None
  BY <1>1, ConstantsAssumption DEF Own, Inode
<1>3. QED
  BY <1>1, <1>2, RequestFacts DEF Rec

(* The slots a publisher with an open directory works on. *)
LEMMA SlotFacts ==
  ASSUME TypeOK, CallInv, NEW p \in Publisher, pc[p] \in Holding
  PROVE  /\ Active(p)
         /\ parent[Own(p)] \in Folder
         /\ TempSlot(p) \in Slot
         /\ TempSlot(p)[1] = parent[Own(p)]
         /\ TempSlot(p)[2] \in Identity
         /\ TempSlot(p)[2] \notin Path
         /\ DestSlot(p) \in Slot
         /\ DestSlot(p)[1] = parent[Own(p)]
         /\ DestSlot(p)[2] = PathOf(p, at[p])
         /\ DestSlot(p)[2] \in Path
         /\ DestSlot(p)[2] \notin Identity
         /\ DestSlot(p) \in DestSlots
<1>1. Active(p)
  BY DEF Active, Terminal, Holding
<1>2. parent[Own(p)] \in Folder
  BY DEF CallInv, CallOK
<1>3. QED
  BY <1>1, <1>2, ActiveFacts, ConstantsAssumption
     DEF TempSlot, DestSlot, Slot, Name, DestSlots

-----------------------------------------------------------------------------
(* Type correctness. *)

LEMMA TypeInit == Init => TypeOK
BY ConstantsAssumption DEF Init, TypeOK, Inode, Slot

LEMMA TypeStep ==
  ASSUME TypeOK, CallInv, [Next]_vars
  PROVE  TypeOK'
<1>1. CASE UNCHANGED vars
  BY <1>1 DEF TypeOK, vars, callVars, pathVars, fsVars
<1>2. ASSUME NEW p \in Publisher, Start(p)
      PROVE  TypeOK'
  BY <1>2, ConstantsAssumption
     DEF TypeOK, Start, Goto, pathVars, fsVars
<1>3. ASSUME NEW p \in Publisher, OpenRoot(p) \/ CheckAbsent(p) \/ VerifyTemp(p)
                                  \/ StatDest(p) \/ ReadManifest(p)
                                  \/ ReadFinal(p) \/ RequalifyRoot(p)
      PROVE  TypeOK'
  BY <1>3 DEF TypeOK, OpenRoot, CheckAbsent, VerifyTemp, StatDest, ReadManifest,
              ReadFinal, RequalifyRoot, Goto, callVars, pathVars, fsVars
<1>4. ASSUME NEW p \in Publisher, OpenFolder(p)
      PROVE  TypeOK'
  <2>1. Active(p)
    BY <1>4 DEF OpenFolder, Active, Terminal
  <2>2. dirAt[<<root[p], DirOf[PathOf(p, at[p])]>>] \in Folder \cup {None}
    BY <2>1, ActiveFacts, ConstantsAssumption DEF TypeOK
  <2>3. QED
    BY <1>4, <2>1, <2>2, ActiveFacts DEF TypeOK, OpenFolder, Goto, pathVars, fsVars
<1>5. ASSUME NEW p \in Publisher, CreateTemp(p)
      PROVE  TypeOK'
  <2>1. pc[p] \in Holding
    BY <1>5 DEF CreateTemp, Holding
  <2>2. QED
    BY <1>5, <2>1, SlotFacts, ActiveFacts
       DEF TypeOK, CreateTemp, SetEntry, Touch, Goto, pathVars
<1>6. ASSUME NEW p \in Publisher, Write(p)
      PROVE  TypeOK'
  <2>1. Active(p)
    BY <1>6 DEF Write, Active, Terminal
  <2>2. QED
    BY <1>6, <2>1, ActiveFacts DEF TypeOK, Write, Goto, callVars, pathVars
<1>7. ASSUME NEW p \in Publisher, SyncTemp(p)
      PROVE  TypeOK'
  <2>1. Active(p)
    BY <1>7 DEF SyncTemp, Active, Terminal
  <2>2. QED
    BY <1>7, <2>1, ActiveFacts DEF TypeOK, SyncTemp, Goto, callVars, pathVars
<1>8. ASSUME NEW p \in Publisher, Link(p) \/ UnlinkTemp(p)
      PROVE  TypeOK'
  <2>1. pc[p] \in Holding
    BY <1>8 DEF Link, UnlinkTemp, Holding
  <2>2. CASE Link(p)
    BY <2>1, <2>2, SlotFacts DEF TypeOK, Link, SetEntry, Touch, Goto, pathVars
  <2>3. CASE UnlinkTemp(p)
    BY <2>1, <2>3, SlotFacts DEF TypeOK, UnlinkTemp, SetEntry, Touch, Goto, pathVars
  <2>4. QED
    BY <1>8, <2>2, <2>3
<1>9. ASSUME NEW p \in Publisher, SyncLink(p) \/ SyncUnlink(p)
      PROVE  TypeOK'
  BY <1>9 DEF TypeOK, SyncLink, SyncUnlink, SyncFolder, Goto, callVars, pathVars
<1>10. ASSUME NEW p \in Publisher, IOError(p) \/ Crash(p)
       PROVE  TypeOK'
  BY <1>10 DEF TypeOK, IOError, Crash, Fault, Goto, callVars, pathVars, fsVars
<1>11. CASE PowerLoss
  BY <1>11 DEF TypeOK, PowerLoss, Fault, callVars, pathVars
<1>12. CASE MoveRoot
  BY <1>12 DEF TypeOK, MoveRoot, Fault, fsVars
<1>13. CASE MoveFolder
  BY <1>13 DEF TypeOK, MoveFolder, Touch, Fault, fsVars
<1>14. QED
  BY <1>1, <1>2, <1>3, <1>4, <1>5, <1>6, <1>7, <1>8, <1>9, <1>10, <1>11, <1>12,
     <1>13 DEF Next, Step

-----------------------------------------------------------------------------
(* The call: what a publisher at work knows of its request and its root. *)

LEMMA CallInit == Init => CallInv
BY DEF Init, CallInv, CallOK, Active, Terminal, Holding

LEMMA CallStep ==
  ASSUME TypeOK, CallInv, [Next]_vars
  PROVE  CallInv'
<1> USE DEF CallInv, CallOK, Active, Terminal, Holding, Goto, Admissible, Own
<1>1. CASE UNCHANGED vars
  BY <1>1 DEF vars, callVars
<1>2. ASSUME NEW p \in Publisher, Start(p)
      PROVE  CallInv'
  BY <1>2, ConstantsAssumption DEF TypeOK, Start
<1>3. ASSUME NEW p \in Publisher, OpenRoot(p) \/ CheckAbsent(p) \/ VerifyTemp(p)
                                  \/ StatDest(p) \/ ReadManifest(p)
                                  \/ ReadFinal(p) \/ RequalifyRoot(p)
      PROVE  CallInv'
  BY <1>3 DEF TypeOK, OpenRoot, CheckAbsent, VerifyTemp, StatDest, ReadManifest,
              ReadFinal, RequalifyRoot, callVars
<1>4. ASSUME NEW p \in Publisher, OpenFolder(p)
      PROVE  CallInv'
  <2>1. dirAt[<<root[p], DirOf[PathOf(p, at[p])]>>] \in Folder \cup {None}
    BY <1>4, ActiveFacts, ConstantsAssumption DEF TypeOK, OpenFolder
  <2>2. Own(p) \in Inode
    BY <1>4, ActiveFacts DEF OpenFolder
  <2>3. ASSUME NEW q \in Publisher, q # p
        PROVE  CallOK(q)'
    <3>1. CallOK(q) /\ at[q] = at'[q] /\ pc'[q] = pc[q] /\ req'[q] = req[q] /\ root'[q] = root[q]
      BY <1>4, <2>3 DEF TypeOK, OpenFolder
    <3>2. parent'[Own(q)] = parent[Own(q)]
      BY <1>4, <2>2, <2>3 DEF TypeOK, OpenFolder, Inode
    <3>3. QED
      BY <3>1, <3>2
  <2>4. CallOK(p)'
    <3>1. CallOK(p) /\ Active(p) /\ at' = at /\ req' = req /\ root' = root
      BY <1>4 DEF TypeOK, OpenFolder
    <3>2. /\ pc'[p] \in {"checkAbsent", "failed"}
          /\ pc'[p] = "checkAbsent" => parent'[Own(p)] \in Folder
      BY <1>4, <2>1, <2>2 DEF TypeOK, OpenFolder
    <3>3. QED
      BY <3>1, <3>2
  <2>5. QED
    BY <2>3, <2>4
<1>5. ASSUME NEW p \in Publisher, CreateTemp(p) \/ Write(p) \/ SyncTemp(p)
                                  \/ Link(p) \/ SyncLink(p) \/ UnlinkTemp(p)
      PROVE  CallInv'
  BY <1>5 DEF TypeOK, CreateTemp, Write, SyncTemp, Link, SyncLink, UnlinkTemp, callVars
<1>6. ASSUME NEW p \in Publisher, SyncUnlink(p)
      PROVE  CallInv'
  BY <1>6 DEF TypeOK, SyncUnlink
<1>7. ASSUME NEW p \in Publisher, IOError(p) \/ Crash(p)
      PROVE  CallInv'
  BY <1>7 DEF TypeOK, IOError, Crash, callVars
<1>8. CASE PowerLoss
  BY <1>8 DEF TypeOK, PowerLoss, callVars
<1>9. CASE MoveRoot \/ MoveFolder
  BY <1>9 DEF TypeOK, MoveRoot, MoveFolder
<1>10. QED
  BY <1>1, <1>2, <1>3, <1>4, <1>5, <1>6, <1>7, <1>8, <1>9 DEF Next, Step

-----------------------------------------------------------------------------
(* The bytes a publisher has written, and those it has not written yet. *)

LEMMA DataInit == Init => DataInv
BY DEF Init, DataInv, DataOK, Inode, Own

LEMMA DataFrame ==
  ASSUME TypeOK, NEW q \in Publisher, DataOK(q),
         pc'[q] = pc[q], at'[q] = at[q], req'[q] = req[q],
         data'[<<q, 1>>] = data[<<q, 1>>], data'[<<q, 2>>] = data[<<q, 2>>],
         \A i \in synced : i[1] = q => i \in synced'
  PROVE  DataOK(q)'
<1>1. at[q] \in {1, 2}
  BY DEF TypeOK
<1>2. Own(q)' = Own(q) /\ Own(q)[1] = q
  BY DEF Own
<1>3. data'[Own(q)] = data[Own(q)]
  BY <1>1 DEF Own
<1>4. Rec(q)' = Rec(q)
  BY DEF Rec, RecordOf
<1>5. QED
  BY <1>2, <1>3, <1>4 DEF DataOK

LEMMA DataStep ==
  ASSUME TypeOK, CallInv, DataInv, [Next]_vars
  PROVE  DataInv'
<1> SUFFICES ASSUME NEW q \in Publisher
             PROVE  DataOK(q)'
  BY DEF DataInv
<1>0. DataOK(q) /\ <<q, 1>> \in Inode /\ <<q, 2>> \in Inode
  BY DEF DataInv, Inode
<1>1. CASE UNCHANGED vars
  BY <1>0, <1>1, DataFrame DEF vars, callVars, fsVars
<1>2. ASSUME NEW p \in Publisher, Start(p)
      PROVE  DataOK(q)'
  <2>1. CASE p = q
    BY <1>0, <1>2, <2>1 DEF TypeOK, Start, fsVars, DataOK, Goto, Own
  <2>2. CASE p # q
    BY <1>0, <1>2, <2>2, DataFrame DEF TypeOK, Start, fsVars, Goto
  <2>3. QED
    BY <2>1, <2>2
<1>3. ASSUME NEW p \in Publisher, p # q, Step(p)
      PROVE  DataOK(q)'
  BY <1>0, <1>3, DataFrame
     DEF TypeOK, Step, OpenRoot, OpenFolder, CheckAbsent, CreateTemp, Write, SyncTemp,
         VerifyTemp, Link, SyncLink, StatDest, UnlinkTemp, SyncUnlink, ReadManifest,
         ReadFinal, RequalifyRoot, callVars, fsVars, Goto, Own
<1>4. CASE OpenRoot(q) \/ OpenFolder(q) \/ CheckAbsent(q) \/ VerifyTemp(q)
             \/ StatDest(q) \/ ReadManifest(q) \/ ReadFinal(q) \/ RequalifyRoot(q)
  <2>1. Rec(q)' = Rec(q) /\ Own(q)' = Own(q) /\ data' = data /\ synced' = synced
    BY <1>4 DEF OpenRoot, OpenFolder, CheckAbsent, VerifyTemp, StatDest, ReadManifest,
                ReadFinal, RequalifyRoot, callVars, fsVars, Rec, RecordOf, Own
  <2>2. QED
    BY <1>0, <1>4, <2>1
       DEF TypeOK, OpenRoot, OpenFolder, CheckAbsent, VerifyTemp, StatDest,
           ReadManifest, ReadFinal, RequalifyRoot, callVars, Goto, DataOK
<1>5. CASE CreateTemp(q)
  BY <1>0, <1>5 DEF TypeOK, CreateTemp, Goto, DataOK, Own
<1>6. CASE Write(q)
  <2>1. Rec(q)' = Rec(q)
    BY <1>6 DEF Write, callVars, Rec, RecordOf
  <2>2. QED
    BY <1>0, <1>6, <2>1 DEF TypeOK, Write, callVars, Goto, DataOK, Own
<1>7. CASE SyncTemp(q)
  <2>1. Rec(q)' = Rec(q)
    BY <1>7 DEF SyncTemp, callVars, Rec, RecordOf
  <2>2. QED
    BY <1>0, <1>7, <2>1 DEF TypeOK, SyncTemp, callVars, Goto, DataOK, Own
<1>8. CASE Link(q) \/ SyncLink(q) \/ UnlinkTemp(q)
  <2>1. /\ Rec(q)' = Rec(q) /\ Own(q)' = Own(q) /\ at' = at
        /\ data' = data /\ synced' = synced
    BY <1>8 DEF Link, SyncLink, UnlinkTemp, callVars, Rec, RecordOf, Own
  <2>2. QED
    BY <1>0, <1>8, <2>1 DEF TypeOK, Link, SyncLink, UnlinkTemp, Goto, DataOK
<1>9. CASE SyncUnlink(q)
  BY <1>0, <1>9 DEF TypeOK, SyncUnlink, Goto, DataOK, Own
<1>10. ASSUME NEW p \in Publisher, IOError(p) \/ Crash(p)
       PROVE  DataOK(q)'
  <2>1. CASE p = q
    BY <1>0, <1>10, <2>1 DEF TypeOK, IOError, Crash, callVars, fsVars, Goto, DataOK
  <2>2. CASE p # q
    BY <1>0, <1>10, <2>2, DataFrame DEF TypeOK, IOError, Crash, callVars, fsVars, Goto
  <2>3. QED
    BY <2>1, <2>2
<1>11. CASE PowerLoss
  <2>1. \A i \in Inode : data[i] = None => data'[i] = None
    BY <1>11 DEF PowerLoss
  <2>2. pc'[q] \in Terminal /\ (pc'[q] = "idle" => pc[q] = "idle")
    BY <1>11 DEF PowerLoss, Active, Terminal
  <2>3. at' = at
    BY <1>11 DEF PowerLoss, callVars
  <2>4. Own(q) \in Inode
    BY DEF TypeOK, Own, Inode
  <2>5. QED
    BY <1>0, <2>1, <2>2, <2>3, <2>4 DEF DataOK, Own, Terminal
<1>12. CASE MoveRoot \/ MoveFolder
  BY <1>0, <1>12, DataFrame DEF MoveRoot, MoveFolder, fsVars
<1>13. QED
  BY <1>1, <1>2, <1>3, <1>4, <1>5, <1>6, <1>7, <1>8, <1>9, <1>10, <1>11, <1>12
     DEF Next, Step

-----------------------------------------------------------------------------
(* The directory entries. *)

LEMMA EntryInit == Init => EntryInv
BY DEF Init, EntryInv, EntryOK

(* A whole file stays whole: its bytes and its call's request are settled. *)
LEMMA WholeFrame ==
  ASSUME TypeOK, NEW i \in Inode, Whole(i),
         req'[i[1]] = req[i[1]], at'[i[1]] = at[i[1]] \/ at'[i[1]] = 2,
         data'[i] = data[i], i \in synced'
  PROVE  Whole(i)'
<1>1. i[1] \in Publisher /\ i[2] \in {1, 2}
  BY DEF Inode
<1>2. RecordOf(i[1], i[2])' = RecordOf(i[1], i[2])
  BY DEF RecordOf
<1>3. QED
  BY <1>1, <1>2 DEF Whole

LEMMA EntryFrame ==
  ASSUME TypeOK, NEW s \in Slot, EntryOK(s),
         entry'[s] = entry[s], disk'[s] = disk[s] \/ disk'[s] = {entry[s]},
         \A i \in disk[s] \ {None} :
           /\ data'[i] # None
           /\ Whole(i) => Whole(i)'
  PROVE  EntryOK(s)'
BY DEF EntryOK

LEMMA EntryStep ==
  ASSUME TypeOK, CallInv, DataInv, EntryInv, OwnTempOnly, [Next]_vars
  PROVE  EntryInv'
<1> SUFFICES ASSUME NEW s \in Slot
             PROVE  EntryOK(s)'
  BY DEF EntryInv
<1>0. /\ EntryOK(s)
      /\ \A i \in disk[s] \ {None} : i \in Inode /\ i[1] \in Publisher /\ data[i] # None
      /\ entry[s] \in disk[s]
  BY DEF EntryInv, EntryOK, TypeOK, Inode
<1>1. CASE UNCHANGED <<req, at, fsVars>>
  BY <1>0, <1>1 DEF fsVars, EntryOK, Whole, RecordOf
<1>2. ASSUME NEW p \in Publisher, Start(p)
      PROVE  EntryOK(s)'
  <2>1. \A i \in Inode : i[1] = p => data[i] = None
    <3>1. at[p] = 1 /\ data[<<p, 1>>] = None /\ data[<<p, 2>>] = None
      BY <1>2 DEF Start, DataInv, DataOK, CallInv, CallOK, Own
    <3>2. \A i \in Inode : i[1] = p => i = <<p, 1>> \/ i = <<p, 2>>
      BY DEF Inode
    <3>3. QED
      BY <3>1, <3>2
  <2>2. \A i \in disk[s] \ {None} : req'[i[1]] = req[i[1]]
    BY <1>0, <1>2, <2>1 DEF Start, TypeOK
  <2>3. QED
    BY <1>0, <1>2, <2>2, WholeFrame, EntryFrame DEF Start, fsVars, Whole
<1>3. ASSUME NEW p \in Publisher, CreateTemp(p)
      PROVE  EntryOK(s)'
  <2>1. data[Own(p)] = None
    BY <1>3 DEF CreateTemp, DataInv, DataOK
  <2>2. /\ TempSlot(p) \in Slot /\ TempSlot(p)[2] \notin Path
        /\ Own(p) \in Inode /\ Own(p) # None
    BY <1>3, SlotFacts, ActiveFacts DEF CreateTemp, Holding
  <2>3. CASE entry[TempSlot(p)] # None
    BY <1>0, <1>3, <2>3, WholeFrame, EntryFrame DEF CreateTemp, Whole
  <2>4. CASE entry[TempSlot(p)] = None
    <3>1. /\ entry' = [entry EXCEPT ![TempSlot(p)] = Own(p)]
          /\ disk' = [disk EXCEPT ![TempSlot(p)] = @ \cup {Own(p)}]
          /\ data' = [data EXCEPT ![Own(p)] = Torn]
          /\ UNCHANGED <<req, at, synced>>
      BY <1>3, <2>4 DEF CreateTemp, SetEntry
    <3>2. \A i \in disk[s] \ {None} : i # Own(p) /\ data'[i] = data[i]
      BY <1>0, <2>1, <3>1 DEF TypeOK
    <3>3. \A i \in disk[s] \ {None} : Whole(i) => Whole(i)'
      BY <1>0, <3>1, <3>2, WholeFrame DEF Whole
    <3>4. CASE s = TempSlot(p)
      <4>1. disk'[s] = disk[s] \cup {Own(p)} /\ entry'[s] = Own(p)
        BY <2>2, <3>1, <3>4 DEF TypeOK
      <4>2. data'[Own(p)] # None
        BY <2>2, <3>1, ConstantsAssumption DEF TypeOK
      <4>3. QED
        BY <1>0, <2>2, <3>2, <3>4, <4>1, <4>2 DEF EntryOK
    <3>5. CASE s # TempSlot(p)
      BY <1>0, <3>1, <3>2, <3>3, <3>5, EntryFrame DEF TypeOK
    <3>6. QED
      BY <3>4, <3>5
  <2>5. QED
    BY <2>3, <2>4
<1>4. ASSUME NEW p \in Publisher, Write(p)
      PROVE  EntryOK(s)'
  <2>1. Own(p) \in Inode /\ Rec(p) \in Record /\ Rec(p) # None
    BY <1>4, ActiveFacts, ConstantsAssumption DEF Write, Active, Terminal
  <2>2. Whole(Own(p)) => data[Own(p)] = Rec(p)
    BY DEF Whole, Own, Rec
  <2>3. \A i \in disk[s] \ {None} : data'[i] # None /\ (Whole(i) => Whole(i)')
    <3>1. UNCHANGED <<req, at, synced>>
      BY <1>4 DEF Write, callVars
    <3>2. \A i \in Inode : data'[i] = data[i] \/ (i = Own(p) /\ data'[i] = Rec(p))
      BY <1>4, <2>1 DEF Write, TypeOK
    <3>3. QED
      BY <1>0, <2>1, <2>2, <3>1, <3>2, WholeFrame DEF Whole
  <2>4. QED
    BY <1>0, <1>4, <2>3, EntryFrame DEF Write
<1>5. ASSUME NEW p \in Publisher, SyncTemp(p)
      PROVE  EntryOK(s)'
  BY <1>0, <1>5, WholeFrame, EntryFrame DEF SyncTemp, callVars, Whole
<1>6. ASSUME NEW p \in Publisher, Link(p)
      PROVE  EntryOK(s)'
  <2>1. /\ DestSlot(p) \in Slot /\ Own(p) \in Inode /\ Own(p) # None
        /\ entry[TempSlot(p)] = Own(p)
    BY <1>6, SlotFacts, ActiveFacts DEF Link, Holding, OwnTempOnly
  <2>2. Whole(Own(p)) /\ Rec(p) \in Record /\ data[Own(p)] # None
    <3>1. Rec(p) \in Record /\ Rec(p) # None /\ at[p] \in {1, 2}
      BY <1>6, ActiveFacts, ConstantsAssumption DEF Link, Active, Terminal
    <3>2. data[Own(p)] = Rec(p) /\ Own(p) \in synced
      BY <1>6 DEF Link, DataInv, DataOK
    <3>3. Own(p)[1] = p /\ Own(p)[2] = at[p]
      BY DEF Own
    <3>4. QED
      BY <3>1, <3>2, <3>3 DEF Whole, Rec
  <2>3. \A i \in Inode : data'[i] = data[i] /\ (Whole(i) => Whole(i)')
    BY <1>6, WholeFrame DEF Link, Whole, Inode
  <2>4. CASE s = DestSlot(p) /\ entry[DestSlot(p)] = None
    <3>1. entry'[s] = Own(p) /\ disk'[s] = disk[s] \cup {Own(p)}
      BY <1>6, <2>1, <2>4 DEF Link, SetEntry, TypeOK
    <3>2. disk[s] \subseteq {None}
      BY <1>0, <1>6, <2>4, SlotFacts DEF Link, Holding, EntryOK
    <3>3. QED
      BY <2>1, <2>2, <2>3, <3>1, <3>2 DEF EntryOK
  <2>5. CASE ~(s = DestSlot(p) /\ entry[DestSlot(p)] = None)
    <3>1. entry'[s] = entry[s] /\ disk'[s] = disk[s]
      BY <1>6, <2>5 DEF Link, SetEntry, TypeOK
    <3>2. QED
      BY <1>0, <2>3, <3>1, EntryFrame
  <2>6. QED
    BY <2>4, <2>5
<1>7. ASSUME NEW p \in Publisher, SyncLink(p) \/ SyncUnlink(p)
      PROVE  EntryOK(s)'
  <2>1. /\ UNCHANGED <<req, entry, data, synced>>
        /\ \A q \in Publisher : at'[q] = at[q] \/ at'[q] = 2
        /\ disk'[s] = disk[s] \/ disk'[s] = {entry[s]}
    BY <1>7 DEF SyncLink, SyncUnlink, SyncFolder, callVars, TypeOK
  <2>2. QED
    BY <1>0, <2>1, WholeFrame, EntryFrame DEF Whole
<1>8. ASSUME NEW p \in Publisher, UnlinkTemp(p)
      PROVE  EntryOK(s)'
  <2>1. /\ TempSlot(p) \in Slot /\ TempSlot(p)[2] \notin Path
        /\ UNCHANGED <<req, at, data, synced>>
    BY <1>8, SlotFacts DEF UnlinkTemp, Holding
  <2>2. \A i \in Inode : Whole(i) => Whole(i)'
    BY <2>1, WholeFrame DEF Whole, Inode
  <2>3. CASE s = TempSlot(p) /\ entry[TempSlot(p)] # None
    <3>1. entry'[s] = None /\ disk'[s] = disk[s] \cup {None}
      BY <1>8, <2>1, <2>3 DEF UnlinkTemp, SetEntry, TypeOK
    <3>2. QED
      BY <1>0, <2>1, <2>3, <3>1 DEF EntryOK
  <2>4. CASE ~(s = TempSlot(p) /\ entry[TempSlot(p)] # None)
    <3>1. entry'[s] = entry[s] /\ disk'[s] = disk[s]
      BY <1>8, <2>4 DEF UnlinkTemp, SetEntry, TypeOK
    <3>2. QED
      BY <1>0, <2>1, <2>2, <3>1, EntryFrame
  <2>5. QED
    BY <2>3, <2>4
<1>9. CASE PowerLoss
  <2>1. /\ entry'[s] \in disk[s]
        /\ disk'[s] = {entry'[s]}
        /\ \A i \in Inode : \/ data'[i] = data[i]
                            \/ i \notin synced /\ data[i] # None /\ data'[i] = Torn
        /\ synced' = {i \in Inode : data[i] # None}
        /\ UNCHANGED <<req, at>>
    BY <1>0, <1>9 DEF PowerLoss, callVars, TypeOK
  <2>2. \A i \in Inode : data[i] # None => data'[i] # None
    BY <2>1, ConstantsAssumption
  <2>3. \A i \in Inode : Whole(i) /\ data[i] # None => Whole(i)'
    BY <2>1, WholeFrame DEF Whole, Inode
  <2>4. QED
    BY <1>0, <2>1, <2>2, <2>3 DEF EntryOK
<1>10. QED
  BY <1>1, <1>2, <1>3, <1>4, <1>5, <1>6, <1>7, <1>8, <1>9
     DEF Next, Step, vars, callVars, fsVars, OpenRoot, OpenFolder, CheckAbsent,
         VerifyTemp, StatDest, ReadManifest, ReadFinal, RequalifyRoot, IOError, Crash,
         MoveRoot, MoveFolder

-----------------------------------------------------------------------------
(* Temporary names: O_EXCL gives each to one call at a time. *)

LEMMA OwnTempInit == Init => OwnTempOnly
BY DEF Init, OwnTempOnly

(* No step of publisher p disturbs the temporary of another, q. *)
LEMMA OwnTempStep ==
  ASSUME TypeOK, CallInv, EntryInv, OwnTempOnly, [Next]_vars
  PROVE  OwnTempOnly'
<1> DEFINE Writing == {"write", "syncTemp", "verifyTemp", "link", "syncLink",
                       "statDest", "unlinkTemp"}
<1> SUFFICES ASSUME NEW q \in Publisher, pc'[q] \in Writing
             PROVE  (entry[TempSlot(q)] = Own(q))'
  BY DEF OwnTempOnly
<1>1. ASSUME pc[q] \in Writing, req'[q] = req[q], at'[q] = at[q], parent' = parent,
             entry'[TempSlot(q)] = entry[TempSlot(q)]
      PROVE  (entry[TempSlot(q)] = Own(q))'
  <2>1. entry[TempSlot(q)] = Own(q)
    BY <1>1 DEF OwnTempOnly
  <2>2. TempSlot(q)' = TempSlot(q) /\ Own(q)' = Own(q)
    BY <1>1 DEF TempSlot, Own, Rec, RecordOf
  <2>3. QED
    BY <1>1, <2>1, <2>2
<1>2. CASE UNCHANGED vars
  BY <1>1, <1>2 DEF vars, callVars, fsVars
<1>3. CASE CreateTemp(q)
  <2>1. entry[TempSlot(q)] = None
    BY <1>3 DEF CreateTemp, Goto, TypeOK
  <2>2. TempSlot(q)' = TempSlot(q) /\ Own(q)' = Own(q)
    BY <1>3 DEF CreateTemp, TempSlot, Own, Rec, RecordOf
  <2>3. TempSlot(q) \in Slot
    BY <1>3, SlotFacts DEF CreateTemp, Holding
  <2>4. entry' = [entry EXCEPT ![TempSlot(q)] = Own(q)]
    BY <1>3, <2>1 DEF CreateTemp, SetEntry
  <2>5. QED
    BY <2>2, <2>3, <2>4 DEF TypeOK
<1>4. CASE Link(q)
  <2>1. pc[q] \in Writing /\ entry[TempSlot(q)] = Own(q)
    BY <1>4 DEF Link, OwnTempOnly
  <2>2. TempSlot(q) # DestSlot(q) /\ TempSlot(q) \in Slot
    BY <1>4, SlotFacts DEF Link, Holding
  <2>3. entry'[TempSlot(q)] = entry[TempSlot(q)]
    BY <1>4, <2>2 DEF Link, SetEntry, TypeOK
  <2>4. QED
    BY <1>1, <1>4, <2>1, <2>3 DEF Link
<1>5. CASE Start(q) \/ OpenRoot(q) \/ OpenFolder(q) \/ CheckAbsent(q) \/ UnlinkTemp(q)
             \/ SyncUnlink(q) \/ ReadManifest(q) \/ ReadFinal(q) \/ RequalifyRoot(q)
             \/ IOError(q) \/ Crash(q) \/ PowerLoss
  BY <1>5 DEF Start, OpenRoot, OpenFolder, CheckAbsent, UnlinkTemp, SyncUnlink,
              ReadManifest, ReadFinal, RequalifyRoot, IOError, Crash, PowerLoss, Goto,
              TypeOK, Active, Terminal
<1>6. CASE Write(q) \/ SyncTemp(q) \/ VerifyTemp(q) \/ SyncLink(q) \/ StatDest(q)
  BY <1>1, <1>6 DEF Write, SyncTemp, VerifyTemp, SyncLink, StatDest, callVars, fsVars
<1>7. ASSUME NEW p \in Publisher, p # q,
             Start(p) \/ Step(p) \/ IOError(p) \/ Crash(p)
      PROVE  (entry[TempSlot(q)] = Own(q))'
  <2>1. /\ pc[q] \in Writing
        /\ req'[q] = req[q] /\ at'[q] = at[q]
    BY <1>7 DEF Start, Step, OpenRoot, OpenFolder, CheckAbsent, CreateTemp, Write,
                SyncTemp, VerifyTemp, Link, SyncLink, StatDest, UnlinkTemp, SyncUnlink,
                ReadManifest, ReadFinal, RequalifyRoot, IOError, Crash, Goto, callVars,
                TypeOK
  <2>2. /\ entry[TempSlot(q)] = Own(q) /\ Own(q) # None
        /\ TempSlot(q) \in Slot /\ TempSlot(q)[2] \notin Path
    BY <2>1, SlotFacts, ActiveFacts DEF OwnTempOnly, Holding
  <2>3. parent'[Own(q)] = parent[Own(q)]
    <3>1. Own(q) # Own(p) /\ Own(q) \in Inode
      BY <1>7, <2>1, ActiveFacts DEF Own, Active, Terminal
    <3>2. CASE OpenFolder(p)
      BY <3>1, <3>2 DEF OpenFolder, TypeOK
    <3>3. CASE ~OpenFolder(p)
      BY <1>7, <3>3
         DEF Start, Step, OpenRoot, CheckAbsent, CreateTemp, Write, SyncTemp, VerifyTemp,
             Link, SyncLink, StatDest, UnlinkTemp, SyncUnlink, ReadManifest, ReadFinal,
             RequalifyRoot, IOError, Crash, callVars
    <3>4. QED
      BY <3>2, <3>3
  <2>4. TempSlot(q)' = TempSlot(q) /\ Own(q)' = Own(q)
    BY <2>1, <2>3 DEF TempSlot, Own, Rec, RecordOf
  <2>5. entry'[TempSlot(q)] = entry[TempSlot(q)]
    <3>1. CASE CreateTemp(p)
      BY <2>2, <3>1 DEF CreateTemp, SetEntry, TypeOK
    <3>2. CASE Link(p)
      BY <2>2, <3>2 DEF Link, SetEntry, TypeOK
    <3>3. CASE UnlinkTemp(p)
      <4>1. entry[TempSlot(p)] = Own(p)
        BY <3>3 DEF UnlinkTemp, OwnTempOnly
      <4>2. Own(p) # Own(q)
        BY <1>7 DEF Own
      <4>3. QED
        BY <2>2, <3>3, <4>1, <4>2 DEF UnlinkTemp, SetEntry, TypeOK
    <3>4. CASE ~(CreateTemp(p) \/ Link(p) \/ UnlinkTemp(p))
      BY <1>7, <3>4
         DEF Start, Step, OpenRoot, OpenFolder, CheckAbsent, Write, SyncTemp, VerifyTemp,
             SyncLink, StatDest, SyncUnlink, ReadManifest, ReadFinal, RequalifyRoot,
             IOError, Crash, fsVars
    <3>5. QED
      BY <3>1, <3>2, <3>3, <3>4
  <2>6. QED
    BY <2>2, <2>4, <2>5
<1>8. CASE MoveRoot \/ MoveFolder
  BY <1>1, <1>8 DEF MoveRoot, MoveFolder, fsVars
<1>9. QED
  BY <1>2, <1>3, <1>4, <1>5, <1>6, <1>7, <1>8 DEF Next, Step

-----------------------------------------------------------------------------
(* What has been published and fsynced stays. *)

(* A destination whose entry and bytes are on disk keeps both for good. *)
LEMMA DurableStep ==
  ASSUME TypeOK, CallInv, DataInv, EntryInv, OwnTempOnly, [Next]_vars,
         NEW s \in DestSlots, NEW i \in Inode,
         entry[s] = i, disk[s] = {i}, i \in synced
  PROVE  entry'[s] = i /\ disk'[s] = {i} /\ i \in synced' /\ data'[i] = data[i]
<1>0. /\ s \in Slot /\ s[2] \in Path /\ s[2] \notin Identity /\ i # None
      /\ data[i] # None /\ Whole(i)
  BY ConstantsAssumption DEF DestSlots, Slot, Name, EntryInv, EntryOK
<1>1. CASE UNCHANGED fsVars
  BY <1>1 DEF fsVars
<1>2. ASSUME NEW p \in Publisher, CreateTemp(p)
      PROVE  entry'[s] = i /\ disk'[s] = {i} /\ i \in synced' /\ data'[i] = data[i]
  <2>1. Own(p) # i
    BY <1>0, <1>2 DEF CreateTemp, DataInv, DataOK
  <2>2. TempSlot(p) # s
    BY <1>0, <1>2, SlotFacts DEF CreateTemp, Holding
  <2>3. QED
    BY <1>0, <1>2, <2>1, <2>2 DEF CreateTemp, SetEntry, TypeOK
<1>3. ASSUME NEW p \in Publisher, Write(p)
      PROVE  entry'[s] = i /\ disk'[s] = {i} /\ i \in synced' /\ data'[i] = data[i]
  <2>1. Own(p) = i => data[i] = Rec(p)
    BY <1>0 DEF Whole, Own, Rec
  <2>2. QED
    BY <1>3, <2>1 DEF Write, TypeOK
<1>4. ASSUME NEW p \in Publisher, SyncTemp(p)
      PROVE  entry'[s] = i /\ disk'[s] = {i} /\ i \in synced' /\ data'[i] = data[i]
  BY <1>4 DEF SyncTemp
<1>5. ASSUME NEW p \in Publisher, Link(p)
      PROVE  entry'[s] = i /\ disk'[s] = {i} /\ i \in synced' /\ data'[i] = data[i]
  BY <1>0, <1>5 DEF Link, SetEntry, TypeOK
<1>6. ASSUME NEW p \in Publisher, SyncLink(p) \/ SyncUnlink(p)
      PROVE  entry'[s] = i /\ disk'[s] = {i} /\ i \in synced' /\ data'[i] = data[i]
  BY <1>0, <1>6 DEF SyncLink, SyncUnlink, SyncFolder
<1>7. ASSUME NEW p \in Publisher, UnlinkTemp(p)
      PROVE  entry'[s] = i /\ disk'[s] = {i} /\ i \in synced' /\ data'[i] = data[i]
  <2>1. TempSlot(p) # s
    BY <1>0, <1>7, SlotFacts DEF UnlinkTemp, Holding
  <2>2. QED
    BY <1>0, <1>7, <2>1 DEF UnlinkTemp, SetEntry, TypeOK
<1>8. CASE PowerLoss
  BY <1>0, <1>8 DEF PowerLoss
<1>9. QED
  BY <1>1, <1>2, <1>3, <1>4, <1>5, <1>6, <1>7, <1>8
     DEF Next, Step, vars, Start, OpenRoot, OpenFolder, CheckAbsent, VerifyTemp,
         StatDest, ReadManifest, ReadFinal, RequalifyRoot, IOError, Crash, MoveRoot,
         MoveFolder

LEMMA PublishedFrame ==
  ASSUME TypeOK, CallInv, DataInv, EntryInv, OwnTempOnly, [Next]_vars,
         NEW q \in Publisher, NEW k \in {1, 2}, pc[q] # "idle", Published(q, k)
  PROVE  Published(q, k)'
<1> DEFINE i == <<q, k>>
           s == <<parent[i], PathOf(q, k)>>
<1>1. req[q] \in Request /\ i \in Inode
  BY DEF CallInv, CallOK, Inode
<1>2. PathOf(q, k) \in Path
  BY <1>1, ConstantsAssumption DEF PathOf
<1>3. s \in DestSlots /\ s \in Slot
  BY <1>2 DEF Published, DestSlots, Slot, Name
<1>4. entry'[s] = i /\ disk'[s] = {i} /\ i \in synced' /\ data'[i] = data[i]
  BY <1>1, <1>3, DurableStep DEF Published
<1>5. data[i] # None
  BY <1>1, <1>3, ConstantsAssumption DEF Published, EntryInv, EntryOK
<1>6. req'[q] = req[q]
  BY DEF Next, Step, vars, Start, OpenRoot, OpenFolder, CheckAbsent, CreateTemp, Write,
         SyncTemp, VerifyTemp, Link, SyncLink, StatDest, UnlinkTemp, SyncUnlink,
         ReadManifest, ReadFinal, RequalifyRoot, IOError, Crash, PowerLoss, MoveRoot,
         MoveFolder, callVars, TypeOK
<1>7. parent'[i] = parent[i]
  <2>1. ASSUME NEW p \in Publisher, OpenFolder(p)
        PROVE  parent'[i] = parent[i]
    <3>1. Own(p) # i
      BY <1>5, <2>1 DEF OpenFolder, DataInv, DataOK
    <3>2. QED
      BY <1>1, <2>1, <3>1 DEF OpenFolder, TypeOK
  <2>2. CASE UNCHANGED parent
    BY <2>2
  <2>3. QED
    BY <2>1, <2>2
       DEF Next, Step, vars, Start, OpenRoot, CheckAbsent, CreateTemp, Write, SyncTemp,
           VerifyTemp, Link, SyncLink, StatDest, UnlinkTemp, SyncUnlink, ReadManifest,
           ReadFinal, RequalifyRoot, IOError, Crash, PowerLoss, MoveRoot, MoveFolder,
           callVars
<1>8. PathOf(q, k)' = PathOf(q, k) /\ RecordOf(q, k)' = RecordOf(q, k)
  BY <1>6 DEF PathOf, RecordOf
<1>9. QED
  BY <1>4, <1>7, <1>8 DEF Published

LEMMA PublishedInit == Init => PublishedInv
BY DEF Init, PublishedInv, PublishedOK, Reading

LEMMA PublishedStep ==
  ASSUME TypeOK, CallInv, DataInv, EntryInv, OwnTempOnly, PublishedInv, [Next]_vars
  PROVE  PublishedInv'
<1> SUFFICES ASSUME NEW q \in Publisher
             PROVE  PublishedOK(q)'
  BY DEF PublishedInv
<1>0. PublishedOK(q) /\ at[q] \in {1, 2}
  BY DEF PublishedInv, TypeOK
<1>1. at[q] = 2 => Published(q, 1)'
  BY <1>0, PublishedFrame DEF PublishedOK, CallInv, CallOK
<1>2. ASSUME pc[q] \in {"statDest", "unlinkTemp", "syncUnlink"} \cup Reading,
             NEW k \in {1, 2}, k = at[q]
      PROVE  Published(q, k)'
  BY <1>0, <1>2, PublishedFrame DEF PublishedOK, Reading
<1>3. CASE Start(q)
  BY <1>0, <1>1, <1>3 DEF Start, TypeOK, Goto, PublishedOK, Reading
<1>4. CASE OpenRoot(q) \/ OpenFolder(q) \/ CheckAbsent(q) \/ CreateTemp(q) \/ Write(q)
             \/ SyncTemp(q) \/ VerifyTemp(q)
  <2>1. at' = at /\ pc'[q] \in {"openFolder", "checkAbsent", "createTemp", "write",
                                "syncTemp", "verifyTemp", "link", "failed"}
    BY <1>4 DEF OpenRoot, OpenFolder, CheckAbsent, CreateTemp, Write, SyncTemp,
                VerifyTemp, callVars, TypeOK, Goto
  <2>2. QED
    BY <1>1, <2>1 DEF PublishedOK, Reading
<1>5. CASE Link(q)
  <2>1. at' = at /\ req' = req /\ parent' = parent /\ pc'[q] \in {"syncLink", "failed"}
    BY <1>5 DEF Link, Goto, TypeOK
  <2>2. pc'[q] = "syncLink" => entry'[DestSlot(q)] = Own(q)
    <3>1. DestSlot(q) \in Slot /\ entry[TempSlot(q)] = Own(q)
      BY <1>5, SlotFacts DEF Link, Holding, OwnTempOnly
    <3>2. QED
      BY <1>5, <3>1 DEF Link, Goto, TypeOK, SetEntry
  <2>3. DestSlot(q)' = DestSlot(q) /\ Own(q)' = Own(q)
    BY <2>1 DEF DestSlot, PathOf, Own
  <2>4. QED
    BY <1>1, <2>1, <2>2, <2>3 DEF PublishedOK, Reading
<1>6. CASE SyncLink(q)
  <2>1. /\ UNCHANGED <<at, req, parent, entry, data, synced>>
        /\ pc'[q] = "statDest"
    BY <1>6 DEF SyncLink, callVars, Goto, TypeOK
  <2>2. /\ entry[DestSlot(q)] = Own(q) /\ Own(q) \in synced /\ data[Own(q)] = Rec(q)
        /\ parent[Own(q)] \in Folder /\ DestSlot(q) \in Slot
        /\ DestSlot(q)[1] = parent[Own(q)]
    BY <1>0, <1>6, SlotFacts DEF SyncLink, Holding, PublishedOK, DataInv, DataOK
  <2>3. disk'[DestSlot(q)] = {Own(q)}
    BY <1>6, <2>2 DEF SyncLink, SyncFolder
  <2>4. Published(q, at[q])'
    BY <2>1, <2>2, <2>3 DEF Published, DestSlot, Own, Rec, PathOf, RecordOf
  <2>5. QED
    BY <1>1, <2>1, <2>4 DEF PublishedOK, Reading
<1>7. CASE StatDest(q) \/ UnlinkTemp(q)
  <2>1. at' = at /\ pc'[q] \in {"unlinkTemp", "syncUnlink", "failed"}
    BY <1>7 DEF StatDest, UnlinkTemp, callVars, Goto, TypeOK
  <2>2. \A k \in {1, 2} : k = at[q] => Published(q, k)'
    BY <1>2, <1>7 DEF StatDest, UnlinkTemp
  <2>3. QED
    BY <1>0, <1>1, <2>1, <2>2 DEF PublishedOK, Reading
<1>8. CASE SyncUnlink(q)
  <2>1. \A k \in {1, 2} : k = at[q] => Published(q, k)'
    BY <1>2, <1>8 DEF SyncUnlink
  <2>2. CASE at[q] = 1 /\ req[q].final # None
    <3>1. at'[q] = 2 /\ pc'[q] = "openFolder"
      BY <1>8, <2>2 DEF SyncUnlink, Goto, TypeOK
    <3>2. QED
      BY <2>1, <2>2, <3>1 DEF PublishedOK, Reading
  <2>3. CASE ~(at[q] = 1 /\ req[q].final # None)
    <3>1. at' = at /\ pc'[q] = "readManifest" /\ req' = req
      BY <1>8, <2>3 DEF SyncUnlink, Goto, TypeOK
    <3>2. QED
      BY <1>0, <1>1, <2>1, <2>3, <3>1 DEF PublishedOK, Reading
  <2>4. QED
    BY <2>2, <2>3
<1>9. CASE ReadManifest(q) \/ ReadFinal(q) \/ RequalifyRoot(q)
  <2>1. at' = at /\ req' = req /\ pc'[q] \in Reading \cup {"failed"} /\ pc[q] \in Reading
    BY <1>9 DEF ReadManifest, ReadFinal, RequalifyRoot, callVars, Goto, TypeOK, Reading
  <2>2. QED
    BY <1>0, <1>1, <1>2, <2>1 DEF PublishedOK, Reading
<1>10. CASE IOError(q) \/ Crash(q) \/ (PowerLoss /\ Active(q))
  <2>1. at' = at /\ pc'[q] \in {"failed", "crashed"}
    BY <1>10 DEF IOError, Crash, PowerLoss, callVars, Goto, TypeOK
  <2>2. QED
    BY <1>1, <2>1 DEF PublishedOK, Reading
<1>11. ASSUME pc'[q] = pc[q], at'[q] = at[q], req'[q] = req[q],
              parent'[Own(q)] = parent[Own(q)],
              pc[q] = "syncLink" => entry'[DestSlot(q)] = entry[DestSlot(q)]
       PROVE  PublishedOK(q)'
  <2>1. DestSlot(q)' = DestSlot(q) /\ Own(q)' = Own(q)
    BY <1>11 DEF DestSlot, PathOf, Own
  <2>2. QED
    BY <1>0, <1>1, <1>2, <1>11, <2>1 DEF PublishedOK
<1>12. CASE UNCHANGED vars \/ MoveRoot \/ MoveFolder
  BY <1>11, <1>12 DEF vars, callVars, fsVars, MoveRoot, MoveFolder
<1>13. CASE PowerLoss /\ ~Active(q)
  BY <1>11, <1>13 DEF PowerLoss, callVars, Active, Terminal
<1>14. ASSUME NEW p \in Publisher, p # q,
              Start(p) \/ Step(p) \/ IOError(p) \/ Crash(p)
       PROVE  PublishedOK(q)'
  <2>1. pc'[q] = pc[q] /\ at'[q] = at[q] /\ req'[q] = req[q]
    BY <1>14 DEF Start, Step, OpenRoot, OpenFolder, CheckAbsent, CreateTemp, Write,
                 SyncTemp, VerifyTemp, Link, SyncLink, StatDest, UnlinkTemp, SyncUnlink,
                 ReadManifest, ReadFinal, RequalifyRoot, IOError, Crash, Goto, callVars,
                 TypeOK
  <2>2. parent'[Own(q)] = parent[Own(q)]
    <3>1. Own(q) # Own(p) /\ Own(q) \in Inode
      BY <1>0, <1>14 DEF Own, Inode
    <3>2. CASE OpenFolder(p)
      BY <3>1, <3>2 DEF OpenFolder, TypeOK
    <3>3. CASE ~OpenFolder(p)
      BY <1>14, <3>3
         DEF Start, Step, OpenRoot, CheckAbsent, CreateTemp, Write, SyncTemp, VerifyTemp,
             Link, SyncLink, StatDest, UnlinkTemp, SyncUnlink, ReadManifest, ReadFinal,
             RequalifyRoot, IOError, Crash, callVars
    <3>4. QED
      BY <3>2, <3>3
  <2>3. ASSUME pc[q] = "syncLink"
        PROVE  entry'[DestSlot(q)] = entry[DestSlot(q)]
    <3>1. /\ entry[DestSlot(q)] = Own(q) /\ Own(q) # None
          /\ DestSlot(q) \in Slot /\ DestSlot(q)[2] \notin Identity
      BY <1>0, <2>3, SlotFacts, ActiveFacts DEF Holding, PublishedOK
    <3>2. CASE CreateTemp(p) \/ UnlinkTemp(p)
      <4>1. TempSlot(p)[2] \in Identity
        BY <3>2, SlotFacts DEF CreateTemp, UnlinkTemp, Holding
      <4>2. QED
        BY <3>1, <3>2, <4>1 DEF CreateTemp, UnlinkTemp, SetEntry, TypeOK
    <3>3. CASE Link(p)
      BY <3>1, <3>3 DEF Link, SetEntry, TypeOK
    <3>4. CASE ~(CreateTemp(p) \/ Link(p) \/ UnlinkTemp(p))
      BY <1>14, <3>4
         DEF Start, Step, OpenRoot, OpenFolder, CheckAbsent, Write, SyncTemp, VerifyTemp,
             SyncLink, StatDest, SyncUnlink, ReadManifest, ReadFinal, RequalifyRoot,
             IOError, Crash, fsVars
    <3>5. QED
      BY <3>2, <3>3, <3>4
  <2>4. QED
    BY <1>11, <2>1, <2>2, <2>3
<1>15. QED
  BY <1>3, <1>4, <1>5, <1>6, <1>7, <1>8, <1>9, <1>10, <1>12, <1>13, <1>14 DEF Next, Step

-----------------------------------------------------------------------------
(* The theorems. *)

LEMMA InvStep == IInv /\ [Next]_vars => IInv'
BY TypeStep, CallStep, DataStep, EntryStep, OwnTempStep, PublishedStep DEF IInv

(* The strengthened invariant holds in every reachable state of the        *)
(* publication protocol, whatever calls race, fail or die.                 *)
THEOREM Invariance == Spec => []IInv
<1>1. Init => IInv
  BY TypeInit, CallInit, DataInit, EntryInit, OwnTempInit, PublishedInit DEF IInv
<1>2. QED
  BY <1>1, InvStep, PTL DEF Spec

(* Every variable keeps to the values the code can give it. *)
THEOREM TypeCorrect == Spec => []TypeOK
<1>1. IInv => TypeOK
  BY DEF IInv
<1>2. QED
  BY <1>1, Invariance, PTL

(* A publisher links and unlinks by name, and only its own file. *)
THEOREM TemporariesAreOwned == Spec => []OwnTempOnly
<1>1. IInv => OwnTempOnly
  BY DEF IInv
<1>2. QED
  BY <1>1, Invariance, PTL

(* A file a destination names, or may name after a power failure, belongs *)
(* to a call that has made its request.                                   *)
LEMMA DestFacts ==
  ASSUME IInv, NEW s \in DestSlots, NEW i \in disk[s] \ {None}
  PROVE  /\ s \in Slot /\ i \in Inode /\ i # None
         /\ i[1] \in Publisher /\ i[2] \in {1, 2}
         /\ pc[i[1]] # "idle" /\ req[i[1]] \in Request
         /\ Whole(i) /\ data[i] = RecordOf(i[1], i[2]) /\ data[i] \in Record
         /\ i[2] = 2 => at[i[1]] = 2 /\ req[i[1]].final # None
<1>1. s \in Slot /\ s[2] \in Path
  BY DEF DestSlots, Slot, Name
<1>2. i \in Inode /\ i # None /\ i[1] \in Publisher /\ i[2] \in {1, 2}
  BY <1>1 DEF IInv, TypeOK, Inode
<1>3. Whole(i) /\ data[i] # None
  BY <1>1 DEF IInv, EntryInv, EntryOK
<1>4. pc[i[1]] # "idle"
  <2>1. SUFFICES ASSUME pc[i[1]] = "idle"
                 PROVE  data[i] = None
    BY <1>3
  <2>2. at[i[1]] = 1 /\ data[<<i[1], 1>>] = None /\ data[<<i[1], 2>>] = None
    BY <1>2, <2>1 DEF IInv, CallInv, CallOK, DataInv, DataOK, Own
  <2>3. i = <<i[1], 1>> \/ i = <<i[1], 2>>
    BY <1>2 DEF Inode
  <2>4. QED
    BY <2>2, <2>3
<1>5. req[i[1]] \in Request
  BY <1>2, <1>4 DEF IInv, CallInv, CallOK
<1>6. i[2] = 2 => at[i[1]] = 2 /\ req[i[1]].final # None
  BY <1>2, <1>3 DEF IInv, TypeOK, CallInv, CallOK, Whole
<1>7. data[i] = RecordOf(i[1], i[2]) /\ data[i] \in Record
  BY <1>2, <1>3, <1>5, <1>6, RequestFacts DEF Whole
<1>8. QED
  BY <1>1, <1>2, <1>3, <1>4, <1>5, <1>6, <1>7

(* No destination ever shows a partial record, before or after a power *)
(* failure.                                                            *)
THEOREM NeverTorn == Spec => []NoTornDestination
<1>1. IInv => NoTornDestination
  BY DestFacts DEF NoTornDestination, Whole
<1>2. QED
  BY <1>1, Invariance, PTL

(* A published file is where its call put it, and durable. *)
LEMMA PublishedFacts ==
  ASSUME IInv, NEW q \in Publisher, NEW k \in {1, 2}, Published(q, k),
         req[q] \in Request, k = 2 => req[q].final # None
  PROVE  LET s == <<parent[<<q, k>>], PathOf(q, k)>>
         IN /\ s \in DestSlots
            /\ Durable(s)
            /\ entry[s] = <<q, k>>
            /\ entry[s] # None
            /\ disk[s] = {<<q, k>>}
            /\ data[entry[s]] = RecordOf(q, k)
<1>1. <<q, k>> \in Inode /\ <<q, k>> # None
  BY ConstantsAssumption DEF Inode
<1>2. PathOf(q, k) \in Path
  BY RequestFacts
<1>3. QED
  BY <1>1, <1>2 DEF Published, Durable, DestSlots

(* The result that file i holds was published by a call that had made the *)
(* manifest the result is bound to durable.                               *)
LEMMA ManifestFacts ==
  ASSUME IInv, NEW q \in Publisher, at[q] = 2
  PROVE  LET t == <<parent[<<q, 1>>], PathOf(q, 1)>>
         IN /\ t \in DestSlots
            /\ Durable(t)
            /\ data[entry[t]] \in Manifest
            /\ IdentityOf[data[entry[t]]] = Cites[RecordOf(q, 2)]
<1>1. /\ pc[q] # "idle" /\ req[q] \in Request /\ req[q].final # None
      /\ Admissible(req[q]) /\ Published(q, 1)
  BY DEF IInv, CallInv, CallOK, PublishedInv, PublishedOK
<1>2. RecordOf(q, 1) \in Manifest /\ IdentityOf[RecordOf(q, 1)] = Cites[RecordOf(q, 2)]
  BY <1>1, ConstantsAssumption DEF RecordOf, Admissible
<1>3. QED
  BY <1>1, <1>2, PublishedFacts

(* A final result is never found without a durable manifest it is bound to. *)
THEOREM ManifestFirst == Spec => []FinalAfterManifest
<1>1. ASSUME IInv
      PROVE  FinalAfterManifest
  <2> SUFFICES ASSUME NEW s \in DestSlots, NEW i \in disk[s] \ {None}, data[i] \in Final
               PROVE  \E t \in DestSlots :
                        /\ Durable(t)
                        /\ data[entry[t]] \in Manifest
                        /\ IdentityOf[data[entry[t]]] = Cites[data[i]]
    BY DEF FinalAfterManifest
  <2>1. i[2] = 2
    <3>1. i[2] = 1 => data[i] \in Manifest
      BY <1>1, DestFacts, ConstantsAssumption DEF RecordOf
    <3>2. QED
      BY <1>1, <3>1, DestFacts, ConstantsAssumption
  <2>2. i[1] \in Publisher /\ at[i[1]] = 2 /\ data[i] = RecordOf(i[1], 2)
    BY <1>1, <2>1, DestFacts
  <2>3. QED
    BY <1>1, <2>2, ManifestFacts
<1>2. QED
  BY <1>1, Invariance, PTL

LEMMA DoneFacts ==
  ASSUME IInv, NEW p \in Publisher, pc[p] = "done", NEW k \in Records(p)
  PROVE  /\ k \in {1, 2} /\ Published(p, k) /\ req[p] \in Request
         /\ k = 2 => req[p].final # None
<1>1. /\ req[p] \in Request /\ at[p] \in {1, 2}
      /\ at[p] = 2 => req[p].final # None /\ Published(p, 1)
      /\ at[p] = 1 => req[p].final = None
      /\ Published(p, at[p])
  BY DEF IInv, TypeOK, CallInv, CallOK, PublishedInv, PublishedOK, Reading
<1>2. QED
  BY <1>1 DEF Records

(* A call that returned has made its records durable, for good. *)
THEOREM SuccessLasts == Spec => []SuccessIsDurable
<1>1. ASSUME IInv
      PROVE  SuccessIsDurable
  BY <1>1, DoneFacts, PublishedFacts DEF SuccessIsDurable
<1>2. QED
  BY <1>1, Invariance, PTL

(* Two calls that returned share no destination. *)
THEOREM DestinationsAreExclusive == Spec => []OneWinner
<1>1. ASSUME IInv
      PROVE  OneWinner
  <2> SUFFICES ASSUME NEW p \in Publisher, NEW q \in Publisher, pc[p] = "done",
                      pc[q] = "done", p # q, NEW k \in Records(p), NEW l \in Records(q)
               PROVE  <<parent[<<p, k>>], PathOf(p, k)>> # <<parent[<<q, l>>], PathOf(q, l)>>
    BY DEF OneWinner
  <2>1. entry[<<parent[<<p, k>>], PathOf(p, k)>>] = <<p, k>>
    BY <1>1, DoneFacts DEF Published
  <2>2. entry[<<parent[<<q, l>>], PathOf(q, l)>>] = <<q, l>>
    BY <1>1, DoneFacts DEF Published
  <2>3. QED
    BY <2>1, <2>2
<1>2. QED
  BY <1>1, Invariance, PTL

(* No step but a power failure takes a destination away or makes it name    *)
(* another file, and that only where its directory had not been fsynced.    *)
THEOREM CreateOnce == Spec => NoReplace
<1>1. ASSUME IInv, [Next]_vars, NEW s \in DestSlots, entry[s] # None
      PROVE  entry'[s] = entry[s] \/ (PowerLoss /\ None \in disk[s])
  <2>0. /\ s \in Slot /\ s[2] \in Path /\ s[2] \notin Identity
        /\ entry[s] \in disk[s] /\ disk[s] \subseteq {None, entry[s]}
    BY <1>1, ConstantsAssumption
       DEF DestSlots, Slot, Name, IInv, EntryInv, EntryOK
  <2>1. ASSUME NEW p \in Publisher, CreateTemp(p) \/ UnlinkTemp(p)
        PROVE  entry'[s] = entry[s]
    <3>1. TempSlot(p)[2] \in Identity
      BY <1>1, <2>1, SlotFacts DEF CreateTemp, UnlinkTemp, Holding, IInv
    <3>2. QED
      BY <1>1, <2>0, <2>1, <3>1 DEF CreateTemp, UnlinkTemp, SetEntry, IInv, TypeOK
  <2>2. ASSUME NEW p \in Publisher, Link(p)
        PROVE  entry'[s] = entry[s]
    BY <1>1, <2>0, <2>2 DEF Link, SetEntry, IInv, TypeOK
  <2>3. CASE PowerLoss
    BY <1>1, <2>0, <2>3 DEF PowerLoss
  <2>4. CASE UNCHANGED entry
    BY <2>4
  <2>5. QED
    BY <1>1, <2>1, <2>2, <2>3, <2>4
       DEF Next, Step, vars, Start, OpenRoot, OpenFolder, CheckAbsent, Write, SyncTemp,
           VerifyTemp, SyncLink, StatDest, SyncUnlink, ReadManifest, ReadFinal,
           RequalifyRoot, IOError, Crash, MoveRoot, MoveFolder, fsVars
<1>2. IInv /\ [Next]_vars =>
        [\A s \in DestSlots : entry[s] # None =>
           \/ entry'[s] = entry[s]
           \/ PowerLoss /\ None \in disk[s]]_vars
  BY <1>1
<1>3. QED
  BY <1>2, Invariance, PTL DEF Spec, NoReplace

(* What a call that ended left behind is nobody's to clean up. *)
THEOREM LeftoversStay == Spec => NoCleanup
<1>1. ASSUME IInv, [Next]_vars, NEW p \in Publisher, NEW k \in {1, 2}, NEW s \in Slot,
             entry[s] = <<p, k>>, pc[p] \in Terminal
      PROVE  entry'[s] = entry[s] \/ PowerLoss
  <2>0. entry[s] # None
    BY <1>1, ConstantsAssumption DEF Inode
  <2>1. ASSUME NEW q \in Publisher, CreateTemp(q)
        PROVE  entry'[s] = entry[s]
    BY <1>1, <2>0, <2>1 DEF CreateTemp, SetEntry, IInv, TypeOK
  <2>2. ASSUME NEW q \in Publisher, Link(q)
        PROVE  entry'[s] = entry[s]
    BY <1>1, <2>0, <2>2 DEF Link, SetEntry, IInv, TypeOK
  <2>3. ASSUME NEW q \in Publisher, UnlinkTemp(q)
        PROVE  entry'[s] = entry[s]
    <3>1. entry[TempSlot(q)] = Own(q) /\ q # p
      BY <1>1, <2>3 DEF UnlinkTemp, IInv, OwnTempOnly, Terminal
    <3>2. s # TempSlot(q)
      BY <1>1, <3>1 DEF Own
    <3>3. QED
      BY <1>1, <2>3, <3>2 DEF UnlinkTemp, SetEntry, IInv, TypeOK
  <2>4. CASE UNCHANGED entry
    BY <2>4
  <2>5. QED
    BY <1>1, <2>1, <2>2, <2>3, <2>4
       DEF Next, Step, vars, Start, OpenRoot, OpenFolder, CheckAbsent, Write, SyncTemp,
           VerifyTemp, SyncLink, StatDest, SyncUnlink, ReadManifest, ReadFinal,
           RequalifyRoot, IOError, Crash, MoveRoot, MoveFolder, fsVars
<1>2. IInv /\ [Next]_vars =>
        [\A p \in Publisher, k \in {1, 2}, s \in Slot :
           (entry[s] = <<p, k>> /\ pc[p] \in Terminal) =>
             entry'[s] = entry[s] \/ PowerLoss]_vars
  BY <1>1
<1>3. QED
  BY <1>2, Invariance, PTL DEF Spec, NoCleanup

-----------------------------------------------------------------------------
(* Publication implements EvidenceStore. *)

LEMMA ShownFacts ==
  ASSUME IInv, NEW s \in DestSlots
  PROVE  /\ s \in Slot
         /\ Shown[s] = IF entry[s] = None THEN None ELSE data[entry[s]]
         /\ entry[s] # None => entry[s] \in disk[s] \ {None}
         /\ Shown[s] \in Record \cup {None}
         /\ Shown[s] = None <=> entry[s] = None
         /\ s \in Settled => entry[s] # None
         /\ s \in Settled <=> None \notin disk[s]
<1>1. s \in Slot /\ entry[s] \in disk[s]
  BY DEF DestSlots, Slot, Name, IInv, EntryInv, EntryOK
<1>2. entry[s] # None => data[entry[s]] \in Record
  BY <1>1, DestFacts
<1>3. QED
  BY <1>1, <1>2, ConstantsAssumption DEF Shown, Settled

(* The steps that change neither what is shown nor what has settled. *)
LEMMA ShownFrame ==
  ASSUME IInv,
         \A s \in DestSlots : /\ entry'[s] = entry[s] /\ disk'[s] = disk[s]
                              /\ entry[s] # None => data'[entry[s]] = data[entry[s]]
  PROVE  Shown' = Shown /\ Settled' = Settled
BY DEF Shown, Settled

LEMMA LinkPublishes ==
  ASSUME IInv, NEW p \in Publisher, Link(p), entry[TempSlot(p)] # None,
         entry[DestSlot(p)] = None
  PROVE  Store!Publish(DestSlot(p), Rec(p))
<1>1. /\ DestSlot(p) \in DestSlots /\ DestSlot(p) \in Slot
      /\ entry[TempSlot(p)] = Own(p) /\ Own(p) # None /\ Own(p) \in Inode
      /\ Rec(p) \in Record /\ data[Own(p)] = Rec(p)
  BY SlotFacts, ActiveFacts DEF Link, Holding, IInv, OwnTempOnly, DataInv, DataOK
<1>2. /\ entry' = [entry EXCEPT ![DestSlot(p)] = Own(p)]
      /\ disk' = [disk EXCEPT ![DestSlot(p)] = @ \cup {Own(p)}]
      /\ data' = data
  BY <1>1 DEF Link, SetEntry
<1>3. Shown[DestSlot(p)] = None
  BY <1>1 DEF Shown
<1>4. Shown' = [Shown EXCEPT ![DestSlot(p)] = Rec(p)]
  <2>1. \A s \in DestSlots : s \in Slot
    BY ShownFacts
  <2>2. QED
    BY <1>1, <1>2, <2>1 DEF Shown, IInv, TypeOK
<1>5. Settled' = Settled
  <2>1. \A s \in DestSlots : None \in disk'[s] <=> None \in disk[s]
    BY <1>1, <1>2, ShownFacts DEF IInv, TypeOK
  <2>2. QED
    BY <2>1 DEF Settled
<1>6. ASSUME Rec(p) \in Final
      PROVE  Store!Backed(Rec(p))
  <2>1. at[p] = 2
    <3>1. at[p] = 1 => Rec(p) \in Manifest
      BY ActiveFacts, ConstantsAssumption DEF Link, Active, Terminal, IInv, Rec, RecordOf
    <3>2. QED
      BY <1>6, <3>1, ConstantsAssumption DEF IInv, TypeOK
  <2> DEFINE t == <<parent[<<p, 1>>], PathOf(p, 1)>>
  <2>2. /\ t \in DestSlots /\ Durable(t)
        /\ data[entry[t]] \in Manifest
        /\ IdentityOf[data[entry[t]]] = Cites[Rec(p)]
    BY <2>1, ManifestFacts DEF Rec
  <2>3. t \in Settled /\ Shown[t] = data[entry[t]]
    BY <2>2 DEF Durable, Settled, Shown
  <2>4. QED
    BY <2>2, <2>3 DEF Store!Backed
<1>7. QED
  BY <1>3, <1>4, <1>5, <1>6 DEF Store!Publish

LEMMA SyncSettles ==
  ASSUME IInv, NEW f, SyncFolder(f), UNCHANGED <<entry, data>>
  PROVE  Store!Settle
<1>1. Shown' = Shown
  BY DEF Shown
<1>2. \A s \in DestSlots : disk'[s] = disk[s] \/ disk'[s] = {entry[s]}
  BY ShownFacts DEF SyncFolder
<1>3. Settled \subseteq Settled'
  BY <1>2, ShownFacts DEF Settled
<1>4. Settled' \subseteq {s \in DestSlots : Shown[s] # None}
  BY <1>2, ShownFacts DEF Settled
<1>5. QED
  BY <1>1, <1>3, <1>4 DEF Store!Settle

LEMMA PowerLossIsAllowed ==
  ASSUME IInv, IInv', PowerLoss
  PROVE  Store!PowerLoss
<1>1. ASSUME NEW s \in DestSlots
      PROVE  /\ Shown'[s] = Shown[s] \/ (Shown'[s] = None /\ s \notin Settled)
             /\ Shown'[s] \in Record \cup {None}
             /\ s \in Settled' <=> Shown'[s] # None
  <2>1. /\ s \in Slot /\ entry[s] \in disk[s] /\ disk[s] \subseteq {None, entry[s]}
        /\ \A i \in disk[s] \ {None} : i \in synced /\ i \in Inode
    BY DestFacts DEF DestSlots, Slot, Name, IInv, EntryInv, EntryOK, Whole
  <2>2. entry'[s] \in disk[s] /\ disk'[s] = {entry'[s]}
    BY <2>1 DEF PowerLoss
  <2>3. entry[s] # None => data'[entry[s]] = data[entry[s]]
    BY <2>1 DEF PowerLoss
  <2>4. Shown'[s] = IF entry'[s] = None THEN None ELSE data'[entry'[s]]
    BY DEF Shown, DestSlots
  <2>5. Shown'[s] = Shown[s] \/ (Shown'[s] = None /\ s \notin Settled)
    BY <2>1, <2>2, <2>3, <2>4, ShownFacts
  <2>6. Shown'[s] = None <=> entry'[s] = None
    BY <2>1, <2>2, <2>3, <2>4, ShownFacts
  <2>7. s \in Settled' <=> Shown'[s] # None
    BY <2>2, <2>6 DEF Settled, DestSlots
  <2>8. QED
    BY <2>5, <2>7, ShownFacts
<1>2. Shown' \in [DestSlots -> Record \cup {None}]
  BY <1>1 DEF Shown, DestSlots
<1>3. Settled' = {s \in DestSlots : Shown'[s] # None}
  BY <1>1 DEF Settled, DestSlots
<1>4. QED
  BY <1>1, <1>2, <1>3 DEF Store!PowerLoss, Store!Record, Record

LEMMA StepImplements ==
  ASSUME IInv, IInv', [Next]_vars
  PROVE  [Store!Next]_(Store!vars)
<1> SUFFICES \/ Store!Next
             \/ Shown' = Shown /\ Settled' = Settled
  BY DEF Store!vars
<1>1. CASE UNCHANGED <<entry, disk, data>>
  BY <1>1 DEF Shown, Settled
<1>2. ASSUME NEW p \in Publisher, CreateTemp(p)
      PROVE  Shown' = Shown /\ Settled' = Settled
  <2>1. /\ TempSlot(p)[2] \notin Path /\ data[Own(p)] = None
    BY <1>2, SlotFacts DEF CreateTemp, Holding, IInv, DataInv, DataOK
  <2>2. \A s \in DestSlots : s # TempSlot(p) /\ s \in Slot /\ entry[s] # Own(p)
    <3>1. \A s \in DestSlots : entry[s] # None => data[entry[s]] # None
      BY ShownFacts
    <3>2. QED
      BY <1>2, <2>1, <3>1, ActiveFacts, ShownFacts
         DEF DestSlots, CreateTemp, Active, Terminal, IInv
  <2>3. QED
    BY <1>2, <2>2, ShownFrame DEF CreateTemp, SetEntry, IInv, TypeOK
<1>3. ASSUME NEW p \in Publisher, Write(p)
      PROVE  Shown' = Shown /\ Settled' = Settled
  <2>1. \A s \in DestSlots : entry[s] = Own(p) /\ entry[s] # None => data[Own(p)] = Rec(p)
    BY ShownFacts, DestFacts DEF Own, Rec
  <2>2. QED
    BY <1>3, <2>1, ShownFacts, ShownFrame DEF Write, IInv, TypeOK
<1>4. ASSUME NEW p \in Publisher, Link(p)
      PROVE  Store!Next \/ (Shown' = Shown /\ Settled' = Settled)
  <2>1. CASE entry[TempSlot(p)] # None /\ entry[DestSlot(p)] = None
    <3>1. DestSlot(p) \in DestSlots /\ Rec(p) \in Record
      BY <1>4, SlotFacts, ActiveFacts DEF Link, Holding, IInv
    <3>2. QED
      BY <1>4, <2>1, <3>1, LinkPublishes DEF Store!Next, Store!Record, Record
  <2>2. CASE ~(entry[TempSlot(p)] # None /\ entry[DestSlot(p)] = None)
    BY <1>1, <1>4, <2>2 DEF Link
  <2>3. QED
    BY <2>1, <2>2
<1>5. ASSUME NEW p \in Publisher, SyncLink(p) \/ SyncUnlink(p)
      PROVE  Store!Next
  BY <1>5, SyncSettles DEF SyncLink, SyncUnlink, Store!Next
<1>6. ASSUME NEW p \in Publisher, UnlinkTemp(p)
      PROVE  Shown' = Shown /\ Settled' = Settled
  <2>1. TempSlot(p)[2] \notin Path
    BY <1>6, SlotFacts DEF UnlinkTemp, Holding, IInv
  <2>2. \A s \in DestSlots : s # TempSlot(p) /\ s \in Slot
    BY <2>1, ShownFacts DEF DestSlots
  <2>3. QED
    BY <1>6, <2>2, ShownFrame DEF UnlinkTemp, SetEntry, IInv, TypeOK
<1>7. CASE PowerLoss
  BY <1>7, PowerLossIsAllowed DEF Store!Next
<1>8. QED
  BY <1>1, <1>2, <1>3, <1>4, <1>5, <1>6, <1>7
     DEF Next, Step, vars, fsVars, Start, OpenRoot, OpenFolder, CheckAbsent, SyncTemp,
         VerifyTemp, StatDest, ReadManifest, ReadFinal, RequalifyRoot, IOError, Crash,
         MoveRoot, MoveFolder

(* The publication protocol implements the abstract evidence store. *)
THEOREM Implementation == Spec => ImplementsStore
<1>1. Init => Store!Init
  BY DEF Init, Store!Init, Shown, Settled, DestSlots, Slot, Name
<1>2. IInv /\ IInv' /\ [Next]_vars => [Store!Next]_(Store!vars)
  BY StepImplements
<1>3. QED
  BY <1>1, <1>2, Invariance, PTL DEF Spec, Store!Spec, ImplementsStore
-----------------------------------------------------------------------------
(* Steps of a call that meets no failure, and what the others see of them. *)

(* A step of one publisher changes nothing that is another's. *)
LEMMA OthersStandStill ==
  ASSUME TypeOK, NEW p \in Publisher, Start(p) \/ Step(p),
         NEW q \in Publisher, q # p
  PROVE  /\ pc'[q] = pc[q] /\ at'[q] = at[q] /\ req'[q] = req[q] /\ root'[q] = root[q]
         /\ \A k \in {1, 2} : parent'[<<q, k>>] = parent[<<q, k>>]
<1>1. pc'[q] = pc[q] /\ at'[q] = at[q] /\ req'[q] = req[q] /\ root'[q] = root[q]
  BY DEF Start, Step, OpenRoot, OpenFolder, CheckAbsent, CreateTemp, Write, SyncTemp,
         VerifyTemp, Link, SyncLink, StatDest, UnlinkTemp, SyncUnlink, ReadManifest,
         ReadFinal, RequalifyRoot, Goto, callVars, TypeOK
<1>2. \A k \in {1, 2} : parent'[<<q, k>>] = parent[<<q, k>>]
  <2>1. CASE OpenFolder(p)
    BY <2>1 DEF OpenFolder, TypeOK, Own, Inode
  <2>2. CASE ~OpenFolder(p)
    BY <2>2
       DEF Start, Step, OpenRoot, CheckAbsent, CreateTemp, Write, SyncTemp, VerifyTemp,
           Link, SyncLink, StatDest, UnlinkTemp, SyncUnlink, ReadManifest, ReadFinal,
           RequalifyRoot, callVars
  <2>3. QED
    BY <2>1, <2>2
<1>3. QED
  BY <1>1, <1>2

(* A call changes one entry at most: it creates, links or removes its own. *)
LEMMA EntrySteps ==
  ASSUME TypeOK, CallInv, OwnTempOnly, NEW p \in Publisher, Start(p) \/ Step(p)
  PROVE  \/ entry' = entry
         \/ /\ CreateTemp(p) /\ entry[TempSlot(p)] = None
            /\ entry' = [entry EXCEPT ![TempSlot(p)] = Own(p)]
         \/ /\ Link(p) /\ entry[DestSlot(p)] = None
            /\ entry' = [entry EXCEPT ![DestSlot(p)] = Own(p)]
         \/ /\ UnlinkTemp(p)
            /\ entry' = [entry EXCEPT ![TempSlot(p)] = None]
<1>1. CASE CreateTemp(p)
  BY <1>1 DEF CreateTemp, SetEntry
<1>2. CASE Link(p)
  <2>1. entry[TempSlot(p)] = Own(p)
    BY <1>2 DEF Link, OwnTempOnly
  <2>2. QED
    BY <1>2, <2>1 DEF Link, SetEntry
<1>3. CASE UnlinkTemp(p)
  BY <1>3 DEF UnlinkTemp, SetEntry
<1>4. CASE ~(CreateTemp(p) \/ Link(p) \/ UnlinkTemp(p))
  BY <1>4 DEF Start, Step, OpenRoot, OpenFolder, CheckAbsent, Write, SyncTemp, VerifyTemp,
              SyncLink, StatDest, SyncUnlink, ReadManifest, ReadFinal, RequalifyRoot, fsVars
<1>5. QED
  BY <1>1, <1>2, <1>3, <1>4

(* A call that has begun keeps its arguments, and goes only forward. *)
LEMMA StartedFrame ==
  ASSUME TypeOK, CallInv, NEW p \in Publisher, Start(p) \/ Step(p),
         NEW q \in Publisher, pc[q] # "idle"
  PROVE  /\ pc'[q] # "idle" /\ req'[q] = req[q]
         /\ at'[q] = at[q] \/ at'[q] = 2
         /\ \A k \in {1, 2} : /\ PathOf(q, k)' = PathOf(q, k)
                              /\ RecordOf(q, k)' = RecordOf(q, k)
<1>1. req'[q] = req[q] /\ pc'[q] # "idle"
  BY DEF Start, Step, OpenRoot, OpenFolder, CheckAbsent, CreateTemp, Write, SyncTemp,
         VerifyTemp, Link, SyncLink, StatDest, UnlinkTemp, SyncUnlink, ReadManifest,
         ReadFinal, RequalifyRoot, Goto, callVars, TypeOK
<1>2. at'[q] = at[q] \/ at'[q] = 2
  BY DEF Start, Step, OpenRoot, OpenFolder, CheckAbsent, CreateTemp, Write, SyncTemp,
         VerifyTemp, Link, SyncLink, StatDest, UnlinkTemp, SyncUnlink, ReadManifest,
         ReadFinal, RequalifyRoot, callVars, TypeOK
<1>3. QED
  BY <1>1, <1>2 DEF PathOf, RecordOf

(* The file a call is to create is named nowhere before it creates it. *)
LEMMA NotYetNamed ==
  ASSUME TypeOK, EntryInv, NEW i \in Inode, data[i] = None, NEW s \in Slot
  PROVE  entry[s] # i
<1>1. entry[s] # None => data[entry[s]] # None
  BY DEF EntryInv, EntryOK
<1>2. i # None
  BY ConstantsAssumption
<1>3. QED
  BY <1>1, <1>2

-----------------------------------------------------------------------------
(* Racing for one destination.  Calls that agree on where the manifest     *)
(* goes, and could each succeed alone, do not all defeat one another.      *)

(* There are calls to make; all are admissible, agree on the first         *)
(* destination and find their directories; and no manifest has the hash of *)
(* a final result.                                                         *)
Rivals ==
  /\ Request # {}
  /\ \A r \in Request :
       /\ Admissible(r)
       /\ InitDirAt[<<InitRoot, DirOf[r.mpath]>>] # None
       /\ r.final # None => InitDirAt[<<InitRoot, DirOf[r.fpath]>>] # None
  /\ \A r, s \in Request : r.mpath = s.mpath
  /\ \A m \in Manifest, x \in Final : IdentityOf[m] # IdentityOf[x]

(* As long as nothing has failed, a call that was refused was refused      *)
(* because of another, which has succeeded or is still at work.            *)
RefusedByARival ==
  faults = 0 /\ (\E p \in Publisher : pc[p] = "failed") =>
    \E q \in Publisher : Active(q) \/ pc[q] = "done"

(* What all of them want. *)
Goal == LET r == CHOOSE r \in Request : TRUE
        IN <<InitDirAt[<<InitRoot, DirOf[r.mpath]>>], r.mpath>>

Won(q) == entry[Goal] = <<q, 1>>

Trying(q) == /\ entry[Goal] = None
             /\ at[q] = 1
             /\ pc[q] \in {"write", "syncTemp", "verifyTemp", "link"}

FolderOf(p, k) == InitDirAt[<<InitRoot, DirOf[PathOf(p, k)]>>]

(* No directory has moved, and each call has opened its own. *)
NothingMoved ==
  /\ rootAt = InitRoot
  /\ dirAt = InitDirAt
  /\ \A p \in Publisher :
       /\ Active(p) => root[p] = InitRoot
       /\ pc[p] \in Holding \cup Reading => parent[Own(p)] = FolderOf(p, at[p])
       /\ at[p] = 2 => parent[<<p, 1>>] = FolderOf(p, 1)

(* An entry has the name that its file was created or linked under.        *)
WellNamed ==
  \A s \in Slot : entry[s] # None =>
    LET q == entry[s][1]
        k == entry[s][2]
    IN /\ pc[q] # "idle" /\ k <= at[q]
       /\ s[2] \in Path => s[2] = PathOf(q, k)
       /\ s[2] \in Identity => s[2] = IdentityOf[RecordOf(q, k)]

Unlinked == {"openFolder", "checkAbsent", "createTemp", "write", "syncTemp",
             "verifyTemp", "link"}

NotYetShown ==
  \A p \in Publisher : pc[p] \in Unlinked => \A s \in DestSlots : entry[s] # Own(p)

WinnerGoesOn == \A q \in Publisher : Won(q) => Active(q) \/ pc[q] = "done"

(* Whoever is in the way of others is ahead of them. *)
SomebodyAhead ==
  (\/ \E p \in Publisher : pc[p] = "failed"
   \/ stale # {}
   \/ \E s \in Folder \X Identity : entry[s] # None)
    => \E q \in Publisher : Won(q) \/ Trying(q)

RaceInv ==
  faults = 0 =>
    /\ NothingMoved
    /\ WellNamed
    /\ NotYetShown
    /\ WinnerGoesOn
    /\ SomebodyAhead

-----------------------------------------------------------------------------

LEMMA NothingMovedStep ==
  ASSUME TypeOK, CallInv, NothingMoved, NEW p \in Publisher, Start(p) \/ Step(p)
  PROVE  NothingMoved'
<1> USE DEF NothingMoved, FolderOf, PathOf
<1>1. rootAt' = InitRoot /\ dirAt' = InitDirAt
  BY DEF Start, Step, OpenRoot, OpenFolder, CheckAbsent, CreateTemp, Write, SyncTemp,
         VerifyTemp, Link, SyncLink, StatDest, UnlinkTemp, SyncUnlink, ReadManifest,
         ReadFinal, RequalifyRoot, pathVars
<1> SUFFICES ASSUME NEW q \in Publisher
             PROVE  /\ Active(q)' => root'[q] = InitRoot
                    /\ pc'[q] \in Holding \cup Reading =>
                         parent'[<<q, at'[q]>>] = FolderOf(q, at[q])'
                    /\ at'[q] = 2 => parent'[<<q, 1>>] = FolderOf(q, 1)'
  BY <1>1 DEF Own
<1>2. /\ Active(q) => root[q] = InitRoot
      /\ pc[q] \in Holding \cup Reading => parent[<<q, at[q]>>] = FolderOf(q, at[q])
      /\ at[q] = 2 => parent[<<q, 1>>] = FolderOf(q, 1)
  BY DEF Own
<1>3. CASE p # q
  <2>1. /\ pc'[q] = pc[q] /\ at'[q] = at[q] /\ req'[q] = req[q] /\ root'[q] = root[q]
        /\ \A k \in {1, 2} : parent'[<<q, k>>] = parent[<<q, k>>]
    BY <1>3, OthersStandStill
  <2>2. at[q] \in {1, 2}
    BY DEF TypeOK
  <2>3. QED
    BY <1>2, <2>1, <2>2 DEF Active
<1>4. CASE Start(q)
  BY <1>1, <1>4 DEF Start, Goto, TypeOK, CallInv, CallOK, Holding, Reading
<1>5. CASE OpenFolder(q)
  <2>1. /\ at' = at /\ req' = req /\ root' = root /\ root[q] = InitRoot
        /\ pc'[q] \in {"checkAbsent", "failed"}
    BY <1>2, <1>5 DEF OpenFolder, Goto, TypeOK, Active, Terminal
  <2>2. <<q, at[q]>> \in Inode /\ at[q] \in {1, 2}
    BY DEF TypeOK, Inode
  <2>3. parent' = [parent EXCEPT ![<<q, at[q]>>] = FolderOf(q, at[q])]
    BY <1>5, <2>1 DEF OpenFolder, Own
  <2>4. QED
    BY <1>2, <2>1, <2>2, <2>3 DEF TypeOK, Active, Terminal
<1>6. CASE SyncUnlink(q)
  BY <1>2, <1>6 DEF SyncUnlink, Goto, TypeOK, Holding, Reading, Active, Terminal
<1>7. CASE Step(q) /\ ~OpenFolder(q) /\ ~SyncUnlink(q)
  <2>1. /\ at' = at /\ req' = req /\ root' = root /\ parent' = parent
        /\ Active(q)
        /\ pc'[q] \in Holding \cup Reading => pc[q] \in Holding \cup Reading
    BY <1>7 DEF Step, OpenRoot, CheckAbsent, CreateTemp, Write, SyncTemp, VerifyTemp,
                Link, SyncLink, StatDest, UnlinkTemp, ReadManifest, ReadFinal,
                RequalifyRoot, callVars, Goto, TypeOK, Active, Terminal, Holding, Reading
  <2>2. QED
    BY <1>2, <2>1
<1>8. QED
  BY <1>3, <1>4, <1>5, <1>6, <1>7

LEMMA WellNamedStep ==
  ASSUME TypeOK, CallInv, OwnTempOnly, WellNamed,
         NEW p \in Publisher, Start(p) \/ Step(p)
  PROVE  WellNamed'
<1> SUFFICES ASSUME NEW s \in Slot, entry'[s] # None, NEW q, NEW k,
                    q = entry'[s][1], k = entry'[s][2]
             PROVE  /\ pc'[q] # "idle" /\ k <= at'[q]
                    /\ s[2] \in Path => s[2] = PathOf(q, k)'
                    /\ s[2] \in Identity => s[2] = IdentityOf[RecordOf(q, k)']
  BY DEF WellNamed
<1>1. CASE entry'[s] = entry[s]
  <2>1. /\ pc[q] # "idle" /\ k <= at[q]
        /\ s[2] \in Path => s[2] = PathOf(q, k)
        /\ s[2] \in Identity => s[2] = IdentityOf[RecordOf(q, k)]
    BY <1>1 DEF WellNamed
  <2>2. q \in Publisher /\ k \in {1, 2}
    BY <1>1 DEF TypeOK, Inode
  <2>3. /\ pc'[q] # "idle" /\ (at'[q] = at[q] \/ at'[q] = 2)
        /\ PathOf(q, k)' = PathOf(q, k) /\ RecordOf(q, k)' = RecordOf(q, k)
    BY <2>1, <2>2, StartedFrame
  <2>4. QED
    BY <2>1, <2>2, <2>3
<1>2. CASE entry'[s] # entry[s]
  <2>1. /\ CreateTemp(p) \/ Link(p)
        /\ entry'[s] = Own(p)
        /\ s = TempSlot(p) \/ s = DestSlot(p)
        /\ s = TempSlot(p) => CreateTemp(p)
        /\ s = DestSlot(p) => Link(p)
    <3>1. TempSlot(p) # DestSlot(p) \/ entry' = entry
      BY EntrySteps, SlotFacts DEF CreateTemp, Link, UnlinkTemp, Holding
    <3>2. QED
      BY <1>2, <3>1, EntrySteps DEF TypeOK
  <2>2. q = p /\ k = at[p] /\ at[p] \in {1, 2} /\ at'[p] = at[p]
    BY <2>1 DEF Own, TypeOK, CreateTemp, Link
  <2>3. pc[p] # "idle" /\ pc[p] \in Holding
    BY <2>1 DEF CreateTemp, Link, Holding
  <2>4. /\ pc'[p] # "idle"
        /\ PathOf(p, k)' = PathOf(p, k) /\ RecordOf(p, k)' = RecordOf(p, k)
    BY <2>2, <2>3, StartedFrame
  <2>5. /\ s[2] \in Path => s[2] = PathOf(p, k)
        /\ s[2] \in Identity => s[2] = IdentityOf[RecordOf(p, k)]
    <3>1. CASE s = TempSlot(p)
      BY <2>2, <2>3, <3>1, SlotFacts DEF TempSlot, Rec
    <3>2. CASE s = DestSlot(p)
      BY <2>2, <2>3, <3>2, SlotFacts
    <3>3. QED
      BY <2>1, <3>1, <3>2
  <2>6. QED
    BY <2>2, <2>4, <2>5
<1>3. QED
  BY <1>1, <1>2

LEMMA NotYetShownStep ==
  ASSUME TypeOK, CallInv, DataInv, EntryInv, OwnTempOnly, NotYetShown,
         NEW p \in Publisher, Start(p) \/ Step(p)
  PROVE  NotYetShown'
<1> SUFFICES ASSUME NEW q \in Publisher, pc'[q] \in Unlinked, NEW s \in DestSlots
             PROVE  entry'[s] # <<q, at'[q]>>
  BY DEF NotYetShown, Own, DestSlots
<1>0. s \in Slot /\ s[2] \in Path /\ s[2] \notin Identity
  BY ConstantsAssumption DEF DestSlots, Slot, Name
<1>1. CASE p # q
  <2>1. pc'[q] = pc[q] /\ at'[q] = at[q]
    BY <1>1, OthersStandStill
  <2>2. entry[s] # <<q, at[q]>> /\ <<q, at[q]>> # None
    BY <2>1, ConstantsAssumption DEF NotYetShown, Own, TypeOK, Inode
  <2>3. entry'[s] \in {entry[s], <<p, at[p]>>, None}
    BY <1>0, EntrySteps DEF TypeOK, Own
  <2>4. QED
    BY <1>1, <2>1, <2>2, <2>3
<1>2. CASE p = q /\ pc[q] \in Unlinked
  <2>1. at' = at /\ ~Link(q)
    BY <1>2 DEF Start, Step, OpenRoot, OpenFolder, CheckAbsent, CreateTemp, Write, SyncTemp,
           VerifyTemp, Link, SyncLink, StatDest, UnlinkTemp, SyncUnlink, ReadManifest,
           ReadFinal, RequalifyRoot, callVars, TypeOK, Goto, Unlinked
  <2>2. entry[s] # <<q, at[q]>>
    BY <1>2 DEF NotYetShown, Own
  <2>3. CASE UnlinkTemp(q) \/ CreateTemp(q)
    <3>1. TempSlot(q) # s
      BY <1>0, <2>3, SlotFacts DEF CreateTemp, UnlinkTemp, Holding
    <3>2. QED
      BY <1>0, <1>2, <2>1, <2>2, <3>1, EntrySteps DEF TypeOK
  <2>4. CASE ~(UnlinkTemp(q) \/ CreateTemp(q))
    BY <1>2, <2>1, <2>2, <2>4, EntrySteps
  <2>5. QED
    BY <2>3, <2>4
<1>3. CASE p = q /\ pc[q] \notin Unlinked
  <2>1. \/ OpenRoot(q) /\ at'[q] = at[q]
        \/ SyncUnlink(q) /\ at[q] = 1 /\ at'[q] = 2
    BY <1>3 DEF Start, Step, OpenRoot, OpenFolder, CheckAbsent, CreateTemp, Write, SyncTemp,
           VerifyTemp, Link, SyncLink, StatDest, UnlinkTemp, SyncUnlink, ReadManifest,
           ReadFinal, RequalifyRoot, callVars, TypeOK, Goto, Unlinked
  <2>2. data[<<q, at'[q]>>] = None /\ <<q, at'[q]>> \in Inode
    BY <2>1 DEF DataInv, DataOK, OpenRoot, Own, TypeOK, Inode
  <2>3. entry' = entry
    BY <2>1 DEF OpenRoot, SyncUnlink, fsVars
  <2>4. QED
    BY <1>0, <2>2, <2>3, NotYetNamed
<1>4. QED
  BY <1>1, <1>2, <1>3

LEMMA NamedFacts ==
  ASSUME WellNamed, NEW s \in Slot, NEW q \in Publisher, NEW k \in {1, 2},
         entry[s] = <<q, k>>
  PROVE  /\ pc[q] # "idle" /\ k <= at[q]
         /\ s[2] \in Path => s[2] = PathOf(q, k)
         /\ s[2] \in Identity => s[2] = IdentityOf[RecordOf(q, k)]
<1>1. entry[s] # None /\ entry[s][1] = q /\ entry[s][2] = k
  BY ConstantsAssumption DEF Inode
<1>2. QED
  BY <1>1 DEF WellNamed

(* As long as nothing has failed, what the calls publish first has one      *)
(* place, and only its owner gets to a second record.                       *)
LEMMA RaceFacts ==
  ASSUME Rivals, IInv, NothingMoved, WellNamed
  PROVE  /\ \A p \in Publisher : req[p] \in Request =>
              /\ Goal = <<FolderOf(p, 1), PathOf(p, 1)>>
              /\ Admissible(req[p])
              /\ FolderOf(p, 1) # None
              /\ req[p].final # None => FolderOf(p, 2) # None
         /\ \A p \in Publisher : pc[p] \in Holding /\ at[p] = 1 => DestSlot(p) = Goal
         /\ \A p \in Publisher : Published(p, 1) /\ pc[p] \in Holding \cup Reading => Won(p)
         /\ \A p \in Publisher : at[p] = 2 => Won(p)
         /\ (\E p \in Publisher : req[p] \in Request) =>
              /\ Goal \in DestSlots /\ Goal \in Slot /\ Goal[2] \notin Identity
              /\ entry[Goal] # None => \E q \in Publisher : Won(q)
<1>1. ASSUME NEW p \in Publisher, req[p] \in Request
      PROVE  /\ Goal = <<FolderOf(p, 1), PathOf(p, 1)>>
             /\ Admissible(req[p])
             /\ FolderOf(p, 1) # None
             /\ req[p].final # None => FolderOf(p, 2) # None
  BY <1>1 DEF Rivals, Goal, FolderOf, PathOf
<1>2. ASSUME NEW p \in Publisher, pc[p] # "idle"
      PROVE  req[p] \in Request
  BY <1>2 DEF IInv, CallInv, CallOK
<1>3. ASSUME NEW p \in Publisher, pc[p] \in Holding, at[p] = 1
      PROVE  DestSlot(p) = Goal
  BY <1>1, <1>2, <1>3 DEF Holding, NothingMoved, DestSlot
<1>4. ASSUME NEW p \in Publisher, at[p] = 2
      PROVE  Won(p)
  <2>1. req[p] \in Request /\ Published(p, 1)
    BY <1>2, <1>4 DEF IInv, CallInv, CallOK, PublishedInv, PublishedOK
  <2>2. parent[<<p, 1>>] = FolderOf(p, 1)
    BY <1>4 DEF NothingMoved
  <2>3. QED
    BY <1>1, <2>1, <2>2 DEF Published, Won
<1>5. ASSUME NEW p \in Publisher, Published(p, 1), pc[p] \in Holding \cup Reading
      PROVE  Won(p)
  <2>1. CASE at[p] = 2
    BY <1>4, <2>1
  <2>2. CASE at[p] # 2
    <3>1. at[p] = 1 /\ req[p] \in Request
      BY <1>2, <1>5, <2>2 DEF IInv, TypeOK, Holding, Reading
    <3>2. parent[<<p, 1>>] = FolderOf(p, 1)
      BY <1>5, <3>1 DEF NothingMoved, Own
    <3>3. QED
      BY <1>1, <1>5, <3>1, <3>2 DEF Published, Won
  <2>3. QED
    BY <2>1, <2>2
<1>6. ASSUME NEW p \in Publisher, req[p] \in Request
      PROVE  /\ Goal \in DestSlots /\ Goal \in Slot /\ Goal[2] \notin Identity
             /\ entry[Goal] # None => \E q \in Publisher : Won(q)
  <2>1. FolderOf(p, 1) \in Folder /\ PathOf(p, 1) \in Path
    BY <1>1, <1>6, ConstantsAssumption DEF FolderOf, PathOf
  <2>2. Goal \in DestSlots /\ Goal \in Slot /\ Goal[2] \in Path /\ Goal[2] \notin Identity
    BY <1>1, <1>6, <2>1, ConstantsAssumption DEF DestSlots, Slot, Name
  <2>3. ASSUME entry[Goal] # None
        PROVE  \E q \in Publisher : Won(q)
    <3>1. PICK q \in Publisher, k \in {1, 2} : entry[Goal] = <<q, k>>
      BY <2>2, <2>3 DEF IInv, TypeOK, Inode
    <3>2. pc[q] # "idle" /\ k <= at[q] /\ Goal[2] = PathOf(q, k)
      BY <2>2, <3>1, NamedFacts
    <3>3. k = 1
      <4>1. SUFFICES ASSUME k = 2 PROVE FALSE
        OBVIOUS
      <4>2. at[q] = 2 /\ req[q].final # None /\ Admissible(req[q])
        BY <3>2, <4>1 DEF IInv, TypeOK, CallInv, CallOK
      <4>3. Goal[2] = PathOf(q, 1)
        BY <1>1, <1>2, <3>2
      <4>4. QED
        BY <3>2, <4>1, <4>2, <4>3 DEF Admissible, PathOf
    <3>4. QED
      BY <3>1, <3>3 DEF Won
  <2>4. QED
    BY <2>2, <2>3
<1>7. QED
  BY <1>1, <1>3, <1>4, <1>5, <1>6

(* A call with something on display has the way clear for its second record: *)
(* neither its destination nor its temporary is anybody's.                   *)
LEMMA SecondIsClear ==
  ASSUME Rivals, IInv, NothingMoved, WellNamed, NotYetShown,
         NEW p \in Publisher, at[p] = 2, pc[p] \in Holding
  PROVE  /\ pc[p] \in Unlinked => entry[DestSlot(p)] = None
         /\ pc[p] \in {"checkAbsent", "createTemp"} => entry[TempSlot(p)] = None
<1>1. \A r \in Publisher : at[r] = 2 => r = p
  BY RaceFacts DEF Won
<1>2. req[p] \in Request /\ req[p].final # None /\ Admissible(req[p])
  BY DEF IInv, CallInv, CallOK, Holding
<1>3. ASSUME entry[DestSlot(p)] # None, pc[p] \in Unlinked
      PROVE  FALSE
  <2>1. DestSlot(p) \in Slot /\ DestSlot(p) \in DestSlots /\ DestSlot(p)[2] = req[p].fpath
        /\ DestSlot(p)[2] \in Path
    BY SlotFacts DEF IInv, PathOf
  <2>2. PICK r \in Publisher, k \in {1, 2} : entry[DestSlot(p)] = <<r, k>>
    BY <1>3, <2>1 DEF IInv, TypeOK, Inode
  <2>3. pc[r] # "idle" /\ k <= at[r] /\ req[p].fpath = PathOf(r, k)
    BY <2>1, <2>2, NamedFacts
  <2>4. CASE k = 1
    <3>1. req[r] \in Request
      BY <2>3 DEF IInv, CallInv, CallOK
    <3>2. req[r].mpath = req[p].mpath
      BY <1>2, <3>1 DEF Rivals
    <3>3. QED
      BY <1>2, <2>3, <2>4, <3>2 DEF PathOf, Admissible
  <2>5. CASE k = 2
    BY <1>1, <1>3, <2>1, <2>2, <2>3, <2>5 DEF NotYetShown, Own, IInv, TypeOK
  <2>6. QED
    BY <2>4, <2>5
<1>4. ASSUME entry[TempSlot(p)] # None, pc[p] \in {"checkAbsent", "createTemp"}
      PROVE  FALSE
  <2>1. TempSlot(p) \in Slot /\ TempSlot(p)[2] = IdentityOf[req[p].final]
        /\ TempSlot(p)[2] \in Identity
    BY SlotFacts DEF IInv, TempSlot, Rec, RecordOf
  <2>2. PICK r \in Publisher, k \in {1, 2} : entry[TempSlot(p)] = <<r, k>>
    BY <1>4, <2>1 DEF IInv, TypeOK, Inode
  <2>3. /\ pc[r] # "idle" /\ k <= at[r]
        /\ IdentityOf[req[p].final] = IdentityOf[RecordOf(r, k)]
    BY <2>1, <2>2, NamedFacts
  <2>4. CASE k = 1
    <3>1. req[r] \in Request
      BY <2>3 DEF IInv, CallInv, CallOK
    <3>2. req[r].manifest \in Manifest /\ req[p].final \in Final
      BY <1>2, <3>1, ConstantsAssumption
    <3>3. QED
      BY <2>3, <2>4, <3>2 DEF RecordOf, Rivals
  <2>5. CASE k = 2
    <3>1. r = p /\ data[<<p, 2>>] = None /\ <<p, 2>> \in Inode
      BY <1>1, <1>4, <2>3, <2>5 DEF IInv, TypeOK, DataInv, DataOK, Own, Inode
    <3>2. QED
      BY <2>1, <2>2, <2>5, <3>1, NotYetNamed DEF IInv
  <2>6. QED
    BY <2>4, <2>5
<1>5. QED
  BY <1>3, <1>4

(* The call that has won is never refused. *)
LEMMA WinnerIsNotRefused ==
  ASSUME Rivals, IInv, NothingMoved, WellNamed, NotYetShown,
         NEW p \in Publisher, Won(p), Step(p), faults' = faults
  PROVE  pc'[p] # "failed"
<1>1. /\ Active(p) /\ req[p] \in Request /\ root[p] = InitRoot /\ rootAt = InitRoot
      /\ dirAt = InitDirAt /\ at[p] \in {1, 2}
  <2>1. Active(p)
    BY DEF Active, Terminal, Step, OpenRoot, OpenFolder, CheckAbsent, CreateTemp, Write,
           SyncTemp, VerifyTemp, Link, SyncLink, StatDest, UnlinkTemp, SyncUnlink,
           ReadManifest, ReadFinal, RequalifyRoot
  <2>2. QED
    BY <2>1, ActiveFacts DEF IInv, NothingMoved
<1>2. Goal \in DestSlots /\ Goal \in Slot
  BY <1>1, RaceFacts
<1>3. pc[p] \in Unlinked \cup {"openRoot"} => at[p] = 2
  <2>1. pc[p] \in Unlinked => at[p] = 2
    BY <1>1, <1>2 DEF Won, NotYetShown, Own
  <2>2. pc[p] # "openRoot"
    <3>1. pc[p] = "openRoot" => data[<<p, 1>>] = None /\ <<p, 1>> \in Inode
      BY DEF IInv, CallInv, CallOK, DataInv, DataOK, Own, Inode
    <3>2. QED
      BY <1>2, <3>1, NotYetNamed DEF Won, IInv
  <2>3. QED
    BY <2>1, <2>2
<1>4. CASE OpenRoot(p) \/ OpenFolder(p) \/ CheckAbsent(p) \/ CreateTemp(p)
  <2>1. at[p] = 2 /\ pc[p] # "openRoot"
    BY <1>3, <1>4 DEF OpenRoot, OpenFolder, CheckAbsent, CreateTemp, Unlinked, IInv,
                      CallInv, CallOK
  <2>2. CASE OpenFolder(p)
    <3>1. req[p].final # None
      BY <2>1 DEF IInv, CallInv, CallOK
    <3>2. InitDirAt[<<InitRoot, DirOf[PathOf(p, 2)]>>] # None
      BY <1>1, <3>1, RaceFacts DEF FolderOf
    <3>3. QED
      BY <1>1, <2>1, <2>2, <3>2 DEF OpenFolder, Goto, IInv, TypeOK
  <2>3. CASE CheckAbsent(p)
    BY <2>1, <2>3, SecondIsClear DEF CheckAbsent, Holding, Unlinked, Goto, IInv, TypeOK
  <2>4. CASE CreateTemp(p)
    BY <2>1, <2>4, SecondIsClear DEF CreateTemp, Holding, Unlinked, Goto, IInv, TypeOK
  <2>5. QED
    BY <1>4, <2>1, <2>2, <2>3, <2>4 DEF OpenRoot
<1>5. CASE Write(p)
  BY <1>5 DEF Write, Goto, IInv, TypeOK
<1>6. CASE SyncTemp(p) \/ SyncLink(p) \/ SyncUnlink(p)
  BY <1>6 DEF SyncTemp, SyncLink, SyncUnlink, Goto, IInv, TypeOK
<1>7. CASE VerifyTemp(p)
  BY <1>7 DEF VerifyTemp, Goto, IInv, TypeOK, DataInv, DataOK
<1>8. CASE Link(p)
  <2>1. at[p] = 2 /\ entry[TempSlot(p)] = Own(p) /\ Own(p) # None
    BY <1>1, <1>3, <1>8, ActiveFacts DEF Link, Unlinked, IInv, OwnTempOnly
  <2>2. entry[DestSlot(p)] = None
    BY <1>8, <2>1, SecondIsClear DEF Link, Holding, Unlinked
  <2>3. QED
    BY <1>8, <2>1, <2>2 DEF Link, Goto, IInv, TypeOK
<1>9. CASE StatDest(p)
  BY <1>9 DEF StatDest, Goto, IInv, TypeOK, PublishedInv, PublishedOK, Published,
              DestSlot, Own
<1>10. CASE UnlinkTemp(p)
  BY <1>1, <1>10, ActiveFacts DEF UnlinkTemp, Goto, IInv, TypeOK, OwnTempOnly
<1>11. ASSUME NEW k \in {1, 2}, Published(p, k), k <= at[p],
              pc[p] \in Reading
       PROVE  ReadsBack(root[p], PathOf(p, k), RecordOf(p, k))
  <2>1. parent[<<p, k>>] = FolderOf(p, k)
    <3>1. k = at[p] \/ (k = 1 /\ at[p] = 2)
      BY <1>1, <1>11
    <3>2. QED
      BY <1>11, <3>1 DEF NothingMoved, Own
  <2>2. dirAt[<<root[p], DirOf[PathOf(p, k)]>>] = parent[<<p, k>>]
    BY <1>1, <2>1 DEF FolderOf
  <2>3. <<p, k>> # None /\ None \notin Folder
    BY ConstantsAssumption DEF Inode
  <2>4. QED
    BY <1>11, <2>2, <2>3 DEF ReadsBack, Published
<1>12. CASE ReadManifest(p) \/ ReadFinal(p)
  <2>1. /\ Published(p, 1) /\ pc[p] \in Reading /\ (at[p] = 2 => Published(p, 2))
        /\ ReadFinal(p) => at[p] = 2
    BY <1>1, <1>12 DEF ReadManifest, ReadFinal, Reading, IInv, CallInv, CallOK,
                       PublishedInv, PublishedOK
  <2>2. CASE ReadManifest(p)
    BY <1>1, <1>11, <2>1, <2>2 DEF ReadManifest, Goto, IInv, TypeOK
  <2>3. CASE ReadFinal(p)
    BY <1>1, <1>11, <2>1, <2>3 DEF ReadFinal, Goto, IInv, TypeOK
  <2>4. QED
    BY <1>12, <2>2, <2>3
<1>13. CASE RequalifyRoot(p)
  BY <1>1, <1>13 DEF RequalifyRoot, Goto, IInv, TypeOK
<1>14. QED
  BY <1>4, <1>5, <1>6, <1>7, <1>8, <1>9, <1>10, <1>12, <1>13 DEF Step

(* The goal is taken once, by a call that links its first record there. *)
LEMMA GoalSteps ==
  ASSUME Rivals, IInv, NothingMoved, WellNamed, NEW p \in Publisher, Start(p) \/ Step(p)
  PROVE  \/ entry'[Goal] = entry[Goal]
         \/ Link(p) /\ entry[Goal] = None /\ pc'[p] = "syncLink" /\ Won(p)'
<1>1. CASE Start(p)
  BY <1>1 DEF Start, fsVars
<1>2. CASE Step(p)
  <2>1. Active(p)
    BY <1>2 DEF Active, Terminal, Step, OpenRoot, OpenFolder, CheckAbsent, CreateTemp,
                Write, SyncTemp, VerifyTemp, Link, SyncLink, StatDest, UnlinkTemp,
                SyncUnlink, ReadManifest, ReadFinal, RequalifyRoot
  <2>2. /\ Goal \in Slot /\ Goal[2] \notin Identity /\ Own(p) # None
        /\ at[p] \in {1, 2}
    BY <2>1, ActiveFacts, RaceFacts DEF IInv
  <2>3. CASE CreateTemp(p) \/ UnlinkTemp(p)
    <3>1. TempSlot(p) # Goal
      BY <2>2, <2>3, SlotFacts DEF CreateTemp, UnlinkTemp, Holding, IInv
    <3>2. ~Link(p)
      BY <2>3 DEF CreateTemp, UnlinkTemp, Link
    <3>3. QED
      BY <1>2, <2>2, <3>1, <3>2, EntrySteps DEF IInv, TypeOK
  <2>4. CASE Link(p) /\ entry[DestSlot(p)] = None /\ DestSlot(p) = Goal
    <3>1. at[p] = 1
      <4>1. <<p, 1>> # None
        BY ConstantsAssumption DEF Inode
      <4>2. ~Won(p)
        BY <2>4, <4>1 DEF Won
      <4>3. QED
        BY <2>2, <4>2, RaceFacts
    <3>2. entry[TempSlot(p)] = Own(p) /\ Own(p) = <<p, 1>>
      BY <2>4, <3>1 DEF Link, IInv, OwnTempOnly, Own
    <3>3. pc'[p] = "syncLink" /\ entry'[Goal] = <<p, 1>>
      BY <2>2, <2>4, <3>2 DEF Link, SetEntry, Goto, IInv, TypeOK
    <3>4. QED
      BY <2>4, <3>3 DEF Won, Goal
  <2>5. CASE Link(p) /\ ~(entry[DestSlot(p)] = None /\ DestSlot(p) = Goal)
    BY <2>2, <2>5 DEF Link, SetEntry, IInv, TypeOK
  <2>6. CASE ~(CreateTemp(p) \/ Link(p) \/ UnlinkTemp(p))
    BY <1>2, <2>6, EntrySteps DEF IInv
  <2>7. QED
    BY <2>3, <2>4, <2>5, <2>6
<1>3. QED
  BY <1>1, <1>2

LEMMA WinnerGoesOnStep ==
  ASSUME Rivals, IInv, TypeOK', NothingMoved, WellNamed, NotYetShown, WinnerGoesOn,
         NEW p \in Publisher, Start(p) \/ Step(p), faults' = faults
  PROVE  WinnerGoesOn'
<1> SUFFICES ASSUME NEW q \in Publisher, Won(q)'
             PROVE  Active(q)' \/ pc'[q] = "done"
  BY DEF WinnerGoesOn
<1>1. CASE entry'[Goal] = entry[Goal]
  <2>1. Won(q) /\ (Active(q) \/ pc[q] = "done")
    BY <1>1 DEF Won, Goal, WinnerGoesOn
  <2>2. CASE p # q
    BY <2>1, <2>2, OthersStandStill DEF IInv, Active
  <2>3. CASE Step(q)
    <3>1. pc'[q] \notin {"idle", "crashed"}
      BY <2>3 DEF Step, OpenRoot, OpenFolder, CheckAbsent, CreateTemp, Write, SyncTemp,
                  VerifyTemp, Link, SyncLink, StatDest, UnlinkTemp, SyncUnlink,
                  ReadManifest, ReadFinal, RequalifyRoot, Goto, IInv, TypeOK
    <3>2. pc'[q] # "failed"
      BY <2>1, <2>3, WinnerIsNotRefused
    <3>3. QED
      BY <3>1, <3>2 DEF Active, Terminal
  <2>4. ~Start(q)
    BY <2>1 DEF Start, Active, Terminal
  <2>5. QED
    BY <2>2, <2>3, <2>4
<1>2. CASE entry'[Goal] # entry[Goal]
  <2>1. pc'[p] = "syncLink" /\ Won(p)'
    BY <1>2, GoalSteps
  <2>2. p = q
    BY <2>1 DEF Won
  <2>3. QED
    BY <2>1, <2>2 DEF Active, Terminal
<1>3. QED
  BY <1>1, <1>2

(* Where nobody is ahead, a call meets nothing it could be refused for. *)
LEMMA WayIsClear ==
  ASSUME Rivals, IInv, NothingMoved, WellNamed, SomebodyAhead,
         ~\E q \in Publisher : Won(q) \/ Trying(q),
         NEW p \in Publisher, Start(p) \/ Step(p), faults' = faults
  PROVE  SomebodyAhead'
<1>1. /\ \A q \in Publisher : pc[q] # "failed"
      /\ stale = {}
      /\ \A s \in Folder \X Identity : entry[s] = None
  BY DEF SomebodyAhead
<1>2. CASE stale' = stale /\ entry' = entry /\ pc'[p] # "failed"
  <2>1. \A q \in Publisher : pc'[q] # "failed"
    BY <1>1, <1>2, OthersStandStill DEF IInv
  <2>2. QED
    BY <1>1, <1>2, <2>1 DEF SomebodyAhead
<1>3. CASE Start(p)
  BY <1>2, <1>3, ConstantsAssumption
     DEF Start, fsVars, Goto, NothingMoved, Rivals, IInv, TypeOK
<1>4. CASE OpenRoot(p)
  <2>1. root[p] = InitRoot /\ rootAt = InitRoot
    BY <1>4 DEF OpenRoot, NothingMoved, Active, Terminal
  <2>2. QED
    BY <1>1, <1>2, <1>4, <2>1 DEF OpenRoot, callVars, fsVars, Goto, IInv, TypeOK
<1>5. /\ Step(p) => Active(p)
      /\ Active(p) => at[p] = 1 /\ req[p] \in Request /\ entry[Goal] = None
  <2>1. Step(p) => Active(p)
    BY DEF Active, Terminal, Step, OpenRoot, OpenFolder, CheckAbsent, CreateTemp,
           Write, SyncTemp, VerifyTemp, Link, SyncLink, StatDest, UnlinkTemp, SyncUnlink,
           ReadManifest, ReadFinal, RequalifyRoot
  <2>2. Active(p) => at[p] = 1 /\ req[p] \in Request
    BY ActiveFacts, RaceFacts DEF IInv
  <2>3. QED
    BY <2>1, <2>2, RaceFacts
<1>6. CASE OpenFolder(p)
  <2>1. /\ Active(p) /\ root[p] = InitRoot /\ dirAt = InitDirAt
    BY <1>6 DEF OpenFolder, NothingMoved, Active, Terminal
  <2>2. InitDirAt[<<InitRoot, DirOf[PathOf(p, 1)]>>] # None
    BY <1>5, <2>1, RaceFacts DEF FolderOf
  <2>3. QED
    BY <1>2, <1>5, <1>6, <2>1, <2>2 DEF OpenFolder, fsVars, Goto, IInv, TypeOK
<1>7. CASE CheckAbsent(p)
  <2>1. DestSlot(p) = Goal /\ entry[Goal] = None
    BY <1>5, <1>7, RaceFacts DEF CheckAbsent, Holding, Active, Terminal
  <2>2. QED
    BY <1>2, <1>7, <2>1 DEF CheckAbsent, callVars, fsVars, Goto, IInv, TypeOK
<1>8. CASE CreateTemp(p)
  <2>1. TempSlot(p) \in Folder \X Identity
    BY <1>8, SlotFacts DEF CreateTemp, Holding, IInv, Slot
  <2>2. pc'[p] = "write" /\ at'[p] = 1 /\ entry'[Goal] = None
    <3>1. ~Link(p)
      BY <1>8 DEF CreateTemp, Link
    <3>2. QED
      BY <1>1, <1>5, <1>8, <2>1, <3>1, GoalSteps
         DEF CreateTemp, Active, Terminal, Goto, IInv, TypeOK
  <2>3. Trying(p)'
    BY <2>2 DEF Trying, Goal
  <2>4. QED
    BY <2>3 DEF SomebodyAhead
<1>9. ASSUME Step(p), pc[p] \notin {"openRoot", "openFolder", "checkAbsent", "createTemp"}
      PROVE  FALSE
  <2>1. Active(p) /\ at[p] = 1 /\ entry[Goal] = None
    BY <1>5, <1>9
  <2>2. pc[p] \notin {"write", "syncTemp", "verifyTemp", "link"}
    BY <2>1 DEF Trying
  <2>3. pc[p] # "syncLink"
    <3>1. ASSUME pc[p] = "syncLink" PROVE FALSE
      <4>1. DestSlot(p) = Goal /\ entry[DestSlot(p)] = Own(p)
        BY <2>1, <3>1, RaceFacts DEF Holding, IInv, PublishedInv, PublishedOK
      <4>2. QED
        BY <2>1, <4>1 DEF Won, Own
    <3>2. QED
      BY <3>1
  <2>4. pc[p] \in {"statDest", "unlinkTemp", "syncUnlink", "readManifest", "readFinal",
                   "requalify"}
    BY <1>9, <2>1, <2>2, <2>3 DEF IInv, TypeOK, Active, Terminal
  <2>5. Published(p, 1)
    BY <2>1, <2>4 DEF Reading, IInv, PublishedInv, PublishedOK
  <2>6. QED
    BY <2>4, <2>5, RaceFacts DEF Holding, Reading
<1>10. QED
  BY <1>3, <1>4, <1>6, <1>7, <1>8, <1>9
     DEF Step, OpenRoot, OpenFolder, CheckAbsent, CreateTemp, Write, SyncTemp, VerifyTemp,
         Link, SyncLink, StatDest, UnlinkTemp, SyncUnlink, ReadManifest, ReadFinal,
         RequalifyRoot

LEMMA SomebodyAheadStep ==
  ASSUME Rivals, IInv, NothingMoved, WellNamed, SomebodyAhead,
         NEW p \in Publisher, Start(p) \/ Step(p), faults' = faults
  PROVE  SomebodyAhead'
<1>1. ASSUME NEW q \in Publisher, Won(q)
      PROVE  SomebodyAhead'
  <2>1. entry[Goal] # None
    BY <1>1, ConstantsAssumption DEF Won, Inode
  <2>2. Won(q)'
    BY <1>1, <2>1, GoalSteps DEF Won, Goal
  <2>3. QED
    BY <2>2 DEF SomebodyAhead
<1>2. ASSUME NEW q \in Publisher, Trying(q)
      PROVE  SomebodyAhead'
  <2>1. CASE entry'[Goal] # entry[Goal]
    <3>1. Won(p)'
      BY <2>1, GoalSteps
    <3>2. QED
      BY <3>1 DEF SomebodyAhead
  <2>2. CASE entry'[Goal] = entry[Goal] /\ p # q
    <3>1. Trying(q)'
      BY <1>2, <2>2, OthersStandStill DEF Trying, Goal, IInv
    <3>2. QED
      BY <3>1 DEF SomebodyAhead
  <2>3. CASE entry'[Goal] = entry[Goal] /\ p = q
    <3>1. ~Link(q)
      <4>1. ASSUME Link(q) PROVE FALSE
        <5>1. DestSlot(q) = Goal /\ entry[Goal] = None
          BY <1>2, <4>1, RaceFacts DEF Trying, Link, Holding
        <5>2. entry[TempSlot(q)] = Own(q) /\ Own(q) # None /\ DestSlot(q) \in Slot
          BY <4>1, ActiveFacts, SlotFacts
             DEF Link, Active, Terminal, Holding, IInv, OwnTempOnly
        <5>3. entry'[Goal] = Own(q)
          BY <4>1, <5>1, <5>2 DEF Link, SetEntry, IInv, TypeOK
        <5>4. QED
          BY <2>3, <5>1, <5>2, <5>3
      <4>2. QED
        BY <4>1
    <3>2. Write(q) \/ SyncTemp(q) \/ VerifyTemp(q)
      BY <1>2, <2>3, <3>1
         DEF Trying, Start, Step, OpenRoot, OpenFolder, CheckAbsent, CreateTemp, SyncLink,
             StatDest, UnlinkTemp, SyncUnlink, ReadManifest, ReadFinal, RequalifyRoot
    <3>3. at' = at /\ pc'[q] \in {"write", "syncTemp", "verifyTemp", "link"}
      <4>1. CASE Write(q)
        BY <4>1 DEF Write, callVars, Goto, IInv, TypeOK
      <4>2. CASE SyncTemp(q)
        BY <4>2 DEF SyncTemp, callVars, Goto, IInv, TypeOK
      <4>3. CASE VerifyTemp(q)
        BY <4>3 DEF VerifyTemp, callVars, Goto, IInv, TypeOK, DataInv, DataOK
      <4>4. QED
        BY <3>2, <4>1, <4>2, <4>3
    <3>4. Trying(q)'
      BY <1>2, <2>3, <3>3 DEF Trying, Goal
    <3>5. QED
      BY <3>4 DEF SomebodyAhead
  <2>4. QED
    BY <2>1, <2>2, <2>3
<1>3. QED
  BY <1>1, <1>2, WayIsClear

LEMMA RaceStep ==
  ASSUME Rivals, IInv, IInv', RaceInv, [Next]_vars
  PROVE  RaceInv'
<1> SUFFICES ASSUME faults' = 0
             PROVE  (/\ NothingMoved
                     /\ WellNamed
                     /\ NotYetShown
                     /\ WinnerGoesOn
                     /\ SomebodyAhead)'
  BY DEF RaceInv
<1>1. faults \in Nat
  BY DEF IInv, TypeOK
<1>2. \/ UNCHANGED vars
      \/ \E p \in Publisher : Start(p) \/ Step(p)
  BY <1>1 DEF Next, IOError, Crash, PowerLoss, MoveRoot, MoveFolder, Fault
<1>3. faults = 0
  <2>1. ASSUME NEW p \in Publisher, Write(p)
        PROVE  faults = 0
    BY <1>1, <2>1 DEF Write
  <2>2. CASE UNCHANGED faults
    BY <2>2
  <2>3. QED
    BY <1>2, <2>1, <2>2
       DEF vars, Start, Step, OpenRoot, OpenFolder, CheckAbsent, CreateTemp, SyncTemp,
           VerifyTemp, Link, SyncLink, StatDest, UnlinkTemp, SyncUnlink, ReadManifest,
           ReadFinal, RequalifyRoot
<1>4. NothingMoved /\ WellNamed /\ NotYetShown /\ WinnerGoesOn /\ SomebodyAhead
  BY <1>3 DEF RaceInv
<1>5. CASE UNCHANGED vars
  BY <1>4, <1>5 DEF vars, callVars, pathVars, fsVars, NothingMoved, WellNamed, NotYetShown,
                    WinnerGoesOn, SomebodyAhead, FolderOf, PathOf, RecordOf, Own, Active,
                    Won, Trying, Goal
<1>6. CASE \E p \in Publisher : Start(p) \/ Step(p)
  BY <1>3, <1>4, <1>6, NothingMovedStep, WellNamedStep, NotYetShownStep, WinnerGoesOnStep,
     SomebodyAheadStep DEF IInv
<1>7. QED
  BY <1>2, <1>5, <1>6

LEMMA RaceInit ==
  ASSUME Rivals, Init
  PROVE  RaceInv
<1>1. Goal \in Slot
  <2>1. PICK r \in Request : Goal = <<InitDirAt[<<InitRoot, DirOf[r.mpath]>>], r.mpath>>
    BY DEF Rivals, Goal
  <2>2. r.mpath \in Path /\ InitDirAt[<<InitRoot, DirOf[r.mpath]>>] \in Folder
    BY <2>1, ConstantsAssumption DEF Rivals
  <2>3. QED
    BY <2>1, <2>2 DEF Slot, Name
<1>2. \A q \in Publisher : ~Won(q)
  BY <1>1, ConstantsAssumption DEF Init, Won, Inode
<1>3. NothingMoved /\ WellNamed /\ NotYetShown
  BY DEF Init, NothingMoved, WellNamed, NotYetShown, Active, Terminal, Holding, Reading,
         Unlinked
<1>4. SomebodyAhead
  BY DEF Init, SomebodyAhead, Slot, Name
<1>5. QED
  BY <1>2, <1>3, <1>4 DEF RaceInv, WinnerGoesOn

(* Calls that race for one destination (evidence.py:324-586, 1573-1735)    *)
(* never all defeat one another: as long as nothing fails from outside, a  *)
(* call has been refused only if some other is still at work or has        *)
(* succeeded.  This is what SomebodyWins rests on, beside the termination  *)
(* of each call.                                                           *)
THEOREM OnlyARivalRefuses ==
  ASSUME Rivals
  PROVE  Spec => []RefusedByARival
<1>1. Init => RaceInv
  BY RaceInit
<1>2. IInv /\ IInv' /\ RaceInv /\ [Next]_vars => RaceInv'
  BY RaceStep
<1>3. RaceInv => RefusedByARival
  BY DEF RaceInv, RefusedByARival, SomebodyAhead, WinnerGoesOn, Trying, Active, Terminal
<1>4. QED
  BY <1>1, <1>2, <1>3, Invariance, PTL DEF Spec

(* The system calls between each point of a call and its end, for its last *)
(* record; for its first record there may be those of the second as well.  *)
Ahead == [idle |-> 27, openRoot |-> 26, openFolder |-> 14, checkAbsent |-> 13,
          createTemp |-> 12, write |-> 11, syncTemp |-> 10, verifyTemp |-> 9,
          link |-> 8, syncLink |-> 7, statDest |-> 6, unlinkTemp |-> 5,
          syncUnlink |-> 4, readManifest |-> 3, readFinal |-> 2, requalify |-> 1,
          done |-> 0, failed |-> 0, crashed |-> 0]

StepsLeft(p) ==
  IF at[p] = 1 /\ pc[p] \in Holding \cup {"openFolder"}
    THEN Ahead[pc[p]] + 11 ELSE Ahead[pc[p]]

(* Whatever happens, no call ever has more to do than before, and each of  *)
(* its own steps brings it closer to its end.                              *)
CallsAreShort ==
  [][\A p \in Publisher :
       /\ StepsLeft(p)' <= StepsLeft(p)
       /\ Step(p) => StepsLeft(p)' < StepsLeft(p)]_vars

(* A call of persist_final_evidence_records (evidence.py:324-586,          *)
(* 1573-1735) makes a bounded number of system calls: whatever others do   *)
(* and whatever fails, none sends it back.  With fairness, this is why     *)
(* every call ends (Termination).                                          *)
THEOREM EveryStepLeadsToTheEnd == Spec => CallsAreShort
<1> USE DEF StepsLeft, Ahead, Holding
<1>1. ASSUME IInv, NEW q \in Publisher, Step(q)
      PROVE  StepsLeft(q)' < StepsLeft(q)
  <2>1. pc \in [Publisher -> DOMAIN Ahead] /\ at[q] \in {1, 2} /\ CallOK(q)
    BY <1>1 DEF IInv, TypeOK, CallInv
  <2>2. CASE OpenRoot(q) \/ OpenFolder(q) \/ CheckAbsent(q) \/ CreateTemp(q) \/ Write(q)
    BY <2>1, <2>2 DEF OpenRoot, OpenFolder, CheckAbsent, CreateTemp, Write, callVars,
                      Goto, CallOK
  <2>3. CASE SyncTemp(q) \/ VerifyTemp(q) \/ Link(q) \/ SyncLink(q) \/ StatDest(q)
               \/ UnlinkTemp(q)
    BY <2>1, <2>3 DEF SyncTemp, VerifyTemp, Link, SyncLink, StatDest, UnlinkTemp,
                      callVars, Goto
  <2>4. CASE SyncUnlink(q)
    <3>1. at'[q] \in {1, 2} /\ pc'[q] \in {"openFolder", "readManifest"}
          /\ (pc'[q] = "openFolder" => at[q] = 1 /\ at'[q] = 2)
      BY <1>1, <2>1, <2>4 DEF SyncUnlink, Goto, IInv, TypeOK
    <3>2. QED
      BY <2>1, <2>4, <3>1 DEF SyncUnlink
  <2>5. CASE ReadManifest(q) \/ ReadFinal(q) \/ RequalifyRoot(q)
    BY <2>1, <2>5 DEF ReadManifest, ReadFinal, RequalifyRoot, callVars, Goto
  <2>6. QED
    BY <1>1, <2>2, <2>3, <2>4, <2>5 DEF Step
<1>2. ASSUME IInv, [Next]_vars, NEW p \in Publisher
      PROVE  StepsLeft(p)' <= StepsLeft(p)
  <2>1. pc[p] \in DOMAIN Ahead /\ at[p] \in {1, 2}
    BY <1>2 DEF IInv, TypeOK
  <2>2. StepsLeft(p) \in Nat
    BY <2>1
  <2>3. CASE pc'[p] = pc[p] /\ at'[p] = at[p]
    BY <2>2, <2>3
  <2>4. CASE Step(p)
    <3>1. pc'[p] \in DOMAIN Ahead /\ at'[p] \in {1, 2}
      BY <1>2, TypeStep DEF IInv, TypeOK
    <3>2. QED
      BY <1>1, <1>2, <2>2, <2>4, <3>1
  <2>5. CASE Start(p)
    BY <1>2, <2>5 DEF Start, Goto, IInv, TypeOK
  <2>6. CASE IOError(p) \/ Crash(p) \/ (PowerLoss /\ Active(p))
    <3>1. pc'[p] \in {"failed", "crashed"}
      BY <1>2, <2>6 DEF IOError, Crash, PowerLoss, Goto, IInv, TypeOK
    <3>2. QED
      BY <2>2, <3>1
  <2>7. ASSUME NEW q \in Publisher, q # p, Start(q) \/ Step(q) \/ IOError(q) \/ Crash(q)
        PROVE  pc'[p] = pc[p] /\ at'[p] = at[p]
    BY <1>2, <2>7, OthersStandStill DEF IOError, Crash, callVars, Goto, IInv, TypeOK
  <2>8. CASE UNCHANGED vars \/ MoveRoot \/ MoveFolder \/ (PowerLoss /\ ~Active(p))
    BY <2>3, <2>8 DEF vars, callVars, MoveRoot, MoveFolder, PowerLoss
  <2>9. QED
    BY <1>2, <2>3, <2>4, <2>5, <2>6, <2>7, <2>8 DEF Next
<1>3. IInv /\ [Next]_vars =>
        [\A p \in Publisher : /\ StepsLeft(p)' <= StepsLeft(p)
                              /\ Step(p) => StepsLeft(p)' < StepsLeft(p)]_vars
  BY <1>1, <1>2
<1>4. QED
  BY <1>3, Invariance, PTL DEF Spec, CallsAreShort

=============================================================================
