-------------------------- MODULE CommandLineProofs -------------------------
(***************************************************************************)
(* Proofs about EvidenceStore and CommandLine, for any places, records,    *)
(* calls and requests: the store keeps its promise, and the command line   *)
(* uses it as promised and tells the truth about it.                       *)
(***************************************************************************)
EXTENDS CommandLine, TLAPS

-----------------------------------------------------------------------------
(* The store. *)

LEMMA NoneIsNoRecord == None \notin Manifest /\ None \notin Final
  BY StoreAssumption DEF Record

LEMMA StoreTypes == TypeOK /\ [Next]_vars => TypeOK'
<1> SUFFICES ASSUME TypeOK, [Next]_vars PROVE TypeOK'
  OBVIOUS
<1>1. ASSUME NEW s \in Place, NEW x \in Record, Publish(s, x) PROVE TypeOK'
  BY <1>1, StoreAssumption DEF TypeOK, Publish
<1>2. CASE Settle
  BY <1>2 DEF TypeOK, Settle
<1>3. CASE PowerLoss
  BY <1>3 DEF TypeOK, PowerLoss
<1>4. CASE UNCHANGED vars
  BY <1>4 DEF TypeOK, vars
<1> QED
  BY <1>1, <1>2, <1>3, <1>4 DEF Next

LEMMA SettledStep ==
  TypeOK /\ [Next]_vars => \A s \in settled : s \in settled' /\ shown'[s] = shown[s]
<1> SUFFICES ASSUME TypeOK, [Next]_vars, NEW s \in settled
             PROVE  s \in settled' /\ shown'[s] = shown[s]
  OBVIOUS
<1>1. s \in Place /\ shown[s] # None
  BY DEF TypeOK
<1>2. ASSUME NEW t \in Place, NEW x \in Record, Publish(t, x)
      PROVE  s \in settled' /\ shown'[s] = shown[s]
  BY <1>1, <1>2 DEF Publish, TypeOK
<1>3. CASE Settle
  BY <1>3 DEF Settle
<1>4. CASE PowerLoss
  BY <1>1, <1>4 DEF PowerLoss
<1>5. CASE UNCHANGED vars
  BY <1>5 DEF vars
<1> QED
  BY <1>2, <1>3, <1>4, <1>5 DEF Next

(* What backs a result is settled, so it goes on backing it.               *)
LEMMA BackedStays ==
  ASSUME TypeOK, [Next]_vars, NEW x, Backed(x)
  PROVE  Backed(x)'
<1>1. PICK s \in settled : shown[s] \in Manifest /\ IdentityOf[shown[s]] = Cites[x]
  BY DEF Backed
<1>2. s \in settled' /\ shown'[s] = shown[s]
  BY SettledStep
<1> QED
  BY <1>1, <1>2 DEF Backed

LEMMA FinalStep == TypeOK /\ FinalHasManifest /\ [Next]_vars => FinalHasManifest'
<1> SUFFICES ASSUME TypeOK, FinalHasManifest, [Next]_vars,
                    NEW s \in Place, NEW x \in Final, shown'[s] = x
             PROVE  Backed(x)'
  BY DEF FinalHasManifest, Backed
<1>1. CASE shown[s] = x
  <2>1. Backed(x)
    BY <1>1 DEF FinalHasManifest
  <2> QED
    BY <2>1, BackedStays
<1>2. CASE shown[s] # x
  <2>1. PICK t \in Place, y \in Record : Publish(t, y)
    BY <1>2, NoneIsNoRecord DEF Next, Settle, PowerLoss, vars
  <2>2. y = x
    BY <1>2, <2>1 DEF Publish, TypeOK
  <2>3. Backed(x)
    BY <2>1, <2>2 DEF Publish
  <2> QED
    BY <2>3, BackedStays
<1> QED
  BY <1>1, <1>2

LEMMA StoreInit == Init => TypeOK /\ FinalHasManifest
  BY NoneIsNoRecord DEF Init, TypeOK, FinalHasManifest

(* The store shows a result only with its manifest, which can no longer be *)
(* lost: the order of publication in evidence.py is enough for that.       *)
THEOREM StoreBacksResults == Spec => [](TypeOK /\ FinalHasManifest)
<1>1. TypeOK /\ FinalHasManifest /\ [Next]_vars => (TypeOK /\ FinalHasManifest)'
  BY StoreTypes, FinalStep
<1> QED
  BY StoreInit, <1>1, PTL DEF Spec

(* A record that settled stays, whatever is published or fails after it.   *)
THEOREM StoreKeepsSettled == Spec => SettledIsPermanent
<1>1. TypeOK /\ [Next]_vars => [\A s \in settled : s \in settled' /\ shown'[s] = shown[s]]_vars
  BY SettledStep
<1>2. Spec => []TypeOK
  BY StoreBacksResults, PTL
<1> QED
  BY <1>1, <1>2, PTL DEF Spec, SettledIsPermanent

-----------------------------------------------------------------------------
(* The invariant of the command line. *)

(* The places that a call has filled and still relies on. *)
Holds(c) ==
  IF c \in finished THEN Places(req[c])
  ELSE CASE pc[c] \in {"syncManifest", "final"} -> {req[c].manifestAt}
         [] pc[c] = "syncFinal" -> {req[c].manifestAt, req[c].finalAt}
         [] OTHER -> {}

(* A call that has said or is to say something has published, if it was to *)
(* do that at all.                                                         *)
Speaks(c) == pc[c] \in {"report", "passed"} \/ c \in owed \/ out[c] # "nothing"

ManifestShown(c) == shown[req[c].manifestAt] = req[c].manifest
FinalShown(c) == shown[req[c].finalAt] = req[c].final

(* What holds of a call at each point of its program. *)
CallInv(c) ==
  /\ pc[c] \in {"idle", "parse", "work"} \cup Publishing =>
       c \notin finished /\ c \notin owed /\ out[c] = "nothing"
  /\ pc[c] \in {"parse", "work"} => req[c] \in Request
  /\ pc[c] \in Publishing \/ c \in finished =>
       req[c] \in Request /\ Publishes(req[c])
  /\ pc[c] \in {"syncManifest", "final", "syncFinal"} \/ c \in finished =>
       ManifestShown(c)
  /\ pc[c] \in {"final", "syncFinal"} \/ c \in finished =>
       req[c].manifestAt \in settled
  /\ pc[c] = "syncFinal" \/ c \in finished => FinalShown(c)
  /\ c \in finished => req[c].finalAt \in settled
  /\ Speaks(c) => (Publishes(req[c]) => c \in finished)
  /\ pc[c] = "passed" \/ code[c] = 0 => out[c] = "whole"
  /\ code[c] # None => pc[c] = "over"

HoldsApart == \A c, d \in Call : c # d => Holds(c) \cap Holds(d) = {}

CallTypes ==
  /\ pc \in [Call -> {"idle", "parse", "work", "report", "passed", "failing",
                      "over"} \cup Publishing]
  /\ req \in [Call -> Request \cup {None}]
  /\ out \in [Call -> {"nothing", "part", "whole"}]
  /\ owed \subseteq Call
  /\ code \in [Call -> {None, 0, 1, 2}]
  /\ finished \subseteq Call

IInv ==
  /\ TypeOK
  /\ CallTypes
  /\ \A c \in Call : CallInv(c)
  /\ HoldsApart

LEMMA CallInitial == CallInit => IInv
<1> SUFFICES ASSUME CallInit PROVE IInv
  OBVIOUS
<1>1. TypeOK
  BY StoreInit DEF CallInit
<1>2. CallTypes
  BY DEF CallInit, CallTypes
<1>3. ASSUME NEW c \in Call PROVE CallInv(c) /\ Holds(c) = {}
  <2>1. pc[c] = "idle" /\ out[c] = "nothing" /\ code[c] = None /\ owed = {}
        /\ finished = {}
    BY DEF CallInit
  <2>2. ~Speaks(c)
    BY <2>1 DEF Speaks
  <2>3. code[c] = 0 => out[c] = "whole"
    BY <2>1, NoneAssumption
  <2> QED
    BY <2>1, <2>2, <2>3 DEF CallInv, Holds, Publishing
<1>4. HoldsApart
  BY <1>3 DEF HoldsApart
<1> QED
  BY <1>1, <1>2, <1>3, <1>4 DEF IInv

-----------------------------------------------------------------------------
(* What a step leaves of other calls. *)

(* All steps but a power failure keep what the store shows. *)
StoreKept ==
  /\ \A s \in Place : shown[s] # None => shown'[s] = shown[s]
  /\ settled \subseteq settled'

CallKept(c) ==
  /\ pc'[c] = pc[c] /\ req'[c] = req[c] /\ out'[c] = out[c] /\ code'[c] = code[c]
  /\ (c \in owed') = (c \in owed)
  /\ (c \in finished') = (c \in finished)

(* The records of a call that is publishing, or has published. *)
LEMMA RecordsOf ==
  ASSUME NEW c \in Call, CallInv(c), pc[c] \in Publishing \/ c \in finished
  PROVE  LET r == req[c]
         IN /\ r \in Request /\ Publishes(r)
            /\ r.manifest \in Manifest /\ r.final \in Final
            /\ r.manifest \in Record /\ r.final \in Record
            /\ r.manifest # None /\ r.final # None
            /\ Cites[r.final] = IdentityOf[r.manifest]
            /\ r.manifestAt \in Place /\ r.finalAt \in Place
  BY RequestAssumption, NoneIsNoRecord DEF CallInv, Record

(* A place that a call holds is not empty. *)
LEMMA HeldIsShown ==
  ASSUME NEW c \in Call, CallInv(c), NEW s \in Holds(c)
  PROVE  s \in Place /\ shown[s] # None
<1>1. pc[c] \in Publishing \/ c \in finished
  BY DEF Holds, Publishing
<1>2. CASE s = req[c].manifestAt /\ ManifestShown(c)
  BY <1>1, <1>2, RecordsOf DEF ManifestShown
<1>3. CASE s = req[c].finalAt /\ FinalShown(c)
  BY <1>1, <1>3, RecordsOf DEF FinalShown
<1> QED
  BY <1>2, <1>3, RecordsOf DEF Holds, Places, CallInv

LEMMA KeptCall ==
  ASSUME NEW c \in Call, CallInv(c), StoreKept, CallKept(c)
  PROVE  CallInv(c)' /\ Holds(c)' = Holds(c)
<1>1. Holds(c)' = Holds(c)
  BY DEF CallKept, Holds
<1>2. ManifestShown(c) /\ (pc[c] \in Publishing \/ c \in finished) => ManifestShown(c)'
  BY RecordsOf DEF ManifestShown, StoreKept, CallKept
<1>3. FinalShown(c) /\ (pc[c] \in Publishing \/ c \in finished) => FinalShown(c)'
  BY RecordsOf DEF FinalShown, StoreKept, CallKept
<1>4. Speaks(c)' = Speaks(c)
  BY DEF Speaks, CallKept
<1>5. Publishes(req[c])' = Publishes(req[c])
  BY DEF CallKept
<1>6. CallInv(c)'
  BY <1>2, <1>3, <1>4, <1>5 DEF CallInv, CallKept, StoreKept, Publishing
<1> QED
  BY <1>1, <1>6

(* So a step of one call preserves the invariant if it does so for that    *)
(* call, and what the call holds anew was empty or is its own already.     *)
LEMMA OneCallStep ==
  ASSUME IInv, [Next]_vars, CallTypes', StoreKept, NEW c \in Call,
         \A d \in Call \ {c} : CallKept(d),
         CallInv(c)',
         \A s \in Holds(c)' : s \in Holds(c) \/ shown[s] = None
  PROVE  IInv'
<1>1. TypeOK'
  BY StoreTypes DEF IInv
<1>2. \A d \in Call \ {c} : CallInv(d)' /\ Holds(d)' = Holds(d)
  BY KeptCall DEF IInv
<1>3. \A d \in Call \ {c} : Holds(c)' \cap Holds(d)' = {}
  BY <1>2, HeldIsShown DEF IInv, HoldsApart
<1>4. HoldsApart'
  BY <1>2, <1>3 DEF IInv, HoldsApart
<1> QED
  BY <1>1, <1>2, <1>4 DEF IInv

-----------------------------------------------------------------------------
(* The steps of one call that leave the store alone. *)

LEMMA QuietIsKept == UNCHANGED vars => StoreKept /\ [Next]_vars
  BY DEF vars, StoreKept

LEMMA StartStep ==
  ASSUME IInv, NEW c \in Call, NEW r \in Request, Start(c, r)
  PROVE  IInv'
<1>1. StoreKept /\ [Next]_vars
  BY QuietIsKept DEF Start
<1>2. CallTypes'
  BY DEF IInv, CallTypes, Start
<1>3. \A d \in Call \ {c} : CallKept(d)
  BY DEF IInv, CallTypes, Start, CallKept
<1>4. /\ pc[c] = "idle" /\ c \notin finished /\ c \notin owed /\ out[c] = "nothing"
      /\ code[c] = None
  BY DEF IInv, CallInv, Start
<1>5. /\ pc'[c] \in {"parse", "over"} /\ req'[c] = r /\ out'[c] = "nothing"
      /\ c \notin owed' /\ c \notin finished'
      /\ code'[c] # 0 /\ (code'[c] # None => pc'[c] = "over")
  BY <1>4, NoneAssumption DEF IInv, CallTypes, Start
<1>6. ~Speaks(c)'
  BY <1>5 DEF Speaks
<1>7. CallInv(c)' /\ Holds(c)' = {}
  BY <1>5, <1>6 DEF CallInv, Holds, Publishing
<1> QED
  BY <1>1, <1>2, <1>3, <1>7, OneCallStep

LEMMA ParseStep ==
  ASSUME IInv, NEW c \in Call, Parse(c)
  PROVE  IInv'
<1>1. StoreKept /\ [Next]_vars
  BY QuietIsKept DEF Parse
<1>2. CallTypes'
  BY DEF IInv, CallTypes, Parse, Goto
<1>3. \A d \in Call \ {c} : CallKept(d)
  BY DEF IInv, CallTypes, Parse, Goto, CallKept
<1>4. /\ pc[c] = "parse" /\ pc'[c] \in {"work", "failing"} /\ req'[c] = req[c]
      /\ out' = out /\ owed' = owed /\ finished' = finished /\ code' = code
  BY DEF IInv, CallTypes, Parse, Goto
<1>5. /\ c \notin finished /\ c \notin owed /\ out[c] = "nothing"
      /\ req[c] \in Request /\ code[c] # 0 /\ code[c] = None
  BY <1>4, NoneAssumption DEF IInv, CallInv
<1>6. ~Speaks(c)'
  BY <1>4, <1>5 DEF Speaks
<1>7. CallInv(c)' /\ Holds(c)' = {}
  BY <1>4, <1>5, <1>6 DEF CallInv, Holds, Publishing
<1> QED
  BY <1>1, <1>2, <1>3, <1>7, OneCallStep

LEMMA WorkStep ==
  ASSUME IInv, NEW c \in Call, Work(c)
  PROVE  IInv'
<1>1. StoreKept /\ [Next]_vars
  BY QuietIsKept DEF Work
<1>2. CallTypes'
  BY DEF IInv, CallTypes, Work, Goto, Publishing
<1>3. \A d \in Call \ {c} : CallKept(d)
  BY DEF IInv, CallTypes, Work, Goto, CallKept
<1>4. /\ pc[c] = "work" /\ req'[c] = req[c]
      /\ pc'[c] = IF Publishes(req[c]) THEN "manifest" ELSE "report"
      /\ out' = out /\ owed' = owed /\ finished' = finished /\ code' = code
  BY DEF IInv, CallTypes, Work, Goto
<1>5. /\ c \notin finished /\ c \notin owed /\ out[c] = "nothing"
      /\ req[c] \in Request /\ code[c] # 0 /\ code[c] = None
  BY <1>4, NoneAssumption DEF IInv, CallInv
<1>6. Publishes(req[c])' = Publishes(req[c])
  BY <1>4
<1>7. Speaks(c)' => ~Publishes(req[c])'
  BY <1>4, <1>5, <1>6 DEF Speaks
<1>8. Holds(c)' = {}
  BY <1>4, <1>5 DEF Holds
<1>9. CallInv(c)'
  <2>1. CASE Publishes(req[c])
    BY <2>1, <1>4, <1>5, <1>6, <1>7 DEF CallInv, Publishing
  <2>2. CASE ~Publishes(req[c])
    BY <2>2, <1>4, <1>5, <1>6, <1>7 DEF CallInv, Publishing
  <2> QED
    BY <2>1, <2>2
<1> QED
  BY <1>1, <1>2, <1>3, <1>8, <1>9, OneCallStep

LEMMA RefuseStep ==
  ASSUME IInv, NEW c \in Call, Refuse(c)
  PROVE  IInv'
<1>1. StoreKept /\ [Next]_vars
  BY QuietIsKept DEF Refuse
<1>2. CallTypes'
  BY DEF IInv, CallTypes, Refuse
<1>3. \A d \in Call \ {c} : CallKept(d)
  BY DEF IInv, CallTypes, Refuse, CallKept
<1>4. /\ pc[c] \in {"work"} \cup Publishing /\ pc'[c] = "failing"
      /\ out' = out /\ owed' = owed /\ finished' = finished /\ code' = code
  BY DEF IInv, CallTypes, Refuse
<1>5. /\ c \notin finished /\ c \notin owed /\ out[c] = "nothing"
      /\ code[c] # 0 /\ code[c] = None
  BY <1>4, NoneAssumption DEF IInv, CallInv, Publishing
<1>6. ~Speaks(c)'
  BY <1>4, <1>5 DEF Speaks
<1>7. CallInv(c)' /\ Holds(c)' = {}
  BY <1>4, <1>5, <1>6 DEF CallInv, Holds, Publishing
<1> QED
  BY <1>1, <1>2, <1>3, <1>7, OneCallStep

(* The report and the end, which come after publication or without it.     *)
(* Whoever has published by then is not disturbed by its own words.        *)
LEMMA LateCall ==
  ASSUME NEW c \in Call, CallInv(c), StoreKept,
         pc[c] \in {"report", "passed", "failing"} \/ pc'[c] = "over",
         pc'[c] \in {"passed", "failing", "over"},
         req'[c] = req[c], finished' = finished,
         Speaks(c)' => Speaks(c),
         pc'[c] = "passed" \/ code'[c] = 0 => out'[c] = "whole",
         code'[c] # None => pc'[c] = "over"
  PROVE  CallInv(c)' /\ Holds(c)' \subseteq Holds(c)
<1>1. c \in finished => ManifestShown(c)' /\ FinalShown(c)'
  BY RecordsOf DEF CallInv, StoreKept, ManifestShown, FinalShown
<1>2. Publishes(req[c])' = Publishes(req[c])
  OBVIOUS
<1>3. CallInv(c)'
  BY <1>1, <1>2 DEF CallInv, StoreKept, Publishing
<1>4. Holds(c)' \subseteq Holds(c)
  BY DEF Holds
<1> QED
  BY <1>3, <1>4

LEMMA ReportStep ==
  ASSUME IInv, NEW c \in Call, Report(c)
  PROVE  IInv'
<1>1. StoreKept /\ [Next]_vars
  BY QuietIsKept DEF Report
<1>2. CallTypes'
  BY DEF IInv, CallTypes, Report, Goto
<1>3. \A d \in Call \ {c} : CallKept(d)
  BY DEF IInv, CallTypes, Report, Goto, CallKept
<1>4. /\ pc[c] = "report" /\ pc'[c] = "passed" /\ out'[c] = "whole"
      /\ req' = req /\ finished' = finished /\ code' = code /\ owed' = owed
  BY DEF IInv, CallTypes, Report, Goto
<1>5. Speaks(c) /\ code[c] = None
  BY <1>4 DEF Speaks, IInv, CallInv
<1>6. CallInv(c)' /\ Holds(c)' \subseteq Holds(c)
  BY <1>1, <1>4, <1>5, LateCall DEF IInv
<1> QED
  BY <1>1, <1>2, <1>3, <1>6, OneCallStep

LEMMA ReportFailsStep ==
  ASSUME IInv, NEW c \in Call, ReportFails(c)
  PROVE  IInv'
<1>1. StoreKept /\ [Next]_vars
  BY QuietIsKept DEF ReportFails
<1>2. CallTypes'
  BY DEF IInv, CallTypes, ReportFails, Goto
<1>3. \A d \in Call \ {c} : CallKept(d)
  BY DEF IInv, CallTypes, ReportFails, Goto, CallKept
<1>4. /\ pc[c] = "report" /\ pc'[c] = "failing"
      /\ req' = req /\ finished' = finished /\ code' = code
  BY DEF IInv, CallTypes, ReportFails, Goto
<1>5. Speaks(c) /\ code[c] = None /\ code[c] # 0
  BY <1>4, NoneAssumption DEF Speaks, IInv, CallInv
<1>6. CallInv(c)' /\ Holds(c)' \subseteq Holds(c)
  BY <1>1, <1>4, <1>5, LateCall DEF IInv
<1> QED
  BY <1>1, <1>2, <1>3, <1>6, OneCallStep

LEMMA ExitPassedStep ==
  ASSUME IInv, NEW c \in Call, ExitPassed(c)
  PROVE  IInv'
<1>1. StoreKept /\ [Next]_vars
  BY QuietIsKept DEF ExitPassed, End
<1>2. CallTypes'
  BY DEF IInv, CallTypes, ExitPassed, End
<1>3. \A d \in Call \ {c} : CallKept(d)
  BY DEF IInv, CallTypes, ExitPassed, End, CallKept
<1>4. /\ pc[c] = "passed" /\ pc'[c] = "over" /\ code'[c] = 0
      /\ req' = req /\ finished' = finished /\ out' = out /\ owed' = owed
  BY DEF IInv, CallTypes, ExitPassed, End
<1>5. Speaks(c) /\ out[c] = "whole"
  BY <1>4 DEF Speaks, IInv, CallInv
<1>6. CallInv(c)' /\ Holds(c)' \subseteq Holds(c)
  BY <1>1, <1>4, <1>5, LateCall DEF IInv
<1> QED
  BY <1>1, <1>2, <1>3, <1>6, OneCallStep

LEMMA ExitFailedStep ==
  ASSUME IInv, NEW c \in Call, ExitFailed(c)
  PROVE  IInv'
<1>1. StoreKept /\ [Next]_vars
  BY QuietIsKept DEF ExitFailed, End
<1>2. CallTypes'
  BY DEF IInv, CallTypes, ExitFailed, End
<1>3. \A d \in Call \ {c} : CallKept(d)
  BY DEF IInv, CallTypes, ExitFailed, End, CallKept
<1>4. /\ pc[c] = "failing" /\ pc'[c] = "over" /\ code'[c] \in {1, 2}
      /\ req' = req /\ finished' = finished /\ owed' = owed
      /\ out'[c] = out[c] \/ c \in owed
  BY DEF IInv, CallTypes, ExitFailed, End
<1>5. Speaks(c)' => Speaks(c)
  BY <1>4 DEF Speaks
<1>6. CallInv(c)' /\ Holds(c)' \subseteq Holds(c)
  BY <1>1, <1>4, <1>5, LateCall DEF IInv
<1> QED
  BY <1>1, <1>2, <1>3, <1>6, OneCallStep

LEMMA KillStep ==
  ASSUME IInv, NEW c \in Call, Kill(c)
  PROVE  IInv'
<1>1. StoreKept /\ [Next]_vars
  BY QuietIsKept DEF Kill, End
<1>2. CallTypes'
  BY DEF IInv, CallTypes, Kill, End
<1>3. \A d \in Call \ {c} : CallKept(d)
  BY DEF IInv, CallTypes, Kill, End, CallKept
<1>4. /\ pc'[c] = "over" /\ code'[c] = 1
      /\ req' = req /\ finished' = finished /\ owed' = owed
      /\ out'[c] = out[c] \/ pc[c] = "report" \/ c \in owed
  BY DEF IInv, CallTypes, Kill, End
<1>5. Speaks(c)' => Speaks(c)
  BY <1>4 DEF Speaks
<1>6. CallInv(c)' /\ Holds(c)' \subseteq Holds(c)
  BY <1>1, <1>4, <1>5, LateCall DEF IInv
<1> QED
  BY <1>1, <1>2, <1>3, <1>6, OneCallStep

-----------------------------------------------------------------------------
(* The steps of publication. *)

LEMMA ShowIsKept ==
  ASSUME TypeOK, NEW s \in Place, NEW x \in Record, Show(s, x), x \in Final => Backed(x)
  PROVE  StoreKept /\ [Next]_vars /\ shown[s] = None /\ shown'[s] = x
<1>1. Publish(s, x)
  BY DEF Show, Publish
<1>2. StoreKept /\ shown[s] = None /\ shown'[s] = x
  BY DEF Show, StoreKept, TypeOK
<1> QED
  BY <1>1, <1>2 DEF Next

LEMMA SyncIsKept ==
  ASSUME TypeOK, NEW s \in Place, Sync(s), shown[s] # None
  PROVE  StoreKept /\ [Next]_vars /\ s \in settled'
<1>1. Settle
  BY DEF Sync, Settle, TypeOK
<1> QED
  BY <1>1 DEF Sync, StoreKept, Next

LEMMA ShowManifestStep ==
  ASSUME IInv, NEW c \in Call, ShowManifest(c)
  PROVE  IInv'
<1>1. CallInv(c) /\ pc[c] = "manifest" /\ pc[c] \in Publishing /\ code[c] = None
  BY DEF IInv, CallInv, ShowManifest, Goto, Publishing
<1>2. /\ c \notin finished /\ c \notin owed /\ out[c] = "nothing" /\ code[c] # 0
      /\ req[c] \in Request /\ Publishes(req[c])
  BY <1>1, NoneAssumption DEF CallInv
<1>3. StoreKept /\ [Next]_vars /\ shown[req[c].manifestAt] = None /\ ManifestShown(c)'
  BY <1>1, RecordsOf, ShowIsKept, StoreAssumption
     DEF IInv, ShowManifest, ManifestShown
<1>4. CallTypes'
  BY DEF IInv, CallTypes, ShowManifest, Goto, Publishing
<1>5. \A d \in Call \ {c} : CallKept(d)
  BY DEF IInv, CallTypes, ShowManifest, Goto, CallKept
<1>6. /\ pc'[c] = "syncManifest" /\ req' = req /\ out' = out /\ owed' = owed
      /\ code' = code /\ finished' = finished
  BY DEF IInv, CallTypes, ShowManifest, Goto
<1>7. ~Speaks(c)' /\ Publishes(req[c])'
  BY <1>2, <1>6 DEF Speaks
<1>8. CallInv(c)' /\ Holds(c)' = {req[c].manifestAt}
  BY <1>1, <1>2, <1>3, <1>6, <1>7 DEF CallInv, Holds, Publishing
<1> QED
  BY <1>3, <1>4, <1>5, <1>8, OneCallStep

LEMMA SyncManifestStep ==
  ASSUME IInv, NEW c \in Call, SyncManifest(c)
  PROVE  IInv'
<1>1. CallInv(c) /\ pc[c] = "syncManifest" /\ pc[c] \in Publishing /\ code[c] = None
  BY DEF IInv, CallInv, SyncManifest, Goto, Publishing
<1>2. /\ c \notin finished /\ c \notin owed /\ out[c] = "nothing" /\ code[c] # 0
      /\ req[c] \in Request /\ Publishes(req[c]) /\ ManifestShown(c)
  BY <1>1, NoneAssumption DEF CallInv
<1>3. StoreKept /\ [Next]_vars /\ req[c].manifestAt \in settled'
  BY <1>1, <1>2, RecordsOf, SyncIsKept DEF IInv, SyncManifest, ManifestShown
<1>4. CallTypes'
  BY DEF IInv, CallTypes, SyncManifest, Goto, Publishing
<1>5. \A d \in Call \ {c} : CallKept(d)
  BY DEF IInv, CallTypes, SyncManifest, Goto, CallKept
<1>6. /\ pc'[c] = "final" /\ req' = req /\ out' = out /\ owed' = owed
      /\ code' = code /\ finished' = finished /\ shown' = shown
  BY DEF IInv, CallTypes, SyncManifest, Goto, Sync
<1>7. ~Speaks(c)' /\ Publishes(req[c])' /\ ManifestShown(c)'
  BY <1>2, <1>6 DEF Speaks, ManifestShown
<1>8. CallInv(c)' /\ Holds(c)' = Holds(c)
  BY <1>1, <1>2, <1>3, <1>6, <1>7 DEF CallInv, Holds, Publishing
<1> QED
  BY <1>3, <1>4, <1>5, <1>8, OneCallStep

LEMMA ShowFinalStep ==
  ASSUME IInv, NEW c \in Call, ShowFinal(c)
  PROVE  IInv'
<1>1. CallInv(c) /\ pc[c] = "final" /\ pc[c] \in Publishing /\ code[c] = None
  BY DEF IInv, CallInv, ShowFinal, Goto, Publishing
<1>2. /\ c \notin finished /\ c \notin owed /\ out[c] = "nothing" /\ code[c] # 0
      /\ req[c] \in Request /\ Publishes(req[c])
      /\ ManifestShown(c) /\ req[c].manifestAt \in settled
  BY <1>1, NoneAssumption DEF CallInv
<1>3. Backed(req[c].final)
  BY <1>1, <1>2, RecordsOf DEF Backed, ManifestShown
<1>4. /\ StoreKept /\ [Next]_vars /\ shown[req[c].finalAt] = None
      /\ shown'[req[c].finalAt] = req[c].final
  BY <1>1, <1>3, RecordsOf, ShowIsKept DEF IInv, ShowFinal
<1>5. CallTypes'
  BY DEF IInv, CallTypes, ShowFinal, Goto, Publishing
<1>6. \A d \in Call \ {c} : CallKept(d)
  BY DEF IInv, CallTypes, ShowFinal, Goto, CallKept
<1>7. /\ pc'[c] = "syncFinal" /\ req' = req /\ out' = out /\ owed' = owed
      /\ code' = code /\ finished' = finished
  BY DEF IInv, CallTypes, ShowFinal, Goto
<1>8. /\ ~Speaks(c)' /\ Publishes(req[c])' /\ ManifestShown(c)' /\ FinalShown(c)'
      /\ req[c].manifestAt \in settled'
  BY <1>1, <1>2, <1>4, <1>7, RecordsOf DEF Speaks, ManifestShown, FinalShown, StoreKept
<1>9. /\ CallInv(c)'
      /\ Holds(c) = {req[c].manifestAt}
      /\ Holds(c)' = {req[c].manifestAt, req[c].finalAt}
  BY <1>1, <1>2, <1>7, <1>8 DEF CallInv, Holds, Publishing
<1> QED
  BY <1>4, <1>5, <1>6, <1>9, OneCallStep

LEMMA SyncFinalStep ==
  ASSUME IInv, NEW c \in Call, SyncFinal(c)
  PROVE  IInv'
<1>1. CallInv(c) /\ pc[c] = "syncFinal" /\ pc[c] \in Publishing /\ code[c] = None
  BY DEF IInv, CallInv, SyncFinal, Goto, Publishing
<1>2. /\ c \notin finished /\ c \notin owed /\ out[c] = "nothing" /\ code[c] # 0
      /\ req[c] \in Request /\ Publishes(req[c])
      /\ ManifestShown(c) /\ FinalShown(c) /\ req[c].manifestAt \in settled
  BY <1>1, NoneAssumption DEF CallInv
<1>3. StoreKept /\ [Next]_vars /\ req[c].finalAt \in settled'
  BY <1>1, <1>2, RecordsOf, SyncIsKept DEF IInv, SyncFinal, FinalShown
<1>4. CallTypes'
  BY DEF IInv, CallTypes, SyncFinal, Goto, Publishing
<1>5. \A d \in Call \ {c} : CallKept(d)
  BY DEF IInv, CallTypes, SyncFinal, Goto, CallKept
<1>6. /\ pc'[c] = "report" /\ req' = req /\ out' = out /\ owed' = owed
      /\ code' = code /\ c \in finished' /\ shown' = shown
  BY DEF IInv, CallTypes, SyncFinal, Goto, Sync
<1>7. /\ Publishes(req[c])' /\ ManifestShown(c)' /\ FinalShown(c)'
      /\ req[c].manifestAt \in settled'
  BY <1>2, <1>3, <1>6 DEF ManifestShown, FinalShown, StoreKept
<1>8. CallInv(c)' /\ Holds(c)' = Holds(c)
  BY <1>1, <1>2, <1>3, <1>6, <1>7 DEF CallInv, Holds, Publishing, Places
<1> QED
  BY <1>3, <1>4, <1>5, <1>8, OneCallStep

-----------------------------------------------------------------------------
(* The steps of the machine. *)

LEMMA PowerFailsStep == IInv /\ PowerFails => IInv'
<1> SUFFICES ASSUME IInv, PowerFails PROVE IInv'
  OBVIOUS
<1>1. [Next]_vars
  BY DEF PowerFails, Next
<1>2. TypeOK' /\ CallTypes'
  BY <1>1, StoreTypes, NoneAssumption DEF IInv, CallTypes, PowerFails
<1>3. \A s \in settled : s \in settled' /\ shown'[s] = shown[s]
  BY <1>1, SettledStep DEF IInv
<1>4. ASSUME NEW c \in Call PROVE CallInv(c)' /\ Holds(c)' \subseteq Holds(c)
  <2>1. CallInv(c)
    BY DEF IInv
  <2>2. /\ req' = req /\ out' = out /\ owed' = owed /\ finished' = finished
        /\ pc'[c] = IF pc[c] = "idle" THEN "idle" ELSE "over"
        /\ code'[c] = IF pc[c] \in {"idle", "over"} THEN code[c] ELSE 1
    BY DEF IInv, CallTypes, PowerFails
  <2>3. Speaks(c)' => Speaks(c)
    BY <2>2 DEF Speaks
  <2>4. c \in finished =>
          /\ ManifestShown(c)' /\ FinalShown(c)'
          /\ req[c].manifestAt \in settled' /\ req[c].finalAt \in settled'
    BY <1>3, <2>1, <2>2 DEF CallInv, ManifestShown, FinalShown
  <2>5. Publishes(req[c])' = Publishes(req[c])
    BY <2>2
  <2>6. CallInv(c)'
    BY <2>1, <2>2, <2>3, <2>4, <2>5 DEF CallInv, Publishing
  <2>7. Holds(c)' \subseteq Holds(c)
    BY <2>2 DEF Holds
  <2> QED
    BY <2>6, <2>7
<1>5. HoldsApart'
  BY <1>4 DEF IInv, HoldsApart
<1> QED
  BY <1>2, <1>4, <1>5 DEF IInv

LEMMA SystemSyncsStep == IInv /\ (SystemSyncs \/ UNCHANGED allVars) => IInv'
<1> SUFFICES ASSUME IInv, SystemSyncs \/ UNCHANGED allVars PROVE IInv'
  OBVIOUS
<1>1. [Next]_vars /\ StoreKept /\ UNCHANGED callVars
  BY DEF SystemSyncs, Settle, StoreKept, allVars, vars, Next
<1>2. TypeOK' /\ CallTypes'
  BY <1>1, StoreTypes DEF IInv, CallTypes, callVars
<1>3. \A c \in Call : CallInv(c)' /\ Holds(c)' = Holds(c)
  BY <1>1, KeptCall DEF IInv, CallKept, callVars
<1>4. HoldsApart'
  BY <1>3 DEF IInv, HoldsApart
<1> QED
  BY <1>2, <1>3, <1>4 DEF IInv

-----------------------------------------------------------------------------
(* The theorems. *)

LEMMA Inductive == IInv /\ [CallNext]_allVars => IInv'
<1> SUFFICES ASSUME IInv, [CallNext]_allVars PROVE IInv'
  OBVIOUS
<1>1. ASSUME NEW c \in Call, NEW r \in Request, Start(c, r) PROVE IInv'
  BY <1>1, StartStep
<1>2. ASSUME NEW c \in Call, Parse(c) \/ Work(c) \/ Refuse(c) PROVE IInv'
  BY <1>2, ParseStep, WorkStep, RefuseStep
<1>3. ASSUME NEW c \in Call,
             ShowManifest(c) \/ SyncManifest(c) \/ ShowFinal(c) \/ SyncFinal(c)
      PROVE  IInv'
  BY <1>3, ShowManifestStep, SyncManifestStep, ShowFinalStep, SyncFinalStep
<1>4. ASSUME NEW c \in Call, Report(c) \/ ReportFails(c) PROVE IInv'
  BY <1>4, ReportStep, ReportFailsStep
<1>5. ASSUME NEW c \in Call, ExitPassed(c) \/ ExitFailed(c) \/ Kill(c) PROVE IInv'
  BY <1>5, ExitPassedStep, ExitFailedStep, KillStep
<1> QED
  BY <1>1, <1>2, <1>3, <1>4, <1>5, PowerFailsStep, SystemSyncsStep DEF CallNext

LEMMA Invariance == CallSpec => []IInv
  BY CallInitial, Inductive, PTL DEF CallSpec

THEOREM CallsTypeCorrect == CallSpec => []CallTypeOK
<1>1. IInv => CallTypeOK
  BY DEF IInv, CallTypes, CallTypeOK
<1> QED
  BY <1>1, Invariance, PTL

(* What is on standard output is true, and stays true: the report of       *)
(* cli.py is written after both records are durable, and never before.     *)
THEOREM ReportsAreTrue == CallSpec => []ReportIsTrue
<1>1. IInv => ReportIsTrue
  BY DEF IInv, CallInv, ReportIsTrue, Speaks, Places, ManifestShown, FinalShown
<1> QED
  BY <1>1, Invariance, PTL

(* Publication is create-once, so two calls never both speak of a place,   *)
(* and a report that was lost is not made up for by repeating the command. *)
THEOREM ReportsAreSingle == CallSpec => []ReportedOnce
<1>1. IInv => ReportedOnce
  <2> SUFFICES ASSUME IInv, NEW c \in finished, NEW d \in Call,
                      d # c, out[d] # "nothing"
               PROVE  Places(req[c]) \cap Places(req[d]) = {}
    BY DEF ReportedOnce
  <2>1. c \in Call /\ Holds(c) = Places(req[c])
    BY DEF IInv, CallTypes, Holds
  <2>2. CASE Publishes(req[d])
    <3>1. d \in finished
      BY <2>2 DEF IInv, CallInv, Speaks
    <3> QED
      BY <2>1, <3>1 DEF IInv, HoldsApart, Holds
  <2>3. CASE ~Publishes(req[d])
    BY <2>3 DEF Places
  <2> QED
    BY <2>2, <2>3
<1> QED
  BY <1>1, Invariance, PTL

(* The command line uses the store as the store expects to be used: each   *)
(* of its steps publishes, settles, loses to a power failure, or leaves    *)
(* the store alone.                                                        *)
THEOREM UsesTheStore == CallSpec => Spec
<1>1. CallInit => Init
  BY DEF CallInit
<1>2. IInv /\ [CallNext]_allVars => [Next]_vars
  <2> SUFFICES ASSUME IInv, [CallNext]_allVars PROVE [Next]_vars
    OBVIOUS
  <2>1. ASSUME NEW c \in Call, ShowManifest(c) PROVE [Next]_vars
    <3>1. CallInv(c) /\ pc[c] \in Publishing
      BY <2>1 DEF IInv, ShowManifest, Goto, Publishing
    <3> QED
      BY <2>1, <3>1, RecordsOf, ShowIsKept, StoreAssumption DEF IInv, ShowManifest
  <2>2. ASSUME NEW c \in Call, ShowFinal(c) PROVE [Next]_vars
    <3>1. CallInv(c) /\ pc[c] \in Publishing /\ ManifestShown(c)
          /\ req[c].manifestAt \in settled
      BY <2>2 DEF IInv, CallInv, ShowFinal, Goto, Publishing
    <3>2. Backed(req[c].final)
      BY <3>1, RecordsOf DEF Backed, ManifestShown
    <3> QED
      BY <2>2, <3>1, <3>2, RecordsOf, ShowIsKept DEF IInv, ShowFinal
  <2>3. ASSUME NEW c \in Call, SyncManifest(c) PROVE [Next]_vars
    <3>1. CallInv(c) /\ pc[c] \in Publishing /\ ManifestShown(c)
      BY <2>3 DEF IInv, CallInv, SyncManifest, Goto, Publishing
    <3> QED
      BY <2>3, <3>1, RecordsOf, SyncIsKept DEF IInv, SyncManifest, ManifestShown
  <2>4. ASSUME NEW c \in Call, SyncFinal(c) PROVE [Next]_vars
    <3>1. CallInv(c) /\ pc[c] \in Publishing /\ FinalShown(c)
      BY <2>4 DEF IInv, CallInv, SyncFinal, Goto, Publishing
    <3> QED
      BY <2>4, <3>1, RecordsOf, SyncIsKept DEF IInv, SyncFinal, FinalShown
  <2>5. CASE UNCHANGED vars \/ PowerLoss \/ Settle
    BY <2>5 DEF Next
  <2> QED
    BY <2>1, <2>2, <2>3, <2>4, <2>5
       DEF CallNext, Start, Parse, Work, Refuse, Report, ReportFails, ExitPassed,
           ExitFailed, Kill, End, PowerFails, SystemSyncs, allVars
<1> QED
  BY <1>1, <1>2, Invariance, PTL DEF CallSpec, Spec

(* So it has what the store promises: results only over settled manifests, *)
THEOREM ResultsHaveManifests == CallSpec => []FinalHasManifest
  BY UsesTheStore, StoreBacksResults, PTL

(* and nothing that settled is ever replaced or lost.                      *)
THEOREM EvidenceStays == CallSpec => SettledIsPermanent
  BY UsesTheStore, StoreKeepsSettled, PTL

=============================================================================
