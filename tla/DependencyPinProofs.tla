------------------------ MODULE DependencyPinProofs ------------------------
(***************************************************************************)
(* Proofs about DependencyPin, for any trees, modules and callables, any   *)
(* number of invocations and any number of changes.                        *)
(***************************************************************************)
EXTENDS DependencyPin, TLAPS

(* The modules an invocation loads are modules. *)
LEMMA CallableFacts ==
  ASSUME NEW k \in Kind
  PROVE  /\ Callables[k] \in Seq(Module)
         /\ Len(Callables[k]) \in Nat \ {0}
         /\ \A i \in 1..Len(Callables[k]) : Callables[k][i] \in Module
BY DependencyAssumption

(* The module an import is about is one, and there is code it may run. *)
LEMMA ImportFacts ==
  ASSUME TypeOK, pc = "load", LoadStep(writes)
  PROVE  /\ Following \in Module /\ pinned \in Tree
         /\ imported + 1 \in 0..Len(Callables[kind])
         /\ modules' \in Loaded
         /\ modules'[Following] \in Tree \X Code
         /\ \/ modules' = modules
            \/ /\ modules[Following] = Nothing
               /\ \E code \in Loadable(Following) :
                    modules' = [modules EXCEPT ![Following] = <<pinned, code>>]
<1>1. kind \in Kind /\ imported \in Nat /\ imported < Len(Callables[kind])
  BY CallableFacts DEF TypeOK, LoadStep
<1>2. Following \in Module /\ imported + 1 \in 0..Len(Callables[kind])
  BY <1>1, CallableFacts DEF Following
<1>3. pinned \in Tree /\ modules \in Loaded
  BY DEF TypeOK, Idle
<1>4. PICK code \in Loadable(Following) :
        modules' = IF modules[Following] # Nothing THEN modules
                   ELSE [modules EXCEPT ![Following] = <<pinned, code>>]
  BY DEF LoadStep, Import
<1>5. <<pinned, code>> \in Tree \X Code
  BY <1>2, <1>3 DEF TypeOK, Loadable, Files, Code
<1>6. CASE modules[Following] # Nothing
  BY <1>2, <1>3, <1>4, <1>6 DEF Loaded
<1>7. CASE modules[Following] = Nothing
  <2>1. modules' = [modules EXCEPT ![Following] = <<pinned, code>>]
    BY <1>4, <1>7
  <2>2. modules' \in Loaded /\ modules'[Following] = <<pinned, code>>
    BY <2>1, <1>2, <1>3, <1>5 DEF Loaded
  <2>3. QED
    BY <2>1, <2>2, <1>2, <1>3, <1>5, <1>7
<1>8. QED
  BY <1>6, <1>7

-----------------------------------------------------------------------------
(* Type correctness. *)

LEMMA TypeInit == Init => TypeOK
<1> SUFFICES ASSUME Init PROVE TypeOK
  OBVIOUS
<1>1. kind \in Kind /\ imported \in 0..Len(Callables[kind])
  BY CallableFacts DEF Init, Kind
<1>2. files \in [Tree -> Files] /\ modules \in Loaded
  BY DependencyAssumption DEF Init
<1>3. /\ pinned = Nothing <=> (Idle \/ pc \in {"mr03", "pin"})
      /\ pinned \in Tree \cup {Nothing} /\ pathAt \in Tree \cup {Nothing}
  BY DEF Init, Idle
<1>4. changes \in 0..MaxChanges /\ made \in 0..MaxInvocations
  BY DependencyAssumption DEF Init
<1>5. QED
  BY <1>1, <1>2, <1>3, <1>4 DEF Init, TypeOK

LEMMA TypeStep ==
  ASSUME TypeOK, [Next]_vars
  PROVE  TypeOK'
<1>0. kind \in Kind /\ imported \in Nat
  BY CallableFacts DEF TypeOK
<1>1. CASE UNCHANGED vars
  BY <1>1 DEF TypeOK, Idle, vars, envVars, callVars, historyVars
<1>2. ASSUME NEW k \in Kind, Invoke(k) PROVE TypeOK'
  <2>1. imported' \in 0..Len(Callables[kind'])
    BY <1>2, CallableFacts DEF Invoke
  <2>2. made' \in 0..MaxInvocations
    BY <1>2, DependencyAssumption DEF Invoke, TypeOK
  <2>3. QED
    BY <1>2, <2>1, <2>2 DEF TypeOK, Invoke, Goto, Idle, envVars
<1>3. CASE VerifyMr03
  BY <1>3 DEF TypeOK, VerifyMr03, Goto, Idle, envVars, callVars
<1>4. CASE OpenRoot
  BY <1>4, DependencyAssumption
     DEF TypeOK, OpenRoot, Goto, Idle, envVars, historyVars
<1>5. CASE CheckRoot
  BY <1>5 DEF TypeOK, CheckRoot, Goto, Idle, envVars, historyVars
<1>6. ASSUME NEW m \in Module, ReadFile(m) PROVE TypeOK'
  BY <1>6 DEF TypeOK, ReadFile, Check, Idle, envVars, historyVars
<1>7. CASE Verified
  BY <1>7 DEF TypeOK, Verified, Goto, Idle, envVars, callVars, historyVars
<1>8. CASE Purge
  BY <1>8 DEF TypeOK, Purge, Goto, Unloaded, Loaded, Idle, envVars, callVars,
              historyVars
<1>9. CASE Load
  <2>0. pc = "load" /\ LoadStep(writes)
    BY <1>9 DEF Load, LoadStep
  <2>1. /\ Following \in Module /\ pinned \in Tree
        /\ imported + 1 \in 0..Len(Callables[kind])
        /\ modules' \in Loaded /\ modules'[Following] \in Tree \X Code
    BY <2>0, ImportFacts
  <2>2. ran' \subseteq Module \X (Tree \X Code)
    BY <2>0, <2>1 DEF LoadStep, Import, TypeOK
  <2>3. strays' \subseteq Tree \X Added
    BY <2>0, <2>1, DependencyAssumption DEF LoadStep, TypeOK
  <2>4. pc' \in {"run", "load", "unwind"}
    BY <2>0 DEF LoadStep, LoadEnds, Goto
  <2>5. (pinned' = Nothing) <=> (Idle' \/ pc' \in {"mr03", "pin"})
    BY <2>0, <2>4 DEF LoadStep, TypeOK, Idle
  <2>6. imported' \in 0..Len(Callables[kind'])
    BY <2>0, <2>1 DEF LoadStep
  <2>7. QED
    BY <2>0, <2>1, <2>2, <2>3, <2>4, <2>5, <2>6
       DEF TypeOK, LoadStep, envVars, historyVars
<1>10. CASE Run
  BY <1>10 DEF TypeOK, Run, Goto, Idle, envVars, callVars
<1>11. CASE Requalify
  BY <1>11 DEF TypeOK, Requalify, Check, Idle, envVars, callVars, historyVars
<1>12. CASE Finally
  BY <1>12 DEF TypeOK, Finally, Goto, Unloaded, Loaded, Idle, envVars,
               historyVars
<1>13. CASE Exchange
  BY <1>13, DependencyAssumption DEF TypeOK, Exchange, Idle, callVars
<1>14. ASSUME NEW t \in Tree, NEW m \in Module, Edit(t, m) PROVE TypeOK'
  BY <1>14, DependencyAssumption
     DEF TypeOK, Edit, Files, Version, Idle, callVars
<1>15. ASSUME NEW t \in Tree, NEW a \in Added, Add(t, a) PROVE TypeOK'
  BY <1>15, DependencyAssumption DEF TypeOK, Add, Idle, callVars
<1>16. ASSUME NEW t \in Tree, NEW a \in Added, TakeAway(t, a) PROVE TypeOK'
  BY <1>16, DependencyAssumption DEF TypeOK, TakeAway, Idle, callVars
<1>17. ASSUME NEW f \in Folder, ListFolder(f) PROVE TypeOK'
  BY <1>17 DEF TypeOK, ListFolder, Check, Idle, envVars, historyVars
<1>18. QED
  BY <1>1, <1>2, <1>3, <1>4, <1>5, <1>6, <1>7, <1>8, <1>9, <1>10, <1>11,
     <1>12, <1>13, <1>14, <1>15, <1>16, <1>17 DEF Next

-----------------------------------------------------------------------------
(* The inductive invariant. *)

LEMMA InvInit == Init => IInv
BY TypeInit
   DEF Init, IInv, WalkedIsGood, LoadedIsGood, QuietIsPinned,
       RunsWhatWasVerified, QuietInvocationSucceeds, BeforeLoad

(* What an import may run in a verified tree is accounted for. *)
LEMMA LoadableIsAccounted ==
  ASSUME IInv, pc = "load", NEW m \in Module, NEW code \in Loadable(m)
  PROVE  Accounted(m, code)
<1>1. walked = Module /\ listed = Folder /\ pinned \in Tree
  BY DEF IInv, LoadedIsGood, TypeOK, Idle
<1>2. CASE code = files[pinned][m]
  <2>1. code \in {Good, Bad}
    BY <1>1, <1>2 DEF IInv, TypeOK, Files, Version
  <2>2. code = Good \/ m \in edited
    BY <1>1, <1>2 DEF IInv, WalkedIsGood
  <2>3. QED
    BY <2>1, <2>2 DEF Accounted
<1>3. ASSUME code \in Added, <<pinned, code>> \in strays, m \in Displaces[code]
      PROVE  Accounted(m, code)
  <2>1. code # Bytecode
    BY <1>3, DependencyAssumption
  <2>2. FolderOf[code] = Nothing \/ FolderOf[code] \in listed
    BY <1>1, <1>3, DependencyAssumption
  <2>3. FolderOf[code] = Nothing \/ code \in late
    BY <1>3, <2>1, <2>2 DEF IInv, WalkedIsGood
  <2>4. QED
    BY <1>3, <2>3 DEF Accounted
<1>4. QED
  BY <1>2, <1>3 DEF Loadable

(* What verification has read stays good, and what is loaded is that. *)
LEMMA GoodStep ==
  ASSUME IInv, TypeOK', [Next]_vars
  PROVE  WalkedIsGood' /\ LoadedIsGood' /\ RunsWhatWasVerified'
<1> DEFINE Kept == WalkedIsGood' /\ LoadedIsGood' /\ RunsWhatWasVerified'
<1> USE DEF IInv, WalkedIsGood, LoadedIsGood, RunsWhatWasVerified, BeforeLoad
<1>0. /\ kind \in Kind /\ imported \in Nat
      /\ pinned \in Tree \cup {Nothing}
      /\ pinned = Nothing <=> (Idle \/ pc \in {"mr03", "pin"})
  BY CallableFacts DEF TypeOK
<1>1. CASE UNCHANGED vars
  BY <1>1 DEF vars, envVars, callVars, historyVars, Accounted
<1>2. ASSUME NEW k \in Kind, Invoke(k) PROVE Kept
  BY <1>2 DEF Invoke, Goto, envVars
<1>3. CASE VerifyMr03
  BY <1>3 DEF VerifyMr03, Goto, envVars, callVars, Accounted
<1>4. CASE OpenRoot
  BY <1>4, <1>0 DEF OpenRoot, Goto, envVars, historyVars, Accounted
<1>5. CASE CheckRoot
  BY <1>5, <1>0 DEF CheckRoot, Goto, envVars, historyVars, Accounted
<1>6. ASSUME NEW m \in Module, ReadFile(m) PROVE Kept
  BY <1>6 DEF ReadFile, Check, envVars, historyVars, Accounted
<1>7. CASE Verified
  BY <1>7 DEF Verified, Goto, envVars, callVars, historyVars, Accounted
<1>8. CASE Purge
  BY <1>8, <1>0 DEF Purge, Goto, Unloaded, envVars, callVars, historyVars, Accounted
<1>9. CASE Load
  <2>0. pc = "load" /\ LoadStep(writes)
    BY <1>9 DEF Load, LoadStep
  <2>1. /\ Following \in Module /\ pinned \in Tree /\ modules' \in Loaded
        /\ modules'[Following] \in Tree \X Code
        /\ \/ modules' = modules
           \/ \E code \in Loadable(Following) :
                modules' = [modules EXCEPT ![Following] = <<pinned, code>>]
    BY <2>0, ImportFacts
  <2>2. \A m \in Module : modules'[m] # Nothing =>
          modules'[m][1] = pinned /\ Accounted(m, modules'[m][2])
    <3>1. CASE modules' = modules
      BY <3>1, <2>0
    <3>2. ASSUME NEW code \in Loadable(Following),
                 modules' = [modules EXCEPT ![Following] = <<pinned, code>>]
          PROVE  \A m \in Module : modules'[m] # Nothing =>
                   modules'[m][1] = pinned /\ Accounted(m, modules'[m][2])
      <4>1. Accounted(Following, code)
        BY <2>0, <2>1, LoadableIsAccounted
      <4>2. QED
        BY <3>2, <4>1, <2>0, <2>1 DEF TypeOK, Loaded
    <3>3. QED
      BY <3>1, <3>2, <2>1
  <2>3. /\ UNCHANGED <<kind, pinned, listed, walked, made, files, edited, late>>
        /\ pc' \in {"run", "load", "unwind"}
        /\ imported' = imported + 1
        /\ strays' \subseteq strays \cup {<<pinned, Bytecode>>}
        /\ ran' = ran \cup {<<Following, modules'[Following]>>}
    BY <2>0 DEF LoadStep, LoadEnds, Goto, Import, envVars, historyVars
  <2>4. WalkedIsGood'
    BY <2>0, <2>3
  <2>5. modules'[Following] # Nothing
    BY <2>1, DependencyAssumption
  <2>6. RunsWhatWasVerified'
    <3>1. modules'[Following][1] = pinned /\ Accounted(Following, modules'[Following][2])
      BY <2>1, <2>2, <2>5
    <3>2. \A x \in ran' : x \in ran \/ x = <<Following, modules'[Following]>>
      BY <2>3
    <3>3. QED
      BY <2>3, <3>1, <3>2 DEF Accounted
  <2>7. LoadedIsGood'
    BY <2>0, <2>2, <2>3 DEF Accounted
  <2>8. QED
    BY <2>4, <2>6, <2>7
<1>10. CASE Run
  BY <1>10 DEF Run, Goto, envVars, callVars, Accounted
<1>11. CASE Requalify
  BY <1>11 DEF Requalify, Check, envVars, callVars, historyVars, Accounted
<1>12. CASE Finally
  BY <1>12 DEF Finally, Goto, envVars, historyVars, Accounted
<1>13. CASE Exchange
  BY <1>13 DEF Exchange, callVars, Accounted
<1>14. ASSUME NEW t \in Tree, NEW m \in Module, Edit(t, m) PROVE Kept
  BY <1>14, <1>0 DEF Edit, callVars, TypeOK, Files, Accounted
<1>15. ASSUME NEW t \in Tree, NEW a \in Added, Add(t, a) PROVE Kept
  BY <1>15, <1>0 DEF Add, callVars, Accounted
<1>16. ASSUME NEW t \in Tree, NEW a \in Added, TakeAway(t, a) PROVE Kept
  BY <1>16 DEF TakeAway, callVars, Accounted
<1>17. ASSUME NEW f \in Folder, ListFolder(f) PROVE Kept
  BY <1>17 DEF ListFolder, Check, envVars, historyVars, Accounted
<1>18. QED
  BY <1>1, <1>2, <1>3, <1>4, <1>5, <1>6, <1>7, <1>8, <1>9, <1>10, <1>11,
     <1>12, <1>13, <1>14, <1>15, <1>16, <1>17 DEF Next

(* A tree nobody touches is not given up. *)
LEMMA QuietStep ==
  ASSUME IInv, TypeOK', [Next]_vars
  PROVE  QuietIsPinned' /\ QuietInvocationSucceeds'
<1> DEFINE Kept == QuietIsPinned' /\ QuietInvocationSucceeds'
<1> USE DEF IInv, QuietIsPinned, QuietInvocationSucceeds, Flawed, BeforeLoad
<1>0. /\ pinned \in Tree \cup {Nothing}
      /\ pinned = Nothing <=> (Idle \/ pc \in {"mr03", "pin"})
      /\ files \in [Tree -> Files] /\ strays \subseteq Tree \X Added
      /\ made \in Nat
  BY DEF TypeOK
<1>1. CASE UNCHANGED vars
  BY <1>1 DEF vars, envVars, callVars, historyVars
<1>2. ASSUME NEW k \in Kind, Invoke(k) PROVE Kept
  BY <1>2, <1>0 DEF Invoke, Goto, Idle, envVars
<1>3. CASE VerifyMr03
  BY <1>3 DEF VerifyMr03, Goto, envVars, callVars
<1>4. CASE OpenRoot
  BY <1>4 DEF OpenRoot, Goto, envVars, historyVars
<1>5. CASE CheckRoot
  BY <1>5, <1>0 DEF CheckRoot, Goto, Idle, envVars, historyVars
<1>6. ASSUME NEW m \in Module, ReadFile(m) PROVE Kept
  BY <1>6, <1>0 DEF ReadFile, Check, Idle, Files, Version, envVars, historyVars
<1>7. CASE Verified
  BY <1>7, <1>0 DEF Verified, Goto, Idle, envVars, callVars, historyVars
<1>8. CASE Purge
  BY <1>8 DEF Purge, Goto, Unloaded, envVars, callVars, historyVars
<1>9. CASE Load
  <2>0. pc = "load" /\ LoadStep(writes)
    BY <1>9 DEF Load, LoadStep
  <2>1. /\ Following \in Module /\ pinned \in Tree /\ modules' \in Loaded
        /\ modules'[Following] \in Tree \X Code
        /\ \/ modules' = modules
           \/ \E code \in Loadable(Following) :
                modules' = [modules EXCEPT ![Following] = <<pinned, code>>]
    BY <2>0, ImportFacts
  <2>2. /\ UNCHANGED <<pathAt, files, writes, pinned, made, disturbed>>
        /\ pc' \in {"run", "load", "unwind"}
        /\ strays \subseteq strays'
        /\ \A t \in Tree : <<t, Bytecode>> \in strays' =>
             <<t, Bytecode>> \in strays \/ writes
        /\ pc' = "unwind" =>
             modules'[Following][1] # pinned \/ modules'[Following][2] # Good
    BY <2>0 DEF LoadStep, LoadEnds, Goto, envVars, historyVars
  <2>3. made >= 1
    BY <2>0
  <2>4. \A code \in Loadable(Following) : code = Good \/ Flawed(pinned)
    <3> SUFFICES ASSUME NEW code \in Loadable(Following), code # Good
                 PROVE  Flawed(pinned)
      OBVIOUS
    <3>1. CASE code = files[pinned][Following]
      BY <3>1, <2>1, <1>0 DEF Files, Version
    <3>2. CASE code \in Added /\ <<pinned, code>> \in strays /\ Following \in Displaces[code]
      BY <3>2, DependencyAssumption
    <3>3. QED
      BY <3>1, <3>2 DEF Loadable
  <2>5. Flawed(pinned) => Flawed(pinned)'
    BY <2>2
  <2>6. ~disturbed => \A m \in Module : modules'[m] # Nothing =>
          modules'[m][2] = Good \/ Flawed(pinned)
    <3> SUFFICES ASSUME ~disturbed, NEW m \in Module, modules'[m] # Nothing
                 PROVE  modules'[m][2] = Good \/ Flawed(pinned)
      OBVIOUS
    <3>1. CASE modules' = modules
      BY <3>1, <2>0
    <3>2. ASSUME NEW code \in Loadable(Following),
                 modules' = [modules EXCEPT ![Following] = <<pinned, code>>]
          PROVE  modules'[m][2] = Good \/ Flawed(pinned)
      <4>1. modules \in Loaded
        BY DEF TypeOK
      <4>2. CASE m = Following
        BY <3>2, <4>1, <4>2, <2>1, <2>4 DEF Loaded
      <4>3. CASE m # Following
        BY <3>2, <4>1, <4>3, <2>0, <2>1 DEF Loaded
      <4>4. QED
        BY <4>2, <4>3
    <3>3. QED
      BY <3>1, <3>2, <2>1
  <2>7. modules'[Following] # Nothing
    BY <2>1, DependencyAssumption
  <2>8. modules'[Following][1] = pinned
    BY <2>0, <2>1, <2>7 DEF TypeOK, Loaded, LoadedIsGood
  <2>9. QED
    BY <2>0, <2>1, <2>2, <2>3, <2>5, <2>6, <2>7, <2>8
<1>10. CASE Run
  BY <1>10 DEF Run, Goto, envVars, callVars
<1>11. CASE Requalify
  BY <1>11, <1>0 DEF Requalify, Check, Idle, envVars, callVars, historyVars
<1>12. CASE Finally
  BY <1>12, <1>0 DEF Finally, Goto, Idle, envVars, historyVars
<1>13. CASE Exchange
  BY <1>13 DEF Exchange, callVars
<1>14. ASSUME NEW t \in Tree, NEW m \in Module, Edit(t, m) PROVE Kept
  BY <1>14 DEF Edit, callVars
<1>15. ASSUME NEW t \in Tree, NEW a \in Added, Add(t, a) PROVE Kept
  BY <1>15 DEF Add, callVars
<1>16. ASSUME NEW t \in Tree, NEW a \in Added, TakeAway(t, a) PROVE Kept
  BY <1>16 DEF TakeAway, callVars
<1>17. ASSUME NEW f \in Folder, ListFolder(f) PROVE Kept
  BY <1>17, <1>0 DEF ListFolder, Check, Idle, envVars, historyVars
<1>18. QED
  BY <1>1, <1>2, <1>3, <1>4, <1>5, <1>6, <1>7, <1>8, <1>9, <1>10, <1>11,
     <1>12, <1>13, <1>14, <1>15, <1>16, <1>17 DEF Next

-----------------------------------------------------------------------------
(* The theorems. *)

LEMMA InvStep == IInv /\ [Next]_vars => IInv'
<1> SUFFICES ASSUME IInv, [Next]_vars PROVE IInv'
  OBVIOUS
<1>1. TypeOK'
  BY TypeStep DEF IInv
<1>2. QED
  BY <1>1, GoodStep, QuietStep DEF IInv

(* The strengthened invariant of the invocations of the dependency holds   *)
(* whatever is exchanged at the canonical path, and whatever is edited in  *)
(* it, added to it or taken away.                                          *)
THEOREM PinInvariance == Spec => []IInv
BY InvInit, InvStep, PTL DEF Spec

(* Every variable of the pinned invocations keeps to the values that       *)
(* dependency_runtime.py can give it; a descriptor is open exactly while   *)
(* an invocation needs it.                                                 *)
THEOREM PinTypeCorrect == Spec => []TypeOK
<1>1. IInv => TypeOK
  BY DEF IInv
<1>2. QED
  BY <1>1, PinInvariance, PTL

(* invoke_mr03 and invoke_mr04 run no code of the dependency but that of   *)
(* the tree they have pinned, as they verified it, except what was edited  *)
(* after it was read, what was added after its folder was listed and is    *)
(* found in place of a module, and what a link to a directory displaces.   *)
THEOREM OnlyVerifiedCodeRuns == Spec => []RunsWhatWasVerified
<1>1. IInv => RunsWhatWasVerified
  BY DEF IInv
<1>2. QED
  BY <1>1, PinInvariance, PTL

(* An invocation succeeds only if the canonical path names, when it looks  *)
(* for the last time, the tree whose code ran (_requalify_mr04_root).      *)
THEOREM ReplacementRefused == Spec => ReplacementFailsClosed
<1>1. IInv /\ [Next]_vars =>
        [pc' = "return" /\ pc # "return" => \A x \in ran : x[2][1] = pathAt]_vars
  <2> SUFFICES ASSUME IInv, Next, pc' = "return", pc # "return"
               PROVE  \A x \in ran : x[2][1] = pathAt
    OBVIOUS
  <2>1. Requalify
    BY DEF Next, Invoke, VerifyMr03, OpenRoot, CheckRoot, ListFolder, ReadFile,
           Verified, Purge, Load, LoadStep, LoadEnds, Run, Finally, Exchange,
           Edit, Add, TakeAway, Goto, Check
  <2>2. pathAt = pinned /\ pinned # Nothing
    BY <2>1 DEF Requalify, Check, IInv, TypeOK, Idle
  <2>3. QED
    BY <2>2 DEF IInv, RunsWhatWasVerified
<1>2. QED
  BY <1>1, PinInvariance, PTL DEF Spec, ReplacementFailsClosed

(* A frozen tree that nobody touches during an invocation is accepted,     *)
(* however the invocations before it ended, unless the interpreter writes  *)
(* byte code and one of them has left some in the tree.                    *)
THEOREM QuietAccepted == Spec => []QuietInvocationSucceeds
<1>1. IInv => QuietInvocationSucceeds
  BY DEF IInv
<1>2. QED
  BY <1>1, PinInvariance, PTL
=============================================================================
