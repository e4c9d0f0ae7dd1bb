-------------------------- MODULE ControllerProofs --------------------------
(***************************************************************************)
(* Proofs about Controller, for any number of calls, requests, places and  *)
(* changes of the source.                                                  *)
(***************************************************************************)
EXTENDS Controller, TLAPS

(* All there is of one call. *)
Own(c) == <<pc[c], req[c], captured[c], mr03[c], mr04[c], manifest[c],
            executed[c]>>

Evidence(p, m) ==
  \E c \in Call : /\ Over(c) /\ manifest[c] = m /\ Built(c)
                  /\ req[c].root /\ req[c].place = p
                  /\ Admitted(req[c])

EvidenceInv == \A p \in Place : \A m \in published[p] : Evidence(p, m)

LEMMA Parts == IInv <=> Shape /\ (\A c \in Call : CallInv(c)) /\ EvidenceInv
  BY DEF IInv, EvidenceInv, Evidence

(* The source is still as it was when the first call began.  No step makes *)
(* this true again.                                                        *)
StillOriginal == changes' = 0 => changes = 0 /\ source' = source

(* A step that leaves a call and its destination alone keeps what is known *)
(* of the call.                                                            *)
LEMMA CallFrame ==
  ASSUME NEW c \in Call, CallInv(c), Own(c)' = Own(c), StillOriginal,
         pc[c] = "returned" /\ req[c].root =>
           published'[req[c].place] = published[req[c].place]
  PROVE  CallInv(c)'
  BY DEF CallInv, Own, Allowed, Fresh, WorkDone, Built, RunRecord, Results,
         Artifacts, Counters, StillOriginal

(* A step that publishes nothing and leaves alone the calls that are over  *)
(* keeps what is known of the published evidence.                          *)
LEMMA EvidenceFrame ==
  ASSUME EvidenceInv, UNCHANGED published, StillOriginal,
         \A d \in Call : Over(d) => Own(d)' = Own(d)
  PROVE  EvidenceInv'
<1> SUFFICES ASSUME NEW p \in Place, NEW m \in published'[p]
             PROVE  Evidence(p, m)'
  BY DEF EvidenceInv
<1>1. PICK d \in Call : /\ Over(d) /\ manifest[d] = m /\ Built(d)
                        /\ req[d].root /\ req[d].place = p
                        /\ Admitted(req[d])
  BY DEF EvidenceInv, Evidence
<1>2. Own(d)' = Own(d)
  BY <1>1
<1>3. (/\ Over(d) /\ manifest[d] = m /\ Built(d)
       /\ req[d].root /\ req[d].place = p
       /\ Admitted(req[d]))'
  BY <1>1, <1>2 DEF Own, Over, Built, WorkDone, RunRecord, Results, Artifacts, Counters, StillOriginal
<1>4. QED
  BY <1>3 DEF Evidence

LEMMA InitHolds == Init => IInv
<1> SUFFICES ASSUME Init PROVE IInv
  OBVIOUS
<1>1. Shape
  BY DEF Init, Shape
<1>2. ASSUME NEW c \in Call PROVE CallInv(c)
  BY DEF Init, CallInv, Allowed, Fresh
<1>3. EvidenceInv
  BY DEF Init, EvidenceInv
<1>4. QED
  BY <1>1, <1>2, <1>3, Parts

(* A call's own step leaves all other calls alone and every function with  *)
(* its domain.                                                             *)
LEMMA StepShape ==
  ASSUME Shape, NEW c \in Call,
         Begin(c) \/ Capture(c) \/ CheckArguments(c) \/ InvokeMr03(c)
           \/ InvokeMr04(c) \/ Build(c) \/ Publish(c) \/ Crash(c)
  PROVE  Shape' /\ StillOriginal /\ \A d \in Call \ {c} : Own(d)' = Own(d)
<1> USE DEF Shape, Own, Goto, Check, callVars, envVars, StillOriginal
<1>1. CASE Begin(c) BY <1>1 DEF Begin
<1>2. CASE Capture(c) BY <1>2 DEF Capture
<1>3. CASE CheckArguments(c) BY <1>3 DEF CheckArguments
<1>4. CASE InvokeMr03(c) BY <1>4 DEF InvokeMr03
<1>5. CASE InvokeMr04(c) BY <1>5 DEF InvokeMr04
<1>6. CASE Build(c) BY <1>6 DEF Build
<1>7. CASE Publish(c) BY <1>7 DEF Publish
<1>8. CASE Crash(c) BY <1>8 DEF Crash
<1>9. QED
  BY <1>1, <1>2, <1>3, <1>4, <1>5, <1>6, <1>7, <1>8

(* The steps of a call up to its manifest keep what is known of it. *)
LEMMA OwnStep ==
  ASSUME IInv, NEW c \in Call,
         Begin(c) \/ Capture(c) \/ CheckArguments(c) \/ InvokeMr03(c)
           \/ InvokeMr04(c) \/ Build(c) \/ Crash(c)
  PROVE  CallInv(c)' /\ ~Over(c) /\ UNCHANGED published
<1>0. Shape /\ CallInv(c)
  BY Parts
<1> USE <1>0 DEF Shape, Goto, Check, callVars, envVars
<1>1. CASE Begin(c)
  BY <1>1 DEF Begin, CallInv, Allowed, Fresh, Over
<1>2. CASE Capture(c)
  BY <1>2 DEF Capture, CallInv, Allowed, Fresh, WorkDone, Over
<1>3. CASE CheckArguments(c)
  BY <1>3 DEF CheckArguments, CallInv, Allowed, Over
<1>4. CASE InvokeMr03(c)
  BY <1>4 DEF InvokeMr03, CallInv, Allowed, Over
<1>5. CASE InvokeMr04(c)
  BY <1>5 DEF InvokeMr04, CallInv, Allowed, WorkDone, Over
<1>6. CASE Build(c)
  BY <1>6 DEF Build, CallInv, Allowed, WorkDone, Built, RunRecord, Results, Artifacts, Counters, Over
<1>7. CASE Crash(c)
  BY <1>7 DEF Crash, CallInv, Allowed, Over
<1>8. QED
  BY <1>1, <1>2, <1>3, <1>4, <1>5, <1>6, <1>7

LEMMA PublishKeeps ==
  ASSUME IInv, NEW c \in Call, Publish(c)
  PROVE  IInv'
<1>0. Shape /\ (\A d \in Call : CallInv(d)) /\ EvidenceInv
  BY Parts
<1>1. Shape' /\ StillOriginal /\ \A d \in Call \ {c} : Own(d)' = Own(d)
  BY <1>0, StepShape
<1>2. /\ pc[c] = "publish" /\ ~Over(c) /\ Built(c) /\ req[c].root
      /\ Admitted(req[c]) /\ req[c].place \in Place
  BY <1>0, ControllerAssumption DEF Publish, CallInv, Over, Admitted
<1>3. CASE published' = published /\ pc'[c] = "failed"
  <2>1. CallInv(c)'
    BY <1>0, <1>2, <1>3 DEF Publish, CallInv, Allowed, callVars, envVars
  <2>2. ASSUME NEW d \in Call \ {c} PROVE CallInv(d)'
    BY <1>0, <1>1, <1>3, CallFrame
  <2>3. EvidenceInv'
    BY <1>0, <1>1, <1>2, <1>3, EvidenceFrame
  <2>4. Shape' /\ (\A d \in Call : CallInv(d)') /\ EvidenceInv'
    BY <1>1, <2>1, <2>2, <2>3
  <2>5. QED
    BY <2>4 DEF IInv, EvidenceInv, Evidence
<1>4. CASE /\ published[req[c].place] = {}
           /\ published' = [published EXCEPT ![req[c].place] = {manifest[c]}]
           /\ pc'[c] \in {"returned", "failed"}
  <2>0. published'[req[c].place] = {manifest[c]}
    BY <1>0, <1>2, <1>4 DEF Shape
  <2>1. CallInv(c)'
    BY <1>0, <1>2, <1>4, <2>0 DEF Publish, CallInv, Allowed, callVars, envVars
  <2>2. ASSUME NEW d \in Call \ {c} PROVE CallInv(d)'
    <3>1. pc[d] = "returned" /\ req[d].root =>
            published'[req[d].place] = published[req[d].place]
      <4> SUFFICES ASSUME pc[d] = "returned", req[d].root
                   PROVE  published'[req[d].place] = published[req[d].place]
        OBVIOUS
      <4>1. published[req[d].place] = {manifest[d]} /\ req[d].place \in Place
        BY <1>0, ControllerAssumption DEF CallInv, Admitted
      <4>2. req[d].place # req[c].place
        BY <4>1, <1>4
      <4>3. QED
        BY <4>1, <4>2, <1>0, <1>4 DEF Shape
    <3>2. QED
      BY <3>1, <1>0, <1>1, CallFrame
  <2>3. ASSUME NEW p \in Place, NEW m \in published'[p]
        PROVE  Evidence(p, m)'
    <3>1. CASE p = req[c].place
      <4>1. m = manifest[c]
        BY <3>1, <2>0
      <4>2. (/\ Over(c) /\ manifest[c] = m /\ Built(c)
             /\ req[c].root /\ req[c].place = p
             /\ Admitted(req[c]))'
        BY <1>2, <1>4, <3>1, <4>1
        DEF Publish, Over, Built, WorkDone, RunRecord, Results, Artifacts, Counters, callVars, envVars
      <4>3. QED
        BY <4>2 DEF Evidence
    <3>2. CASE p # req[c].place
      <4>1. m \in published[p]
        BY <3>2, <1>0, <1>4 DEF Shape
      <4>2. PICK d \in Call : /\ Over(d) /\ manifest[d] = m /\ Built(d)
                              /\ req[d].root /\ req[d].place = p
                              /\ Admitted(req[d])
        BY <4>1, <1>0 DEF EvidenceInv, Evidence
      <4>3. Own(d)' = Own(d)
        BY <4>2, <1>1, <1>2
      <4>4. (/\ Over(d) /\ manifest[d] = m /\ Built(d)
             /\ req[d].root /\ req[d].place = p
             /\ Admitted(req[d]))'
        BY <1>1, <4>2, <4>3
        DEF Own, Over, Built, WorkDone, RunRecord, Results, Artifacts, Counters, StillOriginal
      <4>5. QED
        BY <4>4 DEF Evidence
    <3>3. QED
      BY <3>1, <3>2
  <2>4. Shape' /\ (\A d \in Call : CallInv(d)') /\ EvidenceInv'
    BY <1>1, <2>1, <2>2, <2>3 DEF EvidenceInv
  <2>5. QED
    BY <2>4 DEF IInv, EvidenceInv, Evidence
<1>5. QED
  BY <1>0, <1>3, <1>4 DEF Publish, Goto, Shape

LEMMA StepKeeps == IInv /\ [Next]_vars => IInv'
<1> SUFFICES ASSUME IInv, [Next]_vars PROVE IInv'
  OBVIOUS
<1>0. Shape /\ (\A d \in Call : CallInv(d)) /\ EvidenceInv
  BY Parts
<1>1. ASSUME NEW c \in Call,
             Begin(c) \/ Capture(c) \/ CheckArguments(c) \/ InvokeMr03(c)
               \/ InvokeMr04(c) \/ Build(c) \/ Crash(c)
      PROVE  IInv'
  <2>1. CallInv(c)' /\ ~Over(c) /\ UNCHANGED published
    BY <1>1, OwnStep
  <2>2. Shape' /\ StillOriginal /\ \A d \in Call \ {c} : Own(d)' = Own(d)
    BY <1>0, <1>1, StepShape
  <2>3. ASSUME NEW d \in Call \ {c} PROVE CallInv(d)'
    BY <1>0, <2>1, <2>2, CallFrame
  <2>4. EvidenceInv'
    BY <1>0, <2>1, <2>2, EvidenceFrame
  <2>5. Shape' /\ (\A d \in Call : CallInv(d)') /\ EvidenceInv'
    BY <2>1, <2>2, <2>3, <2>4
  <2>6. QED
    BY <2>5 DEF IInv, EvidenceInv, Evidence
<1>2. ASSUME NEW c \in Call, Publish(c) PROVE IInv'
  BY <1>2, PublishKeeps
<1>3. CASE Change \/ UNCHANGED vars
  <2>1. /\ UNCHANGED <<pc, req, captured, mr03, mr04, manifest>>
        /\ UNCHANGED <<published, executed>>
    BY <1>3 DEF Change, vars, callVars
  <2>2. Shape' /\ StillOriginal
    BY <1>0, <1>3, <2>1 DEF Shape, StillOriginal, Change, vars, envVars
  <2>3. ASSUME NEW d \in Call PROVE CallInv(d)'
    BY <1>0, <2>1, <2>2, CallFrame DEF Own
  <2>4. EvidenceInv'
    BY <1>0, <2>1, <2>2, EvidenceFrame DEF Own
  <2>5. Shape' /\ (\A d \in Call : CallInv(d)') /\ EvidenceInv'
    BY <2>2, <2>3, <2>4
  <2>6. QED
    BY <2>5 DEF IInv, EvidenceInv, Evidence
<1>4. QED
  BY <1>1, <1>2, <1>3 DEF Next

(* Whatever calls run side by side, fail or die: the invariant holds.      *)
THEOREM Invariant == Spec => []IInv
<1>1. QED
  BY InitHolds, StepKeeps, PTL DEF Spec

(* No call works that is refused, and none runs a dependency before its    *)
(* arguments are complete and its source captured.                         *)
THEOREM RefusedCallsDoNothing == Spec => []WorkIsAllowed
<1>1. IInv => WorkIsAllowed
  BY DEF IInv, CallInv, Allowed, WorkIsAllowed, Admitted, Executable
<1>2. QED
  BY <1>1, Invariant, PTL

(* What a call that has built a manifest counts is what it has executed,   *)
(* and what it binds beside the caller's words is what that gave.          *)
LEMMA BuiltCountsTrue ==
  ASSUME NEW c \in Call, Built(c), Admitted(req[c]), req[c].root
  PROVE  /\ captured[c] = manifest[c].run.input
         /\ SourceId(manifest[c].run.input) \in manifest[c].artifacts
         /\ CountsTrue(manifest[c], c)
         /\ BindsItsResults(manifest[c], c)
         /\ "evidence_persistence" \in manifest[c].counters
<1>1. /\ manifest[c].run = RunRecord(c)
      /\ manifest[c].artifacts = Artifacts(c)
      /\ manifest[c].counters = Counters(c)
  BY DEF Built
<1>2. /\ manifest[c].run.input = captured[c]
      /\ manifest[c].run.dependencies = req[c].dependencies \cup Results(c)
  BY <1>1 DEF RunRecord
<1>3. ASSUME NEW d \in {"mr03", "mr04"}
      PROVE  d \in executed[c] <=> DependencyRequested(req[c])
  BY DEF Built, WorkDone
<1>4. ASSUME NEW d \in {"mr03", "mr04"}
      PROVE  ExecutionCounter[d] \in manifest[c].counters
               <=> DependencyRequested(req[c])
  <2>1. ExecutionCounter[d] \in {"mr03_execution", "mr04_execution"}
    BY DEF ExecutionCounter
  <2>2. ExecutionCounter[d] \notin req[c].counters
    BY <2>1 DEF Admitted, Forbidden, Derived
  <2>3. QED
    BY <1>1, <2>1, <2>2 DEF Counters, Derived
<1>5. CountsTrue(manifest[c], c)
  BY <1>3, <1>4 DEF CountsTrue
<1>6. BindsItsResults(manifest[c], c)
  <2>1. "mr04_execution" \in manifest[c].counters <=> DependencyRequested(req[c])
    BY <1>4 DEF ExecutionCounter
  <2>2. CASE DependencyRequested(req[c])
    <3>1. /\ mr04[c].upstream = mr03[c] /\ mr03[c].capture = captured[c]
          /\ changes = 0 => /\ mr03[c].read = captured[c]
                            /\ mr04[c].read = captured[c]
      BY <2>2 DEF Built, WorkDone
    <3>2. Results(c) = {mr03[c], mr04[c]}
      BY <2>2 DEF Results
    <3>3. QED
      BY <1>2, <2>1, <2>2, <3>1, <3>2 DEF BindsItsResults
  <2>3. CASE ~DependencyRequested(req[c])
    BY <1>2, <2>1, <2>3 DEF BindsItsResults, Results
  <2>4. QED
    BY <2>2, <2>3
<1>7. SourceId(manifest[c].run.input) \in manifest[c].artifacts
  BY <1>1, <1>2 DEF Artifacts
<1>8. "evidence_persistence" \in manifest[c].counters
  BY <1>1 DEF Counters
<1>9. QED
  BY <1>2, <1>5, <1>6, <1>7, <1>8

(* Published evidence counts exactly what its call has run; beside what    *)
(* the caller declared, whatever that was, it binds the results of that    *)
(* and nothing else; and a call that returns has its own at its place.     *)
THEOREM EvidenceTellsTheTruth == Spec => []EvidenceIsTrue
<1>1. ASSUME IInv PROVE EvidenceIsTrue
  <2>1. ASSUME NEW p \in Place, NEW m \in published[p]
        PROVE  \E c \in Call : /\ manifest[c] = m /\ req[c].place = p
                               /\ captured[c] = m.run.input
                               /\ SourceId(m.run.input) \in m.artifacts
                               /\ CountsTrue(m, c)
                               /\ BindsItsResults(m, c)
                               /\ "evidence_persistence" \in m.counters
    <3>1. PICK c \in Call : /\ Over(c) /\ manifest[c] = m /\ Built(c)
                            /\ req[c].root /\ req[c].place = p
                            /\ Admitted(req[c])
      BY <1>1 DEF IInv
    <3>2. QED
      BY <3>1, BuiltCountsTrue
  <2>2. ASSUME NEW c \in Call, pc[c] = "returned", req[c].root
        PROVE  published[req[c].place] = {manifest[c]}
    BY <1>1, <2>2 DEF IInv, CallInv
  <2>3. QED
    BY <2>1, <2>2 DEF EvidenceIsTrue
<1>2. QED
  BY <1>1, Invariant, PTL
=============================================================================
