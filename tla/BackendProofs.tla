---------------------------- MODULE BackendProofs ----------------------------
(***************************************************************************)
(* Proofs about Backend, for every set of configurations.  One inductive   *)
(* invariant carries them all; it ties each step of Sign, in the nesting   *)
(* of its tool, to what the four paths hold and to how the call is going.  *)
(***************************************************************************)
EXTENDS Backend, TLAPS

\* The steps at which a tool's call may have its temporary files.
StagingSteps ==
  IF config.tool = "jsign"
    THEN {"copy", "pin", "write", "run", "unpin", "publish", "unstage"}
    ELSE {"clear", "run", "publish", "unstage"}

PINSteps ==
  IF config.tool = "jsign"
    THEN {"write", "run", "unpin"}
    ELSE {"write", "stage", "clear", "run", "publish", "unstage", "unpin"}

\* The steps of a call that has not met an error yet, up to the tool, and
\* those behind the PIN file.
Forward == {"check", "pin", "write", "stage", "clear", "copy", "run"}

Armed == IF config.tool = "jsign" THEN {"run"} ELSE {"stage", "clear", "run"}

\* The steps behind the rename.
Late == IF config.tool = "jsign" THEN {"return"} ELSE {"unpin", "return"}

OwnSteps ==
  /\ pc = "clear" => config.tool = "osslsigncode"
  /\ pc = "copy" => config.tool = "jsign"
  /\ pc = "write" => config.pin
  /\ pc \in Forward => ~failed /\ ~mishap
  /\ pc = "publish" => ~failed
  /\ pc = "unstage" => failed

TemporaryInv ==
  /\ pc = "idle" => files["staging"] = "absent" /\ files["pin"] = "absent"
  /\ pc \notin StagingSteps /\ ~mishap => files["staging"] = "absent"
  /\ pc \notin PINSteps /\ ~mishap => files["pin"] = "absent"
  /\ pc \in Armed => files["pin"] = IF config.pin THEN "full" ELSE "absent"

OutputInv ==
  /\ files["input"] = "unsigned"
  /\ pc \notin {"idle", "check", "return"} => before # "input"
  /\ pc # "idle" =>
       files["output"] = IF ~failed /\ pc \in Late THEN "signed" ELSE before
  /\ pc = "publish" => files["staging"] = "signed"
  /\ pc = "unpin" /\ config.tool = "jsign" /\ ~failed =>
       files["staging"] = "signed"

SignInv == TypeOK /\ OwnSteps /\ TemporaryInv /\ OutputInv

LEMMA InitInv == Init => SignInv
BY ConfigsAssumption DEF Init, SignInv, TypeOK, OwnSteps, TemporaryInv,
   OutputInv, StagingSteps, PINSteps, Forward, Armed, Late, Paths, Contents,
   StagingContents, Steps

\* Where a success and a failure of each step lead.
LEMMA Flow ==
  /\ After("check") = IF config.tool = "jsign" THEN "stage" ELSE "pin"
  /\ After("write") = IF config.tool = "jsign" THEN "run" ELSE "stage"
  /\ After("stage") = IF config.tool = "jsign" THEN "copy" ELSE "clear"
  /\ config.tool # "jsign" => After("clear") = "run"
  /\ config.tool = "jsign" => After("copy") = "pin"
  /\ After("run") = IF config.tool = "jsign" THEN "unpin" ELSE "publish"
  /\ After("publish") = IF config.tool = "jsign" THEN "return" ELSE "unpin"
  /\ After("unpin") = IF config.tool = "jsign" THEN "publish" ELSE "return"
  /\ OnError("check") = "return"
  /\ OnError("pin") = IF config.tool = "jsign" THEN "unstage" ELSE "return"
  /\ OnError("write") = "unpin"
  /\ OnError("stage") = IF config.tool = "jsign" THEN "return" ELSE "unpin"
  /\ config.tool # "jsign" => OnError("clear") = "unstage"
  /\ config.tool = "jsign" => OnError("copy") = "unstage"
  /\ OnError("run") = IF config.tool = "jsign" THEN "unpin" ELSE "unstage"
BY DEF After, AfterJsign, AfterOSSLSigncode, OnError, OnErrorJsign,
       OnErrorOSSLSigncode

LEMMA StepInv == SignInv /\ [Next]_vars => SignInv'
<1> SUFFICES ASSUME SignInv, [Next]_vars
             PROVE  SignInv'
  OBVIOUS
<1>c. /\ config.tool \in {"osslsigncode", "jsign"}
      /\ config.pin \in BOOLEAN
  BY ConfigsAssumption DEF SignInv, TypeOK
<1>f. /\ files \in [Paths -> Contents]
      /\ files["staging"] \in StagingContents
      /\ before \in {"absent", "old", "input"}
  BY DEF SignInv, TypeOK
<1> USE DEF SignInv, callVars, Goto, Fail, Put, StagingContents
<1>1. CASE Sign
  <2>1. TypeOK'
    BY <1>c, <1>f, <1>1, Flow DEF Sign, TypeOK, OwnSteps, Paths, Contents,
       Steps, Temporary
  <2>2. OwnSteps'
    BY <1>c, <1>1, Flow DEF Sign, OwnSteps, Forward
  <2>3. TemporaryInv'
    BY <1>c, <1>f, <1>1, Flow DEF Sign, OwnSteps, TemporaryInv, StagingSteps,
       PINSteps, Armed, Forward, Paths, Temporary
  <2>4. OutputInv'
    BY <1>c, <1>f, <1>1, Flow DEF Sign, OwnSteps, OutputInv, Late, Forward,
       Paths, Temporary
  <2> QED
    BY <2>1, <2>2, <2>3, <2>4
<1>2. CASE Check
  <2>1. TypeOK'
    BY <1>c, <1>f, <1>2, Flow DEF Check, MayStart, TypeOK, OwnSteps, Paths,
       Contents, Steps, Temporary
  <2>2. OwnSteps'
    BY <1>c, <1>2, Flow DEF Check, MayStart, OwnSteps, Forward
  <2>3. TemporaryInv'
    BY <1>c, <1>f, <1>2, Flow DEF Check, MayStart, OwnSteps, TemporaryInv,
       StagingSteps, PINSteps, Armed, Forward, Paths, Temporary
  <2>4. OutputInv'
    BY <1>c, <1>f, <1>2, Flow DEF Check, MayStart, OwnSteps, OutputInv, Late,
       Forward, Paths, Temporary
  <2> QED
    BY <2>1, <2>2, <2>3, <2>4
<1>3. CASE CreatePIN
  <2>1. TypeOK'
    <3>1. /\ files' \in [Paths -> Contents]
          /\ files'["staging"] \in StagingContents
      BY <1>f, <1>3 DEF CreatePIN, Paths, Contents
    <3>2. pc' \in Steps /\ failed' \in BOOLEAN /\ mishap' \in BOOLEAN
      BY <1>c, <1>3, Flow DEF CreatePIN, TypeOK, OwnSteps, Steps
    <3>3. UNCHANGED <<config, result, before>>
      BY <1>3 DEF CreatePIN
    <3> QED
      BY <3>1, <3>2, <3>3 DEF TypeOK
  <2>2. OwnSteps'
    BY <1>c, <1>3, Flow DEF CreatePIN, OwnSteps, Forward
  <2>3. TemporaryInv'
    BY <1>c, <1>f, <1>3, Flow DEF CreatePIN, OwnSteps, TemporaryInv,
       StagingSteps, PINSteps, Armed, Forward, Paths, Temporary
  <2>4. OutputInv'
    BY <1>c, <1>f, <1>3, Flow DEF CreatePIN, OwnSteps, OutputInv, Late,
       Forward, Paths, Temporary
  <2> QED
    BY <2>1, <2>2, <2>3, <2>4
<1>4. CASE WritePIN
  <2>1. TypeOK'
    <3>1. /\ files' \in [Paths -> Contents]
          /\ files'["staging"] \in StagingContents
      BY <1>f, <1>4 DEF WritePIN, Paths, Contents
    <3>2. pc' \in Steps /\ failed' \in BOOLEAN /\ mishap' \in BOOLEAN
      BY <1>c, <1>4, Flow DEF WritePIN, TypeOK, OwnSteps, Steps
    <3>3. UNCHANGED <<config, result, before>>
      BY <1>4 DEF WritePIN
    <3> QED
      BY <3>1, <3>2, <3>3 DEF TypeOK
  <2>2. OwnSteps'
    BY <1>c, <1>4, Flow DEF WritePIN, OwnSteps, Forward
  <2>3. TemporaryInv'
    BY <1>c, <1>f, <1>4, Flow DEF WritePIN, OwnSteps, TemporaryInv,
       StagingSteps, PINSteps, Armed, Forward, Paths, Temporary
  <2>4. OutputInv'
    BY <1>c, <1>f, <1>4, Flow DEF WritePIN, OwnSteps, OutputInv, Late,
       Forward, Paths, Temporary
  <2> QED
    BY <2>1, <2>2, <2>3, <2>4
<1>5. CASE CreateStaging
  <2>1. TypeOK'
    <3>1. /\ files' \in [Paths -> Contents]
          /\ files'["staging"] \in StagingContents
      BY <1>f, <1>5 DEF CreateStaging, Paths, Contents
    <3>2. pc' \in Steps /\ failed' \in BOOLEAN /\ mishap' \in BOOLEAN
      BY <1>c, <1>5, Flow DEF CreateStaging, TypeOK, OwnSteps, Steps
    <3>3. UNCHANGED <<config, result, before>>
      BY <1>5 DEF CreateStaging
    <3> QED
      BY <3>1, <3>2, <3>3 DEF TypeOK
  <2>2. OwnSteps'
    BY <1>c, <1>5, Flow DEF CreateStaging, OwnSteps, Forward
  <2>3. TemporaryInv'
    BY <1>c, <1>f, <1>5, Flow DEF CreateStaging, OwnSteps, TemporaryInv,
       StagingSteps, PINSteps, Armed, Forward, Paths, Temporary
  <2>4. OutputInv'
    BY <1>c, <1>f, <1>5, Flow DEF CreateStaging, OwnSteps, OutputInv, Late,
       Forward, Paths, Temporary
  <2> QED
    BY <2>1, <2>2, <2>3, <2>4
<1>6. CASE ClearStaging
  <2>1. TypeOK'
    <3>1. /\ files' \in [Paths -> Contents]
          /\ files'["staging"] \in StagingContents
      BY <1>f, <1>6 DEF ClearStaging, Paths, Contents
    <3>2. pc' \in Steps /\ failed' \in BOOLEAN /\ mishap' \in BOOLEAN
      BY <1>c, <1>6, Flow DEF ClearStaging, TypeOK, OwnSteps, Steps
    <3>3. UNCHANGED <<config, result, before>>
      BY <1>6 DEF ClearStaging
    <3> QED
      BY <3>1, <3>2, <3>3 DEF TypeOK
  <2>2. OwnSteps'
    BY <1>c, <1>6, Flow DEF ClearStaging, OwnSteps, Forward
  <2>3. TemporaryInv'
    BY <1>c, <1>f, <1>6, Flow DEF ClearStaging, OwnSteps, TemporaryInv,
       StagingSteps, PINSteps, Armed, Forward, Paths, Temporary
  <2>4. OutputInv'
    BY <1>c, <1>f, <1>6, Flow DEF ClearStaging, OwnSteps, OutputInv, Late,
       Forward, Paths, Temporary
  <2> QED
    BY <2>1, <2>2, <2>3, <2>4
<1>7. CASE CopyInput
  <2>1. TypeOK'
    <3>1. /\ files' \in [Paths -> Contents]
          /\ files'["staging"] \in StagingContents
      BY <1>f, <1>7 DEF CopyInput, Paths, Contents
    <3>2. pc' \in Steps /\ failed' \in BOOLEAN /\ mishap' \in BOOLEAN
      BY <1>c, <1>7, Flow DEF CopyInput, TypeOK, OwnSteps, Steps
    <3>3. UNCHANGED <<config, result, before>>
      BY <1>7 DEF CopyInput
    <3> QED
      BY <3>1, <3>2, <3>3 DEF TypeOK
  <2>2. OwnSteps'
    BY <1>c, <1>7, Flow DEF CopyInput, OwnSteps, Forward
  <2>3. TemporaryInv'
    BY <1>c, <1>f, <1>7, Flow DEF CopyInput, OwnSteps, TemporaryInv,
       StagingSteps, PINSteps, Armed, Forward, Paths, Temporary
  <2>4. OutputInv'
    BY <1>c, <1>f, <1>7, Flow DEF CopyInput, OwnSteps, OutputInv, Late,
       Forward, Paths, Temporary
  <2> QED
    BY <2>1, <2>2, <2>3, <2>4
<1>8. CASE ToolWrites
  <2>1. TypeOK'
    BY <1>c, <1>f, <1>8, Flow DEF ToolWrites, TypeOK, OwnSteps, Paths,
       Contents, Steps, Temporary
  <2>2. OwnSteps'
    BY <1>c, <1>8, Flow DEF ToolWrites, OwnSteps, Forward
  <2>3. TemporaryInv'
    BY <1>c, <1>f, <1>8, Flow DEF ToolWrites, OwnSteps, TemporaryInv,
       StagingSteps, PINSteps, Armed, Forward, Paths, Temporary
  <2>4. OutputInv'
    BY <1>c, <1>f, <1>8, Flow DEF ToolWrites, OwnSteps, OutputInv, Late,
       Forward, Paths, Temporary
  <2> QED
    BY <2>1, <2>2, <2>3, <2>4
<1>9. CASE ToolSucceeds
  <2>1. TypeOK'
    BY <1>c, <1>f, <1>9, Flow DEF ToolSucceeds, TypeOK, OwnSteps, Paths,
       Contents, Steps, Temporary
  <2>2. OwnSteps'
    BY <1>c, <1>9, Flow DEF ToolSucceeds, OwnSteps, Forward
  <2>3. TemporaryInv'
    BY <1>c, <1>f, <1>9, Flow DEF ToolSucceeds, OwnSteps, TemporaryInv,
       StagingSteps, PINSteps, Armed, Forward, Paths, Temporary
  <2>4. OutputInv'
    BY <1>c, <1>f, <1>9, Flow DEF ToolSucceeds, OwnSteps, OutputInv, Late,
       Forward, Paths, Temporary
  <2> QED
    BY <2>1, <2>2, <2>3, <2>4
<1>10. CASE ToolFails
  <2>1. TypeOK'
    BY <1>c, <1>f, <1>10, Flow DEF ToolFails, TypeOK, OwnSteps, Paths,
       Contents, Steps, Temporary
  <2>2. OwnSteps'
    BY <1>c, <1>10, Flow DEF ToolFails, OwnSteps, Forward
  <2>3. TemporaryInv'
    BY <1>c, <1>f, <1>10, Flow DEF ToolFails, OwnSteps, TemporaryInv,
       StagingSteps, PINSteps, Armed, Forward, Paths, Temporary
  <2>4. OutputInv'
    BY <1>c, <1>f, <1>10, Flow DEF ToolFails, OwnSteps, OutputInv, Late,
       Forward, Paths, Temporary
  <2> QED
    BY <2>1, <2>2, <2>3, <2>4
<1>11. CASE Publish
  <2>1. TypeOK'
    BY <1>c, <1>f, <1>11, Flow DEF Publish, TypeOK, OwnSteps, Paths, Contents,
       Steps, Temporary
  <2>2. OwnSteps'
    BY <1>c, <1>11, Flow DEF Publish, OwnSteps, Forward
  <2>3. TemporaryInv'
    BY <1>c, <1>f, <1>11, Flow DEF Publish, OwnSteps, TemporaryInv,
       StagingSteps, PINSteps, Armed, Forward, Paths, Temporary
  <2>4. OutputInv'
    BY <1>c, <1>f, <1>11, Flow DEF Publish, OwnSteps, OutputInv, Late,
       Forward, Paths, Temporary
  <2> QED
    BY <2>1, <2>2, <2>3, <2>4
<1>12. CASE RemoveStaging
  <2>1. TypeOK'
    <3>1. /\ files' \in [Paths -> Contents]
          /\ files'["staging"] \in StagingContents
      BY <1>f, <1>12 DEF RemoveStaging, Remove, Paths, Contents
    <3>2. pc' \in Steps /\ failed' \in BOOLEAN /\ mishap' \in BOOLEAN
      BY <1>c, <1>12, Flow DEF RemoveStaging, Remove, TypeOK, OwnSteps, Steps
    <3>3. UNCHANGED <<config, result, before>>
      BY <1>12 DEF RemoveStaging, Remove
    <3> QED
      BY <3>1, <3>2, <3>3 DEF TypeOK
  <2>2. OwnSteps'
    BY <1>c, <1>12, Flow DEF RemoveStaging, Remove, OwnSteps, Forward
  <2>3. TemporaryInv'
    BY <1>c, <1>f, <1>12, Flow DEF RemoveStaging, Remove, OwnSteps,
       TemporaryInv, StagingSteps, PINSteps, Armed, Forward, Paths, Temporary
  <2>4. OutputInv'
    BY <1>c, <1>f, <1>12, Flow DEF RemoveStaging, Remove, OwnSteps, OutputInv,
       Late, Forward, Paths, Temporary
  <2> QED
    BY <2>1, <2>2, <2>3, <2>4
<1>13. CASE RemovePIN
  <2>1. TypeOK'
    <3>1. /\ files' \in [Paths -> Contents]
          /\ files'["staging"] \in StagingContents
      BY <1>f, <1>13 DEF RemovePIN, Remove, Paths, Contents
    <3>2. pc' \in Steps /\ failed' \in BOOLEAN /\ mishap' \in BOOLEAN
      BY <1>c, <1>13, Flow DEF RemovePIN, Remove, TypeOK, OwnSteps, Steps
    <3>3. UNCHANGED <<config, result, before>>
      BY <1>13 DEF RemovePIN, Remove
    <3> QED
      BY <3>1, <3>2, <3>3 DEF TypeOK
  <2>2. OwnSteps'
    BY <1>c, <1>13, Flow DEF RemovePIN, Remove, OwnSteps, Forward
  <2>3. TemporaryInv'
    BY <1>c, <1>f, <1>13, Flow DEF RemovePIN, Remove, OwnSteps, TemporaryInv,
       StagingSteps, PINSteps, Armed, Forward, Paths, Temporary
  <2>4. OutputInv'
    BY <1>c, <1>f, <1>13, Flow DEF RemovePIN, Remove, OwnSteps, OutputInv,
       Late, Forward, Paths, Temporary
  <2> QED
    BY <2>1, <2>2, <2>3, <2>4
<1>14. CASE Return
  <2>1. TypeOK'
    BY <1>c, <1>f, <1>14, Flow DEF Return, Abandon, TypeOK, OwnSteps, Paths,
       Contents, Steps, Temporary
  <2>2. OwnSteps'
    BY <1>c, <1>14, Flow DEF Return, Abandon, OwnSteps, Forward
  <2>3. TemporaryInv'
    BY <1>c, <1>f, <1>14, Flow DEF Return, Abandon, OwnSteps, TemporaryInv,
       StagingSteps, PINSteps, Armed, Forward, Paths, Temporary
  <2>4. OutputInv'
    BY <1>c, <1>f, <1>14, Flow DEF Return, Abandon, OwnSteps, OutputInv, Late,
       Forward, Paths, Temporary
  <2> QED
    BY <2>1, <2>2, <2>3, <2>4
<1>15. CASE Crash
  <2>1. TypeOK'
    BY <1>c, <1>f, <1>15, Flow DEF Crash, Abandon, TypeOK, OwnSteps, Paths,
       Contents, Steps, Temporary
  <2>2. OwnSteps'
    BY <1>c, <1>15, Flow DEF Crash, Abandon, OwnSteps, Forward
  <2>3. TemporaryInv'
    BY <1>c, <1>f, <1>15, Flow DEF Crash, Abandon, OwnSteps, TemporaryInv,
       StagingSteps, PINSteps, Armed, Forward, Paths, Temporary
  <2>4. OutputInv'
    BY <1>c, <1>f, <1>15, Flow DEF Crash, Abandon, OwnSteps, OutputInv, Late,
       Forward, Paths, Temporary
  <2> QED
    BY <2>1, <2>2, <2>3, <2>4
<1>16. CASE UNCHANGED vars
  BY <1>16 DEF vars, TypeOK, OwnSteps, TemporaryInv, OutputInv, StagingSteps,
     PINSteps, Armed, Late
<1> QED
  BY <1>1, <1>2, <1>3, <1>4, <1>5, <1>6, <1>7, <1>8, <1>9, <1>10, <1>11, <1>12,
     <1>13, <1>14, <1>15, <1>16 DEF Next

LEMMA InvariantHolds == Spec => []SignInv
BY InitInv, StepInv, PTL DEF Spec

\* The variables keep their types.
THEOREM TypeCorrect == Spec => []TypeOK
<1>1. SignInv => TypeOK
  BY DEF SignInv
<1> QED
  BY <1>1, InvariantHolds, PTL

\* Sign never changes its input, not even when the output path is an alias of
\* it: signer.Check ends such a call before anything is written.
THEOREM InputIsIntact == Spec => []InputIntact
<1>1. SignInv => InputIntact
  BY DEF SignInv, OutputInv, InputIntact
<1> QED
  BY <1>1, InvariantHolds, PTL

\* No call returns before it has tried to remove what it created, on any of its
\* paths and in either nesting of publishSigned and withPINFile.
THEOREM NothingIsLeftBehind == Spec => []NothingLeftBehind
<1>1. SignInv => NothingLeftBehind
  BY DEF SignInv, TemporaryInv, NothingLeftBehind, StagingSteps, PINSteps,
         Temporary
<1> QED
  BY <1>1, InvariantHolds, PTL

\* The tool is started with the whole PIN, or, without one, with no file.
THEOREM ToolGetsPIN == Spec => []ToolHasPIN
<1>1. SignInv => ToolHasPIN
  BY DEF SignInv, TemporaryInv, ToolHasPIN, Armed
<1> QED
  BY <1>1, InvariantHolds, PTL

-----------------------------------------------------------------------------
(* The output path implements AtomicSign.                                  *)

LEMMA PromiseInit == Init => Promise!Init
BY DEF Init, Promise!Init, Paths

LEMMA PromiseStep == SignInv /\ [Next]_vars => [Promise!Next]_Promise!vars
<1> SUFFICES ASSUME SignInv, [Next]_vars
             PROVE  [Promise!Next]_Promise!vars
  OBVIOUS
<1>c. config \in [tool : {"osslsigncode", "jsign"}, pin : BOOLEAN, ready : BOOLEAN]
  BY ConfigsAssumption DEF SignInv, TypeOK
<1> USE DEF Promise!vars, Promise!Next
<1>1. ASSUME Sign
      PROVE  Promise!Begin
  BY <1>1 DEF Sign, Promise!Begin, SignInv, TypeOK, Paths
<1>2. ASSUME Publish
      PROVE  Promise!Publish \/ UNCHANGED Promise!vars
  BY <1>c, <1>2 DEF Publish, Promise!Publish, SignInv, TypeOK, OutputInv,
     OwnSteps, Paths, callVars, Goto, After, AfterJsign, AfterOSSLSigncode,
     Late
<1>3. ASSUME Return
      PROVE  Promise!Return
  BY <1>c, <1>3 DEF Return, Abandon, Promise!Return, SignInv, TypeOK,
     OutputInv, Paths, Temporary, Late
<1>4. ASSUME Crash
      PROVE  Promise!Die
  BY <1>4 DEF Crash, Abandon, Promise!Die, Paths, Temporary
<1>5. ASSUME \/ Check \/ CreatePIN \/ WritePIN \/ CreateStaging \/ ClearStaging
             \/ CopyInput \/ ToolWrites \/ ToolSucceeds \/ ToolFails
             \/ RemoveStaging \/ RemovePIN \/ UNCHANGED vars
      PROVE  UNCHANGED Promise!vars
  <2> USE <1>c DEF SignInv, TypeOK, OwnSteps, Paths, callVars, Goto, Fail, Put,
                   After, AfterJsign, AfterOSSLSigncode, OnError, OnErrorJsign,
                   OnErrorOSSLSigncode
  <2>1. CASE Check
    BY <2>1 DEF Check
  <2>2. CASE CreatePIN \/ WritePIN
    BY <2>2 DEF CreatePIN, WritePIN
  <2>3. CASE CreateStaging \/ ClearStaging \/ CopyInput
    BY <2>3 DEF CreateStaging, ClearStaging, CopyInput
  <2>4. CASE ToolWrites \/ ToolSucceeds \/ ToolFails
    BY <2>4 DEF ToolWrites, ToolSucceeds, ToolFails
  <2>5. CASE RemoveStaging \/ RemovePIN
    BY <2>5 DEF RemoveStaging, RemovePIN, Remove
  <2>6. CASE UNCHANGED vars
    BY <2>6 DEF vars
  <2> QED
    BY <1>5, <2>1, <2>2, <2>3, <2>4, <2>5, <2>6
<1> QED
  BY <1>1, <1>2, <1>3, <1>4, <1>5 DEF Next

\* The output path is at every moment what it was or the finished signed file,
\* and nil is returned exactly for the latter.
THEOREM BackendIsAtomic == Spec => OutputIsAtomic
<1>1. Spec => Promise!Init /\ [][Promise!Next]_Promise!vars
  BY PromiseInit, PromiseStep, InvariantHolds, PTL DEF Spec
<1> QED
  BY <1>1 DEF OutputIsAtomic, Promise!Spec
=============================================================================
