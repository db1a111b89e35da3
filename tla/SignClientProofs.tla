--------------------------- MODULE SignClientProofs --------------------------
(***************************************************************************)
(* Theorems about SignClient for every number of files and every -retries. *)
(***************************************************************************)
EXTENDS SignClient, FiniteSetTheorems, TLAPS

USE ClientAssumption DEF Goto, Exit, loopVars, diskVars, Files, Attempts

-----------------------------------------------------------------------------
(* Types and the loop of Sign                                              *)

\* The loop counter stays within the count of New, an attempt that is made is
\* one of those that are allowed, and one that was made has left its error.
LoopInv ==
  /\ attempt <= MaxRetries + 1
  /\ pc \in {"delay", "post", "wait"} => attempt <= MaxRetries
  /\ attempt > 0 => lastErr

LEMMA JobsType ==
  \A j \in Jobs : /\ j \in [retries : Retries, timeout : BOOLEAN, count : Files,
                            targets : [Files -> FileStates]]
                 /\ j.targets \in Targets(j.count)
<1>1. \A n \in Files : Targets(n) \subseteq [Files -> FileStates]
  BY DEF Targets, InPlace, Absent, FileStates
<1> SUFFICES ASSUME NEW n \in Files,
                    NEW j \in [retries : Retries, timeout : BOOLEAN, count : {n},
                               targets : Targets(n)]
             PROVE  /\ j \in [retries : Retries, timeout : BOOLEAN, count : Files,
                               targets : [Files -> FileStates]]
                    /\ j.targets \in Targets(j.count)
  BY DEF Jobs
<1>2. Targets(n) \subseteq [Files -> FileStates]
  BY <1>1
<1> QED
  BY <1>2

LEMMA MaxRetriesType ==
  ASSUME TypeOK
  PROVE  /\ MaxRetries \in Nat
         /\ MaxRetries + 1 <= MaxAttempts
<1>1. job.retries \in Retries
  BY DEF TypeOK
<1>2. job.retries \in Int /\ job.retries + 1 < MaxAttempts
  BY <1>1
<1> QED
  BY <1>2 DEF MaxRetries

LEMMA InitTypes == Init => TypeOK /\ LoopInv
<1> SUFFICES ASSUME Init PROVE TypeOK /\ LoopInv
  OBVIOUS
<1>1. job \in [retries : Retries, timeout : BOOLEAN, count : Files,
             targets : [Files -> FileStates]]
  BY JobsType DEF Init
<1>2. targets \in [Files -> FileStates]
  BY <1>1 DEF Init
<1>3. TypeOK
  <2>1. temp \in FileStates
    BY DEF Init, Absent, FileStates
  <2>2. requests \in [Files -> [Attempts -> {"unsent", "abroad", "signed", "dead"}]]
    BY DEF Init
  <2>3. file \in Files /\ attempt \in Attempts
    BY DEF Init
  <2> QED
    BY <1>1, <1>2, <2>1, <2>2, <2>3 DEF Init, TypeOK
<1>4. MaxRetries \in Nat
  BY <1>3, MaxRetriesType
<1> QED
  BY <1>3, <1>4 DEF Init, LoopInv

\* Every way in which an attempt ends without a file.
LEMMA AttemptFailsTypes ==
  ASSUME TypeOK, LoopInv, attempt <= MaxRetries,
         NEW retryable \in BOOLEAN, AttemptFails(retryable),
         requests' \in [Files -> [Attempts -> {"unsent", "abroad", "signed", "dead"}]],
         refused' \in BOOLEAN
  PROVE  TypeOK' /\ LoopInv'
<1>1. MaxRetries \in Nat /\ MaxRetries + 1 <= MaxAttempts
  BY MaxRetriesType
<1>2. MaxRetries' = MaxRetries
  BY DEF AttemptFails, MaxRetries
<1>3. attempt' = attempt + 1 /\ lastErr' = TRUE /\ attempt \in Attempts
  BY DEF AttemptFails, TypeOK
<1>4. attempt' \in Attempts /\ attempt' <= MaxRetries' + 1
  BY <1>1, <1>2, <1>3
<1>5. pc' \in {"loop", "exit"} /\ status' \in {"none", "ok", "error", "dead"}
  BY DEF AttemptFails, TypeOK
<1> QED
  BY <1>3, <1>4, <1>5 DEF AttemptFails, TypeOK, LoopInv

LEMMA TypeStep == TypeOK /\ LoopInv /\ [Next]_vars => TypeOK' /\ LoopInv'
<1> SUFFICES ASSUME TypeOK, LoopInv, [Next]_vars PROVE TypeOK' /\ LoopInv'
  OBVIOUS
<1>0. MaxRetries \in Nat /\ MaxRetries + 1 <= MaxAttempts
  BY MaxRetriesType
<1>m. UNCHANGED job => MaxRetries' = MaxRetries
  BY DEF MaxRetries
<1>r. ASSUME NEW f \in Files, NEW a \in Attempts,
             NEW what \in {"unsent", "abroad", "signed", "dead"}
      PROVE  [requests EXCEPT ![f][a] = what]
               \in [Files -> [Attempts -> {"unsent", "abroad", "signed", "dead"}]]
  BY DEF TypeOK
<1>w. pc \in {"post", "wait"} => attempt <= MaxRetries
  BY DEF LoopInv
<1>n. /\ Request \in {"unsent", "abroad", "signed", "dead"}
      /\ file \in Files /\ attempt \in Attempts /\ job.count \in Files
  BY DEF TypeOK, Request
<1>1. CASE ReadInput
  <2>1. TypeOK'
    <3>1. /\ attempt' = 0 /\ lastErr' = FALSE /\ data' = "empty"
          /\ pc' \in {"loop", "exit"} /\ status' \in {status, "error"}
          /\ UNCHANGED <<job, file, requests, refused, interrupted, targets, temp>>
      BY <1>1 DEF ReadInput
    <3>2. attempt' \in Attempts
      BY <3>1
    <3> QED
      BY <3>1, <3>2 DEF TypeOK
  <2>2. attempt' = 0 /\ pc' \in {"loop", "exit"} /\ UNCHANGED job
    BY <1>1 DEF ReadInput
  <2> QED
    BY <2>1, <2>2, <1>0, <1>m DEF LoopInv
<1>2. CASE Loop
  <2>1. TypeOK'
    BY <1>2 DEF Loop, TypeOK
  <2>2. pc' = "post" \/ pc' = "delay" => attempt <= MaxRetries
    BY <1>2 DEF Loop, MayAttempt
  <2> QED
    BY <1>2, <2>1, <2>2, <1>m DEF Loop, LoopInv
<1>3. CASE Delay
  BY <1>3, <1>m DEF Delay, TypeOK, LoopInv
<1>4. CASE Post
  <2>1. requests' \in [Files -> [Attempts -> {"unsent", "abroad", "signed", "dead"}]]
    BY <1>4, <1>r, <1>n DEF Post, Became
  <2> QED
    BY <1>4, <2>1, <1>m DEF Post, TypeOK, LoopInv
<1>5. CASE PostFails
  <2>1. requests' \in [Files -> [Attempts -> {"unsent", "abroad", "signed", "dead"}]]
    BY <1>5, <1>r, <1>n DEF PostFails, Became
  <2> QED
    BY <1>5, <2>1, <1>w, AttemptFailsTypes DEF PostFails, TypeOK
<1>6. CASE HandshakeFails
  <2>1. requests' \in [Files -> [Attempts -> {"unsent", "abroad", "signed", "dead"}]]
    BY <1>6, <1>r, <1>n DEF HandshakeFails, Became
  <2> QED
    BY <1>6, <2>1, <1>w, AttemptFailsTypes DEF HandshakeFails, TypeOK
<1>7. CASE AnswerComplete
  BY <1>7, <1>m DEF AnswerComplete, TakeFile, TypeOK, LoopInv
<1>8. CASE AnswerCutShort
  BY <1>8, <1>w, AttemptFailsTypes DEF AnswerCutShort, TypeOK
<1>9. CASE AnswerRefused
  <2>1. requests' \in [Files -> [Attempts -> {"unsent", "abroad", "signed", "dead"}]]
    BY <1>9, <1>r, <1>n DEF AnswerRefused, Became
  <2> QED
    BY <1>9, <2>1, <1>w, AttemptFailsTypes DEF AnswerRefused, TypeOK
<1>10. CASE GatewayFails
  BY <1>10, <1>w, AttemptFailsTypes DEF GatewayFails, TypeOK
<1>11. CASE AttemptEnds
  BY <1>11, <1>w, AttemptFailsTypes DEF AttemptEnds, TypeOK
<1>12. CASE CreateTemp
  BY <1>12, <1>m DEF CreateTemp, TypeOK, LoopInv, FileStates
<1>13. CASE WriteTemp
  BY <1>13, <1>m DEF WriteTemp, RemoveTemp, Absent, TypeOK, LoopInv, FileStates
<1>14. CASE ChmodTemp
  <2>1. OutputMode \in {"owner", "exec", "plain"}
    <3>1. targets[file] \in FileStates
      BY <1>n DEF TypeOK
    <3> QED
      BY <3>1 DEF OutputMode, FileStates
  <2>2. temp' \in FileStates
    BY <1>14, <2>1 DEF ChmodTemp, RemoveTemp, Absent, TypeOK, FileStates
  <2> QED
    BY <1>14, <2>2, <1>m DEF ChmodTemp, RemoveTemp, TypeOK, LoopInv
<1>15. CASE RenameTemp
  <2>1. temp' \in FileStates
    BY <1>15 DEF RenameTemp, RemoveTemp, Absent, TypeOK, FileStates
  <2>2. file' \in Files
    BY <1>15, <1>n DEF RenameTemp, RemoveTemp, MoreFiles
  <2>3. targets' \in [Files -> FileStates]
    BY <1>15 DEF RenameTemp, RemoveTemp, TypeOK
  <2> QED
    BY <1>15, <2>1, <2>2, <2>3, <1>m DEF RenameTemp, RemoveTemp, TypeOK, LoopInv
<1>16. ASSUME NEW f \in Files, NEW a \in Attempts, Settle(f, a) PROVE TypeOK' /\ LoopInv'
  <2>1. requests' \in [Files -> [Attempts -> {"unsent", "abroad", "signed", "dead"}]]
    BY <1>16, <1>r DEF Settle
  <2> QED
    BY <1>16, <2>1, <1>m DEF Settle, TypeOK, LoopInv
<1>17. CASE Interrupt
  BY <1>17, <1>m DEF Interrupt, TypeOK, LoopInv
<1>18. CASE Die
  BY <1>18, <1>m DEF Die, TypeOK, LoopInv
<1>19. CASE UNCHANGED vars
  BY <1>19, <1>m DEF vars, TypeOK, LoopInv
<1> QED
  BY <1>1, <1>2, <1>3, <1>4, <1>5, <1>6, <1>7, <1>8, <1>9, <1>10, <1>11,
     <1>12, <1>13, <1>14, <1>15, <1>16, <1>17, <1>18, <1>19
  DEF Next, ClientSteps, Answers

\* The variables keep their types; the loop of Sign never counts beyond the
\* bound for any -retries, negative ones included (client.go:112).
THEOREM TypeCorrect == Spec => []TypeOK
<1>1. TypeOK /\ LoopInv /\ [Next]_vars => (TypeOK /\ LoopInv)'
  BY TypeStep
<1> QED
  BY InitTypes, <1>1, PTL DEF Spec

-----------------------------------------------------------------------------
(* The files                                                               *)

\* The temporary file holds at every step what writeAtomic has put into it, and
\* nothing but the signed bytes gets that far.
WriteInv ==
  /\ pc \in {"create", "write", "chmod", "rename"} => data = "signed"
  /\ pc \in {"read", "loop", "delay", "post", "wait", "create"} => temp = Absent
  /\ pc \in {"chmod", "rename"} => temp.content = "signed"
  /\ pc = "rename" => temp = Signed(file)
  /\ status \in {"ok", "error"} => temp = Absent

\* The files before the current one are done, the others untouched.
TargetInv ==
  /\ job.targets \in Targets(job.count)
  /\ pc = "exit" <=> status # "none"
  /\ file <= job.count
  /\ status = "ok" => file = job.count
  /\ \A f \in Files :
       targets[f] = IF f < file \/ (status = "ok" /\ f = file)
                      THEN Signed(f) ELSE job.targets[f]

LEMMA InitFiles == Init => WriteInv /\ TargetInv
BY JobsType DEF Init, WriteInv, TargetInv

LEMMA SignedMode ==
  ASSUME TypeOK, TargetInv, status = "none"
  PROVE  OutputMode = Signed(file).mode
<1>1. file \in Files /\ targets[file] = job.targets[file]
  BY DEF TypeOK, TargetInv
<1>2. job.targets[file] \in {InPlace, Absent, [content |-> "old", mode |-> "plain"]}
  BY <1>1 DEF TargetInv, Targets
<1> QED
  BY <1>1, <1>2 DEF OutputMode, Signed, InPlace, Absent

\* An attempt that fails leaves the files alone.
LEMMA AttemptFailsFiles ==
  ASSUME WriteInv, TargetInv, pc \in {"post", "wait"},
         NEW retryable \in BOOLEAN, AttemptFails(retryable)
  PROVE  WriteInv' /\ TargetInv'
<1>1. status = "none" /\ temp = Absent
  BY DEF WriteInv, TargetInv
<1>2. /\ \/ pc' = "loop" /\ status' = "none"
         \/ pc' = "exit" /\ status' = "error"
      /\ UNCHANGED <<job, file, targets, temp>>
  BY <1>1 DEF AttemptFails
<1>3. WriteInv'
  BY <1>1, <1>2 DEF WriteInv
<1> QED
  BY <1>1, <1>2, <1>3 DEF TargetInv, Signed

LEMMA FilesStep ==
  TypeOK /\ LoopInv /\ WriteInv /\ TargetInv /\ [Next]_vars => WriteInv' /\ TargetInv'
<1> SUFFICES ASSUME TypeOK, LoopInv, WriteInv, TargetInv, [Next]_vars
             PROVE  WriteInv' /\ TargetInv'
  OBVIOUS
\* A step that touches neither the targets nor the file under way.
<1>t. ASSUME UNCHANGED <<job, file, targets>>, status = "none",
             \/ pc' # "exit" /\ UNCHANGED status
             \/ pc' = "exit" /\ status' \in {"error", "dead"}
      PROVE  TargetInv'
  BY <1>t DEF TargetInv, Signed
<1>s. pc # "exit" => status = "none"
  BY DEF TargetInv
<1>1. CASE ReadInput
  <2>1. WriteInv'
    BY <1>1, <1>s DEF ReadInput, WriteInv
  <2>2. TargetInv'
    BY <1>1, <1>s, <1>t DEF ReadInput
  <2> QED
    BY <2>1, <2>2
<1>2. CASE Loop
  <2>1. ~MayAttempt => lastErr
    BY MaxRetriesType DEF MayAttempt, LoopInv, TypeOK
  <2>2. WriteInv'
    BY <1>2, <2>1, <1>s DEF Loop, WriteInv
  <2>3. TargetInv'
    BY <1>2, <1>s, <1>t DEF Loop
  <2> QED
    BY <2>2, <2>3
<1>3. CASE Delay
  <2>1. WriteInv'
    BY <1>3, <1>s DEF Delay, WriteInv
  <2>2. TargetInv'
    BY <1>3, <1>s, <1>t DEF Delay
  <2> QED
    BY <2>1, <2>2
<1>4. CASE Post
  <2>1. WriteInv'
    BY <1>4, <1>s DEF Post, WriteInv
  <2>2. TargetInv'
    BY <1>4, <1>s, <1>t DEF Post
  <2> QED
    BY <2>1, <2>2
<1>5. CASE PostFails \/ HandshakeFails \/ AnswerCutShort \/ GatewayFails
           \/ AnswerRefused \/ AttemptEnds
  <2>1. pc \in {"post", "wait"} /\ (AttemptFails(TRUE) \/ AttemptFails(FALSE))
    BY <1>5 DEF PostFails, HandshakeFails, AnswerCutShort, GatewayFails,
                AnswerRefused, AttemptEnds
  <2> QED
    BY <2>1, AttemptFailsFiles
<1>6. CASE AnswerComplete
  <2>1. WriteInv'
    BY <1>6, <1>s DEF AnswerComplete, TakeFile, WriteInv
  <2>2. TargetInv'
    BY <1>6, <1>s, <1>t DEF AnswerComplete, TakeFile
  <2> QED
    BY <2>1, <2>2
<1>7. CASE CreateTemp
  <2>1. WriteInv'
    BY <1>7, <1>s DEF CreateTemp, WriteInv
  <2>2. TargetInv'
    BY <1>7, <1>s, <1>t DEF CreateTemp
  <2> QED
    BY <2>1, <2>2
<1>8. CASE WriteTemp
  <2>1. WriteInv'
    <3>1. temp' = [temp EXCEPT !.content = data] => temp'.content = "signed"
      BY <1>8 DEF WriteTemp, WriteInv, TypeOK, FileStates
    <3> QED
      BY <1>8, <3>1, <1>s DEF WriteTemp, RemoveTemp, WriteInv
  <2>2. TargetInv'
    BY <1>8, <1>s, <1>t DEF WriteTemp, RemoveTemp
  <2> QED
    BY <2>1, <2>2
<1>9. CASE ChmodTemp
  <2>1. pc = "chmod" /\ status = "none" /\ temp.content = "signed" /\ data = "signed"
    BY <1>9, <1>s DEF ChmodTemp, WriteInv
  <2>2. OutputMode = Signed(file).mode
    BY <2>1, SignedMode
  <2>3. temp' = [temp EXCEPT !.mode = OutputMode] => temp' = Signed(file)
    BY <2>1, <2>2 DEF TypeOK, FileStates, Signed
  <2>4. Signed(file)' = Signed(file) /\ Signed(file).content = "signed"
    BY <1>9 DEF ChmodTemp, Signed
  <2>5. WriteInv'
    BY <1>9, <2>1, <2>3, <2>4 DEF ChmodTemp, RemoveTemp, WriteInv
  <2>6. TargetInv'
    BY <1>9, <1>s, <1>t DEF ChmodTemp, RemoveTemp
  <2> QED
    BY <2>5, <2>6
<1>10. CASE RenameTemp
  <2>1. /\ pc = "rename" /\ status = "none" /\ temp = Signed(file)
        /\ file \in Files /\ job.count \in Files /\ file <= job.count
    BY <1>10, <1>s DEF RenameTemp, WriteInv, TypeOK, TargetInv
  <2>2. CASE RemoveTemp /\ UNCHANGED <<file, targets>>
    <3>1. UNCHANGED job
      BY <1>10 DEF RenameTemp
    <3>2. TargetInv'
      BY <2>1, <2>2, <3>1, <1>t DEF RemoveTemp
    <3> QED
      BY <2>1, <2>2, <3>2 DEF RemoveTemp, WriteInv
  <2>3. CASE /\ targets' = [targets EXCEPT ![file] = temp]
             /\ temp' = Absent
             /\ IF MoreFiles
                  THEN file' = file + 1 /\ Goto("read") /\ UNCHANGED status
                  ELSE Exit("ok") /\ UNCHANGED file
    <3>1. UNCHANGED job /\ \A f \in Files : Signed(f)' = Signed(f)
      BY <1>10 DEF RenameTemp, Signed
    <3>2. \A f \in Files :
            targets'[f] = IF f <= file THEN Signed(f) ELSE job.targets[f]
      <4> SUFFICES ASSUME NEW f \in Files
                   PROVE  targets'[f] = IF f <= file THEN Signed(f) ELSE job.targets[f]
        OBVIOUS
      <4>1. targets[f] = IF f < file THEN Signed(f) ELSE job.targets[f]
        BY <2>1 DEF TargetInv
      <4>2. targets'[f] = IF f = file THEN Signed(file) ELSE targets[f]
        BY <2>1, <2>3 DEF TypeOK
      <4> QED
        BY <2>1, <4>1, <4>2
    <3>3. WriteInv'
      BY <2>1, <2>3 DEF WriteInv
    <3>4. CASE MoreFiles
      <4>1. file' = file + 1 /\ pc' = "read" /\ status' = "none" /\ file + 1 \in Files
        BY <2>1, <2>3, <3>4 DEF MoreFiles
      <4>c. file + 1 <= job.count
        BY <2>1, <3>4 DEF MoreFiles
      <4>2. \A f \in Files : f <= file <=> f < file'
        BY <2>1, <4>1
      <4> QED
        <5>1. \A f \in Files :
                targets'[f] = IF f < file' \/ (status' = "ok" /\ f = file')
                              THEN Signed(f)' ELSE job'.targets[f]
          <6> SUFFICES ASSUME NEW f \in Files
                       PROVE  targets'[f] = IF f <= file THEN Signed(f)' ELSE job'.targets[f]
            BY <2>1, <4>1
          <6> QED
            BY <3>1, <3>2
        <5> QED
          BY <3>1, <3>3, <4>1, <4>c, <5>1 DEF TargetInv
    <3>5. CASE ~MoreFiles
      <4>1. file' = file /\ pc' = "exit" /\ status' = "ok" /\ file = job.count
        BY <2>1, <2>3, <3>5 DEF MoreFiles
      <4> QED
        <5>1. \A f \in Files :
                targets'[f] = IF f < file' \/ (status' = "ok" /\ f = file')
                              THEN Signed(f)' ELSE job'.targets[f]
          <6> SUFFICES ASSUME NEW f \in Files
                       PROVE  targets'[f] = IF f <= file THEN Signed(f)' ELSE job'.targets[f]
            BY <2>1, <4>1
          <6> QED
            BY <3>1, <3>2
        <5> QED
          BY <3>1, <3>3, <4>1, <5>1 DEF TargetInv
    <3> QED
      BY <3>3, <3>4, <3>5
  <2> QED
    BY <1>10, <2>2, <2>3 DEF RenameTemp
<1>11. CASE Die
  <2>1. WriteInv'
    BY <1>11 DEF Die, WriteInv
  <2>2. TargetInv'
    BY <1>11, <1>s, <1>t DEF Die
  <2> QED
    BY <2>1, <2>2
<1>12. CASE UNCHANGED <<job, file, pc, status, data, targets, temp>>
  BY <1>12 DEF WriteInv, TargetInv, Signed
<1>13. ASSUME NEW f \in Files, NEW a \in Attempts, Settle(f, a)
       PROVE  UNCHANGED <<job, file, pc, status, data, targets, temp>>
  BY <1>13 DEF Settle
<1>14. Interrupt \/ UNCHANGED vars =>
         UNCHANGED <<job, file, pc, status, data, targets, temp>>
  BY DEF Interrupt, vars
<1> QED
  BY <1>1, <1>2, <1>3, <1>4, <1>5, <1>6, <1>7, <1>8, <1>9, <1>10, <1>11,
     <1>12, <1>13, <1>14
  DEF Next, ClientSteps, Answers

LEMMA FilesInvariant == Spec => [](TypeOK /\ LoopInv /\ WriteInv /\ TargetInv)
<1>1. Init => TypeOK /\ LoopInv /\ WriteInv /\ TargetInv
  BY InitTypes, InitFiles
<1>2. TypeOK /\ LoopInv /\ WriteInv /\ TargetInv /\ [Next]_vars
        => (TypeOK /\ LoopInv /\ WriteInv /\ TargetInv)'
  BY TypeStep, FilesStep
<1> QED
  BY <1>1, <1>2, PTL DEF Spec

\* At every moment, a death of the process included, every target is what it was
\* or the complete signed file with the right permissions (client.go:208).
THEOREM TargetsAreAtomic == Spec => []TargetsAtomic
<1>1. TargetInv => TargetsAtomic
  BY DEF TargetInv, TargetsAtomic
<1> QED
  BY <1>1, FilesInvariant, PTL

\* The exit status says which files are signed (signFiles in main.go).
THEOREM ExitsAreHonest == Spec => []ExitIsHonest
<1>1. TypeOK /\ TargetInv => ExitIsHonest
  <2>1. TypeOK /\ TargetInv /\ status = "ok" =>
          \A f \in 1 .. job.count : targets[f] = Signed(f)
    BY DEF TypeOK, TargetInv
  <2>2. TypeOK /\ TargetInv /\ status = "error" =>
          \A f \in Files : targets[f] = IF f < file THEN Signed(f) ELSE job.targets[f]
    BY DEF TargetInv
  <2> QED
    BY <2>1, <2>2 DEF ExitIsHonest
<1> QED
  BY <1>1, FilesInvariant, PTL

\* No error path of writeAtomic leaves its temporary file (client.go:260).
THEOREM NoTempIsLeft == Spec => []NoTempLeft
<1>1. WriteInv => NoTempLeft
  BY DEF WriteInv, NoTempLeft
<1> QED
  BY <1>1, FilesInvariant, PTL

-----------------------------------------------------------------------------
(* The requests                                                            *)

\* Only the attempts that -retries allows are ever sent.
RequestInv ==
  \A f \in Files, a \in Attempts : requests[f][a] # "unsent" => a <= MaxRetries

LEMMA RequestStep == TypeOK /\ LoopInv /\ RequestInv /\ [Next]_vars => RequestInv'
<1> SUFFICES ASSUME TypeOK, LoopInv, RequestInv, [Next]_vars
             PROVE  RequestInv'
  OBVIOUS
<1>m. UNCHANGED job => MaxRetries' = MaxRetries
  BY DEF MaxRetries
\* The current request changes in an attempt that is allowed.
<1>c. ASSUME NEW what, Became(what), attempt <= MaxRetries, UNCHANGED job
      PROVE  RequestInv'
  BY <1>c, <1>m DEF Became, TypeOK, RequestInv
<1>1. CASE Post
  BY <1>1, <1>c DEF Post, LoopInv
<1>2. CASE PostFails
  BY <1>2, <1>c DEF PostFails, AttemptFails, LoopInv
<1>3. CASE HandshakeFails
  BY <1>3, <1>c DEF HandshakeFails, AttemptFails, LoopInv
<1>4. CASE AnswerRefused
  BY <1>4, <1>c DEF AnswerRefused, AttemptFails, LoopInv
<1>5. ASSUME NEW f \in Files, NEW a \in Attempts, Settle(f, a)
      PROVE  RequestInv'
  <2>1. a <= MaxRetries
    BY <1>5 DEF Settle, RequestInv
  <2> QED
    BY <1>5, <2>1, <1>m DEF Settle, TypeOK, RequestInv
<1>6. CASE UNCHANGED <<job, requests>>
  BY <1>6, <1>m DEF RequestInv
<1>7. \/ ReadInput \/ Loop \/ Delay \/ AnswerComplete \/ AnswerCutShort \/ GatewayFails
      \/ AttemptEnds \/ CreateTemp \/ WriteTemp \/ ChmodTemp \/ RenameTemp
      \/ Interrupt \/ Die \/ UNCHANGED vars
      => UNCHANGED <<job, requests>>
  BY DEF ReadInput, Loop, Delay, AnswerComplete, TakeFile, AnswerCutShort, GatewayFails,
         AttemptEnds, AttemptFails, CreateTemp, WriteTemp, ChmodTemp, RenameTemp,
         RemoveTemp, Interrupt, Die, vars
<1> QED
  BY <1>1, <1>2, <1>3, <1>4, <1>5, <1>6, <1>7 DEF Next, ClientSteps, Answers

LEMMA BoundedSignatures == TypeOK /\ RequestInv => SignaturesBounded
<1> SUFFICES ASSUME TypeOK, RequestInv, NEW f \in Files
             PROVE  Cardinality({a \in Attempts : requests[f][a] = "signed"}) <= 1 + MaxRetries
  BY DEF SignaturesBounded, MaxRetries
<1> DEFINE S == {a \in Attempts : requests[f][a] = "signed"}
<1>1. MaxRetries \in Nat
  BY MaxRetriesType
<1>2. S \subseteq 0 .. MaxRetries
  BY <1>1 DEF RequestInv
<1>3. IsFiniteSet(0 .. MaxRetries) /\ Cardinality(0 .. MaxRetries) = MaxRetries + 1
  BY <1>1, FS_Interval
<1>4. Cardinality(S) <= Cardinality(0 .. MaxRetries)
  BY <1>2, <1>3, FS_Subset
<1> QED
  BY <1>1, <1>3, <1>4

\* However late the service gets to them, no more than Retries + 1 requests for
\* one file can be signed (client.go:345).
THEOREM SignaturesAreBounded == Spec => []SignaturesBounded
<1>1. Init => TypeOK /\ LoopInv /\ RequestInv
  BY InitTypes DEF Init, RequestInv
<1>2. TypeOK /\ LoopInv /\ RequestInv /\ [Next]_vars => (TypeOK /\ LoopInv /\ RequestInv)'
  BY TypeStep, RequestStep
<1>3. TypeOK /\ RequestInv => SignaturesBounded
  BY BoundedSignatures
<1> QED
  BY <1>1, <1>2, <1>3, PTL DEF Spec

\* A refusal ends the command.
RefusalInv == refused => pc = "exit"

LEMMA RefusalStep == RefusalInv /\ [Next]_vars => RefusalInv'
<1> SUFFICES ASSUME RefusalInv, [Next]_vars PROVE RefusalInv'
  OBVIOUS
<1>1. ASSUME NEW f \in Files, NEW a \in Attempts, Settle(f, a) PROVE RefusalInv'
  BY <1>1 DEF Settle, RefusalInv
<1>2. CASE HandshakeFails \/ AnswerRefused
  BY <1>2 DEF HandshakeFails, AnswerRefused, AttemptFails, RefusalInv
<1>3. CASE Interrupt \/ UNCHANGED vars
  BY <1>3 DEF Interrupt, vars, RefusalInv
<1>4. CASE \/ ReadInput \/ Loop \/ Delay \/ Post \/ PostFails \/ AnswerComplete
           \/ AnswerCutShort \/ GatewayFails \/ AttemptEnds \/ CreateTemp \/ WriteTemp
           \/ ChmodTemp \/ RenameTemp \/ Die
  <2>1. pc # "exit" /\ refused' = refused
    BY <1>4 DEF ReadInput, Loop, Delay, Post, PostFails, AnswerComplete, TakeFile, AnswerCutShort,
                GatewayFails, AttemptEnds, CreateTemp, WriteTemp, ChmodTemp, RenameTemp, Die
  <2> QED
    BY <2>1 DEF RefusalInv
<1> QED
  BY <1>1, <1>2, <1>3, <1>4 DEF Next, ClientSteps, Answers

\* Whatever ended with a refusal is not sent again, nor is any other file
\* (client.go:63).
THEOREM RefusalsAreFinal == Spec => NoPostAfterRefusal
<1>1. Init => RefusalInv
  BY DEF Init, RefusalInv
<1>2. RefusalInv /\ [Next]_vars => RefusalInv'
  BY RefusalStep
<1>3. TypeOK /\ RefusalInv /\ [Next]_vars =>
        [refused => \A f \in Files, a \in Attempts :
                      requests[f][a] = "unsent" => requests'[f][a] = "unsent"]_vars
  <2> SUFFICES ASSUME TypeOK, pc = "exit", Next,
                      NEW f \in Files, NEW a \in Attempts, requests[f][a] = "unsent"
               PROVE  requests'[f][a] = "unsent"
    BY DEF RefusalInv
  <2>1. PICK g \in Files, b \in Attempts : Settle(g, b)
    BY DEF Next, ClientSteps, Answers, ReadInput, Loop, Delay, Post, PostFails,
           HandshakeFails, AttemptEnds, CreateTemp, WriteTemp, ChmodTemp, RenameTemp,
           AnswerComplete, TakeFile, AnswerCutShort, AnswerRefused, GatewayFails, Interrupt, Die
  <2> QED
    BY <2>1 DEF Settle, TypeOK
<1> QED
  BY <1>1, <1>2, <1>3, TypeCorrect, PTL DEF Spec, NoPostAfterRefusal

-----------------------------------------------------------------------------
(* What was not tried yet, and what was signed                             *)

\* Attempts the command has not come to.
Unused(f, a) ==
  \/ f > file
  \/ f = file /\ pc = "read"
  \/ f = file /\ a > attempt
  \/ f = file /\ a = attempt /\ pc \in {"loop", "delay", "post"}

UnusedInv == \A f \in Files, a \in Attempts : Unused(f, a) => requests[f][a] = "unsent"

\* What becomes of a request, whoever decides it.
RequestMoves ==
  \A f \in Files, a \in Attempts :
    requests'[f][a] # requests[f][a] =>
      \/ /\ requests[f][a] = "unsent" /\ f = file /\ a = attempt /\ pc = "post"
         /\ requests'[f][a] \in {"abroad", "dead"}
      \/ requests[f][a] = "abroad" /\ requests'[f][a] \in {"signed", "dead"}

LEMMA RequestsMove ==
  ASSUME TypeOK, UnusedInv, [Next]_vars
  PROVE  RequestMoves
<1>0. /\ requests \in [Files -> [Attempts -> {"unsent", "abroad", "signed", "dead"}]]
      /\ file \in Files /\ attempt \in Attempts
  BY DEF TypeOK
<1>1. CASE Post \/ PostFails \/ HandshakeFails
  <2>1. requests[file][attempt] = "unsent"
    BY <1>0, <1>1 DEF Post, PostFails, HandshakeFails, UnusedInv, Unused
  <2>2. \/ requests' = [requests EXCEPT ![file][attempt] = "abroad"]
        \/ requests' = [requests EXCEPT ![file][attempt] = "dead"]
    BY <1>1 DEF Post, PostFails, HandshakeFails, Became
  <2>3. pc = "post"
    BY <1>1 DEF Post, PostFails, HandshakeFails
  <2> QED
    BY <1>0, <2>1, <2>2, <2>3 DEF RequestMoves
<1>2. CASE AnswerRefused
  BY <1>0, <1>2 DEF AnswerRefused, Became, Request, RequestMoves
<1>3. ASSUME NEW f \in Files, NEW a \in Attempts, Settle(f, a) PROVE RequestMoves
  BY <1>0, <1>3 DEF Settle, RequestMoves
<1>4. CASE UNCHANGED requests
  BY <1>4 DEF RequestMoves
<1>5. \/ ReadInput \/ Loop \/ Delay \/ AnswerComplete \/ AnswerCutShort \/ GatewayFails
      \/ AttemptEnds \/ CreateTemp \/ WriteTemp \/ ChmodTemp \/ RenameTemp
      \/ Interrupt \/ Die \/ UNCHANGED vars
      => UNCHANGED requests
  BY DEF ReadInput, Loop, Delay, AnswerComplete, TakeFile, AnswerCutShort, GatewayFails,
         AttemptEnds, CreateTemp, WriteTemp, ChmodTemp, RenameTemp, Interrupt, Die, vars
<1> QED
  BY <1>1, <1>2, <1>3, <1>4, <1>5 DEF Next, ClientSteps, Answers

\* The command never goes back to an attempt, and tries it before it leaves it.
LEMMA UnusedStep == TypeOK /\ UnusedInv /\ [Next]_vars => UnusedInv'
<1> SUFFICES ASSUME TypeOK, UnusedInv, [Next]_vars,
                    NEW f \in Files, NEW a \in Attempts, Unused(f, a)'
             PROVE  requests'[f][a] = "unsent"
  BY DEF UnusedInv
<1>0. /\ requests \in [Files -> [Attempts -> {"unsent", "abroad", "signed", "dead"}]]
      /\ file \in Files /\ attempt \in Attempts
  BY DEF TypeOK
<1>u. Unused(f, a) => requests[f][a] = "unsent"
  BY DEF UnusedInv
<1> USE DEF Unused
<1>1. CASE ReadInput
  BY <1>0, <1>1, <1>u DEF ReadInput
<1>2. CASE Loop \/ Delay \/ CreateTemp \/ WriteTemp \/ ChmodTemp
  BY <1>0, <1>2, <1>u DEF Loop, Delay, CreateTemp, WriteTemp, ChmodTemp, RemoveTemp
<1>3. CASE Post \/ PostFails \/ HandshakeFails
  BY <1>0, <1>3, <1>u DEF Post, PostFails, HandshakeFails, AttemptFails, Became
<1>4. CASE AnswerCutShort \/ GatewayFails \/ AttemptEnds
  BY <1>0, <1>4, <1>u DEF AnswerCutShort, GatewayFails, AttemptEnds, AttemptFails
<1>5. CASE AnswerRefused
  BY <1>0, <1>5, <1>u DEF AnswerRefused, AttemptFails, Became
<1>6. CASE AnswerComplete
  BY <1>0, <1>6, <1>u DEF AnswerComplete, TakeFile
<1>7. CASE RenameTemp
  BY <1>0, <1>7, <1>u DEF RenameTemp, RemoveTemp
<1>8. CASE Interrupt \/ Die \/ UNCHANGED vars
  BY <1>0, <1>8, <1>u DEF Interrupt, Die, vars
<1>9. ASSUME NEW g \in Files, NEW b \in Attempts, Settle(g, b)
      PROVE  requests'[f][a] = "unsent"
  BY <1>0, <1>9, <1>u DEF Settle
<1> QED
  BY <1>1, <1>2, <1>3, <1>4, <1>5, <1>6, <1>7, <1>8, <1>9 DEF Next, ClientSteps, Answers

\* The command has its answer for the file, or has ended over it.
Over(f) ==
  f < file \/ (f = file /\ pc \in {"create", "write", "chmod", "rename", "exit"})

\* It stays so, and nothing more is sent for the file.
LEMMA OverStays ==
  ASSUME TypeOK, UnusedInv, [Next]_vars, NEW f \in Files, Over(f)
  PROVE  /\ Over(f)'
         /\ \A a \in Attempts : requests[f][a] = "unsent" => requests'[f][a] = "unsent"
<1>1. \A a \in Attempts : requests[f][a] = "unsent" => requests'[f][a] = "unsent"
  BY RequestsMove DEF RequestMoves, Over, TypeOK
<1> SUFFICES Over(f)'
  BY <1>1
<1>2. CASE CreateTemp \/ WriteTemp \/ ChmodTemp
  BY <1>2 DEF CreateTemp, WriteTemp, ChmodTemp, RemoveTemp, Over, TypeOK
<1>3. CASE RenameTemp
  BY <1>3 DEF RenameTemp, RemoveTemp, Over, TypeOK
<1>4. CASE Die
  BY <1>4 DEF Die, Over, TypeOK
<1>5. CASE UNCHANGED file /\ (f < file \/ UNCHANGED pc)
  BY <1>5 DEF Over
<1>6. \/ ReadInput \/ Loop \/ Delay \/ Post \/ PostFails \/ HandshakeFails \/ AnswerComplete
      \/ AnswerCutShort \/ GatewayFails \/ AnswerRefused \/ AttemptEnds
      => UNCHANGED file /\ pc \in {"read", "loop", "delay", "post", "wait"}
  BY DEF ReadInput, Loop, Delay, Post, PostFails, HandshakeFails, AnswerComplete, TakeFile,
         AnswerCutShort, GatewayFails, AnswerRefused, AttemptEnds, AttemptFails
<1>7. Interrupt \/ (\E g \in Files, a \in Attempts : Settle(g, a)) \/ UNCHANGED vars
      => UNCHANGED <<file, pc>>
  BY DEF Interrupt, Settle, vars
<1> QED
  BY <1>2, <1>3, <1>4, <1>5, <1>6, <1>7 DEF Next, ClientSteps, Answers, Over

\* The token has signed one of the attempts for the file.
SomeSigned(f) == \E a \in Attempts : requests[f][a] = "signed"

\* The bytes of the command come from the token.
SignedInv ==
  /\ pc \in {"create", "write", "chmod", "rename"} => SomeSigned(file)
  /\ temp.content = "signed" => SomeSigned(file)
  /\ \A f \in Files : targets[f].content = "signed" => SomeSigned(f)

LEMMA SignedStep ==
  TypeOK /\ LoopInv /\ UnusedInv /\ SignedInv /\ [Next]_vars => SignedInv'
<1> SUFFICES ASSUME TypeOK, LoopInv, UnusedInv, SignedInv, [Next]_vars
             PROVE  SignedInv'
  OBVIOUS
<1>0. /\ file \in Files /\ attempt \in Attempts
      /\ targets \in [Files -> FileStates] /\ temp \in FileStates
  BY DEF TypeOK
\* What is signed stays so.
<1>s. \A f \in Files : SomeSigned(f) => SomeSigned(f)'
  BY RequestsMove DEF RequestMoves, SomeSigned
<1>1. CASE UNCHANGED <<file, targets, temp>>
           /\ pc' \in {pc, "read", "loop", "delay", "post", "wait", "exit"}
  BY <1>0, <1>1, <1>s DEF SignedInv
\* The loop does not end without a file and without an error.
<1>2. CASE Loop
  <2>1. ~MayAttempt => lastErr
    BY MaxRetriesType DEF MayAttempt, LoopInv, TypeOK
  <2> QED
    BY <1>1, <1>2, <2>1 DEF Loop
<1>3. CASE AnswerComplete
  <2>1. SomeSigned(file)
    BY <1>0, <1>3 DEF AnswerComplete, Request, SomeSigned
  <2> QED
    BY <1>0, <1>3, <1>s, <2>1 DEF AnswerComplete, TakeFile, SignedInv
<1>4. CASE CreateTemp \/ WriteTemp \/ ChmodTemp
  BY <1>0, <1>4, <1>s DEF CreateTemp, WriteTemp, ChmodTemp, RemoveTemp, Absent, SignedInv
<1>5. CASE RenameTemp
  BY <1>0, <1>5, <1>s DEF RenameTemp, RemoveTemp, Absent, SignedInv
<1>7. \/ ReadInput \/ Delay \/ Post \/ PostFails \/ HandshakeFails \/ AnswerCutShort
      \/ GatewayFails \/ AnswerRefused \/ AttemptEnds \/ Interrupt \/ Die \/ UNCHANGED vars
      => /\ UNCHANGED <<file, targets, temp>>
         /\ pc' \in {pc, "read", "loop", "delay", "post", "wait", "exit"}
  BY DEF ReadInput, Delay, Post, PostFails, HandshakeFails, AnswerCutShort, GatewayFails,
         AnswerRefused, AttemptEnds, AttemptFails, Interrupt, Die, vars
<1>8. ASSUME NEW f \in Files, NEW a \in Attempts, Settle(f, a)
      PROVE  UNCHANGED <<file, targets, temp, pc>>
  BY <1>8 DEF Settle
<1> QED
  BY <1>1, <1>2, <1>3, <1>4, <1>5, <1>7, <1>8 DEF Next, ClientSteps, Answers

LEMMA SignedInit == Init => UnusedInv /\ SignedInv
<1> SUFFICES ASSUME Init PROVE UnusedInv /\ SignedInv
  OBVIOUS
<1>1. UnusedInv
  BY DEF Init, UnusedInv
<1>2. \A f \in Files : targets[f].content # "signed"
  <2>1. targets \in Targets(job.count)
    BY JobsType DEF Init
  <2> QED
    BY <2>1 DEF Targets, InPlace, Absent
<1>3. SignedInv
  BY <1>2 DEF Init, SignedInv, Absent
<1> QED
  BY <1>1, <1>3

LEMMA SignedInvariant == Spec => [](UnusedInv /\ SignedInv)
<1>1. Init => TypeOK /\ LoopInv /\ UnusedInv /\ SignedInv
  BY InitTypes, SignedInit
<1>2. TypeOK /\ LoopInv /\ UnusedInv /\ SignedInv /\ [Next]_vars
        => (TypeOK /\ LoopInv /\ UnusedInv /\ SignedInv)'
  BY TypeStep, UnusedStep, SignedStep
<1> QED
  BY <1>1, <1>2, PTL DEF Spec

\* The command only puts bytes in place of a file that the token has signed for
\* that file, in one of its own attempts (Sign and SignFile, client.go:168).
THEOREM SignedByToken ==
  Spec => [](\A f \in Files : targets[f].content = "signed" => SomeSigned(f))
<1>1. SignedInv => \A f \in Files : targets[f].content = "signed" => SomeSigned(f)
  BY DEF SignedInv
<1> QED
  BY <1>1, SignedInvariant, PTL

-----------------------------------------------------------------------------
(* How long the command can go on                                          *)

\* What one file takes at most: to read it, four steps for every attempt, to
\* leave the loop, and four steps to write the answer.
FileSteps == 4 * (MaxRetries + 1) + 6

\* What is left of it.
StepsOfFile ==
  LET attemptsLeft == 4 * (MaxRetries + 1 - attempt)
  IN  [read |-> FileSteps, loop |-> attemptsLeft + 5, delay |-> attemptsLeft + 4,
       post |-> attemptsLeft + 3, wait |-> attemptsLeft + 2, create |-> 4, write |-> 3,
       chmod |-> 2, rename |-> 1, exit |-> 0][pc]

\* What is left of the run.
StepsLeft == IF pc = "exit" THEN 0 ELSE (job.count - file) * FileSteps + StepsOfFile

InRange == file <= job.count

\* One step of the command, done or given up.
Acts == ClientSteps \/ Answers \/ Die

LEMMA OneMore ==
  ASSUME NEW n \in Int, NEW k \in Int
  PROVE  (n - 1) * k + k = n * k
OBVIOUS

LEMMA StepsType ==
  ASSUME TypeOK, LoopInv, InRange
  PROVE  /\ FileSteps \in Nat /\ StepsOfFile \in 0 .. FileSteps
         /\ pc # "exit" => StepsOfFile > 0
         /\ job.count - file \in Nat /\ (job.count - file) * FileSteps \in Nat
<1>1. MaxRetries \in Nat /\ attempt \in Nat /\ attempt <= MaxRetries + 1
  BY MaxRetriesType, ClientAssumption DEF TypeOK, Attempts, LoopInv
<1>2. FileSteps \in Nat
  BY <1>1 DEF FileSteps
<1>3. StepsOfFile \in 0 .. FileSteps /\ (pc # "exit" => StepsOfFile > 0)
  <2>1. pc \in {"read", "loop", "delay", "post", "wait", "create", "write",
                "chmod", "rename", "exit"}
    BY DEF TypeOK
  <2>2. /\ StepsOfFile \in Int /\ StepsOfFile >= 0 /\ StepsOfFile <= FileSteps
        /\ pc # "exit" => StepsOfFile > 0
    BY <1>1, <2>1 DEF StepsOfFile, FileSteps
  <2> QED
    BY <1>2, <2>2
<1>4. job.count - file \in Nat
  BY ClientAssumption DEF TypeOK, Files, InRange
<1>5. \A m, n \in Nat : m * n \in Nat
  OBVIOUS
<1> QED
  BY <1>2, <1>3, <1>4, <1>5

LEMMA StepCounts ==
  ASSUME TypeOK, LoopInv, InRange, Acts
  PROVE  InRange' /\ StepsLeft' < StepsLeft
<1>0. /\ MaxRetries \in Nat /\ attempt \in Nat /\ attempt <= MaxRetries + 1
      /\ file \in Nat /\ job.count \in Nat
  BY MaxRetriesType, ClientAssumption DEF TypeOK, Attempts, LoopInv, Files
<1>1. UNCHANGED job /\ MaxRetries' = MaxRetries /\ FileSteps' = FileSteps
  BY DEF Acts, ClientSteps, Answers, ReadInput, Loop, Delay, Post, PostFails, HandshakeFails,
         AttemptEnds, AttemptFails, CreateTemp, WriteTemp, ChmodTemp, RenameTemp,
         AnswerComplete, TakeFile, AnswerCutShort, AnswerRefused, GatewayFails, Die,
         MaxRetries, FileSteps
<1>2. pc # "exit"
  BY DEF Acts, ClientSteps, Answers, ReadInput, Loop, Delay, Post, PostFails, HandshakeFails,
         AttemptEnds, CreateTemp, WriteTemp, ChmodTemp, RenameTemp,
         AnswerComplete, TakeFile, AnswerCutShort, AnswerRefused, GatewayFails, Die
\* The process ends.
<1>3. CASE pc' = "exit" /\ file' = file
  BY <1>1, <1>2, <1>3, StepsType DEF StepsLeft, InRange
\* The command goes on with this file.
<1>4. CASE pc' # "exit" /\ file' = file /\ StepsOfFile' < StepsOfFile
  <2>1. (job.count - file)' * FileSteps' = (job.count - file) * FileSteps
    BY <1>1, <1>4
  <2>2. StepsOfFile' \in Int
    <3>1. TypeOK'
      BY TypeStep DEF Acts, Next
    <3>2. /\ pc' \in {"read", "loop", "delay", "post", "wait", "create", "write",
                     "chmod", "rename", "exit"}
          /\ attempt' \in Int
      BY <3>1, ClientAssumption DEF TypeOK, Attempts
    <3> QED
      BY <1>0, <1>1, <3>2 DEF StepsOfFile, FileSteps
  <2> QED
    BY <1>1, <1>2, <1>4, <2>1, <2>2, StepsType DEF StepsLeft, InRange
\* The command turns to the next file.
<1>5. CASE RenameTemp /\ pc' = "read" /\ file' = file + 1 /\ MoreFiles
  <2>1. StepsOfFile = 1 /\ StepsOfFile' = FileSteps
    BY <1>1, <1>5 DEF RenameTemp, StepsOfFile
  <2>2. InRange'
    BY <1>0, <1>1, <1>5 DEF MoreFiles, InRange
  <2>4. (job'.count - file') * FileSteps + FileSteps = (job.count - file) * FileSteps
    <3>1. job'.count - file' = (job.count - file) - 1
      BY <1>0, <1>1, <1>5
    <3>2. job.count - file \in Int /\ FileSteps \in Int
      BY StepsType
    <3>3. ((job.count - file) - 1) * FileSteps + FileSteps = (job.count - file) * FileSteps
      BY <3>2, OneMore
    <3> QED
      BY <3>1, <3>3
  <2>5. StepsLeft' = (job'.count - file') * FileSteps + FileSteps
    BY <1>1, <1>5, <2>1 DEF StepsLeft
  <2>6. StepsLeft = (job.count - file) * FileSteps + 1
    BY <1>2, <2>1 DEF StepsLeft
  <2> QED
    BY <2>2, <2>4, <2>5, <2>6, StepsType
<1> DEFINE Fits == \/ pc' = "exit" /\ file' = file
                   \/ pc' # "exit" /\ file' = file /\ StepsOfFile' < StepsOfFile
<1> USE DEF Goto, Exit, loopVars, StepsOfFile, FileSteps
<1>6. CASE ReadInput
  <2>1. Fits
    BY <1>0, <1>1, <1>6 DEF ReadInput
  <2> QED
    BY <1>3, <1>4, <2>1
<1>7. CASE Loop \/ Delay
  <2>1. Fits
    BY <1>0, <1>1, <1>7 DEF Loop, MayAttempt, Delay
  <2> QED
    BY <1>3, <1>4, <2>1
<1>8. CASE Post \/ AnswerComplete
  <2>1. Fits
    BY <1>0, <1>1, <1>8 DEF Post, AnswerComplete, TakeFile, LoopInv
  <2> QED
    BY <1>3, <1>4, <2>1
<1>9. CASE PostFails \/ HandshakeFails \/ AttemptEnds \/ AnswerCutShort \/ AnswerRefused
           \/ GatewayFails
  <2>1. /\ pc \in {"post", "wait"} /\ attempt' = attempt + 1 /\ file' = file
        /\ pc' \in {"loop", "exit"}
    BY <1>9 DEF PostFails, HandshakeFails, AttemptEnds, AnswerCutShort, AnswerRefused,
                GatewayFails, AttemptFails
  <2>2. Fits
    BY <1>0, <1>1, <2>1
  <2> QED
    BY <1>3, <1>4, <2>2
<1>10. CASE CreateTemp \/ WriteTemp \/ ChmodTemp
  <2>1. Fits
    BY <1>10 DEF CreateTemp, WriteTemp, ChmodTemp, RemoveTemp
  <2> QED
    BY <1>3, <1>4, <2>1
<1>11. CASE RenameTemp
  <2>1. \/ pc' = "exit" /\ file' = file
        \/ pc' = "read" /\ file' = file + 1 /\ MoreFiles
    BY <1>11 DEF RenameTemp, RemoveTemp
  <2> QED
    BY <1>3, <1>5, <1>11, <2>1
<1>12. CASE Die
  BY <1>3, <1>12 DEF Die
<1> QED
  BY <1>6, <1>7, <1>8, <1>9, <1>10, <1>11, <1>12 DEF Acts, ClientSteps, Answers

LEMMA Waits ==
  ASSUME (\E f \in Files, a \in Attempts : Settle(f, a)) \/ Interrupt \/ UNCHANGED vars
  PROVE  UNCHANGED <<job, file, StepsLeft>>
<1>1. UNCHANGED <<job, file, pc, attempt>>
  BY DEF Settle, Interrupt, vars, loopVars
<1> QED
  BY <1>1 DEF StepsLeft, StepsOfFile, FileSteps, MaxRetries

\* The command takes at most 4 * (-retries + 1) + 6 steps for each file, from its
\* first to its last, whatever the service, the network and the operator do: at
\* every moment StepsLeft is a bound, no bound is below zero, and each step of
\* the command uses one up.  With its timeouts it therefore ends (Sign,
\* client.go:168; signFiles, cmd/codesign/main.go:158).
THEOREM StepsAreBounded ==
  Spec => /\ [](StepsLeft \in Nat)
          /\ [][IF Acts THEN StepsLeft' < StepsLeft ELSE StepsLeft' = StepsLeft]_vars
          /\ StepsLeft <= job.count * FileSteps
<1> DEFINE Inv == TypeOK /\ LoopInv /\ InRange
<1>1. Init => Inv
  BY InitTypes, ClientAssumption DEF Init, InRange, TypeOK, Files
<1>2. ASSUME Inv, [Next]_vars
      PROVE  /\ Inv'
             /\ [IF Acts THEN StepsLeft' < StepsLeft ELSE StepsLeft' = StepsLeft]_vars
  <2>1. TypeOK' /\ LoopInv'
    BY <1>2, TypeStep
  <2>2. CASE Acts
    BY <1>2, <2>1, <2>2, StepCounts
  <2>3. CASE ~Acts
    <3>1. UNCHANGED <<job, file, StepsLeft>>
      BY <1>2, <2>3, Waits DEF Next, Acts
    <3> QED
      BY <1>2, <2>1, <2>3, <3>1 DEF InRange
  <2> QED
    BY <2>2, <2>3
<1>3. Inv => StepsLeft \in Nat
  BY StepsType DEF StepsLeft
<1>4. Init => StepsLeft <= job.count * FileSteps
  <2> SUFFICES ASSUME Init PROVE StepsLeft <= job.count * FileSteps
    OBVIOUS
  <2>1. Inv /\ job.count \in Nat /\ FileSteps \in Nat
    BY <1>1, StepsType, ClientAssumption DEF TypeOK, Files
  <2>2. StepsLeft = (job.count - 1) * FileSteps + FileSteps
    BY DEF Init, StepsLeft, StepsOfFile
  <2>3. (job.count - 1) * FileSteps + FileSteps = job.count * FileSteps
    BY <2>1, OneMore
  <2> QED
    BY <2>1, <2>2, <2>3
<1> QED
  BY <1>1, <1>2, <1>3, <1>4, PTL DEF Spec
=============================================================================
