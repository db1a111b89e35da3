------------------------------- MODULE Backend -------------------------------
(***************************************************************************)
(* Sign of the two backends, osslsigncode and jsign, with the helpers they *)
(* share: publishSigned, withPINFile and copyFile.                         *)
(*                                                                         *)
(* Both wrap a run of an external tool in two temporary files, a staging   *)
(* file beside the output and a file with the PIN, but nest them the other *)
(* way round.  Every call to the file system may fail, the tool may fail   *)
(* or be killed at any point of its work, and the process may die between  *)
(* any two steps.  One call runs at a time (Signerd), each on a request of *)
(* its own; the names of temporary files are unique.                       *)
(***************************************************************************)
CONSTANT Configs  \* the configurations to consider

ASSUME ConfigsAssumption ==
  Configs \subseteq
    [tool : {"osslsigncode", "jsign"},
     pin : BOOLEAN,    \* a PIN is configured
     ready : BOOLEAN]  \* the certificate file, and the PKCS#11 module
                       \* osslsigncode needs, are configured

VARIABLES
  config,   \* the backend's configuration
  pc,       \* the step of Sign under way
  files,    \* what the call's four paths hold
  failed,   \* the call is on its way out with an error
  result,   \* what the last call returned; "lost" if the process died
  before,   \* ghost: what the output path held when the call began
  mishap    \* ghost: a removal failed in this call

vars == <<config, pc, files, failed, result, before, mishap>>

Paths == {"input", "output", "staging", "pin"}
Temporary == {"staging", "pin"}

\* "input" in the output path: it names the input file, by the same path or
\* as an alias.
Contents == {"absent", "empty", "partial", "unsigned", "signed", "full",
             "old", "input"}

StagingContents == {"absent", "empty", "partial", "unsigned", "signed"}

Steps == {"check", "pin", "write", "stage", "clear", "copy", "run",
          "publish", "unstage", "unpin", "return"}

TypeOK ==
  /\ config \in Configs
  /\ pc \in Steps \cup {"idle"}
  /\ files \in [Paths -> Contents]
  /\ files["staging"] \in StagingContents
  /\ failed \in BOOLEAN
  /\ result \in {"none", "nil", "error", "lost"}
  /\ before \in {"absent", "old", "input"}
  /\ mishap \in BOOLEAN

Init ==
  /\ config \in Configs
  /\ pc = "idle"
  /\ files = [p \in Paths |-> IF p = "input" THEN "unsigned" ELSE "absent"]
  /\ failed = FALSE
  /\ result = "none"
  /\ before = "absent"
  /\ mishap = FALSE

-----------------------------------------------------------------------------
(* The order of the steps: what follows a success, and where a failure     *)
(* leaves for, the innermost cleanup that is due.                          *)

AfterOSSLSigncode ==
  [check |-> "pin", write |-> "stage", stage |-> "clear", clear |-> "run",
   run |-> "publish", publish |-> "unpin", unpin |-> "return"]

AfterJsign ==
  [check |-> "stage", stage |-> "copy", copy |-> "pin", write |-> "run",
   run |-> "unpin", unpin |-> "publish", publish |-> "return"]

After(step) ==
  IF config.tool = "jsign" THEN AfterJsign[step] ELSE AfterOSSLSigncode[step]

\* Mutant: the early return before the tool skips the removal of the staging
\* file.
OnErrorOSSLSigncode_Early ==
  [check |-> "return", pin |-> "return", write |-> "unpin", stage |-> "unpin",
   clear |-> "unpin", run |-> "unstage"]

OnErrorOSSLSigncode ==
  [check |-> "return", pin |-> "return", write |-> "unpin", stage |-> "unpin",
   clear |-> "unstage", run |-> "unstage"]

OnErrorJsign ==
  [check |-> "return", stage |-> "return", copy |-> "unstage",
   pin |-> "unstage", write |-> "unpin", run |-> "unpin"]

OnError(step) ==
  IF config.tool = "jsign" THEN OnErrorJsign[step]
                           ELSE OnErrorOSSLSigncode[step]

Goto(step) == pc' = step /\ UNCHANGED failed
Fail(step) == pc' = OnError(step) /\ failed' = TRUE
Put(path, content) == files' = [files EXCEPT ![path] = content]

callVars == <<config, result, before>>

-----------------------------------------------------------------------------
(* Sign                                                                    *)

Sign ==
  /\ pc = "idle"
  /\ pc' = "check"
  /\ before' \in {"absent", "old", "input"}
  /\ files' = [files EXCEPT !["input"] = "unsigned", !["output"] = before']
  /\ failed' = FALSE
  /\ result' = "none"
  /\ mishap' = FALSE
  /\ UNCHANGED config

\* Mutant: the output may be an alias of the input.
MayStart_Aliases == config.ready

\* signer.Check, then the settings the backend cannot do without.
MayStart == files["output"] # "input" /\ config.ready

Check ==
  /\ pc = "check"
  /\ \/ MayStart /\ Goto(After("check"))
     \/ ~MayStart /\ Fail("check")
  /\ UNCHANGED <<callVars, files, mishap>>

\* withPINFile: no PIN, no file.
CreatePIN ==
  /\ pc = "pin"
  /\ \/ ~config.pin /\ Goto(After("write")) /\ UNCHANGED files
     \/ config.pin /\ Put("pin", "empty") /\ Goto("write")
     \/ config.pin /\ Fail("pin") /\ UNCHANGED files
  /\ UNCHANGED <<callVars, mishap>>

\* Mutant: an error of the write is not looked at.
WritePIN_Unchecked ==
  /\ pc = "write"
  /\ Put("pin", "full") \/ Put("pin", "partial")
  /\ Goto(After("write"))
  /\ UNCHANGED <<callVars, mishap>>

WritePIN ==
  /\ pc = "write"
  /\ \/ Put("pin", "full") /\ Goto(After("write"))
     \/ Put("pin", "partial") /\ Fail("write")
  /\ UNCHANGED <<callVars, mishap>>

\* publishSigned.  A staging file that cannot be closed is removed at once.
CreateStaging ==
  /\ pc = "stage"
  /\ \/ Put("staging", "empty") /\ Goto(After("stage"))
     \/ Fail("stage") /\ UNCHANGED files
  /\ UNCHANGED <<callVars, mishap>>

\* osslsigncode does not overwrite its output.
ClearStaging ==
  /\ pc = "clear"
  /\ \/ Put("staging", "absent") /\ Goto(After("clear"))
     \/ Fail("clear") /\ UNCHANGED files
  /\ UNCHANGED <<callVars, mishap>>

\* copyFile, for jsign, which signs in place.
CopyInput ==
  /\ pc = "copy"
  /\ \/ Put("staging", "unsigned") /\ Goto(After("copy"))
     \/ Fail("copy") /\ Put("staging", "partial")
     \/ Fail("copy") /\ UNCHANGED files
  /\ UNCHANGED <<callVars, mishap>>

HasPIN == config.pin => files["pin"] = "full"

\* The tool at work on the staging file.
ToolWrites ==
  /\ pc = "run"
  /\ \/ files["staging"] \in {"absent", "unsigned"} /\ Put("staging", "partial")
     \/ files["staging"] = "partial" /\ HasPIN /\ Put("staging", "signed")
  /\ UNCHANGED <<callVars, pc, failed, mishap>>

ToolSucceeds ==
  /\ pc = "run"
  /\ files["staging"] = "signed"
  /\ Goto(After("run"))
  /\ UNCHANGED <<callVars, files, mishap>>

\* Mutant: the tool's exit status is not looked at.
ToolFails_Unchecked ==
  /\ pc = "run"
  /\ Goto(After("run"))
  /\ UNCHANGED <<callVars, files, mishap>>

\* A non-zero exit, or the kill that follows the end of the request's
\* context, even if the tool was done.
ToolFails ==
  /\ pc = "run"
  /\ Fail("run")
  /\ UNCHANGED <<callVars, files, mishap>>

Publish ==
  /\ pc = "publish"
  /\ \/ /\ files["staging"] # "absent"
        /\ \E input \in IF files["output"] = "input" THEN {"unsigned", "signed"}
                                                     ELSE {files["input"]} :
             files' = [files EXCEPT !["output"] = files["staging"],
                                    !["staging"] = "absent",
                                    !["input"] = input]
        /\ Goto(After("publish"))
     \/ pc' = "unstage" /\ failed' = TRUE /\ UNCHANGED files
  /\ UNCHANGED <<callVars, mishap>>

\* The deferred removals ignore their error.
Remove(path) ==
  \/ Put(path, "absent") /\ UNCHANGED mishap
  \/ UNCHANGED files /\ mishap' = TRUE

RemoveStaging ==
  /\ pc = "unstage"
  /\ Remove("staging")
  /\ Goto(After("publish"))
  /\ UNCHANGED callVars

\* In jsign the PIN is gone before the staging file is published, or removed.
RemovePIN ==
  /\ pc = "unpin"
  /\ Remove("pin")
  /\ Goto(IF config.tool = "jsign" /\ failed THEN "unstage" ELSE After("unpin"))
  /\ UNCHANGED callVars

\* What is left of the temporary files stays on disk, under names that no
\* later call knows.
Abandon ==
  /\ files' = [p \in Paths |-> IF p \in Temporary THEN "absent" ELSE files[p]]
  /\ pc' = "idle"
  /\ failed' = FALSE

Return ==
  /\ pc = "return"
  /\ Abandon
  /\ result' = IF failed THEN "error" ELSE "nil"
  /\ UNCHANGED <<config, before, mishap>>

\* The process dies in a call, the tool with it or, at worst, left to write to
\* a staging file that is never published.
Crash ==
  /\ pc # "idle"
  /\ Abandon
  /\ result' = "lost"
  /\ UNCHANGED <<config, before, mishap>>

-----------------------------------------------------------------------------
Next ==
  \/ Sign \/ Check \/ CreatePIN \/ WritePIN \/ CreateStaging \/ ClearStaging
  \/ CopyInput \/ ToolWrites \/ ToolSucceeds \/ ToolFails \/ Publish
  \/ RemoveStaging \/ RemovePIN \/ Return \/ Crash

Spec == Init /\ [][Next]_vars

-----------------------------------------------------------------------------
(* Properties                                                              *)

\* Sign never touches its input, not even when a caller passes an alias of it
\* as the output (signer.go:58).
InputIntact == files["input"] = "unsigned"

\* When a call returns, on whichever of its paths, neither a staging file nor
\* the PIN is left on disk, unless the removal itself failed (the deferred
\* calls of publishSigned and withPINFile, backends.go:125 and 214).
NothingLeftBehind ==
  pc = "return" /\ ~mishap => \A t \in Temporary : files[t] = "absent"

\* The tool runs with the complete PIN file if a PIN is configured and with
\* none if not, in either nesting of the two temporary files (withPINFile).
ToolHasPIN ==
  pc = "run" => files["pin"] = IF config.pin THEN "full" ELSE "absent"

Promise == INSTANCE AtomicSign
  WITH busy <- pc # "idle", output <- files["output"]

\* "OutputPath only appears after a successful sign.  A failed sign leaves
\* neither a partial -out nor an unsigned copy at the target"
\* (backends.go:105): at every moment the output is what it was or the
\* finished file, nil is returned exactly for the latter, and an output that
\* is an alias of the input is left alone.
OutputIsAtomic == Promise!Spec
=============================================================================
