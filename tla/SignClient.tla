------------------------------ MODULE SignClient -----------------------------
(***************************************************************************)
(* The codesign command: signFiles in cmd/codesign/main.go over SignFile,  *)
(* Sign, signOnce and writeAtomic in client.go.                            *)
(*                                                                         *)
(* Files are signed one after the other.  Each is posted up to             *)
(* Retries + 1 times to a service the network may cut off at any point: a  *)
(* request the client has given up on can still be signed, and an answer   *)
(* can be lost or cut short after the file was signed.  What comes back is *)
(* written beside the target and renamed over it.  The process may be      *)
(* interrupted, or die, between any two steps.                             *)
(***************************************************************************)
EXTENDS Integers, FiniteSets

CONSTANTS
  MaxFiles,     \* the command line names 1 to MaxFiles files
  Retries,      \* the values of -retries to consider
  MaxAttempts   \* bound on the attempts that are told apart

ASSUME ClientAssumption ==
  /\ MaxFiles \in Nat \ {0}
  /\ Retries \subseteq Int
  /\ MaxAttempts \in Nat \ {0}
  /\ \A r \in Retries : r + 1 < MaxAttempts

VARIABLES
  job,         \* the flags and the targets as they were at the start
  file,        \* the file SignFile is working on
  pc,          \* the step under way
  status,      \* how the process ended
  attempt,     \* Sign's loop counter
  lastErr,     \* Sign's lastErr is not nil
  data,        \* the bytes Sign returned
  requests,    \* what became of every request, by file and attempt
  refused,     \* ghost: an attempt failed in a way retrying cannot mend
  interrupted, \* the signal context has ended
  targets,     \* the file at each output path: content and mode
  temp         \* the temporary file of writeAtomic

vars == <<job, file, pc, status, attempt, lastErr, data, requests, refused,
          interrupted, targets, temp>>

Files == 1 .. MaxFiles
Attempts == 0 .. MaxAttempts

Absent == [content |-> "absent", mode |-> "owner"]

FileStates ==
  [content : {"absent", "old", "unsigned", "signed", "short", "empty"},
   mode : {"owner", "exec", "plain"}]

TypeOK ==
  /\ job \in [retries : Retries, timeout : BOOLEAN, count : Files,
             targets : [Files -> FileStates]]
  /\ file \in Files
  /\ pc \in {"read", "loop", "delay", "post", "wait", "create", "write",
             "chmod", "rename", "exit"}
  /\ status \in {"none", "ok", "error", "dead"}
  /\ attempt \in Attempts
  /\ lastErr \in BOOLEAN
  /\ data \in {"empty", "short", "signed"}
  /\ requests \in [Files -> [Attempts -> {"unsent", "abroad", "signed", "dead"}]]
  /\ refused \in BOOLEAN
  /\ interrupted \in BOOLEAN
  /\ targets \in [Files -> FileStates]
  /\ temp \in FileStates

\* Inputs are executable.  Without -output a file is its own target; -output
\* goes with a single file, and names nothing or an older file.
InPlace == [content |-> "unsigned", mode |-> "exec"]

Targets(count) ==
  {[f \in Files |-> InPlace]} \cup
  IF count > 1 THEN {}
  ELSE {[f \in Files |-> t] : t \in {Absent, [content |-> "old", mode |-> "plain"]}}

Jobs ==
  UNION {[retries : Retries, timeout : BOOLEAN, count : {n}, targets : Targets(n)] :
           n \in Files}

Init ==
  /\ job \in Jobs
  /\ file = 1
  /\ pc = "read"
  /\ status = "none"
  /\ attempt = 0
  /\ lastErr = FALSE
  /\ data = "empty"
  /\ requests = [f \in Files |-> [a \in Attempts |-> "unsent"]]
  /\ refused = FALSE
  /\ interrupted = FALSE
  /\ targets = job.targets
  /\ temp = Absent

\* Mutant: New takes -retries as it is.
MaxRetries_Raw == job.retries

\* New: a negative count would skip the loop, and a timeout that is not
\* positive would be none.
MaxRetries == IF job.retries < 0 THEN 0 ELSE job.retries

\* Mutant: New takes the timeout as it is.
HasTimeout_Raw == job.timeout

HasTimeout == TRUE

Goto(step) == pc' = step
Exit(how) == pc' = "exit" /\ status' = how

Request == requests[file][attempt]

Became(what) == requests' = [requests EXCEPT ![file][attempt] = what]

loopVars == <<attempt, lastErr, data>>
diskVars == <<targets, temp>>

-----------------------------------------------------------------------------
(* signFiles and Sign                                                      *)

\* ReadFile, then validateHeaders.
ReadInput ==
  /\ pc = "read"
  /\ \/ Goto("loop") /\ UNCHANGED status
     \/ Exit("error")
  /\ attempt' = 0
  /\ lastErr' = FALSE
  /\ data' = "empty"
  /\ UNCHANGED <<job, file, requests, refused, interrupted, diskVars>>

\* Mutant: one attempt too many.
MayAttempt_OffByOne == attempt <= MaxRetries + 1

MayAttempt == attempt <= MaxRetries

Loop ==
  /\ pc = "loop"
  /\ \/ /\ MayAttempt
        /\ Goto(IF attempt = 0 THEN "post" ELSE "delay")
        /\ UNCHANGED status
     \/ /\ ~MayAttempt
        /\ IF lastErr THEN Exit("error") ELSE Goto("create") /\ UNCHANGED status
  /\ UNCHANGED <<job, file, loopVars, requests, refused, interrupted, diskVars>>

Delay ==
  /\ pc = "delay"
  /\ \/ interrupted /\ Exit("error")
     \/ ~interrupted /\ Goto("post") /\ UNCHANGED status
  /\ UNCHANGED <<job, file, loopVars, requests, refused, interrupted, diskVars>>

-----------------------------------------------------------------------------
(* signOnce                                                                *)

AttemptFails(retryable) ==
  /\ lastErr' = TRUE
  /\ attempt' = attempt + 1
  /\ IF retryable THEN Goto("loop") /\ UNCHANGED status ELSE Exit("error")
  /\ UNCHANGED <<job, file, data, interrupted, diskVars>>

Post ==
  /\ pc = "post"
  /\ ~interrupted
  /\ Became("abroad")
  /\ Goto("wait")
  /\ UNCHANGED <<job, file, status, loopVars, refused, interrupted, diskVars>>

\* No connection, or an ended context: nothing is sent.
PostFails ==
  /\ pc = "post"
  /\ Became("dead")
  /\ AttemptFails(TRUE)
  /\ UNCHANGED refused

\* isPermanentTransportError: a TLS or certificate problem.
HandshakeFails ==
  /\ pc = "post"
  /\ ~interrupted
  /\ Became("dead")
  /\ refused' = TRUE
  /\ AttemptFails(FALSE)

TakeFile ==
  /\ pc = "wait"
  /\ data' = "signed"
  /\ Goto("create")
  /\ UNCHANGED <<job, file, status, attempt, lastErr, requests, refused,
                 interrupted, diskVars>>

\* A complete 200 is the daemon's own, and comes after the signature.
AnswerComplete == Request = "signed" /\ TakeFile

\* The body is shorter than its Content-Length.
AnswerCutShort ==
  /\ pc = "wait"
  /\ Request = "signed"
  /\ AttemptFails(TRUE)
  /\ UNCHANGED <<requests, refused>>

\* A broken connection or a 502, 503 or 504 of the proxy or the daemon says
\* nothing about whether the file was or will be signed.
GatewayFails ==
  /\ pc = "wait"
  /\ AttemptFails(TRUE)
  /\ UNCHANGED <<requests, refused>>

\* Mutant: every answer but 200 is worth a retry.
AnswerRefused_Retries ==
  /\ pc = "wait"
  /\ Became(IF Request = "abroad" THEN "dead" ELSE Request)
  /\ refused' = TRUE
  /\ AttemptFails(TRUE)

\* Any other status, a redirect too.  The daemon no longer signs a request it
\* has answered; a 500 may come after the signature.
AnswerRefused ==
  /\ pc = "wait"
  /\ Became(IF Request = "abroad" THEN "dead" ELSE Request)
  /\ refused' = TRUE
  /\ AttemptFails(FALSE)

\* The attempt's timeout, or the interrupt, ends it wherever it is.
AttemptEnds ==
  /\ pc = "wait"
  /\ HasTimeout \/ interrupted
  /\ AttemptFails(TRUE)
  /\ UNCHANGED <<requests, refused>>

-----------------------------------------------------------------------------
(* writeAtomic                                                             *)

CreateTemp ==
  /\ pc = "create"
  /\ \/ Goto("write") /\ temp' = [content |-> "empty", mode |-> "owner"]
        /\ UNCHANGED status
     \/ Exit("error") /\ UNCHANGED temp
  /\ UNCHANGED <<job, file, loopVars, requests, refused, interrupted, targets>>

RemoveTemp == temp' = Absent /\ Exit("error")

\* Write and Close.
WriteTemp ==
  /\ pc = "write"
  /\ \/ temp' = [temp EXCEPT !.content = data] /\ Goto("chmod") /\ UNCHANGED status
     \/ RemoveTemp
  /\ UNCHANGED <<job, file, loopVars, requests, refused, interrupted, targets>>

\* Mutant: the input's mode even if the output is there.
OutputMode_Input == "exec"

OutputMode ==
  IF targets[file].content # "absent" THEN targets[file].mode ELSE "exec"

ChmodTemp ==
  /\ pc = "chmod"
  /\ \/ temp' = [temp EXCEPT !.mode = OutputMode] /\ Goto("rename") /\ UNCHANGED status
     \/ RemoveTemp
  /\ UNCHANGED <<job, file, loopVars, requests, refused, interrupted, targets>>

MoreFiles == file < job.count

\* Mutant: a failed rename leaves its file behind.
RenameTemp_Leaves ==
  /\ pc = "rename"
  /\ \/ /\ targets' = [targets EXCEPT ![file] = temp]
        /\ temp' = Absent
        /\ IF MoreFiles
             THEN file' = file + 1 /\ Goto("read") /\ UNCHANGED status
             ELSE Exit("ok") /\ UNCHANGED file
     \/ Exit("error") /\ UNCHANGED <<file, targets, temp>>
  /\ UNCHANGED <<job, loopVars, requests, refused, interrupted>>

\* The rename, and with it the end of SignFile; signFiles takes the next file.
RenameTemp ==
  /\ pc = "rename"
  /\ \/ /\ targets' = [targets EXCEPT ![file] = temp]
        /\ temp' = Absent
        /\ IF MoreFiles
             THEN file' = file + 1 /\ Goto("read") /\ UNCHANGED status
             ELSE Exit("ok") /\ UNCHANGED file
     \/ RemoveTemp /\ UNCHANGED <<file, targets>>
  /\ UNCHANGED <<job, loopVars, requests, refused, interrupted>>

-----------------------------------------------------------------------------
(* The service, the network and the operator                               *)

Settle(f, a) ==
  /\ requests[f][a] = "abroad"
  /\ \E what \in {"signed", "dead"} :
       requests' = [requests EXCEPT ![f][a] = what]
  /\ UNCHANGED <<job, file, pc, status, loopVars, refused, interrupted, diskVars>>

Interrupt ==
  /\ ~interrupted
  /\ pc # "exit"
  /\ interrupted' = TRUE
  /\ UNCHANGED <<job, file, pc, status, loopVars, requests, refused, diskVars>>

Die ==
  /\ pc # "exit"
  /\ Exit("dead")
  /\ UNCHANGED <<job, file, loopVars, requests, refused, interrupted, diskVars>>

-----------------------------------------------------------------------------
ClientSteps ==
  \/ ReadInput \/ Loop \/ Delay \/ Post \/ PostFails \/ HandshakeFails
  \/ AttemptEnds \/ CreateTemp \/ WriteTemp \/ ChmodTemp \/ RenameTemp

Answers == AnswerComplete \/ AnswerCutShort \/ AnswerRefused \/ GatewayFails

Next ==
  \/ ClientSteps \/ Answers
  \/ \E f \in Files, a \in Attempts : Settle(f, a)
  \/ Interrupt \/ Die

Spec == Init /\ [][Next]_vars

-----------------------------------------------------------------------------
(* Safety                                                                  *)

Signed(f) ==
  [content |-> "signed",
   mode |-> IF job.targets[f].content = "old" THEN "plain" ELSE "exec"]

\* "A failure never truncates the target" (client.go:208), nor does a death
\* of the process: at every moment a target is what it was, or the complete
\* signed file with the permissions of the file it replaces (client.go:228).
TargetsAtomic == \A f \in Files : targets[f] \in {job.targets[f], Signed(f)}

\* The exit status is honest: 0 means every file is signed in place, and
\* after an error the file it was about is untouched and so are those behind
\* it, while those before it are signed (signFiles stops at the first error).
ExitIsHonest ==
  /\ status = "ok" => \A f \in 1 .. job.count : targets[f] = Signed(f)
  /\ status = "error" =>
       \A f \in Files : targets[f] = IF f < file THEN Signed(f) ELSE job.targets[f]

\* The token signs a file at most once more than -retries says, however late
\* the service gets to the requests the client has given up on.
SignaturesBounded ==
  \A f \in Files :
    Cardinality({a \in Attempts : requests[f][a] = "signed"}) <=
      1 + (IF job.retries < 0 THEN 0 ELSE job.retries)

\* "Auth and validation failures never retry" (client.go:63): once an attempt
\* has failed in a way retrying cannot mend, no request is sent any more, for
\* this file or another.
NoPostAfterRefusal ==
  [][refused => \A f \in Files, a \in Attempts :
                  requests[f][a] = "unsent" => requests'[f][a] = "unsent"]_vars

\* A process that ends by itself leaves no temporary file, on any error path
\* of writeAtomic (if the removal itself works).
NoTempLeft == status \in {"ok", "error"} => temp = Absent
=============================================================================
