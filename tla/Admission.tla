------------------------------ MODULE Admission ------------------------------
(***************************************************************************)
(* Who and what a running server lets through to its backend, and what it  *)
(* says to the rest: authenticate, signUpload up to the backend's call,    *)
(* replySignError (server/server.go), Verifier.Verify (oidc/oidc.go), and  *)
(* the backends' own refusals and health probes (backends/).               *)
(*                                                                         *)
(* One request at a time: Signerd has the interleavings and leaves these   *)
(* decisions open; this module makes them from the configuration, the      *)
(* token, the bytes and the headers.                                       *)
(***************************************************************************)
EXTENDS Startup, UploadKind

CONSTANTS
  Tokens,   \* the tokens in circulation
  Uploads   \* the uploads, bodies and headers, of the clients

TokenTypes ==
  [proof : {"genuine", "forged", "no kid", "unknown kid", "other alg"},
   issuer : BOOLEAN,          \* iss is the issuer of the verifier
   audience : {"url", "other"},
   expiry : {"ahead", "past", "none"},
   repository : Repositories]

IsUpload(u) ==
  /\ IsFile(u.file)
  /\ u.ext \in Extensions
  /\ u.metadata \in {"none", "blank", "plain", "unfit"}

ASSUME AdmissionAssumption ==
  /\ Tokens \subseteq TokenTypes
  /\ \A u \in Uploads : IsUpload(u)

VARIABLES
  step,     \* how far the handler is
  caller,   \* the peer and its Authorization header
  upload,   \* the body and the headers
  input,    \* the extension of the file the backend is given
  world,    \* the tool and the token as a health probe finds them
  reply     \* the status sent

requestVars == <<step, caller, upload, input, world, reply>>
vars == <<startupVars, requestVars>>

\* "none": no header, another scheme, or a blank token.
Callers ==
  [peer : {"loopback", "remote"}, bearer : {"none"}] \cup
  [peer : {"loopback", "remote"}, bearer : {"token"}, token : Tokens]

\* The tool starts or not; the token holds a certificate or is away; and what
\* the probe command prints.
Worlds ==
  [tool : BOOLEAN, token : BOOLEAN, output : {"fails", "blank", "text", "certs"}]

TypeOK ==
  /\ StartupTypeOK
  /\ step \in {"idle", "auth", "upload", "check", "backend", "health", "done"}
  /\ caller = None \/ caller \in Callers
  /\ upload = None \/ IsUpload(upload)
  /\ input \in SafeExtensions \cup {""}
  /\ world = None \/ world \in Worlds
  /\ reply \in {"none", "200", "400", "401", "413", "415", "500", "503"}

Init ==
  /\ StartupInit
  /\ step = "idle"
  /\ caller = None
  /\ upload = None
  /\ input = ""
  /\ world = None
  /\ reply = "none"

-----------------------------------------------------------------------------
(* Verifier.Verify                                                         *)

\* strings.EqualFold
Fold(name) == IF name = "OWN" THEN "own" ELSE name

\* jwt.ParseWithClaims, with the key the verifier finds for the kid.  An empty
\* expected audience would not be compared at all.
Parses(t, v) ==
  /\ t.proof = "genuine"
  /\ t.issuer
  /\ t.expiry = "ahead"
  /\ v.audience # "" => t.audience = v.audience

\* Mutant: the library is trusted to refuse for an empty audience.
Verify_NoAudienceCheck(t, v) ==
  /\ v.repos # {}
  /\ Parses(t, v)
  /\ t.repository # ""
  /\ \E r \in v.repos : Fold(r) = Fold(t.repository)

Verify(t, v) ==
  /\ v.repos # {}
  /\ v.audience # ""
  /\ Parses(t, v)
  /\ t.repository # ""
  /\ \E r \in v.repos : Fold(r) = Fold(t.repository)

-----------------------------------------------------------------------------
(* handleSign                                                              *)

IsLoopback == caller.peer = "loopback"

Authenticate ==
  \/ settings.loopback /\ IsLoopback
  \/ /\ caller.bearer = "token"
     /\ settings.verifier.on
     /\ Verify(caller.token, settings.verifier)

Arrive ==
  /\ stage = "serving" /\ step = "idle"
  /\ caller' \in Callers
  /\ step' = "auth"
  /\ UNCHANGED <<startupVars, upload, input, world, reply>>

Answer(status) == reply' = status /\ step' = "done"

Admit ==
  /\ step = "auth"
  /\ \/ Authenticate /\ step' = "upload" /\ UNCHANGED reply
     \/ ~Authenticate /\ Answer("401")
  /\ UNCHANGED <<startupVars, caller, upload, input, world>>

\* The caller is not looked at again.
Receive ==
  /\ step = "upload"
  /\ upload' \in Uploads
  /\ caller' = None
  /\ step' = "check"
  /\ UNCHANGED <<startupVars, input, world, reply>>

\* http.MaxBytesReader takes a negative limit for zero.
Limit == IF settings.maxBody < 0 THEN 0 ELSE settings.maxBody

TooLarge(u) == u.file.size > Limit

\* sanitizeMetadata: too long, or with a control character.
BadMetadata(u) == u.metadata = "unfit"

\* replySignError
Judgement(u) ==
  CASE TooLarge(u)                                                -> "413"
    [] ~TooLarge(u) /\ Kind(u.file) = "none"                      -> "415"
    [] ~TooLarge(u) /\ Kind(u.file) # "none" /\ BadMetadata(u)    -> "400"
    [] OTHER                                                      -> "none"

CheckUpload ==
  /\ step = "check"
  /\ LET status == Judgement(upload) IN
       IF status = "none"
         THEN /\ input' = SafeExtension(upload.ext, Kind(upload.file))
              /\ step' = "backend"
              /\ UNCHANGED reply
         ELSE Answer(status) /\ UNCHANGED input
  /\ UNCHANGED <<startupVars, caller, upload, world>>

\* The disk, or the connection, fails before there is a judgement.
CheckFails ==
  /\ step = "check"
  /\ Answer("500")
  /\ UNCHANGED <<startupVars, caller, upload, input, world>>

\* OSSLSigncode.Sign and Jsign.Sign refuse when a path is not configured.
MaySign(b) ==
  /\ b.kind = "osslsigncode" => b.module # "" /\ b.cert # ""
  /\ b.kind = "jsign" => b.cert # ""

Sign ==
  /\ step = "backend"
  /\ \/ MaySign(settings.backend) /\ Answer("200")
     \/ Answer("500")
  /\ UNCHANGED <<startupVars, caller, upload, input, world>>

-----------------------------------------------------------------------------
(* handleHealth                                                            *)

\* What the probe command prints: a listing (pkcs11-tool --list-objects --type
\* cert) says whether there is a certificate, another command anything.
Probe(b) ==
  IF b.probe # "default" THEN b.probe
  ELSE IF b.module # "" THEN "listing" ELSE "none"

PrintedBy(command, w) ==
  command = "listing" => (w.output = "certs" => w.token) /\ (w.token => w.output # "text")

\* Mutant: whatever the probe prints is a sign of life.
Healthy_AnyOutput(b, w) ==
  \/ b.kind = "fake"
  \/ w.tool /\ Probe(b) # "none" /\ w.output \notin {"fails", "blank"}

\* Health of both backends, runHealth; the fake backend is always healthy.
Healthy(b, w) ==
  \/ b.kind = "fake"
  \/ /\ w.tool
     /\ Probe(b) # "none"
     /\ w.output \notin {"fails", "blank"}
     /\ Probe(b) = "listing" => w.output = "certs"

AskHealth ==
  /\ stage = "serving" /\ step = "idle"
  /\ world' \in {w \in Worlds : PrintedBy(Probe(settings.backend), w)}
  /\ step' = "health"
  /\ UNCHANGED <<startupVars, caller, upload, input, reply>>

Health ==
  /\ step = "health"
  /\ Answer(IF Healthy(settings.backend, world) THEN "200" ELSE "503")
  /\ UNCHANGED <<startupVars, caller, upload, input, world>>

\* The handler returns.
Finish ==
  /\ step = "done"
  /\ step' = "idle"
  /\ caller' = None /\ upload' = None /\ input' = ""
  /\ world' = None /\ reply' = "none"
  /\ UNCHANGED startupVars

-----------------------------------------------------------------------------
Next ==
  \/ StartupNext /\ UNCHANGED requestVars
  \/ Arrive \/ Admit \/ Receive \/ CheckUpload \/ CheckFails \/ Sign
  \/ AskHealth \/ Health \/ Finish

Spec == Init /\ [][Next]_vars

-----------------------------------------------------------------------------
(* Properties                                                              *)

\* What the operator means by the [github] section: an unexpired token of the
\* issuer, minted for this server and for a repository of the list.
Trusts(v, t) ==
  /\ t.proof = "genuine" /\ t.issuer /\ t.expiry = "ahead"
  /\ v.audience # "" /\ t.audience = v.audience
  /\ t.repository # "" /\ \E r \in v.repos : Fold(r) = Fold(t.repository)

\* Exactly the callers the configuration means are let in, whoever built the
\* server: an empty allowlist, an empty entry in it or an empty audience
\* admits nobody (authenticate, server.go:354; Verify, oidc.go:128).
AdmitsTheTrusted ==
  /\ step = "upload" =>
       \/ settings.loopback /\ caller.peer = "loopback"
       \/ caller.bearer = "token" /\ Trusts(settings.verifier, caller.token)
  /\ reply = "401" =>
       /\ ~(settings.loopback /\ caller.peer = "loopback")
       /\ ~(/\ caller.bearer = "token" /\ settings.verifier.on
            /\ Trusts(settings.verifier, caller.token))

\* Every entry of the allowlist but an empty one is of use: some token for
\* that repository passes.
EntriesAdmit(v) ==
  \A r \in v.repos \ {""} :
    \E t \in TokenTypes : t.repository = r /\ Verify(t, v)

\* What validateConfig lets through is not refused by a package that decides
\* long after it: for each repository that the allowlist names some token
\* passes Verify, the backend does not refuse to sign, and its health has a
\* probe to run ("Fail here so the operator sees the misconfiguration at
\* start", main.go:332).  An empty entry names no repository; a list of
\* nothing else is a list for validateConfig and admits nobody.
StartedIsUsable ==
  stage = "serving" /\ launcher = "signerd" =>
    /\ settings.verifier.on => EntriesAdmit(settings.verifier)
    /\ settings.backend.kind # "fake" =>
         MaySign(settings.backend) /\ Probe(settings.backend) # "none"
    /\ settings.backend.kind = "fake" => fakeEnv

\* A refusal names a fault the upload has: no valid PE image and no valid
\* installer is ever called unsignable ("a valid installer is never rejected
\* here", server.go:610), too large, or badly labelled without being so.
RefusedForCause ==
  /\ reply = "413" => upload.file.size > settings.maxBody
  /\ reply = "415" => ~ValidPE(upload.file) /\ ~ValidInstaller(upload.file)
  /\ reply = "400" => upload.metadata = "unfit"

\* What the backend is given fits the limit, is no DOS stub and no Office
\* document, and has a name its tool parses as the format the bytes have: a
\* valid PE image never as an installer or the other way round
\* (safeExtension, server.go:714).
InputFits ==
  step = "backend" =>
    /\ upload.file.size <= settings.maxBody
    /\ ~OfficeDocument(upload.file)
    /\ upload.file.magic = "MZ" => ValidPE(upload.file) /\ input \in PEExtensions
    /\ upload.file.magic = "OLE" => input = ".msi"
    /\ upload.file.magic # "other"

\* With a probe that lists certificates a healthy server has a tool that
\* starts and a token with a certificate: a heading, or nothing, printed
\* while the token is away is no health (runHealth, backends.go:150).
HealthMeansToken ==
  step = "done" /\ world # None /\ reply = "200"
    /\ settings.backend.kind # "fake" /\ settings.backend.probe # "text" =>
       world.tool /\ world.token
=============================================================================
