---------------------------- MODULE CodesignProofs ---------------------------
(***************************************************************************)
(* The command as a whole: what SignClientProofs proves of signFiles holds *)
(* for a run of the command, from its flags on.                            *)
(***************************************************************************)
EXTENDS Codesign, SignClientProofs

\* Every step of the command is a step of SignClient or leaves its files,
\* requests and status alone, so the theorems about SignClient are theorems
\* about the command (run, cmd/codesign/main.go:89).
THEOREM CommandImplementsClient == CommandSpec => Spec
<1>1. [CommandNext]_<<vars, setupVars>> => [Next]_vars
  BY DEF CommandNext, Next
<1> QED
  BY <1>1, PTL DEF CommandSpec, CommandInit, Spec

\* For a command run from its flags on: whole targets, an honest status, no
\* more signatures than -retries allows and no temporary file left (run,
\* cmd/codesign/main.go:89).
THEOREM CommandIsSound ==
  CommandSpec => [](TargetsAtomic /\ ExitIsHonest /\ SignaturesBounded /\ NoTempLeft)
BY CommandImplementsClient, TargetsAreAtomic, ExitsAreHonest, SignaturesAreBounded,
   NoTempIsLeft, PTL

\* For a command run from its flags on: after a refusal it posts nothing more,
\* and what it calls signed was signed for that file (client.go:63; SignFile, client.go:209).
THEOREM CommandPostsAndSigns ==
  CommandSpec => /\ NoPostAfterRefusal
                 /\ [](\A f \in Files : targets[f].content = "signed" => SomeSigned(f))
BY CommandImplementsClient, RefusalsAreFinal, SignedByToken, PTL

-----------------------------------------------------------------------------
(* The audience                                                            *)

AnyURL == [scheme : Schemes, slashes : Nat]
AnyClient == [url : AnyURL, token : BOOLEAN, audience : AnyURL]
AnyFlags == [mode : {"sign", "health", "version"}, url : AnyURL,
             token : BOOLEAN, actions : {"off", "half", "on"},
             pair : {"none", "half", "both"}, args : {"none", "fit", "misfit"}]

\* Once the flags are parsed they stay as they are until the files come: the
\* audience is the URL trimmed once, the client's URL that URL trimmed again.
AudienceInv ==
  /\ flags \in AnyFlags /\ client \in AnyClient
  /\ stage = "flags" => client.audience = NoURL
  /\ stage \in {"token", "new", "args"} => client.audience \in {NoURL, flags.url}
  /\ stage = "args" => client.url = Trim(flags.url)

\* At most one slash tells the URL of the requests from the token's audience.
SameUpToASlash ==
  stage = "args" /\ client.audience # NoURL =>
    /\ client.url = Trim(client.audience)
    /\ client.audience.slashes = 0 => client.audience = client.url

LEMMA TrimType ==
  ASSUME NEW url \in AnyURL
  PROVE  /\ Trim(url) \in AnyURL
         /\ url.slashes = 0 => Trim(url) = url
BY DEF Trim, AnyURL

LEMMA AudienceStep ==
  ASSUME AudienceInv, [CommandNext]_<<vars, setupVars>>
  PROVE  AudienceInv'
<1> USE DEF AudienceInv, Proceed, End
<1>1. NoURL \in AnyURL /\ NoFlags \in AnyFlags /\ NoClient \in AnyClient
  BY DEF NoURL, NoFlags, NoClient, AnyURL, Schemes, AnyFlags, AnyClient
<1>2. flags.url \in AnyURL /\ flags.token \in BOOLEAN
  BY DEF AnyFlags
<1>3. Trim(flags.url) \in AnyURL
  BY <1>2, TrimType
<1>4. CASE ParseFlags
  <2>1. flags' \in AnyFlags
    BY <1>3, <1>4 DEF ParseFlags, AnyFlags
  <2> QED
    BY <1>4, <2>1 DEF ParseFlags
<1>5. CASE FetchToken
  <2>1. client' \in AnyClient /\ client'.audience \in {client.audience, flags.url}
    BY <1>2, <1>5 DEF FetchToken, AnyClient
  <2> QED
    BY <1>5, <2>1 DEF FetchToken
<1>6. CASE New
  <2>1. CASE client' = [client EXCEPT !.url = Trim(flags.url)]
    <3>1. /\ client' \in AnyClient /\ client'.audience = client.audience
          /\ client'.url = Trim(flags.url)
      BY <1>3, <2>1 DEF AnyClient
    <3> QED
      BY <1>6, <3>1 DEF New
  <2>2. CASE End("error") /\ UNCHANGED client
    BY <1>6, <2>2 DEF New, AnyClient
  <2> QED
    BY <1>6, <2>1, <2>2 DEF New
<1>7. CASE Health
  BY <1>7 DEF Health
<1>8. CASE CheckArgs
  BY <1>1, <1>8 DEF CheckArgs
<1>9. CASE DieInSetup
  BY <1>9 DEF DieInSetup
<1>10. CASE UNCHANGED setupVars
  BY <1>10 DEF setupVars
<1> QED
  BY <1>4, <1>5, <1>6, <1>7, <1>8, <1>9, <1>10 DEF CommandNext, SetupSteps

\* Whatever URL the command is given, its token is asked for the URL that the
\* requests go to, or for that URL and one slash; the latter only if a slash
\* is left when the flags are normalized (cmd/codesign/main.go:84; New,
\* client.go:93).
THEOREM AudienceUpToASlash == CommandSpec => []SameUpToASlash
<1>1. CommandInit => AudienceInv
  <2> SUFFICES ASSUME CommandInit PROVE AudienceInv
    OBVIOUS
  <2>1. flags \in AnyFlags
    BY SlashesAssumption DEF CommandInit, Flags, URLs, AnyFlags, AnyURL
  <2> QED
    BY <2>1 DEF CommandInit, AudienceInv, NoClient, NoURL, AnyClient, AnyURL, Schemes
<1>2. AudienceInv /\ [CommandNext]_<<vars, setupVars>> => AudienceInv'
  BY AudienceStep
<1>3. AudienceInv => SameUpToASlash
  BY TrimType DEF AudienceInv, SameUpToASlash, AnyFlags
<1> QED
  BY <1>1, <1>2, <1>3, PTL DEF CommandSpec

=============================================================================
