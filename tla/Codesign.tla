------------------------------- MODULE Codesign ------------------------------
(***************************************************************************)
(* The codesign command from its start: run in cmd/codesign/main.go, with  *)
(* New, FetchGitHubToken and Health of client.go.                          *)
(*                                                                         *)
(* The flags are read, a token is fetched if one is needed and GitHub      *)
(* Actions offers one, the client is built, and then the command asks for  *)
(* the service's health or signs its files (SignClient).                   *)
(***************************************************************************)
EXTENDS SignClient

CONSTANT Slashes  \* how many "/" the URL is given to end in

ASSUME SlashesAssumption == Slashes \subseteq Nat

VARIABLES
  stage,   \* where run is; "sign" is signFiles, the rest of SignClient
  flags,   \* the flags and the environment
  client,  \* what the client is built from: URL, token, audience
  result   \* how the command ended before it came to its files

setupVars == <<stage, flags, client, result>>

Schemes == {"none", "https", "http loopback", "http", "malformed"}
URLs == [scheme : Schemes, slashes : Slashes]
NoURL == [scheme |-> "none", slashes |-> 0]

Flags ==
  [mode : {"sign", "health", "version"},
   url : URLs,
   token : BOOLEAN,                      \* -token or its variable is set
   actions : {"off", "half", "on"},      \* ACTIONS_ID_TOKEN_REQUEST_URL, _TOKEN
   pair : {"none", "half", "both"},      \* -cert and -key
   args : {"none", "fit", "misfit"}]     \* misfit: -output and several files

NoFlags == [mode |-> "sign", url |-> NoURL, token |-> FALSE, actions |-> "off",
            pair |-> "none", args |-> "fit"]

NoClient == [url |-> NoURL, token |-> FALSE, audience |-> NoURL]

CommandInit ==
  /\ Init
  /\ stage = "flags"
  /\ flags \in Flags
  /\ client = NoClient
  /\ result = "none"

\* strings.TrimSuffix(url, "/")
Trim(url) == [url EXCEPT !.slashes = IF @ = 0 THEN 0 ELSE @ - 1]

Proceed(step) == stage' = step /\ UNCHANGED result
End(how) == stage' = "ended" /\ result' = how

ParseFlags ==
  /\ stage = "flags"
  /\ flags' = [flags EXCEPT !.url = Trim(@)]
  /\ IF flags.mode = "version" THEN End("ok") ELSE Proceed("token")
  /\ UNCHANGED client

\* buildClient: health needs no token.
NeedsToken == flags.mode = "sign" /\ ~flags.token /\ flags.actions # "off"

\* FetchGitHubToken fails without its second variable, when its context ends,
\* and when GitHub does not answer in time or with no token.
FetchToken ==
  /\ stage = "token"
  /\ \/ /\ ~NeedsToken
        /\ client' = [client EXCEPT !.token = flags.token]
        /\ Proceed("new")
     \/ /\ NeedsToken
        /\ flags.url # NoURL
        /\ flags.actions = "on"
        /\ ~interrupted
        /\ client' = [client EXCEPT !.token = TRUE, !.audience = flags.url]
        /\ Proceed("new")
     \/ /\ NeedsToken
        /\ End("error")
        /\ UNCHANGED client
  /\ UNCHANGED flags

\* secureURL
Secure(url) == url.scheme \in {"https", "http loopback"}

\* buildTLS
PairIsWhole == flags.pair # "half"

\* New: the key pair and the root CA may be unreadable.
New ==
  /\ stage = "new"
  /\ \/ /\ Secure(flags.url)
        /\ PairIsWhole
        /\ client' = [client EXCEPT !.url = Trim(flags.url)]
        /\ Proceed(IF flags.mode = "health" THEN "health" ELSE "args")
     \/ /\ End("error")
        /\ UNCHANGED client
  /\ UNCHANGED flags

\* Health: anything but 200 in time is an error.
Health ==
  /\ stage = "health"
  /\ \/ ~interrupted /\ End("ok")
     \/ End("error")
  /\ UNCHANGED <<flags, client>>

\* signFiles looks at its arguments.  From here on SignClient does not tell
\* one client from another.
CheckArgs ==
  /\ stage = "args"
  /\ IF flags.args = "fit"
       THEN /\ Proceed("sign")
            /\ flags' = NoFlags
            /\ client' = NoClient
       ELSE End("error") /\ UNCHANGED <<flags, client>>

DieInSetup ==
  /\ stage \notin {"sign", "ended"}
  /\ End("dead")
  /\ UNCHANGED <<flags, client>>

-----------------------------------------------------------------------------
SetupSteps == ParseFlags \/ FetchToken \/ New \/ Health \/ CheckArgs

CommandNext ==
  \/ (SetupSteps \/ DieInSetup) /\ UNCHANGED vars
  \/ stage \in {"token", "new", "health", "args"} /\ Interrupt /\ UNCHANGED setupVars
  \/ stage = "sign" /\ Next /\ UNCHANGED setupVars

CommandSpec == CommandInit /\ [][CommandNext]_<<vars, setupVars>>

\* The command runs, and its timeouts fire; nothing is assumed of GitHub, the
\* service and the network, which need not answer.
CommandFairSpec ==
  /\ CommandSpec
  /\ WF_<<vars, setupVars>>(SetupSteps /\ UNCHANGED vars)
  /\ WF_<<vars, setupVars>>(stage = "sign" /\ ClientSteps /\ UNCHANGED setupVars)

-----------------------------------------------------------------------------
(* Safety                                                                  *)

\* "Normalize once so the OIDC audience and the client URL are the same
\* string" (cmd/codesign/main.go:81): the token is asked for the very URL
\* that the requests go to.  New trims a second time, so a URL given with two
\* slashes at its end breaks this.
AudienceIsURL ==
  stage = "args" /\ client.audience # NoURL => client.audience = client.url

-----------------------------------------------------------------------------
(* Liveness, under CommandFairSpec                                         *)

\* The command ends, whatever GitHub and the service do or fail to do and
\* whatever -timeout says ("a negative value cannot hang forever",
\* client.go:105).
CommandEnds == <>(stage = "ended" \/ pc = "exit")
=============================================================================
