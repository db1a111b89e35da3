------------------------------- MODULE Startup -------------------------------
(***************************************************************************)
(* signerd from its command line to the server it builds: run, loadConfig, *)
(* validateConfig and newDaemon in cmd/signerd/main.go, and server.New.    *)
(*                                                                         *)
(* The packages are a library, too: another program may call oidc.New,     *)
(* backends.New... and server.New with what it likes, validated by nobody. *)
(***************************************************************************)
EXTENDS GoInt, FiniteSets

CONSTANTS
  Configs,         \* what the config file and the environment may say together
  Embeddings,      \* the server.Config of other programs
  BytesPerMiB,     \* 1 << 20
  DefaultMaxBody,  \* server.DefaultMaxBody, 100 << 20
  None             \* a variable without a value

ASSUME StartupAssumption ==
  /\ BytesPerMiB \in Nat \ {0}
  /\ DefaultMaxBody \in 1 .. MaxInt

VARIABLES
  stage,     \* how far run is
  launcher,  \* who builds the server
  disk,      \* the config files where signerd looks for one, while it may
  source,    \* the config file it takes
  fakeEnv,   \* SIGNERD_ALLOW_FAKE is 1
  config,    \* Config, until newDaemon has used it
  settings   \* the server.Config of the server, defaults applied

startupVars == <<stage, launcher, disk, source, fakeEnv, config, settings>>

Paths == {"", "file", "bad"}   \* "bad": missing, or not a regular file
Backends == {"osslsigncode", "jsign", "fake"}
Probes == {"default", "listing", "text"}   \* health_command

\* Spellings of one repository, another one, and an empty entry.
Repositories == {"own", "OWN", "other", ""}

BackendType ==
  [kind : Backends, module : Paths, cert : Paths, probe : Probes]

VerifierType ==
  [on : BOOLEAN, audience : {"", "blank", "url"}, repos : SUBSET Repositories]

SettingsType ==
  [maxBody : Int64, loopback : BOOLEAN, backend : BackendType, verifier : VerifierType]

ConfigType ==
  [maxBodyMiB : Int64, loopback : BOOLEAN, kind : Backends \cup {"unknown"},
   module : Paths, cert : Paths, probe : Probes,
   audience : {"", "blank", "url"}, repos : SUBSET Repositories]

ASSUME ConfigsAssumption ==
  Configs \subseteq ConfigType /\ Embeddings \subseteq SettingsType

\* "denied": there is something, but it cannot be read or parsed.  For -config
\* "none" means that the flag is not given.
Disks == [flag : {"none", "readable", "denied"},
          user : {"none", "readable", "denied"},
          system : {"none", "readable", "denied"}]
NoFiles == [flag |-> "none", user |-> "none", system |-> "none"]

StartupTypeOK ==
  /\ stage \in {"find", "load", "validate", "build", "embed", "serving", "refused"}
  /\ launcher \in {"signerd", "embedding"}
  /\ disk \in Disks
  /\ source \in {"flag", "user", "system", "none"}
  /\ fakeEnv \in BOOLEAN
  /\ config = None \/ config \in ConfigType
  /\ settings = None \/ settings \in SettingsType

StartupInit ==
  /\ launcher \in {"signerd", "embedding"}
  /\ stage = IF launcher = "signerd" THEN "find" ELSE "embed"
  /\ disk \in Disks
  /\ fakeEnv \in BOOLEAN
  /\ launcher = "embedding" => ~fakeEnv /\ disk = NoFiles
  /\ source = "none"
  /\ config = None
  /\ settings = None

-----------------------------------------------------------------------------
(* loadConfig                                                              *)

\* Mutant: a candidate that cannot be opened is passed over.
Hit_Readable(candidate) == disk[candidate] = "readable"

\* firstExistingConfig: anything but "does not exist".
Hit(candidate) == disk[candidate] # "none"

FindConfig ==
  /\ stage = "find"
  /\ source' = CASE disk.flag # "none" -> "flag"
                 [] disk.flag = "none" /\ Hit("user") -> "user"
                 [] disk.flag = "none" /\ ~Hit("user") /\ Hit("system") -> "system"
                 [] OTHER -> "none"
  /\ stage' = "load"
  /\ UNCHANGED <<launcher, disk, fakeEnv, config, settings>>

\* The file, the environment on top of it, then the PIN file.
LoadConfig ==
  /\ stage = "load"
  /\ source # "none" => disk[source] = "readable"
  /\ config' \in Configs
  /\ stage' = "validate"
  /\ UNCHANGED <<launcher, disk, source, fakeEnv, settings>>

\* Nothing looks at the files and the Config after this.
Forget == config' = None /\ disk' = NoFiles /\ source' = "none"

Refuse ==
  /\ stage' = "refused"
  /\ Forget
  /\ UNCHANGED <<launcher, fakeEnv, settings>>

\* The file, a variable or the PIN file cannot be read or parsed.
LoadFails == stage = "load" /\ Refuse

-----------------------------------------------------------------------------
(* validateConfig                                                          *)

\* requireFile
RequireFile(path) == path = "file"

\* Mutant: one MiB more than fits.
ValidLimits_OffByOne(c) ==
  /\ 0 <= c.maxBodyMiB /\ c.maxBodyMiB <= MaxInt \div BytesPerMiB + 1
  /\ c.repos # {} => c.audience \notin {"", "blank"}

\* Mutant: the audience is compared with "" as it is written.
ValidLimits_NotTrimmed(c) ==
  /\ 0 <= c.maxBodyMiB /\ c.maxBodyMiB <= MaxInt \div BytesPerMiB
  /\ c.repos # {} => c.audience # ""

ValidLimits(c) ==
  /\ 0 <= c.maxBodyMiB /\ c.maxBodyMiB <= MaxInt \div BytesPerMiB
  /\ c.repos # {} => c.audience \notin {"", "blank"}

ValidOSSL(c) ==
  c.kind = "osslsigncode" /\ RequireFile(c.module) /\ RequireFile(c.cert)

\* Mutant: jsign without a probe.
ValidJsign_NoProbe(c) ==
  c.kind = "jsign" /\ RequireFile(c.cert) /\ (c.module # "" => RequireFile(c.module))

ValidJsign(c) ==
  /\ c.kind = "jsign" /\ RequireFile(c.cert)
  /\ c.module = "" => c.probe # "default"
  /\ c.module # "" => RequireFile(c.module)

ValidFake(c) == c.kind = "fake" /\ fakeEnv

Valid(c) == ValidLimits(c) /\ (ValidOSSL(c) \/ ValidJsign(c) \/ ValidFake(c))

Validate ==
  /\ stage = "validate" /\ Valid(config)
  /\ stage' = "build"
  /\ UNCHANGED <<launcher, disk, source, fakeEnv, config, settings>>

ValidateFails == stage = "validate" /\ ~Valid(config) /\ Refuse

-----------------------------------------------------------------------------
(* newDaemon and server.New                                                *)

New(s) == [s EXCEPT !.maxBody = IF @ = 0 THEN DefaultMaxBody ELSE @]

BuildSigner(c) ==
  [kind |-> c.kind, module |-> c.module, cert |-> c.cert, probe |-> c.probe]

ServerConfig(c) ==
  [maxBody  |-> Wrap(c.maxBodyMiB * BytesPerMiB),
   loopback |-> c.loopback,
   verifier |-> [on |-> c.repos # {}, audience |-> c.audience, repos |-> c.repos],
   backend  |-> BuildSigner(c)]

NewDaemon ==
  /\ stage = "build"
  /\ config.kind = "fake" => fakeEnv
  /\ settings' = New(ServerConfig(config))
  /\ Forget
  /\ stage' = "serving"
  /\ UNCHANGED <<launcher, fakeEnv>>

Embed ==
  /\ stage = "embed"
  /\ \E s \in Embeddings : settings' = New(s)
  /\ stage' = "serving"
  /\ UNCHANGED <<launcher, disk, source, fakeEnv, config>>

StartupNext ==
  \/ FindConfig \/ LoadConfig \/ LoadFails \/ Validate \/ ValidateFails
  \/ NewDaemon \/ Embed

-----------------------------------------------------------------------------
(* Properties                                                              *)

\* signerd takes no configuration past a config file: neither the system's
\* file nor the environment alone while a file that comes first is there,
\* readable or not (main.go:259), and -config is never replaced by another.
NoConfigPassedOver ==
  stage \in {"validate", "build"} =>
    /\ disk.flag # "none" => source = "flag"
    /\ source = "none" => disk.user = "none" /\ disk.system = "none"
    /\ source = "system" => disk.user = "none"
    /\ source # "none" => disk[source] = "readable"

\* The byte limit of a server that signerd starts is what the operator wrote,
\* a positive number that did not wrap ("would otherwise become a broken byte
\* limit that rejects every upload", main.go:326).
LimitAsConfigured ==
  [][stage = "build" /\ stage' = "serving" =>
       /\ settings'.maxBody > 0
       /\ settings'.maxBody = IF config.maxBodyMiB = 0 THEN DefaultMaxBody
                              ELSE config.maxBodyMiB * BytesPerMiB]_startupVars
=============================================================================
