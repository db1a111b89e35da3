---------------------------- MODULE AdmissionProofs ---------------------------
(***************************************************************************)
(* For every configuration, token, upload and width of the constants:      *)
(* signerd's start gives a usable server, and a server lets through and    *)
(* refuses what it should.  The start and the handler have an invariant    *)
(* each; the handler's needs that its settings no longer change.           *)
(***************************************************************************)
EXTENDS Admission, TLAPS

-----------------------------------------------------------------------------
(* The upload: for files of any size and headers with any content, under   *)
(* the widths of the code (WidthAssumption).                                *)

\* The arithmetic of server.go:643 stays within int64.
LEMMA SectorsFit ==
  ASSUME NEW n \in 0 .. FreeSector, NEW s \in Shifts
  PROVE  n * SectorSize[s] \in Nat /\ n * SectorSize[s] + DirEntryLen <= MaxInt
<1> DEFINE size == SectorSize[s]
<1>1. /\ size \in Nat /\ FreeSector \in Nat /\ DirEntryLen \in Nat /\ MaxInt \in Nat
      /\ FreeSector * size + DirEntryLen <= MaxInt
  BY LayoutAssumption, WidthAssumption, MaxIntAssumption
<1> HIDE DEF size
<1>2. PICK k \in Nat : FreeSector = n + k
  BY <1>1
<1>3. FreeSector * size = n * size + k * size /\ k * size \in Nat /\ n * size \in Nat
  BY <1>1, <1>2
<1> QED
  BY <1>1, <1>3 DEF size

\* The offset of the root entry, and its end, are computed without a wrap, for
\* every header an upload may have (compoundRootCLSID, server.go:643).
THEOREM OffsetsExact ==
  ASSUME NEW f, IsFile(f), f.shift \in Shifts, f.firstDir # FreeSector
  PROVE  /\ DirOffset(f) = (f.firstDir + 1) * SectorSize[f.shift]
         /\ DirOffset(f) \in Nat
         /\ Wrap(DirOffset(f) + DirEntryLen) = DirOffset(f) + DirEntryLen
<1>1. f.firstDir + 1 \in 0 .. FreeSector
  BY LayoutAssumption DEF IsFile
<1> DEFINE at == (f.firstDir + 1) * SectorSize[f.shift]
<1>2. at \in Nat /\ at + DirEntryLen <= MaxInt
  BY <1>1, SectorsFit
<1> HIDE DEF at
<1>3. Wrap(at) = at /\ Wrap(at + DirEntryLen) = at + DirEntryLen
  BY <1>2, LayoutAssumption, MaxIntAssumption DEF Wrap, Int64
<1>4. DirOffset(f) = at
  BY <1>3 DEF DirOffset, at
<1> QED
  BY <1>2, <1>3, <1>4 DEF at

\* The root entry of a compound file is found where the format puts it.
LEMMA RootFound ==
  ASSUME NEW f, IsFile(f), ValidCompound(f)
  PROVE  HasRoot(f) /\ RootClass(f) = f.class
<1> DEFINE size == SectorSize[f.shift]
<1>1. /\ f.shift \in Shifts /\ f.firstDir # FreeSector
      /\ size \in Nat /\ f.firstDir \in Nat /\ FreeSector \in Nat
  BY LayoutAssumption DEF ValidCompound, IsFile
<1>2. /\ DirOffset(f) = (f.firstDir + 1) * size
      /\ DirOffset(f) \in Nat
      /\ Wrap(DirOffset(f) + DirEntryLen) = DirOffset(f) + DirEntryLen
  BY <1>1, OffsetsExact
<1>3. f.rootAt = size + f.firstDir * size
  BY DEF ValidCompound
<1> HIDE DEF size
<1>4. (f.firstDir + 1) * size = size + f.firstDir * size
  BY <1>1
<1>5. DirOffset(f) = f.rootAt
  BY <1>2, <1>3, <1>4
<1>6. f.size >= HeaderLen /\ DirOffset(f) + DirEntryLen <= f.size
  BY <1>5 DEF ValidCompound
<1>7. HasRoot(f)
  BY <1>1, <1>2, <1>6 DEF HasRoot, CanRead
<1> QED
  BY <1>5, <1>7 DEF RootClass

\* Every PE image is taken for one and nothing else is; every installer is
\* taken for one, and no Office document is (detectKind, server.go:557).
THEOREM KindRight ==
  ASSUME NEW f, IsFile(f)
  PROVE  /\ Kind(f) = ".exe" <=> ValidPE(f)
         /\ ValidInstaller(f) => Kind(f) = ".msi"
         /\ OfficeDocument(f) => Kind(f) = "none"
         /\ Kind(f) = ".msi" => f.magic = "OLE"
<1>1. IsPE(f) <=> ValidPE(f)
  BY LayoutAssumption DEF IsPE, ValidPE, CanRead, IsFile
<1>2. ASSUME ValidCompound(f)
      PROVE  ~IsPE(f) /\ (IsMSI(f) <=> f.class \in Installers)
  BY <1>2, RootFound DEF IsPE, IsMSI, ValidCompound
<1>3. IsMSI(f) => f.magic = "OLE"
  BY DEF IsMSI
<1>4. Kind(f) = ".exe" <=> ValidPE(f)
  BY <1>1 DEF Kind
<1>5. Kind(f) = ".msi" => f.magic = "OLE"
  BY <1>3 DEF Kind
<1>6. ValidInstaller(f) => Kind(f) = ".msi"
  BY <1>2 DEF ValidInstaller, Kind
<1>7. OfficeDocument(f) => Kind(f) = "none"
  BY <1>2 DEF OfficeDocument, Kind
<1> QED
  BY <1>4, <1>5, <1>6, <1>7

\* Whatever name the client sends, the input gets an extension of the format
\* its bytes have (safeExtension, server.go:714).
THEOREM ExtensionFits ==
  ASSUME NEW ext, NEW kind \in {".exe", ".msi"}
  PROVE  /\ SafeExtension(ext, kind) \in SafeExtensions
         /\ kind = ".exe" => SafeExtension(ext, kind) \in PEExtensions
         /\ kind = ".msi" => SafeExtension(ext, kind) = ".msi"
  BY DEF SafeExtension, CompatibleExt, SafeExtensions, PEExtensions

-----------------------------------------------------------------------------
(* The steps                                                               *)

HandlerNext ==
  \/ Arrive \/ Admit \/ Receive \/ CheckUpload \/ CheckFails \/ Sign
  \/ AskHealth \/ Health \/ Finish

LEMMA NextCases == Next <=> (StartupNext /\ UNCHANGED requestVars) \/ HandlerNext
  BY DEF Next, HandlerNext

LEMMA HandlerKeepsStart == HandlerNext => UNCHANGED startupVars
  BY DEF HandlerNext, Arrive, Admit, Receive, CheckUpload, CheckFails, Sign,
         AskHealth, Health, Finish

-----------------------------------------------------------------------------
(* The start                                                               *)

Started ==
  /\ stage \in {"find", "load", "validate", "build", "embed", "serving", "refused"}
  /\ launcher \in {"signerd", "embedding"}
  /\ disk \in Disks
  /\ stage \in {"find", "load", "validate", "build"} => launcher = "signerd"
  /\ stage = "embed" => launcher = "embedding"
  /\ config = None \/ config \in ConfigType
  /\ stage \in {"validate", "build"} => config \in ConfigType
  /\ stage = "build" => Valid(config)
  /\ settings = None \/ settings \in SettingsType
  /\ stage = "serving" => settings \in SettingsType
  /\ StartedIsUsable

\* The file newDaemon's configuration comes from is the first that is there.
FirstHit ==
  /\ source \in {"flag", "user", "system", "none"}
  /\ disk.flag # "none" => source = "flag"
  /\ source = "none" => disk.user = "none" /\ disk.system = "none"
  /\ source = "system" => disk.user = "none"

Sourced == (stage = "load" => FirstHit) /\ NoConfigPassedOver

LEMMA QuotientFits ==
  ASSUME NEW n \in Nat, NEW d \in Nat \ {0}, NEW m \in Nat, m <= n \div d
  PROVE  m * d <= n
  BY SMTT(20)

\* A configuration that validateLimits accepts has a byte limit that fits.
LEMMA LimitFits ==
  ASSUME NEW c \in ConfigType, ValidLimits(c)
  PROVE  /\ c.maxBodyMiB * BytesPerMiB \in 0 .. MaxInt
         /\ Wrap(c.maxBodyMiB * BytesPerMiB) = c.maxBodyMiB * BytesPerMiB
         /\ c.maxBodyMiB # 0 => c.maxBodyMiB * BytesPerMiB > 0
<1> DEFINE mib == c.maxBodyMiB
<1>1. /\ MaxInt \in Nat /\ BytesPerMiB \in Nat \ {0}
      /\ mib \in Nat /\ mib <= MaxInt \div BytesPerMiB
  <2>1. mib \in Int64
    BY DEF ConfigType
  <2>2. 0 <= mib /\ mib <= MaxInt \div BytesPerMiB
    BY DEF ValidLimits
  <2> HIDE DEF mib
  <2> QED
    BY <2>1, <2>2, MaxIntAssumption, StartupAssumption DEF Int64
<1> HIDE DEF mib
<1>2. mib * BytesPerMiB <= MaxInt
  BY <1>1, QuotientFits
<1>3. mib * BytesPerMiB \in 0 .. MaxInt /\ (mib # 0 => mib * BytesPerMiB > 0)
  BY <1>1, <1>2
<1>4. Wrap(mib * BytesPerMiB) = mib * BytesPerMiB
  BY <1>1, <1>3 DEF Wrap, Int64
<1> QED
  BY <1>3, <1>4 DEF mib

\* A verifier with an audience has a token for each repository of its list.
LEMMA AdmitsItsEntries ==
  ASSUME NEW v \in VerifierType, v.audience = "url"
  PROVE  EntriesAdmit(v)
<1> SUFFICES ASSUME NEW r \in v.repos \ {""}
             PROVE  \E t \in TokenTypes : t.repository = r /\ Verify(t, v)
  BY DEF EntriesAdmit
<1> DEFINE t == [proof |-> "genuine", issuer |-> TRUE, audience |-> "url",
                 expiry |-> "ahead", repository |-> r]
<1>1. t \in TokenTypes
  BY DEF TokenTypes, VerifierType
<1>2. Verify(t, v)
  BY DEF Verify, Parses
<1> QED
  BY <1>1, <1>2

\* What newDaemon builds from a valid configuration.
LEMMA BuiltSettings ==
  ASSUME NEW c \in ConfigType, Valid(c)
  PROVE  LET s == New(ServerConfig(c)) IN
           /\ s \in SettingsType
           /\ s.maxBody > 0
           /\ s.maxBody = IF c.maxBodyMiB = 0 THEN DefaultMaxBody
                          ELSE c.maxBodyMiB * BytesPerMiB
           /\ s.verifier.on => EntriesAdmit(s.verifier)
           /\ s.backend.kind = c.kind
           /\ s.backend.kind # "fake" =>
                MaySign(s.backend) /\ Probe(s.backend) # "none"
<1> DEFINE r == ServerConfig(c)
           s == New(r)
           bytes == c.maxBodyMiB * BytesPerMiB
<1>1. /\ bytes \in 0 .. MaxInt /\ Wrap(bytes) = bytes
      /\ c.maxBodyMiB # 0 => bytes > 0
  BY LimitFits DEF Valid
<1>2. c.maxBodyMiB = 0 => bytes = 0
  BY StartupAssumption
<1>3. r.maxBody = bytes /\ r.loopback = c.loopback
  BY <1>1 DEF ServerConfig
<1>4. c.kind \in Backends
  BY DEF Valid, ValidOSSL, ValidJsign, ValidFake, Backends
<1>5. r \in SettingsType
  <2>1. r.maxBody \in Int64
    BY <1>1, <1>3, MaxIntAssumption DEF Int64
  <2>2. /\ c.loopback \in BOOLEAN /\ c.module \in Paths /\ c.cert \in Paths
        /\ c.probe \in Probes /\ c.audience \in {"", "blank", "url"}
        /\ c.repos \in SUBSET Repositories
    BY DEF ConfigType
  <2>3. r.backend \in BackendType
    BY <1>4, <2>2 DEF ServerConfig, BuildSigner, BackendType
  <2>4. r.verifier \in VerifierType
    BY <2>2 DEF ServerConfig, VerifierType
  <2> QED
    BY <2>1, <2>2, <2>3, <2>4 DEF ServerConfig, SettingsType
<1>6. /\ s \in SettingsType
      /\ s.maxBody = IF r.maxBody = 0 THEN DefaultMaxBody ELSE r.maxBody
      /\ s.verifier = r.verifier /\ s.backend = r.backend
  BY <1>5, StartupAssumption, MaxIntAssumption DEF New, SettingsType, Int64
<1>7. s.maxBody = (IF c.maxBodyMiB = 0 THEN DefaultMaxBody ELSE bytes) /\ s.maxBody > 0
  BY <1>1, <1>2, <1>3, <1>6, StartupAssumption, MaxIntAssumption
<1>8. r.verifier.on => EntriesAdmit(r.verifier)
  <2>1. ASSUME r.verifier.on PROVE r.verifier.audience = "url" /\ c.repos # {}
    BY <2>1 DEF ServerConfig, Valid, ValidLimits, ConfigType
  <2> QED
    BY <1>5, <2>1, AdmitsItsEntries DEF SettingsType
<1>9. /\ r.backend.kind = c.kind
      /\ r.backend.kind # "fake" => MaySign(r.backend) /\ Probe(r.backend) # "none"
  BY DEF ServerConfig, BuildSigner, RequireFile, Valid, ValidOSSL, ValidJsign, ValidFake,
         MaySign, Probe, ConfigType, Probes
<1> QED
  BY <1>6, <1>7, <1>8, <1>9

LEMMA StartedStep == Started /\ [Next]_vars => Started'
<1> SUFFICES ASSUME Started, [Next]_vars PROVE Started'
  OBVIOUS
<1>1. CASE UNCHANGED startupVars
  BY <1>1 DEF Started, startupVars, StartedIsUsable, Valid, ValidFake, MaySign, Probe,
              ValidOSSL, ValidJsign, RequireFile, ValidLimits
<1>2. CASE FindConfig
  BY <1>2 DEF FindConfig, Started, StartedIsUsable
<1>3. CASE LoadConfig
  BY <1>3, ConfigsAssumption DEF LoadConfig, Started, StartedIsUsable
<1>4. CASE LoadFails \/ ValidateFails
  <2>1. /\ stage' = "refused" /\ config' = None
        /\ launcher' = launcher /\ settings' = settings
    BY <1>4 DEF LoadFails, ValidateFails, Refuse, Forget
  <2>2. disk' \in Disks
    BY <1>4 DEF LoadFails, ValidateFails, Refuse, Forget, Disks, NoFiles
  <2> QED
    BY <2>1, <2>2 DEF Started, StartedIsUsable
<1>5. CASE Validate
  <2>1. Valid(config)'
    BY <1>5 DEF Validate, Valid, ValidLimits, ValidOSSL, ValidJsign, RequireFile, ValidFake
  <2> QED
    BY <1>5, <2>1 DEF Validate, Started, StartedIsUsable
<1>6. CASE NewDaemon
  <2>1. config \in ConfigType /\ Valid(config) /\ launcher = "signerd"
    BY <1>6 DEF NewDaemon, Started
  <2>2. /\ settings' \in SettingsType
        /\ settings'.verifier.on => EntriesAdmit(settings'.verifier)
        /\ settings'.backend.kind = config.kind
        /\ settings'.backend.kind # "fake" =>
             MaySign(settings'.backend) /\ Probe(settings'.backend) # "none"
    BY <1>6, <2>1, BuiltSettings DEF NewDaemon
  <2>3. settings'.backend.kind = "fake" => fakeEnv'
    BY <1>6, <2>2 DEF NewDaemon
  <2> QED
    BY <1>6, <2>2, <2>3 DEF NewDaemon, Forget, Started, StartedIsUsable, Disks, NoFiles,
                            MaySign, Probe
<1>7. CASE Embed
  <2>1. PICK s \in Embeddings : settings' = New(s)
    BY <1>7 DEF Embed
  <2>2. settings' \in SettingsType
    BY <2>1, ConfigsAssumption, StartupAssumption, MaxIntAssumption
       DEF New, SettingsType, Int64
  <2> QED
    BY <1>7, <2>2 DEF Embed, Started, StartedIsUsable
<1>8. StartupNext \/ UNCHANGED startupVars
  BY NextCases, HandlerKeepsStart DEF vars
<1> QED
  BY <1>1, <1>2, <1>3, <1>4, <1>5, <1>6, <1>7, <1>8 DEF StartupNext

LEMMA StartedAlways == Spec => []Started
<1>1. Init => Started
  BY DEF Init, StartupInit, Started, StartedIsUsable, Disks, NoFiles
<1> QED
  BY <1>1, StartedStep, PTL DEF Spec

\* For every configuration that validateConfig accepts: some token passes for
\* each repository its allowlist names, and the backend neither refuses to
\* sign nor lacks a health probe (validateConfig, main.go:303).
THEOREM UsableServer == Spec => []StartedIsUsable
<1>1. Started => StartedIsUsable
  BY DEF Started
<1> QED
  BY <1>1, StartedAlways, PTL

\* No configuration is taken past a file that comes first (main.go:256).
THEOREM NothingPassedOver == Spec => []NoConfigPassedOver
<1>1. Init => Sourced
  BY DEF Init, StartupInit, Sourced, NoConfigPassedOver
<1>2. Sourced /\ Started /\ [Next]_vars => Sourced'
  <2> SUFFICES ASSUME Sourced, Started, [Next]_vars PROVE Sourced'
    OBVIOUS
  <2>1. CASE UNCHANGED startupVars
    BY <2>1 DEF Sourced, startupVars, FirstHit, NoConfigPassedOver
  <2>2. CASE FindConfig
    <3>1. disk.flag \in {"none", "readable", "denied"}
      BY DEF Started, Disks
    <3>2. FirstHit'
      BY <2>2, <3>1 DEF FindConfig, FirstHit, Hit
    <3> QED
      BY <2>2, <3>2 DEF FindConfig, Sourced, NoConfigPassedOver
  <2>3. CASE LoadConfig
    BY <2>3 DEF LoadConfig, Sourced, FirstHit, NoConfigPassedOver
  <2>4. CASE LoadFails \/ ValidateFails
    BY <2>4 DEF LoadFails, ValidateFails, Refuse, Sourced, NoConfigPassedOver
  <2>5. CASE Validate \/ NewDaemon \/ Embed
    BY <2>5 DEF Validate, NewDaemon, Embed, Sourced, NoConfigPassedOver
  <2>6. StartupNext \/ UNCHANGED startupVars
    BY NextCases, HandlerKeepsStart DEF vars
  <2> QED
    BY <2>1, <2>2, <2>3, <2>4, <2>5, <2>6 DEF StartupNext
<1>3. Sourced => NoConfigPassedOver
  BY DEF Sourced
<1> QED
  BY <1>1, <1>2, <1>3, StartedAlways, PTL DEF Spec

\* The byte limit is the operator's, for every max_body_mib and every width of
\* the integers (validateLimits, main.go:328; newDaemon, main.go:171).
THEOREM LimitKept == Spec => LimitAsConfigured
<1>1. Started /\ [Next]_vars =>
        [stage = "build" /\ stage' = "serving" =>
           /\ settings'.maxBody > 0
           /\ settings'.maxBody = IF config.maxBodyMiB = 0 THEN DefaultMaxBody
                                  ELSE config.maxBodyMiB * BytesPerMiB]_startupVars
  <2> SUFFICES ASSUME Started, [Next]_vars, stage = "build", stage' = "serving"
               PROVE  /\ settings'.maxBody > 0
                      /\ settings'.maxBody = IF config.maxBodyMiB = 0 THEN DefaultMaxBody
                                             ELSE config.maxBodyMiB * BytesPerMiB
    OBVIOUS
  <2>1. StartupNext
    BY NextCases, HandlerKeepsStart DEF vars, startupVars
  <2>2. NewDaemon
    BY <2>1 DEF StartupNext, FindConfig, LoadConfig, LoadFails, Refuse, Validate,
                ValidateFails, Embed
  <2> QED
    BY <2>2, BuiltSettings DEF NewDaemon, Started
<1> QED
  BY <1>1, StartedAlways, PTL DEF Spec, LimitAsConfigured

-----------------------------------------------------------------------------
(* The handlers                                                            *)

Judged(u, status) == IsUpload(u) /\ Judgement(u) = status

Handled ==
  /\ step \in {"idle", "auth", "upload", "check", "backend", "health", "done"}
  /\ reply \in {"none", "200", "400", "401", "413", "415", "500", "503"}
  /\ step # "idle" => stage = "serving"
  /\ step # "done" => reply = "none"
  /\ caller = None \/ caller \in Callers
  /\ step = "auth" => caller \in Callers
  /\ step = "upload" => Authenticate
  /\ reply = "401" => ~Authenticate
  /\ upload = None \/ IsUpload(upload)
  /\ step = "check" => IsUpload(upload)
  /\ step = "backend" => Judged(upload, "none")
  /\ step = "backend" => input = SafeExtension(upload.ext, Kind(upload.file))
  /\ reply \in {"400", "413", "415"} => Judged(upload, reply)
  /\ input \in SafeExtensions \cup {""}
  /\ world = None \/ world \in Worlds

\* The probe's answer, and what it is about.
Probed ==
  /\ step \notin {"health", "done"} => world = None
  /\ step = "health" /\ world # None => PrintedBy(Probe(settings.backend), world)
  /\ step = "done" /\ world # None =>
       /\ PrintedBy(Probe(settings.backend), world)
       /\ reply = "200" => Healthy(settings.backend, world)

\* Between requests and during one the server's settings stay as they are.
LEMMA HandlerOrStart ==
  ASSUME Handled, [Next]_vars
  PROVE  \/ UNCHANGED <<stage, settings>> /\ (HandlerNext \/ UNCHANGED requestVars)
         \/ step = "idle" /\ UNCHANGED requestVars
<1>1. CASE UNCHANGED vars
  BY <1>1 DEF vars, startupVars
<1>2. CASE HandlerNext
  BY <1>2, HandlerKeepsStart DEF startupVars
<1>3. CASE StartupNext /\ UNCHANGED requestVars
  <2>1. stage # "serving"
    BY <1>3 DEF StartupNext, FindConfig, LoadConfig, LoadFails, Validate, ValidateFails,
                NewDaemon, Embed
  <2> QED
    BY <1>3, <2>1 DEF Handled
<1> QED
  BY <1>1, <1>2, <1>3, NextCases

\* An upload that goes through has a kind, and an extension of that kind.
LEMMA InputNamed ==
  ASSUME NEW u, Judged(u, "none")
  PROVE  /\ ~TooLarge(u) /\ Kind(u.file) \in {".exe", ".msi"}
         /\ SafeExtension(u.ext, Kind(u.file)) \in SafeExtensions
<1>1. ~TooLarge(u) /\ Kind(u.file) # "none"
  BY DEF Judged, Judgement
<1>2. Kind(u.file) \in {".exe", ".msi"}
  BY <1>1 DEF Kind
<1> QED
  BY <1>1, <1>2, ExtensionFits

LEMMA ServingSettings ==
  ASSUME Started, Handled, step # "idle"
  PROVE  settings \in SettingsType /\ settings.maxBody \in Int /\ MaxInt \in Nat
<1>1. settings \in SettingsType
  BY DEF Started, Handled
<1>2. settings.maxBody \in Int64
  BY <1>1 DEF SettingsType
<1> QED
  BY <1>1, <1>2, MaxIntAssumption DEF Int64

LEMMA HandledStep == Handled /\ [Next]_vars => Handled'
<1> SUFFICES ASSUME Handled, [Next]_vars PROVE Handled'
  OBVIOUS
<1> USE DEF Handled, Authenticate, IsLoopback, Judged, Judgement, TooLarge, Limit
<1>1. CASE UNCHANGED <<stage, settings, requestVars>>
  <2>1. UNCHANGED <<stage, settings, step, caller, upload, input, world, reply>>
    BY <1>1 DEF requestVars
  <2>2. Authenticate' <=> Authenticate
    BY <2>1 DEF Verify, Parses
  <2>3. Judgement(upload)' = Judgement(upload)
    BY <2>1 DEF BadMetadata
  <2> HIDE DEF Authenticate, Judgement
  <2> QED
    BY <2>1, <2>2, <2>3
<1>2. CASE step = "idle" /\ UNCHANGED requestVars
  BY <1>2 DEF requestVars
<1>3. CASE UNCHANGED <<stage, settings>> /\ Arrive
  BY <1>3 DEF Arrive
<1>4. CASE UNCHANGED <<stage, settings>> /\ Admit
  BY <1>4 DEF Admit, Answer
<1>5. CASE UNCHANGED <<stage, settings>> /\ Receive
  BY <1>5, AdmissionAssumption DEF Receive
<1>6. CASE UNCHANGED <<stage, settings>> /\ CheckUpload
  <2>1. CASE Judgement(upload) = "none"
    <3>1. /\ input' = SafeExtension(upload.ext, Kind(upload.file))
          /\ step' = "backend" /\ reply' = reply
          /\ UNCHANGED <<caller, upload, world, stage, settings>> /\ step = "check"
      BY <1>6, <2>1 DEF CheckUpload
    <3>2. Judged(upload, "none")
      BY <2>1, <3>1
    <3>3. input' \in SafeExtensions
      BY <3>1, <3>2, InputNamed
    <3> QED
      BY <3>1, <3>2, <3>3
  <2>2. CASE Judgement(upload) # "none"
    <3>1. /\ reply' = Judgement(upload) /\ step' = "done" /\ step = "check"
          /\ UNCHANGED <<caller, upload, input, world, stage, settings>>
      BY <1>6, <2>2 DEF CheckUpload, Answer
    <3>2. reply' \in {"400", "413", "415"}
      BY <2>2, <3>1
    <3> QED
      BY <3>1, <3>2
  <2> QED
    BY <2>1, <2>2
<1>7. CASE UNCHANGED <<stage, settings>> /\ (CheckFails \/ Sign)
  BY <1>7 DEF CheckFails, Sign, Answer
<1>8. CASE UNCHANGED <<stage, settings>> /\ (AskHealth \/ Health)
  BY <1>8 DEF AskHealth, Health, Answer
<1>9. CASE UNCHANGED <<stage, settings>> /\ Finish
  BY <1>9 DEF Finish
<1> QED
  BY <1>1, <1>2, <1>3, <1>4, <1>5, <1>6, <1>7, <1>8, <1>9, HandlerOrStart
     DEF HandlerNext, requestVars

LEMMA ProbedStep == Handled /\ Probed /\ [Next]_vars => Probed'
<1> SUFFICES ASSUME Handled, Probed, [Next]_vars PROVE Probed'
  OBVIOUS
<1>1. CASE UNCHANGED requestVars /\ (settings' = settings \/ step = "idle")
  BY <1>1 DEF Probed, requestVars, PrintedBy, Healthy, Probe
<1>2. CASE settings' = settings /\ AskHealth
  BY <1>2 DEF AskHealth, Probed, Handled, Answer
<1>3. CASE settings' = settings /\ Health
  BY <1>3 DEF Health, Answer, Probed
<1>4. CASE \/ Arrive \/ Admit \/ Receive \/ CheckUpload \/ CheckFails \/ Sign \/ Finish
  BY <1>4 DEF Arrive, Admit, Receive, CheckUpload, CheckFails, Sign, Finish, Answer, Probed
<1> QED
  BY <1>1, <1>2, <1>3, <1>4, HandlerOrStart DEF HandlerNext

LEMMA HandledAlways == Spec => [](Handled /\ Probed)
<1>1. Init => Handled /\ Probed
  BY DEF Init, Handled, Probed
<1> QED
  BY <1>1, HandledStep, ProbedStep, PTL DEF Spec

\* Every variable keeps its type.
THEOREM TypeCorrect == Spec => []TypeOK
<1>1. Init => source \in {"flag", "user", "system", "none"} /\ fakeEnv \in BOOLEAN
  BY DEF Init, StartupInit
<1> DEFINE Rest == source \in {"flag", "user", "system", "none"} /\ fakeEnv \in BOOLEAN
<1>2. Rest /\ [Next]_vars => Rest'
  <2> SUFFICES ASSUME Rest, [Next]_vars PROVE Rest'
    OBVIOUS
  <2>1. CASE UNCHANGED startupVars
    BY <2>1 DEF startupVars
  <2>2. CASE FindConfig
    BY <2>2 DEF FindConfig
  <2>3. CASE LoadConfig \/ Validate \/ Embed
    BY <2>3 DEF LoadConfig, Validate, Embed
  <2>4. CASE LoadFails \/ ValidateFails \/ NewDaemon
    BY <2>4 DEF LoadFails, ValidateFails, NewDaemon, Refuse, Forget
  <2> QED
    BY <2>1, <2>2, <2>3, <2>4, NextCases, HandlerKeepsStart DEF vars, StartupNext
<1>3. Started /\ Handled /\ Rest => TypeOK
  BY DEF Started, Handled, TypeOK, StartupTypeOK
<1> HIDE DEF Rest
<1>4. Init => Rest
  BY <1>1 DEF Rest
<1> QED
  BY <1>2, <1>3, <1>4, StartedAlways, HandledAlways, PTL DEF Spec

\* The gate admits the callers the configuration means and no others, for any
\* tokens and for any program's settings (authenticate, server.go:358).
THEOREM GateIsRight == Spec => []AdmitsTheTrusted
<1>1. Handled => AdmitsTheTrusted
  BY DEF Handled, AdmitsTheTrusted, Authenticate, IsLoopback, Verify, Parses, Trusts
<1> QED
  BY <1>1, HandledAlways, PTL

\* A refusal names a fault the upload has (replySignError, server.go:328).
THEOREM RefusalsNameTheFault == Spec => []RefusedForCause
<1>1. Started /\ Handled => RefusedForCause
  <2> SUFFICES ASSUME Started, Handled PROVE RefusedForCause
    OBVIOUS
  <2>1. ASSUME reply = "413" PROVE upload.file.size > settings.maxBody
    <3>1. TooLarge(upload) /\ IsFile(upload.file)
      BY <2>1 DEF Handled, Judged, Judgement, IsUpload
    <3>2. settings.maxBody \in Int /\ MaxInt \in Nat
      BY <2>1, ServingSettings DEF Handled
    <3> QED
      BY <3>1, <3>2 DEF TooLarge, Limit, IsFile
  <2>2. ASSUME reply = "415"
        PROVE  ~ValidPE(upload.file) /\ ~ValidInstaller(upload.file)
    <3>1. Kind(upload.file) = "none" /\ IsFile(upload.file)
      BY <2>2 DEF Handled, Judged, Judgement, IsUpload
    <3> QED
      BY <3>1, KindRight
  <2>3. ASSUME reply = "400" PROVE upload.metadata = "unfit"
    BY <2>3 DEF Handled, Judged, Judgement, BadMetadata
  <2> QED
    BY <2>1, <2>2, <2>3 DEF RefusedForCause
<1> QED
  BY <1>1, StartedAlways, HandledAlways, PTL

\* What reaches a backend fits the limit, is what its extension says and is
\* no Office document or DOS stub (signUpload, server.go:412).
THEOREM InputIsRight == Spec => []InputFits
<1>1. Started /\ Handled => InputFits
  <2> SUFFICES ASSUME Started, Handled, step = "backend"
               PROVE  /\ upload.file.size <= settings.maxBody
                      /\ ~OfficeDocument(upload.file)
                      /\ upload.file.magic = "MZ" =>
                           ValidPE(upload.file) /\ input \in PEExtensions
                      /\ upload.file.magic = "OLE" => input = ".msi"
                      /\ upload.file.magic # "other"
    BY DEF InputFits
  <2> DEFINE f == upload.file
  <2>1. /\ IsFile(f) /\ f.size \in 0 .. MaxInt /\ ~TooLarge(upload)
        /\ Kind(f) \in {".exe", ".msi"}
        /\ input = SafeExtension(upload.ext, Kind(f))
    BY InputNamed DEF Handled, Judged, IsUpload, IsFile
  <2>2. /\ Kind(f) = ".exe" <=> ValidPE(f)
        /\ OfficeDocument(f) => Kind(f) = "none"
        /\ Kind(f) = ".msi" => f.magic = "OLE"
    BY <2>1, KindRight
  <2>3. /\ Kind(f) = ".exe" => input \in PEExtensions
        /\ Kind(f) = ".msi" => input = ".msi"
    BY <2>1, ExtensionFits
  <2>4. ValidPE(f) => f.magic = "MZ"
    BY DEF ValidPE
  <2>5. ValidPE(f) \/ f.magic = "OLE"
    BY <2>1, <2>2
  <2>6. f.size <= settings.maxBody
    <3>1. settings.maxBody \in Int /\ MaxInt \in Nat
      BY ServingSettings
    <3>2. f.size <= Limit
      BY <2>1, <3>1 DEF TooLarge, Limit
    <3>3. f.size > 0
      BY <2>1, <2>4, <2>5 DEF IsFile
    <3> QED
      BY <2>1, <3>1, <3>2, <3>3 DEF Limit
  <2> QED
    BY <2>1, <2>2, <2>3, <2>4, <2>5, <2>6
<1> QED
  BY <1>1, StartedAlways, HandledAlways, PTL

\* A listing probe's health is a token with a certificate (backends.go:153).
THEOREM HealthIsHonest == Spec => []HealthMeansToken
<1>1. Started /\ Handled /\ Probed => HealthMeansToken
  <2> SUFFICES ASSUME Started, Handled, Probed, step = "done", world # None,
                      reply = "200", settings.backend.kind # "fake",
                      settings.backend.probe # "text"
               PROVE  world.tool /\ world.token
    BY DEF HealthMeansToken
  <2>1. /\ Healthy(settings.backend, world)
        /\ PrintedBy(Probe(settings.backend), world)
    BY DEF Probed
  <2>2. settings.backend.probe \in {"default", "listing"}
    BY DEF Handled, Started, SettingsType, BackendType, Probes
  <2>3. Probe(settings.backend) \in {"listing", "none"}
    BY <2>2 DEF Probe
  <2> QED
    BY <2>1, <2>3 DEF Healthy, PrintedBy
<1> QED
  BY <1>1, StartedAlways, HandledAlways, PTL
=============================================================================
