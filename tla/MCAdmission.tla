----------------------------- MODULE MCAdmission ----------------------------
(* Instances of Admission for TLC: a small int64, small headers and sectors, *)
(* and configurations that differ from a good one in one section.            *)
EXTENDS Admission

MCSectorSize == [s \in 1 .. 3 |-> 2 ^ s]
MCCompoundShifts == {1, 3}

Good ==
  [maxBodyMiB |-> 0, loopback |-> FALSE, kind |-> "osslsigncode", module |-> "file",
   cert |-> "file", probe |-> "default", audience |-> "url", repos |-> {"own"}]

RepoLists == {{}, {"own"}, {""}, {"OWN", "other"}}

MCConfigs ==
  {[Good EXCEPT !.maxBodyMiB = n] :
     n \in {-1, 0, 1, MaxInt \div BytesPerMiB, MaxInt \div BytesPerMiB + 1, MaxInt}} \cup
  {[Good EXCEPT !.loopback = l, !.audience = a, !.repos = r] :
     l \in BOOLEAN, a \in {"", "blank", "url"}, r \in RepoLists} \cup
  {[Good EXCEPT !.kind = k, !.module = m, !.cert = c, !.probe = p] :
     k \in Backends \ {"fake"}, m \in Paths, c \in Paths, p \in Probes} \cup
  {[Good EXCEPT !.kind = k] : k \in {"fake", "unknown"}}

\* What a program may pass to server.New without signerd's validation.
GoodServer ==
  [maxBody |-> 12, loopback |-> FALSE,
   verifier |-> [on |-> TRUE, audience |-> "url", repos |-> {"own"}],
   backend |-> [kind |-> "jsign", module |-> "", cert |-> "file", probe |-> "text"]]

MCEmbeddings ==
  {[GoodServer EXCEPT !.maxBody = n] : n \in {-1, 0, MaxInt}} \cup
  {[GoodServer EXCEPT !.verifier = [on |-> o, audience |-> a, repos |-> r]] :
     o \in BOOLEAN, a \in {"", "url"}, r \in RepoLists} \cup
  {[GoodServer EXCEPT !.backend = [kind |-> k, module |-> "", cert |-> c, probe |-> "default"]] :
     k \in Backends, c \in {"", "file"}}

MCTokens ==
  [proof : {"genuine", "forged", "no kid", "unknown kid", "other alg"}, issuer : BOOLEAN,
   audience : {"url", "other"}, expiry : {"ahead", "past", "none"},
   repository : {"own", "OWN", "other", ""}]

-----------------------------------------------------------------------------
NoFile ==
  [size |-> 0, magic |-> "other", lfanew |-> 0, peAt |-> -1, shift |-> 0,
   firstDir |-> 0, rootAt |-> -1, class |-> "office"]

PEs ==
  {[NoFile EXCEPT !.magic = "MZ", !.size = n, !.lfanew = l, !.peAt = p] :
     n \in {2, 3, 4, 5, 8, 9}, l \in {0, 2, 3, 4, FreeSector}, p \in {-1, 2, 3, 4}}

\* The root entry where the header says, or one sector before.
Compounds ==
  UNION {{[NoFile EXCEPT !.magic = "OLE", !.size = n, !.shift = s, !.firstDir = d,
                         !.rootAt = r, !.class = c] :
            n \in {3, 4, 5, 8, 9, 10, 18, MaxInt}, c \in {"msi", "office"},
            r \in {d * 2 ^ s, (d + 1) * 2 ^ s}} :
           s \in 0 .. 4, d \in {0, 1, 3, FreeSector - 1, FreeSector}}

MCUploads ==
  {[file |-> f, ext |-> e, metadata |-> "plain"] :
     f \in PEs \cup Compounds \cup {NoFile}, e \in {".dll", ".msi"}} \cup
  {[file |-> f, ext |-> e, metadata |-> m] :
     f \in {[NoFile EXCEPT !.magic = "MZ", !.size = n, !.lfanew = 3, !.peAt = 3] :
              n \in {4, 5, 9}},
     e \in Extensions, m \in {"none", "blank", "plain", "unfit"}}
=============================================================================
