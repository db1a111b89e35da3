------------------------------ MODULE UploadKind ------------------------------
(***************************************************************************)
(* What signerd makes of the bytes of an upload, before the signing tool   *)
(* sees it: detectKind and safeExtension in server/server.go.              *)
(*                                                                         *)
(* A file is the few fields the code looks at: its size, the magic at its  *)
(* start, the offsets and the sector shift its header states, and the      *)
(* place where the PE signature or the root directory entry really is.     *)
(***************************************************************************)
EXTENDS GoInt

CONSTANTS
  DosHeaderLen,  \* 0x40, through e_lfanew
  PESigLen,      \* 4, the length of "PE\0\0"
  HeaderLen,     \* 512, the header of a compound file
  DirEntryLen,   \* 128
  SectorSize,    \* 1 << s, for each sector shift s the code accepts: 7 to 12
  CompoundShifts,\* the sector shifts compound files are made with: 9 and 12
  FreeSector     \* 0xFFFFFFFF, the largest uint32

Shifts == DOMAIN SectorSize

ASSUME LayoutAssumption ==
  /\ DosHeaderLen \in Nat /\ PESigLen \in Nat
  /\ HeaderLen \in Nat /\ DirEntryLen \in Nat
  /\ FreeSector \in Nat
  /\ CompoundShifts \subseteq Shifts
  /\ SectorSize \in [Shifts -> Nat]

\* 0xFFFFFFFF sectors of 4096 bytes are far less than 2^63 bytes.
ASSUME WidthAssumption ==
  \A s \in Shifts : FreeSector * SectorSize[s] + DirEntryLen <= MaxInt

Installers == {"msi", "msp", "mst", "msm"}
Classes == Installers \cup {"office"}

IsFile(f) ==
  /\ f.size \in 0 .. MaxInt
  /\ f.magic \in {"MZ", "OLE", "other"} /\ (f.magic # "other" => f.size > 0)
  /\ f.lfanew \in 0 .. FreeSector      \* where the DOS header points
  /\ f.peAt \in Int                    \* where the PE signature is
  /\ f.shift \in Nat
  /\ f.firstDir \in 0 .. FreeSector    \* where the compound header points
  /\ f.rootAt \in Int                  \* where the root entry is
  /\ f.class \in Classes

\* ReadAt fails on a negative offset and at the end of the file.
CanRead(f, at, len) == at >= 0 /\ at + len <= f.size

-----------------------------------------------------------------------------
(* detectKind                                                              *)

IsPE(f) ==
  /\ f.size >= DosHeaderLen
  /\ f.magic = "MZ"
  /\ CanRead(f, f.lfanew, PESigLen)
  /\ f.peAt = f.lfanew

\* Mutant: the header's own sector is not counted.
DirOffset_NoHeader(f) == Wrap(f.firstDir * SectorSize[f.shift])

DirOffset(f) == Wrap((f.firstDir + 1) * SectorSize[f.shift])

HasRoot(f) ==
  /\ f.size >= HeaderLen
  /\ f.shift \in Shifts
  /\ f.firstDir # FreeSector
  /\ Wrap(DirOffset(f) + DirEntryLen) <= f.size
  /\ CanRead(f, DirOffset(f), DirEntryLen)

RootClass(f) == IF f.rootAt = DirOffset(f) THEN f.class ELSE "other"

\* A compound file whose class cannot be read is left to the backend.
IsMSI(f) == f.magic = "OLE" /\ (HasRoot(f) => RootClass(f) \in Installers)

Kind(f) ==
  IF IsPE(f) THEN ".exe" ELSE IF IsMSI(f) THEN ".msi" ELSE "none"

-----------------------------------------------------------------------------
(* safeExtension                                                           *)

PEExtensions == {".exe", ".dll", ".sys", ".efi", ".ocx", ".cpl"}

SafeExtensions == PEExtensions \cup {".msi"}

\* ".odd": longer than five characters, or not letters and digits only.
Extensions == SafeExtensions \cup {".txt", ".odd", ""}

SanitizedExt(ext) == IF ext = ".odd" THEN "" ELSE ext

\* Mutant: any name of a signable file will do.
CompatibleExt_AnyKind(ext, kind) == ext \in SafeExtensions

CompatibleExt(ext, kind) ==
  \/ kind = ".exe" /\ ext \in PEExtensions
  \/ kind = ".msi" /\ ext = ".msi"

SafeExtension(ext, kind) ==
  IF CompatibleExt(SanitizedExt(ext), kind) THEN SanitizedExt(ext) ELSE kind

-----------------------------------------------------------------------------
(* The formats themselves                                                  *)

ValidPE(f) ==
  /\ f.magic = "MZ" /\ f.size >= DosHeaderLen
  /\ f.peAt = f.lfanew /\ f.peAt + PESigLen <= f.size

\* Sector 0 follows the header, which has a sector of its own.
ValidCompound(f) ==
  /\ f.magic = "OLE" /\ f.size >= HeaderLen
  /\ f.shift \in CompoundShifts
  /\ f.firstDir < FreeSector
  /\ f.rootAt = SectorSize[f.shift] + f.firstDir * SectorSize[f.shift]
  /\ f.rootAt + DirEntryLen <= f.size

ValidInstaller(f) == ValidCompound(f) /\ f.class \in Installers
OfficeDocument(f) == ValidCompound(f) /\ f.class \notin Installers
=============================================================================
