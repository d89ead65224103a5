------------------------------- MODULE Patcher -------------------------------
(***************************************************************************)
(* `go2xp patch' and `go2xp verify' (internal/patch) over the files of a   *)
(* disk.  An image is abstracted to what the two commands and the loader   *)
(* of the target read in it: the version fields, DYNAMIC_BASE, the shim's  *)
(* GO2XPTBL records, the import table, the words stored in the IAT, the    *)
(* free room for section headers, the slots that lie in no section         *)
(* (unmapped), and (code) which function the instructions of the program   *)
(* call through each slot.                                                 *)
(***************************************************************************)
EXTENDS ImportTable

CONSTANTS
  Funcs,       \* the imported names; Symbols \ Funcs are ordinals
  FoldCase,    \* [Dlls -> Dlls]: the spelling the Windows loader compares
  Addresses,   \* addresses of polyfills
  Profiles,    \* profiles/*.json
  Originals,   \* images as `go build' leaves them
  Paths,       \* file names
  Kernel32,    \* "kernel32.dll" as the shim's table spells it
  HookFuncs,   \* {"GetProcAddress", "LoadLibraryExW"}
  Null, NoSlot, Absent, Torn, None

\* A GO2XPTBL record: the address of a polyfill (or Null) and the slot the
\* shim imports the real function through (or NoSlot).
Entries == [dll : Dlls, func : Funcs, polyfill : Addresses \cup {Null},
            own : Slots \cup {NoSlot}]

Images == [os : Nat, subsystem : Nat, dynamicBase : BOOLEAN,
           table : SUBSET Entries, imports : SUBSET Descriptors,
           iat : [Slots -> Addresses \cup {Null}],
           code : [Slots -> (Dlls \X Symbols) \cup {None}],
           unmapped : SUBSET Slots,
           room : Nat]

\* The slots the instructions of the program call through.
CalledSlots(img) == {s \in Slots : img.code[s] # None}

\* Profile: the version fields and what the target does not export.
ProfileType == [os : Nat, subsystem : Nat, missing : [Dlls -> SUBSET Funcs],
                wholeDll : SUBSET Dlls]

----------------------------------------------------------------------------
(* Operators of internal/patch. *)

\* eqFold
EqFold(a, b) == FoldCase[a] = FoldCase[b]

\* Profile.missing: whole DLLs are compared by EqFold, the map by spelling.
Missing(p, dll, sym) ==
  \/ \E w \in p.wholeDll : EqFold(w, dll)
  \/ sym \in p.missing[dll]

\* key/poly: polyfills found for an import, by exact spelling.
PolyfillsFor(table, dll, sym) ==
  {e.polyfill : e \in {x \in table : /\ x.dll = dll /\ x.func = sym
                                     /\ x.polyfill # Null}}

\* Mutated form: the shim's own slots are not recognised.
OwnSlotsUnknown(table) == {}

OwnSlots(table) == {e.own : e \in table} \ {NoSlot}

ForceHook(dll, sym) == EqFold(dll, Kernel32) /\ sym \in HookFuncs

\* The two ways the walk over the imports finds work for an import: a missing
\* function without a polyfill, on which Patch gives up, and a slot to redirect.
\* Mutated form: a hook that is not in the table yet is an error as well.
UnservedHooksToo(img, p) ==
  {im \in ImportsOf(img.imports) :
     /\ im.slot \notin OwnSlots(img.table)
     /\ Missing(p, im.dll, im.sym) \/ ForceHook(im.dll, im.sym)
     /\ PolyfillsFor(img.table, im.dll, im.sym) = {}}

Unserved(img, p) ==
  {im \in ImportsOf(img.imports) :
     /\ im.slot \notin OwnSlots(img.table)
     /\ Missing(p, im.dll, im.sym)
     /\ PolyfillsFor(img.table, im.dll, im.sym) = {}}

\* Mutated form: the forceHook case is forgotten.
RedirectedMissingOnly(img, p) ==
  {im \in ImportsOf(img.imports) :
     /\ im.slot \notin OwnSlots(img.table)
     /\ Missing(p, im.dll, im.sym)
     /\ PolyfillsFor(img.table, im.dll, im.sym) # {}}

Redirected(img, p) ==
  {im \in ImportsOf(img.imports) :
     /\ im.slot \notin OwnSlots(img.table)
     /\ Missing(p, im.dll, im.sym) \/ ForceHook(im.dll, im.sym)
     /\ PolyfillsFor(img.table, im.dll, im.sym) # {}}

BadSlots(img, p) == {im.slot : im \in Redirected(img, p)}

\* Verify: every problem it reports.
StillMissing(img, p) ==
  {im \in ImportsOf(img.imports) :
     im.slot \notin OwnSlots(img.table) /\ Missing(p, im.dll, im.sym)}

StillUnhooked(img) ==
  {im \in ImportsOf(img.imports) :
     /\ im.slot \notin OwnSlots(img.table)
     /\ ForceHook(im.dll, im.sym)
     /\ PolyfillsFor(img.table, im.dll, im.sym) # {}}

IsImage(f) == f \notin {Absent, Torn}

VerifyOK(f, p) ==
  /\ p.subsystem # 0
  /\ IsImage(f)
  /\ f.os = p.os /\ f.subsystem = p.subsystem
  /\ ~ f.dynamicBase
  /\ StillMissing(f, p) = {}
  /\ StillUnhooked(f) = {}

\* Mutated form: slots that are not redirected by this run are cleared.
RewrittenCleared(info, raw, p) ==
  [raw EXCEPT !.os = p.os, !.subsystem = p.subsystem, !.dynamicBase = FALSE,
     !.iat = [s \in Slots |->
                IF s \in BadSlots(info, p)
                THEN CHOOSE a \in Addresses :
                       \E im \in Redirected(info, p) :
                          /\ im.slot = s
                          /\ a \in PolyfillsFor(info.table, im.dll, im.sym)
                ELSE Null],
     !.imports = RebuildImports(info.imports, BadSlots(info, p)),
     !.room = raw.room - 1]

\* The image Patch writes: header, slots, import table, section header.
\* info is what Open parsed, raw what the second read returned.
Rewritten(info, raw, p) ==
  [raw EXCEPT !.os = p.os, !.subsystem = p.subsystem, !.dynamicBase = FALSE,
     !.iat = [s \in Slots |->
                IF s \in BadSlots(info, p)
                THEN CHOOSE a \in Addresses :
                       \E im \in Redirected(info, p) :
                          /\ im.slot = s
                          /\ a \in PolyfillsFor(info.table, im.dll, im.sym)
                ELSE raw.iat[s]],
     !.imports = RebuildImports(info.imports, BadSlots(info, p)),
     !.room = raw.room - 1]

----------------------------------------------------------------------------
(* The loader of the target a profile describes (outside the repository).  *)

\* The target exports what the profile does not list, spelling aside.
Exported(p, dll, sym) ==
  \A d \in Dlls : EqFold(d, dll) => ~ Missing(p, d, sym)

Loads(img, p) ==
  /\ img.subsystem <= p.subsystem
  /\ \A im \in ImportsOf(img.imports) : Exported(p, im.dll, im.sym)

\* A call through slot s reaches the function the program means: the export the
\* loader stored there, or else the polyfill the file holds, an absolute address
\* that an image with DYNAMIC_BASE would find dangling once it is moved.
ReachesRight(img, s) ==
  IF s \in SlotsOf(img.imports)
  THEN \A im \in ImportsOf(img.imports) :
         im.slot = s => <<im.dll, im.sym>> = img.code[s]
  ELSE /\ ~ img.dynamicBase
       /\ img.iat[s] \in PolyfillsFor(img.table, img.code[s][1], img.code[s][2])

CallsRight(img) == \A s \in CalledSlots(img) : ReachesRight(img, s)

----------------------------------------------------------------------------
(* The state. *)
VARIABLES disk,     \* [Paths -> Images \cup {Absent, Torn}]
          pc,       \* where the running `go2xp patch' is
          job,      \* its arguments
          info,     \* what xpe.Open parsed
          raw       \* the second read, then the image being rewritten

vars == <<disk, pc, job, info, raw>>

Jobs == [profile : Profiles, in : Paths, out : Paths]

Init == /\ disk \in [Paths -> Originals \cup {Absent}]
        /\ pc = "idle" /\ job = None /\ info = None /\ raw = None

\* A (re)build writes a fresh image; nothing else writes while patch runs.
Build == /\ pc = "idle"
         /\ \E f \in Paths, img \in Originals : disk' = [disk EXCEPT ![f] = img]
         /\ UNCHANGED <<pc, job, info, raw>>

Invoke == /\ pc = "idle"
          /\ \E j \in Jobs : job' = j
          /\ pc' = "invoked"
          /\ UNCHANGED <<disk, info, raw>>

\* LoadProfile, Open, and the refusal of an image without the shim.
CanOpen(j) == /\ j.profile.subsystem # 0
              /\ IsImage(disk[j.in])
              /\ disk[j.in].table # {}

Open == /\ pc = "invoked"
        /\ CanOpen(job)
        /\ info' = disk[job.in]
        /\ pc' = "opened"
        /\ UNCHANGED <<disk, job, raw>>

\* os.ReadFile and OpenRaw: the second read of the same path.
ReadRaw == /\ pc = "opened"
           /\ IsImage(disk[job.in])
           /\ raw' = disk[job.in]
           /\ pc' = "read"
           /\ UNCHANGED <<disk, job, info>>

Rewrite == /\ pc = "read"
           /\ Unserved(info, job.profile) = {}
           /\ BadSlots(info, job.profile) \cap raw.unmapped = {}
           /\ raw.room > 0
           /\ raw' = Rewritten(info, raw, job.profile)
           /\ pc' = "rewritten"
           /\ UNCHANGED <<disk, job, info>>

\* Every early return of Patch leaves the disk alone.
Refuse == /\ \/ pc = "invoked" /\ ~ CanOpen(job)
             \/ pc = "read" /\ Unserved(info, job.profile) # {}
             \/ pc = "read" /\ BadSlots(info, job.profile) \cap raw.unmapped # {}
             \/ pc = "read" /\ raw.room = 0
          /\ pc' = "refused"
          /\ UNCHANGED <<disk, job, info, raw>>

\* os.WriteFile truncates the file first and is not atomic.
WriteBegin == /\ pc = "rewritten"
              /\ disk' = [disk EXCEPT ![job.out] = Torn]
              /\ pc' = "writing"
              /\ UNCHANGED <<job, info, raw>>

WriteEnd == /\ pc = "writing"
            /\ disk' = [disk EXCEPT ![job.out] = raw]
            /\ pc' = "patched"
            /\ UNCHANGED <<job, info, raw>>

\* The process exits, or is killed at any point.
Exit == /\ pc # "idle"
        /\ pc' = "idle" /\ job' = None /\ info' = None /\ raw' = None
        /\ UNCHANGED disk

Next == \/ Build \/ Invoke \/ Open \/ ReadRaw \/ Rewrite \/ Refuse
        \/ WriteBegin \/ WriteEnd \/ Exit

Spec == Init /\ [][Next]_vars

----------------------------------------------------------------------------
(* What the linker guarantees of an image, and the shim of its own slots.  *)

\* The slots through which the shim reaches the real functions are imported,
\* whatever the patcher did, and their functions exist on every target.
OwnSlotsImported(img) ==
  \A e \in img.table : e.own # NoSlot =>
    \E im \in ImportsOf(img.imports) :
       im.slot = e.own /\ EqFold(im.dll, e.dll) /\ im.sym = e.func

OwnFuncsExported(img) ==
  \A e \in img.table : e.own # NoSlot =>
    \A p \in Profiles : Exported(p, e.dll, e.func)

GoodOriginal(img) ==
  /\ img \in Images
  /\ SlotsOf(img.imports) = CalledSlots(img)
  /\ \A im \in ImportsOf(img.imports) : img.code[im.slot] = <<im.dll, im.sym>>
  /\ OwnSlotsImported(img)
  /\ OwnFuncsExported(img)

ASSUME ConstantTypes ==
  /\ Funcs \subseteq Symbols /\ HookFuncs \subseteq Funcs
  /\ FoldCase \in [Dlls -> Dlls] /\ Kernel32 \in Dlls
  /\ Profiles \subseteq ProfileType
  /\ Null \notin Addresses
  /\ NoSlot \notin Slots
  /\ None \notin Dlls \X Symbols
  /\ Absent \notin Images /\ Torn \notin Images /\ None \notin Images \cup Jobs
  /\ Absent # Torn

ASSUME OriginalsGood == \A img \in Originals : GoodOriginal(img)

----------------------------------------------------------------------------
(* Properties. *)

TypeOK == /\ disk \in [Paths -> Images \cup {Absent, Torn}]
          /\ pc \in {"idle", "invoked", "opened", "read", "refused",
                     "rewritten", "writing", "patched"}
          /\ job \in Jobs \cup {None}
          /\ info \in Images \cup {None}
          /\ raw \in Images \cup {None}

\* At every moment, whatever file `go2xp verify' accepts for a profile, patched
\* once, several times for different targets, or not at all, the loader of that
\* target can load, and every call of the program then reaches the function it
\* names: an export bound to its own slot, or the polyfill of that function.
VerifySound ==
  \A f \in Paths, p \in Profiles :
    VerifyOK(disk[f], p) => Loads(disk[f], p) /\ CallsRight(disk[f])

\* When Patch returns without an error, Verify accepts its output for the same
\* profile, also when the input was itself the output of an earlier run.
PatchVerifies == pc = "patched" => VerifyOK(disk[job.out], job.profile)

\* No patch, for any profile and any number of times, takes away or rebinds a
\* slot through which a hook or a polyfill calls the real function: a hook that
\* reached itself through its own slot would recurse without end.
OwnSlotsSurvive ==
  \A f \in Paths : IsImage(disk[f]) =>
    \A e \in disk[f].table : e.own # NoSlot =>
      /\ e.own \in SlotsOf(disk[f].imports)
      /\ ReachesRight(disk[f], e.own)

\* verify.go:29: "nothing that is missing on the target may remain in the import
\* table".  What the target exports does not depend on how the name is spelled.
NothingMissingImported ==
  \A f \in Paths, p \in Profiles :
    VerifyOK(disk[f], p) =>
      \A im \in ImportsOf(disk[f].imports) : Exported(p, im.dll, im.sym)

\* The profiles list functions under the spelling of the DLL name that the
\* descriptors of the image use: the map of Profile.missing is not folded.
SpelledLikeProfiles(dll) ==
  \A p \in Profiles, d \in Dlls :
    EqFold(d, dll) => p.missing[d] \subseteq p.missing[dll]

SpellingAgrees ==
  \A img \in Originals : \A im \in ImportsOf(img.imports) :
    SpelledLikeProfiles(im.dll)

\* Patch refuses a file that verify accepts for the same profile for two reasons
\* only: no room for one more section header, or no shim in the image, which
\* verify does not ask for.  Not for a missing polyfill, and not for a slot that
\* lies in no section: an accepted file has no slot left to redirect.
AcceptedIsPatchable ==
  pc = "refused" /\ VerifyOK(disk[job.in], job.profile) =>
    disk[job.in].room = 0 \/ disk[job.in].table = {}

\* Patching again, for another target, keeps what an earlier run redirected:
\* those slots do not return to the import table and keep their polyfill.
RedirectsKept ==
  [][pc' = "rewritten" =>
       /\ SlotsOf(raw'.imports) \subseteq SlotsOf(info.imports)
       /\ \A s \in CalledSlots(info) \ SlotsOf(info.imports) :
             raw'.iat[s] = info.iat[s]]_vars
=============================================================================
