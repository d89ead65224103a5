---------------------------- MODULE SectionLayout ----------------------------
(***************************************************************************)
(* Where the new import section goes: rebuildImports computes the RVAs     *)
(* inside the section from the place it expects it at, Raw.AddSection then *)
(* chooses the place, in the image and in the file, and writes one more    *)
(* header.  Addresses and offsets are counted in units: one section header *)
(* takes one, and images stay far below 2^32 of them.  The file is kept as *)
(* the owner of each of its units.                                         *)
(***************************************************************************)
EXTENDS Integers, Sequences, FiniteSets

CONSTANTS SectAlign, FileAlign,  \* of the optional header
          FirstSectOff,          \* where the section headers start
          DataSizes,             \* lengths of the section that is added
          Images                 \* files as a linker, and its user, leave them

ASSUME AlignAssumption == /\ SectAlign \in Nat \ {0} /\ FileAlign \in Nat \ {0}
                          /\ FirstSectOff \in Nat
                          /\ DataSizes \subseteq Nat \ {0}

Sections == [rva : Nat, vsize : Nat, raw : Nat, rawsize : Nat]

\* A unit of the file belongs to section i, to the headers, to nobody, or was
\* appended behind the last section.
Header == 0
Padding == -1
Overlay == -2
Owners == Nat \cup {Padding, Overlay}

VARIABLES secs,         \* the section headers
          fileLen,
          owner,        \* [0 .. fileLen - 1 -> Owners]
          sizeOfImage,
          pc, data,     \* the patch that is running, and the section it adds
          planned,      \* plannedSectionRVA: the RVAs inside the section
          importDir     \* DataDirectory[IMPORT]

vars == <<secs, fileLen, owner, sizeOfImage, pc, data, planned, importDir>>

----------------------------------------------------------------------------
(* alignUp: the code's mask is this for the powers of two that alignments are. *)
AlignUp(v, a) == ((v + a - 1) \div a) * a

Greatest(S) == CHOOSE m \in S : \A n \in S : n <= m

RvaEnd(s) == s.rva + AlignUp(s.vsize, SectAlign)
RawEnd(s) == s.raw + s.rawsize

Extent(s) == s.raw .. RawEnd(s) - 1

RvaEnds == {0} \cup {RvaEnd(secs[i]) : i \in DOMAIN secs}
RawEnds == {0} \cup {RawEnd(secs[i]) : i \in DOMAIN secs}

\* Mutated form: rounds up the last address of a section, not the one behind it.
NewRVAOffByOne ==
  AlignUp(Greatest({0} \cup {secs[i].rva + secs[i].vsize - 1 : i \in DOMAIN secs}), SectAlign)

NewRVA == AlignUp(Greatest(RvaEnds), SectAlign)

\* Mutated form: the last section is taken to be the last in the file as well.
NewRawOfLast == AlignUp(RawEnd(secs[Len(secs)]), FileAlign)

NewRaw == AlignUp(Greatest(RawEnds), FileAlign)

\* The patcher's own computation of the place, which mirrors AddSection's.
PlannedSectionRVA ==
  AlignUp(Greatest({0} \cup {secs[i].rva + AlignUp(secs[i].vsize, SectAlign) :
                               i \in DOMAIN secs}), SectAlign)

LastHdrEnd == FirstSectOff + Len(secs)

\* Mutated form: the spare bytes are not asked for, only that headers are not
\* already past the first section.
RoomUncounted == \A i \in DOMAIN secs : secs[i].rawsize > 0 => LastHdrEnd <= secs[i].raw

\* 40 spare bytes before the first section that has any in the file.
Room == \A i \in DOMAIN secs : secs[i].rawsize > 0 => LastHdrEnd + 1 <= secs[i].raw

----------------------------------------------------------------------------
(* One run of the patcher. *)

Init == /\ \E img \in Images : /\ secs = img.secs /\ sizeOfImage = img.sizeOfImage
                               /\ fileLen = img.fileLen /\ owner = img.owner
                               /\ importDir = img.importDir
        /\ pc = "idle" /\ data = 0 /\ planned = 0

\* Patch returns an error before it gets as far as the section.
Refuse == /\ pc = "idle"
          /\ pc' = "refused"
          /\ UNCHANGED <<secs, fileLen, owner, sizeOfImage, data, planned, importDir>>

Plan(n) == /\ pc = "idle"
           /\ data' = n
           /\ planned' = PlannedSectionRVA
           /\ pc' = "planned"
           /\ UNCHANGED <<secs, fileLen, owner, sizeOfImage, importDir>>

\* The end of the file the section needs.
EndOfSection == NewRaw + AlignUp(data, FileAlign)

\* The file grows by zeroes to hold the section, if it does not yet; then the
\* data and the header are copied over what is there.
AddSection ==
  /\ pc = "planned" /\ Room
  /\ secs' = Append(secs, [rva |-> NewRVA, vsize |-> data,
                           raw |-> NewRaw, rawsize |-> AlignUp(data, FileAlign)])
  /\ fileLen' = IF EndOfSection > fileLen THEN EndOfSection ELSE fileLen
  /\ owner' = [b \in 0 .. fileLen' - 1 |->
                 IF b = LastHdrEnd THEN Header
                 ELSE IF b \in NewRaw .. NewRaw + data - 1 THEN Len(secs) + 1
                 ELSE IF b < fileLen THEN owner[b] ELSE Padding]
  /\ sizeOfImage' = AlignUp(NewRVA + AlignUp(data, SectAlign), SectAlign)
  /\ importDir' = NewRVA
  /\ pc' = "added"
  /\ UNCHANGED <<data, planned>>

NoRoom == /\ pc = "planned" /\ ~ Room
          /\ pc' = "refused"
          /\ UNCHANGED <<secs, fileLen, owner, sizeOfImage, data, planned, importDir>>

\* The image is written; it may be patched again, for another target.
Write == /\ pc = "added"
         /\ pc' = "idle"
         /\ UNCHANGED <<secs, fileLen, owner, sizeOfImage, data, planned, importDir>>

Next == Refuse \/ (\E n \in DataSizes : Plan(n)) \/ AddSection \/ NoRoom \/ Write

Spec == Init /\ [][Next]_vars

----------------------------------------------------------------------------
(* What the loader of NT asks of the sections, and a linker gives it. *)

\* Every section starts where the one before it ends, rounded up, and the image
\* ends with the last.
Loadable(ss, size) ==
  /\ \A i \in DOMAIN ss : ss[i].rva % SectAlign = 0 /\ ss[i].vsize > 0
  /\ \A i \in DOMAIN ss : i + 1 \in DOMAIN ss => ss[i + 1].rva = RvaEnd(ss[i])
  /\ size = RvaEnd(ss[Len(ss)])

\* No two sections share an address.
AddressesDisjoint(ss) ==
  \A i, j \in DOMAIN ss : i < j => RvaEnd(ss[i]) <= ss[j].rva

\* What a section's bytes are in the file, nobody else has written to.
OwnBytes(ss, own) ==
  \A i \in DOMAIN ss : \A b \in Extent(ss[i]) :
    b \in DOMAIN own /\ own[b] \in {i, Padding, Overlay}

HeadersThere(ss, own) ==
  \A b \in 0 .. FirstSectOff + Len(ss) - 1 : b \in DOMAIN own /\ own[b] = Header

\* A unit says who owns it only where its owner is.
OwnersRight(ss, own) ==
  \A b \in DOMAIN own :
    /\ own[b] = Header => b < FirstSectOff + Len(ss)
    /\ own[b] \in Nat \ {Header} => own[b] \in DOMAIN ss /\ b \in Extent(ss[own[b]])

SomeBytes(ss) == \E i \in DOMAIN ss : ss[i].rawsize > 0

GoodImage(img) ==
  /\ img.secs \in Seq(Sections) /\ SomeBytes(img.secs)
  /\ img.fileLen \in Nat /\ img.owner \in [0 .. img.fileLen - 1 -> Owners]
  /\ img.sizeOfImage \in Nat /\ img.importDir \in Nat
  /\ \A i \in DOMAIN img.secs : RawEnd(img.secs[i]) <= img.fileLen
  /\ Loadable(img.secs, img.sizeOfImage)
  /\ AddressesDisjoint(img.secs)
  /\ OwnBytes(img.secs, img.owner)
  /\ HeadersThere(img.secs, img.owner)
  /\ OwnersRight(img.secs, img.owner)

ASSUME ImagesAssumption == \A img \in Images : GoodImage(img)

----------------------------------------------------------------------------
(* Properties. *)

TypeOK == /\ secs \in Seq(Sections) /\ secs # <<>>
          /\ fileLen \in Nat /\ owner \in [0 .. fileLen - 1 -> Owners]
          /\ \A i \in DOMAIN secs : RawEnd(secs[i]) <= fileLen
          /\ sizeOfImage \in Nat
          /\ pc \in {"idle", "planned", "added", "refused"}
          /\ data \in Nat /\ planned \in Nat /\ importDir \in Nat

\* However often an image is patched, the loader still finds its sections end to
\* end, without a gap and without an overlap, and SizeOfImage where they end.
ImageLoadable == Loadable(secs, sizeOfImage) /\ AddressesDisjoint(secs)

\* The bytes of every section, new or old, are its own, and every header is
\* there: the new header has not run into the first section, nor the new
\* section into one whose size in the file differs from its size in memory.
SectionsIntact == OwnBytes(secs, owner) /\ HeadersThere(secs, owner)

\* The two computations of the place agree: what the import table says of its
\* own parts is where the loader finds them.
ImportsWherePlanned == pc = "added" => planned = importDir

\* A patch writes to no byte that belongs to somebody, at most into padding.
NothingOverwritten ==
  [][\A b \in DOMAIN owner : owner[b] \in Nat => owner'[b] = owner[b]]_vars

\* pe/patch.go:150: the section is appended "at the end of the image and of the
\* file": what a file carries behind its last section stays.
OverlayKept ==
  [][\A b \in DOMAIN owner : owner[b] = Overlay => owner'[b] = Overlay]_vars
=============================================================================
