----------------------------- MODULE PatchedFile -----------------------------
(***************************************************************************)
(* SectionLayout with the contents of the file: how internal/pe reads      *)
(* imports and the shim's table out of it, and how internal/patch          *)
(* redirects slots, lays the new import section out and leaves a file that *)
(* is read again, by verify and by the next patch.  One unit of the file   *)
(* is one word: a number, the text of a name, the NUL that ends it, or     *)
(* what is none of these.  A descriptor takes DescLen words and a table    *)
(* record EntryLen; the fields of a descriptor that are always 0 and the   *)
(* even padding of names are left out.                                     *)
(***************************************************************************)
EXTENDS SectionLayout, ImportTable, SequencesExt

CONSTANTS ImageBase,   \* of the optional header
          Ordinals,    \* the Symbols that are imported without a name
          Files,       \* [image : Images, word : its words, imports, table]
          Targets      \* what a target lacks, or has hooked: sets of Symbols

DescLen == 3
HintLen == 1
MagicLen == 3          \* GO2XPTBL with its version and its count
EntryLen == 4
Version == 1

Num(v)  == [kind |-> "num", num |-> v]
Text(s) == [kind |-> "text", text |-> s]
Ord(s)  == [kind |-> "ord", text |-> s]     \* bit 31 and the ordinal
Nul     == [kind |-> "nul"]
Code    == [kind |-> "code"]
Magic   == [kind |-> "magic"]
Zero    == Num(0)

\* What a word that is no number is taken for as one: an address nobody has.
Far == 100000
Value(w) == IF w.kind = "num" THEN w.num ELSE IF w.kind = "nul" THEN 0 ELSE Far

\* What section s has in memory, what of that in the file, and where.
Within(s, rva) == rva \in s.rva .. s.rva + s.vsize - 1
Backed(s, rva) == Within(s, rva) /\ rva - s.rva < s.rawsize
Byte(s, rva) == s.raw + rva - s.rva

Least(S) == CHOOSE m \in S : \A k \in S : m <= k

VARIABLES word,      \* [0 .. fileLen - 1 -> words]
          image,     \* what the file stands for: [imports, table] as sets
          bad,       \* the slots this patch redirects: [slots -> polyfills]
          section    \* what rebuildImports returned

fileVars == <<vars, word, image, bad, section>>

----------------------------------------------------------------------------
(* internal/pe: reading the first n words of the file. *)

Bad == -1          \* "bad RVA"
NoText == "no text"
Garbage == "garbage"

\* reader.off: what the section has both in memory and in the file, and the
\* file still has.
Off(n, rva) ==
  LET hit == {i \in DOMAIN secs : Within(secs[i], rva)}
      s == secs[Least(hit)]
      off == Byte(s, rva)
  IN  IF hit # {} /\ rva - s.rva < s.rawsize /\ off < n THEN off ELSE Bad

U32(n, rva) == LET off == Off(n, rva)
               IN  IF off = Bad THEN Bad ELSE Value(word[off])

\* nameRVA, _ := r.u32(...): the error is dropped, the value is 0.
U32OrZero(n, rva) == IF U32(n, rva) = Bad THEN 0 ELSE U32(n, rva)

EndsText(w) == w.kind \in {"nul", "num"}

\* Mutated form: a name the file breaks off in is read to the end of the file.
CStrUnterminated(n, rva) ==
  LET o == Off(n, rva)
  IN  IF o = Bad THEN NoText
      ELSE IF word[o].kind = "text" THEN word[o].text
      ELSE IF Value(word[o]) = 0 THEN "" ELSE Garbage

\* reader.cstr: up to the next zero byte of the file, if there is one.
CStr(n, rva) ==
  LET o == Off(n, rva)
  IN  IF o = Bad \/ ~ \E e \in o .. n - 1 : EndsText(word[e]) THEN NoText
      ELSE IF word[o].kind = "text" THEN word[o].text
      ELSE IF Value(word[o]) = 0 THEN "" ELSE Garbage

Desc(n, i) == LET at == importDir + DescLen * i
              IN  [oft |-> U32(n, at), name |-> U32OrZero(n, at + 1),
                   ft |-> U32OrZero(n, at + 2)]

\* Where the walks end: at the descriptor of zeroes, at the word of zeroes, or
\* where they cannot read on, which is behind the image's last address at the
\* latest.
DescStops(n, i) ==
  Desc(n, i).oft = Bad \/ Desc(n, i) = [oft |-> 0, name |-> 0, ft |-> 0]

DescEnd(n) == CHOOSE i \in 0 .. sizeOfImage :
                DescStops(n, i) /\ \A k \in 0 .. i - 1 : ~ DescStops(n, k)

ThunkStops(n, at, j) == U32(n, at + j) \in {Bad, 0}

ThunkEnd(n, at) == CHOOSE j \in 0 .. sizeOfImage :
                     ThunkStops(n, at, j) /\ \A k \in 0 .. j - 1 : ~ ThunkStops(n, at, k)

\* Without a lookup table the names are in the slots themselves.
Lookup(d) == IF d.oft = 0 THEN d.ft ELSE d.oft

Symbol(n, at) ==
  LET w == word[Off(n, at)]
  IN  IF w.kind = "ord" THEN w.text ELSE CStr(n, Value(w) + HintLen)

\* One descriptor: what it says, and whether all of it could be read.
ReadDesc(n, i) ==
  LET d == Desc(n, i)
      at == Lookup(d)
      end == ThunkEnd(n, at)
  IN  [dll |-> CStr(n, d.name), first |-> d.ft,
       names |-> [j \in 1 .. end |-> Symbol(n, at + j - 1)]]

DescReadable(n, i) ==
  LET d == Desc(n, i)
      at == Lookup(d)
      names == ReadDesc(n, i).names
  IN  /\ CStr(n, d.name) # NoText
      /\ U32(n, at + Len(names)) = 0
      /\ \A j \in DOMAIN names : names[j] # NoText

\* reader.imports, with one record per descriptor.  Open does not walk them when
\* the image has no import directory.
ReadImports(n) == [i \in 1 .. IF importDir = 0 THEN 0 ELSE DescEnd(n) |-> ReadDesc(n, i - 1)]

ImportsReadable(n) ==
  LET end == DescEnd(n)
  IN  Desc(n, end).oft # Bad /\ \A i \in 0 .. end - 1 : DescReadable(n, i)

\* reader.tableAt
EntryAt(n, o, i) ==
  LET at == o + MagicLen + EntryLen * (i - 1)
  IN  [dll |-> CStr(n, Value(word[at]) - ImageBase),
       func |-> CStr(n, Value(word[at + 1]) - ImageBase),
       polyfill |-> Value(word[at + 2]), own |-> Value(word[at + 3])]

CountAt(o) == Value(word[o + 2])

NamesAbove(o, i) ==
  \A f \in 0 .. 1 : Value(word[o + MagicLen + EntryLen * (i - 1) + f]) >= ImageBase

ParsesAt(n, o) ==
  /\ CountAt(o) \in 1 .. (n - o - MagicLen) \div EntryLen
  /\ \A i \in 1 .. CountAt(o) :
       /\ NamesAbove(o, i)
       /\ EntryAt(n, o, i).dll \notin {"", NoText}
       /\ EntryAt(n, o, i).func \notin {"", NoText}

\* reader.table: the first candidate that parses; an error if some candidate
\* was seen and none of them does.
Candidates(n) ==
  {o \in 0 .. n - MagicLen : word[o] = Magic /\ Value(word[o + 1]) = Version}

\* Mutated form: the first candidate is the table, or there is none.
FirstCandidateOnly(n) == {o \in Candidates(n) : o = Least(Candidates(n)) /\ ParsesAt(n, o)}

TablesIn(n) == {o \in Candidates(n) : ParsesAt(n, o)}

TableReadable(n) == TablesIn(n) # {} \/ Candidates(n) = {}

ReadTable(n) ==
  LET found == TablesIn(n)
  IN  IF found = {} THEN {}
      ELSE {EntryAt(n, Least(found), i) : i \in 1 .. CountAt(Least(found))}

\* xpe.Open: debug/pe wants the section headers, then the two readers.
Opens(n) == /\ LastHdrEnd <= n
            /\ importDir = 0 \/ ImportsReadable(n)
            /\ TableReadable(n)

----------------------------------------------------------------------------
(* internal/patch: what becomes of the imports. *)

\* The imports on the descriptors D that the walk redirects, for a target that
\* lacks the functions t.
Redirects(D, t) ==
  {im \in ImportsOf(Range(D)) :
     im.sym \in t /\ \A e \in ReadTable(fileLen) : e.own # ImageBase + im.slot}

Polyfills(im) ==
  {e.polyfill : e \in {x \in ReadTable(fileLen) :
                         x.dll = im.dll /\ x.func = im.sym /\ x.polyfill # 0}}

\* Raw.FileOff: unlike reader.off it does not ask for bytes in the file.
\* Mutated form: the section's place in the file is forgotten.
FileOffUnmapped(rva) == rva

FileOff(rva) ==
  LET s == secs[Least({i \in DOMAIN secs : rva \in secs[i].rva .. RvaEnd(secs[i]) - 1})]
  IN  rva - s.rva + s.raw

\* One piece per run of slots that stay, in the order of the file.
\* Mutated form: the imports that stay are packed behind the first of them.
PiecesUnsplit(D, dropped) ==
  LET left == SelectSeq(D, LAMBDA d : Kept(d, dropped) # {})
      keep(d) == SetToSortSeq(Kept(d, dropped), <)
  IN  [i \in DOMAIN left |->
         [dll |-> left[i].dll, first |-> SlotOf(left[i], keep(left[i])[1]),
          names |-> [j \in DOMAIN keep(left[i]) |-> left[i].names[keep(left[i])[j]]]]]

\* The run that starts at d's k-th slot, if one does.
PieceAt(d, k, dropped) ==
  LET from == {r \in Runs(d, dropped) : r[1] = k}
  IN  IF from = {} THEN <<>> ELSE <<Piece(d, CHOOSE r \in from : TRUE)>>

Pieces(D, dropped) ==
  FlattenSeq([i \in DOMAIN D |->
    FlattenSeq([k \in DOMAIN D[i].names |-> PieceAt(D[i], k, dropped)])])

\* Each text but those in `out', once, where it occurs first.
Once(texts, out) ==
  FlattenSeq([i \in DOMAIN texts |->
    IF texts[i] \in out \/ \E j \in 1 .. i - 1 : texts[j] = texts[i]
    THEN <<>> ELSE <<texts[i]>>])

Place(s, texts) == CHOOSE i \in DOMAIN texts : texts[i] = s

\* rebuildImports: descriptors, lookup tables that end in NoText, DLL names, then
\* hint and name of the functions; base is the RVA the section is expected at.
BuildSection(ps, base) ==
  LET N == DOMAIN ps
      tables == [i \in N |-> Append(ps[i].names, NoText)]
      lookups == FlattenSeq(tables)
      tableStart == base + DescLen * (Len(ps) + 1)
      intStart(i) == tableStart + Len(FlattenSeq(SubSeq(tables, 1, i - 1)))
      nameStart == tableStart + Len(lookups)
      dlls == Once([i \in N |-> ps[i].dll], {})
      funcs == Once(lookups, Ordinals \cup {NoText})
      dllAt(s) == nameStart + 2 * (Place(s, dlls) - 1)
      funcAt(s) == nameStart + 2 * Len(dlls) + 3 * (Place(s, funcs) - 1)
      thunk(s) == IF s = NoText THEN Zero
                  ELSE IF s \in Ordinals THEN Ord(s) ELSE Num(funcAt(s))
  IN  FlattenSeq([i \in N |-> <<Num(intStart(i)), Num(dllAt(ps[i].dll)), Num(ps[i].first)>>])
      \o <<Zero, Zero, Zero>>
      \o [j \in DOMAIN lookups |-> thunk(lookups[j])]
      \o FlattenSeq([i \in DOMAIN dlls |-> <<Text(dlls[i]), Nul>>])
      \o FlattenSeq([i \in DOMAIN funcs |-> <<Zero, Text(funcs[i]), Nul>>])

----------------------------------------------------------------------------
(* The steps of SectionLayout, on the words. *)

FileInit ==
  /\ Init
  /\ \E f \in Files :
       /\ secs = f.image.secs /\ fileLen = f.image.fileLen /\ owner = f.image.owner
       /\ sizeOfImage = f.image.sizeOfImage /\ importDir = f.image.importDir
       /\ word = f.word
       /\ image = [imports |-> Range(f.imports), table |-> f.table]
  /\ bad = <<>> /\ section = <<>>

CanPatch(t) ==
  /\ Opens(fileLen) /\ ReadTable(fileLen) # {}
  /\ \A im \in Redirects(ReadImports(fileLen), t) : Polyfills(im) # {}

\* Open, the walk over the imports, and rebuildImports.
FilePlan(t) ==
  LET D == ReadImports(fileLen)
      found == Redirects(D, t)
  IN  /\ pc = "idle" /\ CanPatch(t)
      /\ bad' = [s \in {im.slot : im \in found} |->
                   CHOOSE a \in UNION {Polyfills(im) : im \in {x \in found : x.slot = s}} : TRUE]
      /\ word' = [b \in DOMAIN word |->
                    IF \E s \in DOMAIN bad' : FileOff(s) = b
                    THEN Num(bad'[CHOOSE s \in DOMAIN bad' : FileOff(s) = b])
                    ELSE word[b]]
      /\ section' = BuildSection(Pieces(D, DOMAIN bad'), PlannedSectionRVA)
      /\ Len(section') \in DataSizes
      /\ Plan(Len(section'))
      /\ UNCHANGED image

FileRefuse(t) == ~ CanPatch(t) /\ Refuse /\ UNCHANGED <<word, image, bad, section>>

FileAddSection ==
  /\ AddSection
  /\ word' = [b \in 0 .. fileLen' - 1 |->
                IF b = LastHdrEnd THEN Code
                ELSE IF b \in NewRaw .. NewRaw + data - 1 THEN section[b - NewRaw + 1]
                ELSE IF b < fileLen THEN word[b] ELSE Zero]
  /\ image' = [image EXCEPT !.imports = RebuildImports(@, DOMAIN bad)]
  /\ UNCHANGED <<bad, section>>

FileNoRoom == NoRoom /\ UNCHANGED <<word, image, bad, section>>

FileWrite == Write /\ UNCHANGED <<word, image, bad, section>>

FileNext == \/ \E t \in Targets : FilePlan(t) \/ FileRefuse(t)
            \/ FileAddSection \/ FileNoRoom \/ FileWrite

FileSpec == FileInit /\ [][FileNext]_fileVars

----------------------------------------------------------------------------
(* What a linker leaves in a file, of sections ss and words w. *)

Stored(ss, w, rva, x) ==
  \E i \in DOMAIN ss : /\ Backed(ss[i], rva) /\ Byte(ss[i], rva) \in DOMAIN w
                       /\ w[Byte(ss[i], rva)] = x

NameStored(ss, w, rva, s) ==
  \E i \in DOMAIN ss :
    LET o == Byte(ss[i], rva)
    IN  /\ Backed(ss[i], rva) /\ o \in DOMAIN w /\ w[o] = Text(s)
        /\ \E e \in DOMAIN w : o <= e /\ EndsText(w[e])

Numbers(w) == {v \in {w[b].num : b \in {c \in DOMAIN w : w[c].kind = "num"}} : v \in Nat}

SymbolWritten(ss, w, at, s) ==
  IF s \in Ordinals THEN Stored(ss, w, at, Ord(s))
  ELSE \E v \in Numbers(w) : /\ v # 0 /\ Stored(ss, w, at, Num(v))
                             /\ NameStored(ss, w, v + HintLen, s)

\* A descriptor, and the table of its names, which may be the slots themselves.
DescWritten(ss, w, at, d) ==
  \E oft \in Numbers(w) :
    /\ Stored(ss, w, at, Num(oft)) /\ Stored(ss, w, at + 2, Num(d.first))
    /\ \E name \in Numbers(w) : /\ Stored(ss, w, at + 1, Num(name))
                                /\ NameStored(ss, w, name, d.dll)
                                /\ oft # 0 \/ name # 0 \/ d.first # 0
    /\ LET table == IF oft = 0 THEN d.first ELSE oft
       IN  /\ Stored(ss, w, table + Len(d.names), Zero)
           /\ \A j \in DOMAIN d.names : SymbolWritten(ss, w, table + j - 1, d.names[j])

ImportsWritten(ss, w, dir, D) ==
  /\ \A i \in DOMAIN D : DescWritten(ss, w, dir + DescLen * (i - 1), D[i])
  /\ \A f \in 0 .. DescLen - 1 : Stored(ss, w, dir + DescLen * Len(D) + f, Zero)

\* Without a directory there is nothing to import.
ImportsStand(ss, w, dir, D) ==
  IF dir = 0 THEN D = <<>> ELSE ImportsWritten(ss, w, dir, D)

\* Every slot is a word that its section has in the file, where a linker leaves
\* what the loader binds.
SlotsOwned(f) ==
  \A slot \in SlotsOf(Range(f.imports)) :
    \E i \in DOMAIN f.image.secs :
      LET s == f.image.secs[i]
      IN  Backed(s, slot) /\ f.image.owner[Byte(s, slot)] = i

\* The file of x, as far as patches leave it alone: a word that belongs to
\* somebody and is no slot, the name at an address, and an address without one.
Settled(x, b) ==
  /\ b \in DOMAIN x.owner /\ x.owner[b] \in Nat
  /\ \A s \in x.slots : \A i \in DOMAIN x.secs :
       Within(x.secs[i], s) => Byte(x.secs[i], s) # b

NameSettled(x, rva, s) ==
  \E i \in DOMAIN x.secs :
    LET o == Byte(x.secs[i], rva)
    IN  /\ Backed(x.secs[i], rva) /\ Settled(x, o) /\ x.word[o] = Text(s)
        /\ \E e \in DOMAIN x.word : o <= e /\ Settled(x, e) /\ EndsText(x.word[e])

NothingAt(x, rva) ==
  \E i \in DOMAIN x.secs :
    LET o == Byte(x.secs[i], rva)
    IN  Backed(x.secs[i], rva) /\ Settled(x, o) /\ x.word[o] \in {Nul, Zero}

EntrySettled(x, at, e) ==
  /\ \A f \in 0 .. 1 : Value(x.word[at + f]) >= ImageBase
  /\ {e.dll, e.func} \cap {"", NoText} = {}
  /\ NameSettled(x, Value(x.word[at]) - ImageBase, e.dll)
  /\ NameSettled(x, Value(x.word[at + 1]) - ImageBase, e.func)
  /\ e = [dll |-> e.dll, func |-> e.func,
          polyfill |-> Value(x.word[at + 2]), own |-> Value(x.word[at + 3])]

TableAt(x, o, table) ==
  LET at(i) == o + MagicLen + EntryLen * (i - 1)
  IN  \E count \in Numbers(x.word) \ {0} :
        /\ x.word[o] = Magic /\ x.word[o + 1] = Num(Version) /\ x.word[o + 2] = Num(count)
        /\ \A b \in o .. at(count + 1) - 1 : Settled(x, b)
        /\ \A e \in table : \E i \in 1 .. count : EntrySettled(x, at(i), e)
        /\ \A i \in 1 .. count : \E e \in table : EntrySettled(x, at(i), e)

\* What tells a magic at o that is not the table's: its version, or a name that is
\* no address or empty.
Dismissed(x, o) ==
  \/ Settled(x, o + 1) /\ Value(x.word[o + 1]) # Version
  \/ \E b \in {o + MagicLen, o + MagicLen + 1} :
       /\ Settled(x, b)
       /\ \/ ~ (Value(x.word[b]) >= ImageBase)
          \/ NothingAt(x, Value(x.word[b]) - ImageBase)

\* The shim's table, or none; nothing before it can be taken for it.
TableWritten(x, table) ==
  IF table = {}
  THEN \A o \in DOMAIN x.word :
         x.word[o] = Magic => Dismissed(x, o) \/ o + MagicLen - 1 \notin DOMAIN x.word
  ELSE \E o \in DOMAIN x.word :
         /\ TableAt(x, o, table)
         /\ \A k \in 0 .. o - 1 : x.word[k] = Magic => Dismissed(x, k)

\* The shim imports calls of its own.  The table names their slots, which Redirects
\* spares; what it did not name the linker would not have kept.
OwnSlotNamed(imports, table) ==
  table # {} =>
    \E e \in table : \E s \in SlotsOf(imports) : e.own = ImageBase + s

Linked(f) == [secs |-> f.image.secs, owner |-> f.image.owner, word |-> f.word,
              slots |-> SlotsOf(Range(f.imports))]

ASSUME FilesAssumption ==
  \A f \in Files :
    /\ f.image \in Images /\ f.word = [b \in 0 .. f.image.fileLen - 1 |-> f.word[b]]
    /\ f.imports \in Seq(Descriptors) /\ SlotsOwned(f)
    /\ ImportsStand(f.image.secs, f.word, f.image.importDir, f.imports)
    /\ TableWritten(Linked(f), f.table) /\ OwnSlotNamed(Range(f.imports), f.table)

\* NoText is the name of nothing.
ASSUME NamesAssumption == NoText \notin Dlls \cup Symbols

----------------------------------------------------------------------------
(* Properties. *)

Complete == pc \in {"idle", "added"}

\* Read again, by verify, by the loader or by the next patch, a patched file has
\* the imports that RebuildImports, on which Patcher rests, takes it to have:
\* each surviving function under its own name at its own slot.
ImportsReadBack ==
  Complete /\ image.table # {} =>
    Opens(fileLen) /\ Range(ReadImports(fileLen)) = image.imports

\* The table that is read is the one the shim's linker left, whatever else in
\* the image looks like it, and however often the image was patched.
TableFound == Complete => ReadTable(fileLen) = image.table

\* What the loader maps at an address.
Mem(rva) ==
  LET s == secs[Least({i \in DOMAIN secs : rva \in secs[i].rva .. RvaEnd(secs[i]) - 1})]
  IN  IF rva - s.rva < s.rawsize THEN word[Byte(s, rva)] ELSE Zero

\* In the memory of the program a patch changes the redirected slots, which get
\* the polyfill, and not one word besides.
MemoryKept ==
  [][\A i \in DOMAIN secs : \A rva \in secs[i].rva .. secs[i].rva + secs[i].vsize - 1 :
       Mem(rva)' = IF rva \in DOMAIN bad' THEN Num(bad'[rva]) ELSE Mem(rva)]_fileVars

\* os.WriteFile may be cut short.  Open, and with it verify and the next patch,
\* refuses what is left, or it has lost padding alone and reads like the whole.
TornRefused ==
  pc = "added" =>
    \A n \in 0 .. fileLen - 1 :
      Opens(n) => /\ \A b \in n .. fileLen - 1 : owner[b] \in {Padding, Overlay}
                  /\ ReadImports(n) = ReadImports(fileLen)
                  /\ ReadTable(n) = ReadTable(fileLen)
=============================================================================
