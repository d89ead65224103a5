------------------------- MODULE SectionLayoutProofs -------------------------
(***************************************************************************)
(* For every alignment, every size of the added section and every good     *)
(* image: patched any number of times it stays loadable, its sections keep *)
(* their bytes, and the import table lies where it was planned; and so do  *)
(* the files of PatchedFile, whose words are modelled: there, a patched    *)
(* file is read again as what it stands for, imports and table, is refused *)
(* when anything of it is missing, and what the program finds in its       *)
(* memory stays.                                                           *)
(***************************************************************************)
EXTENDS PatchedFile, WellFoundedInduction, SequenceTheorems, TLAPS

(* Rounding up. *)

LEMMA AlignUpBounds ==
  ASSUME NEW v \in Nat, NEW a \in Nat \ {0}
  PROVE  AlignUp(v, a) \in Nat /\ v <= AlignUp(v, a) /\ AlignUp(v, a) % a = 0
<1>1. AlignUp(v, a) \in Nat /\ v <= AlignUp(v, a)
  BY Z3 DEF AlignUp
<1>2. AlignUp(v, a) % a = 0
  BY Z3 DEF AlignUp
<1> QED BY <1>1, <1>2

LEMMA Multiples ==
  ASSUME NEW v \in Nat, NEW a \in Nat \ {0}
  PROVE  v % a = 0 <=> \E k \in Nat : v = k * a
<1>1. ASSUME v % a = 0 PROVE \E k \in Nat : v = k * a
  <2>1. v \div a \in Nat /\ v = (v \div a) * a
    BY <1>1, Z3
  <2> QED BY <2>1
<1>2. ASSUME NEW k \in Nat, v = k * a PROVE v % a = 0
  BY <1>2, Z3
<1> QED BY <1>1, <1>2

\* A multiple of the alignment is left alone, and so is a sum of two.
LEMMA AlignUpKeeps ==
  ASSUME NEW v \in Nat, NEW w \in Nat, NEW a \in Nat \ {0}, v % a = 0, w % a = 0
  PROVE  AlignUp(v, a) = v /\ (v + w) % a = 0 /\ AlignUp(v + w, a) = v + w
<1>1. ASSUME NEW x \in Nat, x % a = 0 PROVE AlignUp(x, a) = x
  <2>1. PICK k \in Nat : x = k * a
    BY <1>1, Multiples
  <2>2. x + a - 1 = k * a + (a - 1) /\ a - 1 \in 0 .. (a - 1) /\ x + a - 1 \in Nat
    BY <2>1
  <2>3. (x + a - 1) \div a = k
    BY <2>2, Z3
  <2> QED BY <2>1, <2>3 DEF AlignUp
<1>2. (v + w) % a = 0
  <2>1. PICK k \in Nat : v = k * a
    BY Multiples
  <2>2. PICK l \in Nat : w = l * a
    BY Multiples
  <2>3. v + w = (k + l) * a
    BY <2>1, <2>2, Z3
  <2>4. k + l \in Nat /\ v + w \in Nat
    OBVIOUS
  <2> QED BY <2>3, <2>4, Multiples
<1> QED BY <1>1, <1>2

----------------------------------------------------------------------------
\* A bounded set of naturals has a greatest element.
LEMMA GreatestOfBounded ==
  ASSUME NEW S \in SUBSET Nat, S # {}, NEW n \in Nat, \A e \in S : e <= n
  PROVE  Greatest(S) \in S /\ \A e \in S : e <= Greatest(S)
<1> DEFINE R == {ss \in Nat \X Nat : ss[1] < ss[2]}
           T == {n - e : e \in S}
<1>1. IsWellFoundedOn(R, Nat)
  BY NatLessThanWellFounded, Zenon DEF OpToRel
<1>2. T \subseteq Nat /\ T # {}
  <2>1. \A e \in S : n - e \in Nat
    OBVIOUS
  <2>2. PICK e \in S : TRUE
    OBVIOUS
  <2>3. n - e \in T
    OBVIOUS
  <2> QED BY <2>1, <2>3
<1>3. \E x \in T : \A y \in T : <<y, x>> \notin R
  <2> HIDE DEF R, T
  <2> QED BY <1>1, <1>2, WFMin
<1>4. PICK x \in T : \A y \in T : <<y, x>> \notin R
  BY <1>3
<1>5. \A y \in T : x <= y
  <2> TAKE y \in T
  <2>1. x \in Nat /\ y \in Nat
    BY <1>2
  <2>2. <<y, x>> \notin R
    BY <1>4
  <2>3. ~ (y < x)
    BY <2>1, <2>2
  <2> QED BY <2>1, <2>3
<1>6. PICK m \in S : x = n - m
  OBVIOUS
<1>7. \A e \in S : e <= m
  <2> TAKE e \in S
  <2>1. n - e \in T
    OBVIOUS
  <2>2. x <= n - e
    BY <2>1, <1>5
  <2> QED BY <2>2, <1>6
<1> QED
  BY <1>6, <1>7 DEF Greatest

----------------------------------------------------------------------------
(* The inductive invariant: besides the properties, that units say who owns *)
(* them only where the owner is, and that some section has bytes at all.    *)

Inv == /\ TypeOK
       /\ ImageLoadable
       /\ SectionsIntact
       /\ OwnersRight(secs, owner)
       /\ SomeBytes(secs)
       /\ pc = "planned" => planned = PlannedSectionRVA /\ data > 0
       /\ ImportsWherePlanned

LEMMA SectionFacts ==
  ASSUME TypeOK, NEW i \in DOMAIN secs
  PROVE  /\ i \in 1 .. Len(secs) /\ Len(secs) \in Nat \ {0}
         /\ secs[i] \in Sections
         /\ secs[i].rva \in Nat /\ secs[i].vsize \in Nat
         /\ secs[i].raw \in Nat /\ secs[i].rawsize \in Nat
         /\ RvaEnd(secs[i]) \in Nat /\ secs[i].rva <= RvaEnd(secs[i])
         /\ RawEnd(secs[i]) \in Nat
<1>1. /\ i \in 1 .. Len(secs) /\ Len(secs) \in Nat \ {0} /\ secs[i] \in Sections
  BY DEF TypeOK
<1>2. /\ secs[i].rva \in Nat /\ secs[i].vsize \in Nat
      /\ secs[i].raw \in Nat /\ secs[i].rawsize \in Nat
  BY <1>1 DEF Sections
<1>3. AlignUp(secs[i].vsize, SectAlign) \in Nat
  BY <1>2, AlignUpBounds, AlignAssumption
<1> QED BY <1>1, <1>2, <1>3 DEF RvaEnd, RawEnd

\* AddSection puts the new section right behind the last one in the image.
LEMMA NewRVAFacts ==
  ASSUME Inv
  PROVE  /\ NewRVA \in Nat /\ NewRVA % SectAlign = 0
         /\ NewRVA = RvaEnd(secs[Len(secs)])
         /\ \A i \in DOMAIN secs : RvaEnd(secs[i]) <= NewRVA
<1> DEFINE last == Len(secs)
<1>1. last \in DOMAIN secs
  BY DEF Inv, TypeOK
<1>2. \A i \in DOMAIN secs : RvaEnd(secs[i]) \in Nat /\ RvaEnd(secs[i]) <= RvaEnd(secs[last])
  <2> TAKE i \in DOMAIN secs
  <2>1. CASE i = last
    BY <2>1, <1>1, SectionFacts DEF Inv
  <2>2. CASE i # last
    <3>1. i < last
      BY <2>2, SectionFacts DEF Inv
    <3>2. RvaEnd(secs[i]) <= secs[last].rva
      BY <3>1, <1>1 DEF Inv, ImageLoadable, AddressesDisjoint
    <3> QED BY <3>2, <1>1, SectionFacts DEF Inv
  <2> QED BY <2>1, <2>2
<1> HIDE DEF last
<1>3. RvaEnds \in SUBSET Nat /\ RvaEnds # {} /\ RvaEnd(secs[last]) \in RvaEnds
  BY <1>1, <1>2 DEF RvaEnds
<1>4. \A e \in RvaEnds : e <= RvaEnd(secs[last])
  BY <1>1, <1>2 DEF RvaEnds
<1>5. Greatest(RvaEnds) = RvaEnd(secs[last])
  <2>1. Greatest(RvaEnds) \in RvaEnds /\ \A e \in RvaEnds : e <= Greatest(RvaEnds)
    BY <1>1, <1>2, <1>3, <1>4, GreatestOfBounded
  <2>2. Greatest(RvaEnds) <= RvaEnd(secs[last]) /\ RvaEnd(secs[last]) <= Greatest(RvaEnds)
    BY <2>1, <1>3, <1>4
  <2>3. Greatest(RvaEnds) \in Nat /\ RvaEnd(secs[last]) \in Nat
    BY <2>1, <1>3
  <2> QED BY <2>2, <2>3
<1>6. RvaEnd(secs[last]) % SectAlign = 0 /\ AlignUp(RvaEnd(secs[last]), SectAlign) = RvaEnd(secs[last])
  <2>1. secs[last].rva \in Nat /\ secs[last].vsize \in Nat
    BY <1>1, SectionFacts DEF Inv
  <2>2. secs[last].rva % SectAlign = 0
    BY <1>1 DEF Inv, ImageLoadable, Loadable
  <2>3. /\ AlignUp(secs[last].vsize, SectAlign) \in Nat
        /\ AlignUp(secs[last].vsize, SectAlign) % SectAlign = 0
    BY <2>1, AlignUpBounds, AlignAssumption
  <2> QED BY <2>1, <2>2, <2>3, AlignUpKeeps, AlignAssumption DEF RvaEnd
<1>7. NewRVA = RvaEnd(secs[last])
  BY <1>5, <1>6 DEF NewRVA
<1> QED
  BY <1>1, <1>2, <1>6, <1>7 DEF last

\* No section is laid at address 0, which stands for no import directory.
LEMMA NewRVAPositive ==
  ASSUME Inv
  PROVE  NewRVA # 0
<1> DEFINE last == Len(secs)
<1>1. last \in DOMAIN secs
  BY DEF Inv, TypeOK
<1>2. secs[last].rva \in Nat /\ secs[last].vsize \in Nat /\ secs[last].vsize > 0
  BY <1>1, SectionFacts DEF Inv, ImageLoadable, Loadable
<1> DEFINE aligned == AlignUp(secs[last].vsize, SectAlign)
<1>3. aligned \in Nat /\ secs[last].vsize <= aligned
  BY <1>2, AlignUpBounds, AlignAssumption
<1>4. RvaEnd(secs[last]) > 0
  <2>1. RvaEnd(secs[last]) = secs[last].rva + aligned
    BY DEF RvaEnd
  <2> HIDE DEF aligned
  <2> QED BY <1>2, <1>3, <2>1
<1> QED BY <1>4, NewRVAFacts

\* In the file it stands behind the end of every other, with room for its header.
LEMMA NewRawFacts ==
  ASSUME Inv, Room
  PROVE  /\ NewRaw \in Nat
         /\ \A i \in DOMAIN secs : RawEnd(secs[i]) <= NewRaw
         /\ \A i \in DOMAIN secs : secs[i].rawsize > 0 => LastHdrEnd < secs[i].raw
         /\ LastHdrEnd \in Nat /\ LastHdrEnd < NewRaw /\ LastHdrEnd < fileLen
<1>1. \A i \in DOMAIN secs : RawEnd(secs[i]) \in Nat /\ RawEnd(secs[i]) <= fileLen
  BY SectionFacts DEF Inv, TypeOK
<1>2. RawEnds \in SUBSET Nat /\ RawEnds # {} /\ \A e \in RawEnds : e <= fileLen
  BY <1>1 DEF RawEnds, Inv, TypeOK
<1>3. fileLen \in Nat
  BY DEF Inv, TypeOK
<1>4. Greatest(RawEnds) \in RawEnds /\ \A e \in RawEnds : e <= Greatest(RawEnds)
  BY <1>2, <1>3, GreatestOfBounded
<1>5. Greatest(RawEnds) \in Nat
  BY <1>2, <1>4
<1>6. NewRaw \in Nat /\ Greatest(RawEnds) <= NewRaw
  BY <1>5, AlignUpBounds, AlignAssumption DEF NewRaw
<1>7. \A i \in DOMAIN secs : RawEnd(secs[i]) <= NewRaw
  <2> TAKE i \in DOMAIN secs
  <2>1. RawEnd(secs[i]) \in RawEnds
    BY DEF RawEnds
  <2> QED BY <2>1, <1>1, <1>4, <1>5, <1>6
<1>8. LastHdrEnd \in Nat
  BY AlignAssumption DEF LastHdrEnd, Inv, TypeOK
<1>9. \A i \in DOMAIN secs : secs[i].rawsize > 0 => LastHdrEnd < secs[i].raw
  BY <1>8, SectionFacts DEF Inv, Room
<1>10. PICK i \in DOMAIN secs : secs[i].rawsize > 0
  BY DEF Inv, SomeBytes
<1>11. LastHdrEnd < RawEnd(secs[i])
  BY <1>8, <1>9, <1>10, SectionFacts DEF Inv, RawEnd
<1> QED
  BY <1>1, <1>3, <1>6, <1>7, <1>8, <1>9, <1>11

\* A unit that has an owner lies before the new header or before the new
\* section, and is not the new header's.
LEMMA OwnedUnits ==
  ASSUME Inv, Room, NEW b \in DOMAIN owner, owner[b] \in Nat
  PROVE  b \in Nat /\ b # LastHdrEnd /\ b < NewRaw
<1>0. b \in Nat
  BY DEF Inv, TypeOK
<1>1. CASE owner[b] = Header
  <2>1. b < LastHdrEnd
    BY <1>1 DEF Inv, OwnersRight, LastHdrEnd
  <2> QED BY <1>0, <2>1, NewRawFacts
<1>2. CASE owner[b] # Header
  <2> DEFINE i == owner[b]
  <2>1. i \in DOMAIN secs /\ b \in Extent(secs[i])
    BY <1>2 DEF Inv, OwnersRight
  <2> HIDE DEF i
  <2>2. secs[i].raw <= b /\ b < RawEnd(secs[i]) /\ secs[i].rawsize > 0
    BY <2>1, <1>0, SectionFacts DEF Inv, Extent, RawEnd
  <2>3. LastHdrEnd < b
    BY <2>1, <2>2, <1>0, NewRawFacts, SectionFacts DEF Inv
  <2> QED BY <1>0, <2>1, <2>2, <2>3, NewRawFacts, SectionFacts DEF Inv
<1> QED BY <1>1, <1>2

\* What AddSection leaves behind.
LEMMA AddedFacts ==
  ASSUME Inv, AddSection
  PROVE  /\ LastHdrEnd' = LastHdrEnd + 1
         /\ fileLen' \in Nat /\ fileLen <= fileLen' /\ EndOfSection <= fileLen'
         /\ EndOfSection = NewRaw + AlignUp(data, FileAlign)
         /\ data \in Nat \ {0} /\ data <= AlignUp(data, FileAlign)
         /\ AlignUp(data, FileAlign) \in Nat
         /\ secs' \in Seq(Sections) /\ Len(secs') = Len(secs) + 1
         /\ DOMAIN secs' = 1 .. Len(secs) + 1 /\ DOMAIN secs = 1 .. Len(secs)
         /\ \A i \in DOMAIN secs : secs'[i] = secs[i]
         /\ secs'[Len(secs) + 1] =
              [rva |-> NewRVA, vsize |-> data, raw |-> NewRaw,
               rawsize |-> AlignUp(data, FileAlign)]
<1> DEFINE new == [rva |-> NewRVA, vsize |-> data, raw |-> NewRaw,
                   rawsize |-> AlignUp(data, FileAlign)]
<1>1. data \in Nat \ {0} /\ data <= AlignUp(data, FileAlign) /\ AlignUp(data, FileAlign) \in Nat
  <2>1. data \in Nat \ {0}
    BY DEF Inv, TypeOK, AddSection
  <2> QED BY <2>1, AlignUpBounds, AlignAssumption
<1>2. new \in Sections
  BY <1>1, NewRVAFacts, NewRawFacts DEF Sections, AddSection
<1>3. secs \in Seq(Sections) /\ secs' = Append(secs, new)
  BY DEF Inv, TypeOK, AddSection
<1> HIDE DEF new
<1>4. /\ secs' \in Seq(Sections) /\ Len(secs') = Len(secs) + 1 /\ Len(secs) \in Nat
      /\ \A i \in 1 .. Len(secs) : secs'[i] = secs[i]
      /\ secs'[Len(secs) + 1] = new
  BY <1>2, <1>3
<1>5. DOMAIN secs' = 1 .. Len(secs) + 1 /\ DOMAIN secs = 1 .. Len(secs)
  BY <1>3, <1>4
<1>6. LastHdrEnd' = LastHdrEnd + 1
  BY <1>4, AlignAssumption DEF LastHdrEnd
<1>7. fileLen' \in Nat /\ fileLen <= fileLen' /\ EndOfSection <= fileLen'
  <2>1. EndOfSection \in Nat /\ fileLen \in Nat
    BY <1>1, NewRawFacts DEF EndOfSection, Inv, TypeOK, AddSection
  <2> QED BY <2>1 DEF AddSection
<1> QED
  BY <1>1, <1>4, <1>5, <1>6, <1>7 DEF EndOfSection, new

LEMMA OwnerAfter ==
  ASSUME Inv, AddSection, NEW b \in 0 .. fileLen' - 1
  PROVE  /\ b \in DOMAIN owner'
         /\ b = LastHdrEnd => owner'[b] = Header
         /\ b # LastHdrEnd /\ NewRaw <= b /\ b < NewRaw + data =>
              owner'[b] = Len(secs) + 1
         /\ b # LastHdrEnd /\ ~ (NewRaw <= b /\ b < NewRaw + data) =>
              owner'[b] = IF b < fileLen THEN owner[b] ELSE Padding
<1>1. NewRaw \in Nat /\ data \in Nat /\ b \in Nat
  BY NewRawFacts, AddedFacts DEF AddSection
<1>2. b \in NewRaw .. NewRaw + data - 1 <=> NewRaw <= b /\ b < NewRaw + data
  BY <1>1
<1> QED BY <1>1, <1>2 DEF AddSection

LEMMA AddedTypes ==
  ASSUME Inv, AddSection
  PROVE  TypeOK'
<1>1. secs' \in Seq(Sections) /\ secs' # <<>>
  BY AddedFacts DEF Inv, TypeOK
<1>2. fileLen' \in Nat
  BY AddedFacts
<1>3. owner' \in [0 .. fileLen' - 1 -> Owners]
  <2>1. \A b \in 0 .. fileLen' - 1 : owner'[b] \in Owners
    <3> TAKE b \in 0 .. fileLen' - 1
    <3>1. b < fileLen => owner[b] \in Owners
      BY <1>2 DEF Inv, TypeOK
    <3>2. Header \in Owners /\ Padding \in Owners /\ Len(secs) + 1 \in Owners
      BY DEF Owners, Header, Padding, Inv, TypeOK
    <3> QED BY <3>1, <3>2, OwnerAfter
  <2>2. owner' = [b \in 0 .. fileLen' - 1 |-> owner'[b]]
    BY DEF AddSection
  <2> QED BY <2>1, <2>2
<1>4. \A i \in DOMAIN secs' : RawEnd(secs'[i]) <= fileLen'
  <2> TAKE i \in DOMAIN secs'
  <2>1. CASE i \in DOMAIN secs
    <3>1. RawEnd(secs[i]) <= fileLen /\ RawEnd(secs[i]) \in Nat /\ fileLen \in Nat
      BY <2>1, SectionFacts DEF Inv, TypeOK
    <3>2. secs'[i] = secs[i]
      BY <2>1, AddedFacts
    <3> QED BY <3>1, <3>2, AddedFacts
  <2>2. CASE i = Len(secs) + 1
    <3>1. RawEnd(secs'[i]) = EndOfSection
      BY <2>2, AddedFacts DEF RawEnd
    <3> QED BY <3>1, AddedFacts
  <2> QED BY <2>1, <2>2, AddedFacts
<1>5. sizeOfImage' \in Nat
  <2>1. NewRVA \in Nat /\ data \in Nat
    BY NewRVAFacts, AddedFacts
  <2>2. AlignUp(data, SectAlign) \in Nat
    BY <2>1, AlignUpBounds, AlignAssumption
  <2>3. NewRVA + AlignUp(data, SectAlign) \in Nat
    BY <2>1, <2>2
  <2> QED BY <2>3, AlignUpBounds, AlignAssumption DEF AddSection
<1>6. pc' = "added" /\ data' \in Nat /\ planned' \in Nat /\ importDir' \in Nat
  BY NewRVAFacts DEF AddSection, Inv, TypeOK
<1> QED
  BY <1>1, <1>2, <1>3, <1>4, <1>5, <1>6 DEF TypeOK

LEMMA AddedLoadable ==
  ASSUME Inv, AddSection
  PROVE  ImageLoadable'
<1> DEFINE n == Len(secs)
<1>1. /\ n \in Nat \ {0} /\ Len(secs') = n + 1 /\ DOMAIN secs' = 1 .. n + 1 /\ DOMAIN secs = 1 .. n
      /\ \A i \in 1 .. n : secs'[i] = secs[i]
      /\ secs'[n + 1].rva = NewRVA /\ secs'[n + 1].vsize = data
  BY AddedFacts DEF Inv, TypeOK
<1>2. NewRVA \in Nat /\ NewRVA % SectAlign = 0 /\ NewRVA = RvaEnd(secs[n])
  BY NewRVAFacts
<1> HIDE DEF n
<1>3. RvaEnd(secs'[n + 1]) = NewRVA + AlignUp(data, SectAlign)
  BY <1>1 DEF RvaEnd
<1>4. \A i \in DOMAIN secs' : secs'[i].rva % SectAlign = 0 /\ secs'[i].vsize > 0
  <2> TAKE i \in DOMAIN secs'
  <2>1. CASE i \in 1 .. n
    BY <2>1, <1>1 DEF Inv, ImageLoadable, Loadable
  <2>2. CASE i = n + 1
    BY <2>2, <1>1, <1>2, AddedFacts
  <2> QED BY <2>1, <2>2, <1>1
<1>5. \A i \in DOMAIN secs' : i + 1 \in DOMAIN secs' => secs'[i + 1].rva = RvaEnd(secs'[i])
  <2> SUFFICES ASSUME NEW i \in 1 .. n PROVE secs'[i + 1].rva = RvaEnd(secs'[i])
    BY <1>1
  <2>1. CASE i = n
    BY <2>1, <1>1, <1>2
  <2>2. CASE i # n
    <3>1. i + 1 \in 1 .. n
      BY <2>2, <1>1
    <3>2. secs[i + 1].rva = RvaEnd(secs[i])
      BY <3>1, <1>1 DEF Inv, ImageLoadable, Loadable
    <3> QED BY <3>1, <3>2, <1>1
  <2> QED BY <2>1, <2>2
<1>6. sizeOfImage' = RvaEnd(secs'[Len(secs')])
  <2>1. data \in Nat /\ AlignUp(data, SectAlign) \in Nat /\ AlignUp(data, SectAlign) % SectAlign = 0
    BY AddedFacts, AlignUpBounds, AlignAssumption
  <2>2. AlignUp(NewRVA + AlignUp(data, SectAlign), SectAlign) = NewRVA + AlignUp(data, SectAlign)
    BY <2>1, <1>2, AlignUpKeeps, AlignAssumption
  <2> QED BY <2>2, <1>1, <1>3 DEF AddSection
<1>7. AddressesDisjoint(secs')
  <2> SUFFICES ASSUME NEW i \in 1 .. n + 1, NEW j \in 1 .. n + 1, i < j
               PROVE  RvaEnd(secs'[i]) <= secs'[j].rva
    BY <1>1 DEF AddressesDisjoint
  <2>1. i \in 1 .. n
    BY <1>1
  <2>2. CASE j \in 1 .. n
    BY <2>1, <2>2, <1>1 DEF Inv, ImageLoadable, AddressesDisjoint
  <2>3. CASE j = n + 1
    BY <2>1, <2>3, <1>1, NewRVAFacts
  <2> QED BY <2>2, <2>3, <1>1
<1> QED
  BY <1>4, <1>5, <1>6, <1>7 DEF ImageLoadable, Loadable

LEMMA AddedOwners ==
  ASSUME Inv, AddSection
  PROVE  SectionsIntact' /\ OwnersRight(secs, owner)' /\ SomeBytes(secs)'
<1> DEFINE n == Len(secs)
<1>0. PICK m \in Nat : m = fileLen'
  BY AddedFacts
<1>1. /\ n \in Nat \ {0} /\ Len(secs') = n + 1 /\ DOMAIN secs' = 1 .. n + 1 /\ DOMAIN secs = 1 .. n
      /\ \A i \in 1 .. n : secs'[i] = secs[i]
      /\ secs'[n + 1].raw = NewRaw /\ secs'[n + 1].rawsize = AlignUp(data, FileAlign)
  BY AddedFacts DEF Inv, TypeOK
<1>2. Room /\ DOMAIN owner = 0 .. fileLen - 1 /\ DOMAIN owner' = 0 .. m - 1
  BY <1>0 DEF AddSection, Inv, TypeOK
<1>3. /\ fileLen \in Nat /\ fileLen <= m
      /\ NewRaw \in Nat /\ LastHdrEnd \in Nat /\ LastHdrEnd < NewRaw /\ LastHdrEnd < fileLen
      /\ data \in Nat \ {0} /\ data <= AlignUp(data, FileAlign)
      /\ AlignUp(data, FileAlign) \in Nat /\ NewRaw + AlignUp(data, FileAlign) <= m
      /\ LastHdrEnd = FirstSectOff + n /\ FirstSectOff \in Nat
  BY <1>0, <1>2, AddedFacts, NewRawFacts, AlignAssumption DEF Inv, TypeOK, LastHdrEnd, EndOfSection
<1> HIDE DEF n
<1>4. \A b \in Extent(secs'[n + 1]) :
        b \in 0 .. m - 1 /\ b # LastHdrEnd /\ NewRaw <= b
  BY <1>1, <1>3 DEF Extent, RawEnd
<1>4a. \A b \in Nat : NewRaw <= b /\ b < NewRaw + data => b \in Extent(secs'[n + 1])
  BY <1>1, <1>3 DEF Extent, RawEnd
<1>5. ASSUME NEW b \in 0 .. fileLen - 1, owner[b] \in Nat
      PROVE  b # LastHdrEnd /\ b < NewRaw /\ owner'[b] = owner[b]
  <2>1. b # LastHdrEnd /\ b < NewRaw
    BY <1>2, <1>5, OwnedUnits
  <2>2. b \in 0 .. m - 1 /\ b < fileLen /\ ~ (NewRaw <= b)
    BY <2>1, <1>3
  <2> QED BY <2>1, <2>2, <1>0, OwnerAfter
<1>6. OwnBytes(secs', owner')
  <2> SUFFICES ASSUME NEW i \in 1 .. n + 1, NEW b \in Extent(secs'[i])
               PROVE  b \in DOMAIN owner' /\ owner'[b] \in {i, Padding, Overlay}
    BY <1>1 DEF OwnBytes
  <2>1. CASE i \in 1 .. n
    <3>1. b \in Extent(secs[i])
      BY <2>1, <1>1
    <3>2. b \in 0 .. fileLen - 1 /\ owner[b] \in {i, Padding, Overlay}
      BY <3>1, <2>1, <1>1, <1>2 DEF Inv, SectionsIntact, OwnBytes
    <3>3. /\ secs[i].raw <= b /\ b < RawEnd(secs[i]) /\ secs[i].rawsize > 0
          /\ secs[i].raw \in Nat /\ RawEnd(secs[i]) \in Nat
      BY <3>1, <3>2, <2>1, <1>1, SectionFacts DEF Inv, Extent, RawEnd
    <3>4. LastHdrEnd < secs[i].raw /\ RawEnd(secs[i]) <= NewRaw
      BY <3>3, <2>1, <1>1, <1>2, NewRawFacts
    <3>5. b \in 0 .. m - 1 /\ b # LastHdrEnd /\ b < fileLen /\ ~ (NewRaw <= b)
      BY <3>2, <3>3, <3>4, <1>3
    <3> QED BY <3>2, <3>5, <1>2, <1>0, OwnerAfter
  <2>2. CASE i = n + 1
    <3>2. b \in 0 .. m - 1 /\ b # LastHdrEnd /\ NewRaw <= b
      BY <2>2, <1>4
    <3>3. b < NewRaw + data => owner'[b] = n + 1
      BY <3>2, <1>0, OwnerAfter DEF n
    <3>4. ~ (b < NewRaw + data) => owner'[b] \in {Padding, Overlay}
      <4>1. CASE b < fileLen
        <5>1. owner[b] \notin Nat
          BY <4>1, <3>2, <1>3, <1>5
        <5>2. owner[b] \in Owners
          BY <4>1, <3>2, <1>3 DEF Inv, TypeOK
        <5> QED BY <5>1, <5>2, <4>1, <3>2, <1>0, OwnerAfter DEF Owners
      <4>2. CASE ~ (b < fileLen)
        BY <4>2, <3>2, <1>0, OwnerAfter
      <4> QED BY <4>1, <4>2
    <3>5. b \in DOMAIN owner'
      BY <3>2, <1>2
    <3>6. owner'[b] \in {n + 1, Padding, Overlay}
      BY <3>3, <3>4
    <3> QED BY <3>5, <3>6, <2>2
  <2>3. i \in 1 .. n \/ i = n + 1
    BY <1>1
  <2> QED BY <2>1, <2>2, <2>3
<1>7. HeadersThere(secs', owner')
  <2> SUFFICES ASSUME NEW b \in 0 .. FirstSectOff + (n + 1) - 1
               PROVE  b \in DOMAIN owner' /\ owner'[b] = Header
    BY <1>1 DEF HeadersThere
  <2>1. CASE b = LastHdrEnd
    <3>1. b \in 0 .. m - 1
      BY <2>1, <1>3
    <3> QED BY <2>1, <3>1, <1>2, <1>0, OwnerAfter
  <2>2. CASE b # LastHdrEnd
    <3>1. b \in 0 .. FirstSectOff + n - 1
      BY <2>2, <1>3, <1>1
    <3>2. b \in 0 .. fileLen - 1 /\ owner[b] = Header
      BY <3>1, <1>2 DEF n, Inv, SectionsIntact, HeadersThere
    <3>3. owner[b] \in Nat
      BY <3>2 DEF Header
    <3>4. b \in 0 .. m - 1
      BY <3>2, <1>3
    <3> QED BY <3>2, <3>3, <3>4, <1>2, <1>5
  <2> QED BY <2>1, <2>2
<1>8. OwnersRight(secs', owner')
  <2> SUFFICES ASSUME NEW b \in 0 .. m - 1
               PROVE  /\ owner'[b] = Header => b < FirstSectOff + (n + 1)
                      /\ owner'[b] \in Nat \ {Header} =>
                           owner'[b] \in DOMAIN secs' /\ b \in Extent(secs'[owner'[b]])
    BY <1>1, <1>2 DEF OwnersRight
  <2>1. CASE b = LastHdrEnd
    <3>1. owner'[b] = Header
      BY <2>1, <1>0, OwnerAfter
    <3>2. b < FirstSectOff + (n + 1)
      BY <2>1, <1>1, <1>3
    <3> QED BY <3>1, <3>2
  <2>2. CASE b # LastHdrEnd /\ NewRaw <= b /\ b < NewRaw + data
    <3>1. owner'[b] = n + 1
      BY <2>2, <1>0, OwnerAfter DEF n
    <3>2. b \in Extent(secs'[n + 1])
      BY <2>2, <1>3, <1>4a
    <3>3. n + 1 # Header
      BY <1>1 DEF Header
    <3> QED BY <3>1, <3>2, <3>3, <1>1
  <2>3. CASE b # LastHdrEnd /\ ~ (NewRaw <= b /\ b < NewRaw + data)
    <3>1. CASE b < fileLen
      <4>1. owner'[b] = owner[b] /\ b \in DOMAIN owner
        <5>1. owner'[b] = owner[b]
          BY <2>3, <3>1, <1>0, OwnerAfter
        <5>2. b \in DOMAIN owner
          BY <3>1, <1>2, <1>3
        <5> QED BY <5>1, <5>2
      <4>2. owner[b] = Header => b < FirstSectOff + n
        BY <4>1 DEF n, Inv, OwnersRight
      <4>3. owner[b] \in Nat \ {Header} => owner[b] \in 1 .. n /\ b \in Extent(secs[owner[b]])
        BY <4>1, <1>1 DEF Inv, OwnersRight
      <4> QED BY <4>1, <4>2, <4>3, <1>1, <1>3
    <3>2. CASE ~ (b < fileLen)
      <4>1. owner'[b] = Padding
        BY <2>3, <3>2, <1>0, OwnerAfter
      <4> QED BY <4>1 DEF Padding, Header
    <3> QED BY <3>1, <3>2
  <2> QED BY <2>1, <2>2, <2>3
<1>9. SomeBytes(secs')
  BY <1>1 DEF Inv, SomeBytes
<1> QED
  BY <1>6, <1>7, <1>8, <1>9 DEF SectionsIntact

----------------------------------------------------------------------------
LEMMA InitInv == Init => Inv
<1> SUFFICES ASSUME Init PROVE Inv
  OBVIOUS
<1>1. PICK img \in Images : /\ secs = img.secs /\ sizeOfImage = img.sizeOfImage
                            /\ fileLen = img.fileLen /\ owner = img.owner
                            /\ importDir = img.importDir
  BY DEF Init
<1>2. GoodImage(img)
  BY ImagesAssumption
<1>3. secs \in Seq(Sections) /\ SomeBytes(secs) /\ secs # <<>>
  BY <1>1, <1>2 DEF GoodImage, SomeBytes
<1>4. TypeOK
  BY <1>1, <1>2, <1>3 DEF GoodImage, Init, TypeOK
<1> QED
  BY <1>1, <1>2, <1>3, <1>4
     DEF GoodImage, Init, Inv, ImageLoadable, SectionsIntact, ImportsWherePlanned

LEMMA NextInv == Inv /\ [Next]_vars => Inv'
<1> SUFFICES ASSUME Inv, [Next]_vars PROVE Inv'
  OBVIOUS
<1>1. ASSUME NEW n \in DataSizes, Plan(n) PROVE Inv'
  <2>1. n \in Nat \ {0}
    BY AlignAssumption
  <2>2. PlannedSectionRVA = NewRVA
    BY DEF PlannedSectionRVA, NewRVA, RvaEnds, RvaEnd
  <2>3. PlannedSectionRVA \in Nat /\ PlannedSectionRVA' = PlannedSectionRVA
    BY <1>1, <2>2, NewRVAFacts DEF Plan, PlannedSectionRVA
  <2>4. /\ UNCHANGED <<secs, fileLen, owner, sizeOfImage, importDir>>
        /\ pc' = "planned" /\ data' = n /\ planned' = PlannedSectionRVA
    BY <1>1 DEF Plan
  <2>5. TypeOK'
    BY <2>1, <2>3, <2>4 DEF Inv, TypeOK
  <2> QED
    BY <2>1, <2>3, <2>4, <2>5
       DEF Inv, ImageLoadable, SectionsIntact, ImportsWherePlanned
<1>2. CASE AddSection
  <2>1. ImportsWherePlanned' /\ pc' = "added"
    <3>1. PlannedSectionRVA = NewRVA
      BY DEF PlannedSectionRVA, NewRVA, RvaEnds, RvaEnd
    <3> QED BY <1>2, <3>1 DEF AddSection, Inv, ImportsWherePlanned
  <2> QED
    BY <1>2, <2>1, AddedTypes, AddedLoadable, AddedOwners DEF Inv
<1>3. CASE Refuse \/ NoRoom \/ Write
  <2>1. /\ UNCHANGED <<secs, fileLen, owner, sizeOfImage, data, planned, importDir>>
        /\ pc' \in {"refused", "idle"}
    BY <1>3 DEF Refuse, NoRoom, Write
  <2>2. TypeOK'
    BY <2>1 DEF Inv, TypeOK
  <2> QED
    BY <2>1, <2>2 DEF Inv, ImageLoadable, SectionsIntact, ImportsWherePlanned
<1>4. CASE UNCHANGED vars
  <2>1. TypeOK'
    BY <1>4 DEF vars, Inv, TypeOK
  <2>2. PlannedSectionRVA' = PlannedSectionRVA
    BY <1>4 DEF vars, PlannedSectionRVA
  <2> QED
    BY <1>4, <2>1, <2>2 DEF vars, Inv, ImageLoadable, SectionsIntact, ImportsWherePlanned
<1> QED
  BY <1>1, <1>2, <1>3, <1>4 DEF Next

\* The type invariant: no section ends behind the end of the file.
THEOREM LayoutTypeCorrect == Spec => []TypeOK
<1>1. Inv => TypeOK
  BY DEF Inv
<1> QED BY InitInv, NextInv, <1>1, PTL DEF Spec

\* A patched image has its sections end to end, whatever the alignments.
THEOREM ImageLoadableAlways == Spec => []ImageLoadable
<1>1. Inv => ImageLoadable
  BY DEF Inv
<1> QED BY InitInv, NextInv, <1>1, PTL DEF Spec

\* Every section has its bytes and every header is there.
THEOREM SectionsIntactAlways == Spec => []SectionsIntact
<1>1. Inv => SectionsIntact
  BY DEF Inv
<1> QED BY InitInv, NextInv, <1>1, PTL DEF Spec

\* The patcher's forecast of the place is AddSection's choice.
THEOREM ImportsWherePlannedAlways == Spec => []ImportsWherePlanned
<1>1. Inv => ImportsWherePlanned
  BY DEF Inv
<1> QED BY InitInv, NextInv, <1>1, PTL DEF Spec

\* No patch writes to a byte that belongs to somebody.
THEOREM NothingOverwrittenAlways == Spec => NothingOverwritten
<1>1. ASSUME Inv, [Next]_vars
      PROVE  \A b \in DOMAIN owner : owner[b] \in Nat => owner'[b] = owner[b]
  <2> SUFFICES ASSUME NEW b \in DOMAIN owner, owner[b] \in Nat
               PROVE  owner'[b] = owner[b]
    OBVIOUS
  <2>1. CASE AddSection
    <3>1. b \in Nat /\ b # LastHdrEnd /\ b < NewRaw
      BY <1>1, <2>1, OwnedUnits DEF AddSection
    <3>2. PICK m \in Nat : m = fileLen'
      BY <1>1, <2>1, AddedFacts
    <3>3. fileLen \in Nat /\ fileLen <= m /\ NewRaw \in Nat /\ b \in 0 .. fileLen - 1
      BY <1>1, <2>1, <3>2, AddedFacts, NewRawFacts DEF AddSection, Inv, TypeOK
    <3>4. b \in 0 .. m - 1 /\ b < fileLen /\ ~ (NewRaw <= b)
      BY <3>1, <3>3
    <3> QED BY <1>1, <2>1, <3>1, <3>2, <3>4, OwnerAfter
  <2>2. CASE ~ AddSection
    BY <1>1, <2>2 DEF Next, Refuse, Plan, NoRoom, Write, vars
  <2> QED BY <2>1, <2>2
<1>2. Inv /\ [Next]_vars =>
        [\A b \in DOMAIN owner : owner[b] \in Nat => owner'[b] = owner[b]]_vars
  BY <1>1
<1>3. Spec => []Inv
  BY InitInv, NextInv, PTL DEF Spec
<1> QED
  BY <1>2, <1>3, PTL DEF Spec, NothingOverwritten

----------------------------------------------------------------------------
(* PatchedFile implements SectionLayout: what is proved of the sections    *)
(* holds of the files whose words are modelled too.                        *)

LEMMA InitLayout == FileInit => Init
BY DEF FileInit

LEMMA StepLayout == [FileNext]_fileVars => [Next]_vars
<1> SUFFICES ASSUME [FileNext]_fileVars PROVE [Next]_vars
  OBVIOUS
<1>1. ASSUME NEW t \in Targets, FilePlan(t) PROVE Next
  <2>1. Len(section') \in DataSizes /\ Plan(Len(section'))
    BY <1>1 DEF FilePlan
  <2> QED BY <2>1 DEF Next
<1>2. ASSUME NEW t \in Targets, FileRefuse(t) PROVE Next
  BY <1>2 DEF FileRefuse, Next
<1>3. CASE FileAddSection
  BY <1>3 DEF FileAddSection, Next
<1>4. CASE FileNoRoom
  BY <1>4 DEF FileNoRoom, Next
<1>5. CASE FileWrite
  BY <1>5 DEF FileWrite, Next
<1>6. CASE UNCHANGED fileVars
  BY <1>6 DEF fileVars
<1> QED BY <1>1, <1>2, <1>3, <1>4, <1>5, <1>6 DEF FileNext

\* Every behaviour of the files is one of the layout: Patch on real words, with
\* its refusals, takes the steps of AddSection and its forecast and no others.
THEOREM FileImplementsLayout == FileSpec => Spec
BY InitLayout, StepLayout, PTL DEF FileSpec, Spec

\* The sections of the files keep their bytes and their headers, end to end.
THEOREM FileSectionsIntact == FileSpec => [](ImageLoadable /\ SectionsIntact)
BY FileImplementsLayout, ImageLoadableAlways, SectionsIntactAlways, PTL

\* The import section of a file is read at the RVA it was built for.
THEOREM FileImportsWherePlanned == FileSpec => []ImportsWherePlanned
BY FileImplementsLayout, ImportsWherePlannedAlways, PTL

----------------------------------------------------------------------------
(* The memory of the program. *)

\* A word of some section that the file has and nobody else's.
Owned(rva) == \E i \in DOMAIN secs : /\ Backed(secs[i], rva)
                                     /\ owner[Byte(secs[i], rva)] = i

\* What is mapped at an address, of any sections and words.
MemOf(ss, w, rva) ==
  LET s == ss[Least({i \in DOMAIN ss : rva \in ss[i].rva .. RvaEnd(ss[i]) - 1})]
  IN  IF rva - s.rva < s.rawsize THEN w[Byte(s, rva)] ELSE Zero

LEMMA MemIsMemOf ==
  ASSUME NEW rva
  PROVE  Mem(rva) = MemOf(secs, word, rva) /\ Mem(rva)' = MemOf(secs', word', rva)
BY DEF Mem, MemOf, Byte

\* An address lies in one section.
LEMMA OneHolder ==
  ASSUME NEW ss \in Seq(Sections), AddressesDisjoint(ss),
         NEW i \in DOMAIN ss, NEW rva, Within(ss[i], rva)
  PROVE  /\ Least({k \in DOMAIN ss : rva \in ss[k].rva .. RvaEnd(ss[k]) - 1}) = i
         /\ \A k \in DOMAIN ss : Within(ss[k], rva) => k = i
<1> DEFINE hit == {k \in DOMAIN ss : rva \in ss[k].rva .. RvaEnd(ss[k]) - 1}
<1>1. \A k \in DOMAIN ss : /\ ss[k].rva \in Nat /\ ss[k].vsize \in Nat
                           /\ k \in Nat /\ RvaEnd(ss[k]) \in Nat
                           /\ ss[k].rva + ss[k].vsize <= RvaEnd(ss[k])
  <2> TAKE k \in DOMAIN ss
  <2>0. k \in Nat /\ ss[k] \in Sections
    OBVIOUS
  <2>1. k \in Nat /\ ss[k].rva \in Nat /\ ss[k].vsize \in Nat
    BY <2>0 DEF Sections
  <2>2. /\ AlignUp(ss[k].vsize, SectAlign) \in Nat
        /\ ss[k].vsize <= AlignUp(ss[k].vsize, SectAlign)
    BY <2>1, AlignUpBounds, AlignAssumption
  <2> QED BY <2>1, <2>2 DEF RvaEnd
<1>2. rva \in Nat /\ ss[i].rva <= rva /\ rva < RvaEnd(ss[i])
  BY <1>1 DEF Within
<1>3. ASSUME NEW k \in DOMAIN ss, ss[k].rva <= rva, rva < RvaEnd(ss[k]) PROVE k = i
  <2>1. CASE k < i
    <3>1. RvaEnd(ss[k]) <= ss[i].rva
      BY <2>1 DEF AddressesDisjoint
    <3> QED BY <1>1, <1>2, <1>3, <3>1
  <2>2. CASE i < k
    <3>1. RvaEnd(ss[i]) <= ss[k].rva
      BY <2>2 DEF AddressesDisjoint
    <3> QED BY <1>1, <1>2, <1>3, <3>1
  <2> QED BY <1>1, <2>1, <2>2
<1>4. hit = {i}
  BY <1>1, <1>2, <1>3
<1>5. Least({i}) = i
  BY <1>1 DEF Least
<1>6. ASSUME NEW k \in DOMAIN ss, Within(ss[k], rva) PROVE k = i
  <2>1. ss[k].rva <= rva /\ rva < RvaEnd(ss[k])
    BY <1>1, <1>2, <1>6 DEF Within
  <2> QED BY <1>3, <2>1
<1> QED BY <1>4, <1>5, <1>6

LEMMA Mapped ==
  ASSUME NEW ss \in Seq(Sections), AddressesDisjoint(ss), NEW w,
         NEW i \in DOMAIN ss, NEW rva, Within(ss[i], rva)
  PROVE  MemOf(ss, w, rva) = IF Backed(ss[i], rva) THEN w[Byte(ss[i], rva)] ELSE Zero
BY OneHolder, Zenon DEF MemOf, Backed

\* The patcher looks for a slot's byte where the loader finds the slot.
LEMMA Located ==
  ASSUME Inv, NEW i \in DOMAIN secs, NEW rva, Within(secs[i], rva)
  PROVE  FileOff(rva) = Byte(secs[i], rva)
<1>1. secs \in Seq(Sections) /\ AddressesDisjoint(secs)
  BY DEF Inv, TypeOK, ImageLoadable
<1>2. Least({k \in DOMAIN secs : rva \in secs[k].rva .. RvaEnd(secs[k]) - 1}) = i
  BY <1>1, OneHolder
<1>3. FileOff(rva) = rva - secs[i].rva + secs[i].raw
  BY <1>2, Zenon DEF FileOff
<1>4. secs[i].rva \in Nat /\ secs[i].raw \in Nat
  BY SectionFacts DEF Inv
<1>5. rva \in Int
  BY <1>4, SectionFacts DEF Within, Inv
<1> QED BY <1>3, <1>4, <1>5 DEF Byte

LEMMA BackedByte ==
  ASSUME Inv, NEW i \in DOMAIN secs, NEW rva, Backed(secs[i], rva)
  PROVE  /\ Byte(secs[i], rva) \in Extent(secs[i])
         /\ Byte(secs[i], rva) \in 0 .. fileLen - 1 /\ Byte(secs[i], rva) \in DOMAIN owner
         /\ owner[Byte(secs[i], rva)] \in {i, Padding, Overlay}
         /\ secs[i].rawsize > 0 /\ secs[i].raw <= Byte(secs[i], rva)
         /\ Byte(secs[i], rva) < RawEnd(secs[i])
<1>1. /\ secs[i].rva \in Nat /\ secs[i].vsize \in Nat /\ secs[i].raw \in Nat
      /\ secs[i].rawsize \in Nat /\ fileLen \in Nat /\ RawEnd(secs[i]) <= fileLen
  BY SectionFacts DEF Inv, TypeOK
<1>2. rva \in Nat /\ secs[i].rva <= rva /\ rva - secs[i].rva < secs[i].rawsize
  BY <1>1 DEF Backed, Within
<1>3. /\ Byte(secs[i], rva) \in Nat /\ secs[i].raw <= Byte(secs[i], rva)
      /\ Byte(secs[i], rva) < RawEnd(secs[i]) /\ secs[i].rawsize > 0
  BY <1>1, <1>2 DEF Byte, RawEnd
<1>4. Byte(secs[i], rva) \in Extent(secs[i]) /\ Byte(secs[i], rva) \in 0 .. fileLen - 1
  BY <1>1, <1>3 DEF Extent, RawEnd
<1> QED BY <1>3, <1>4 DEF Inv, SectionsIntact, OwnBytes

\* No two addresses share a byte that has an owner.
LEMMA OwnedAlone ==
  ASSUME Inv, NEW s, Owned(s), NEW j \in DOMAIN secs, NEW rva, Backed(secs[j], rva),
         FileOff(s) = Byte(secs[j], rva)
  PROVE  s = rva
<1>1. PICK i \in DOMAIN secs : Backed(secs[i], s) /\ owner[Byte(secs[i], s)] = i
  BY DEF Owned
<1>2. Byte(secs[i], s) = Byte(secs[j], rva)
  BY <1>1, Located DEF Backed
<1>3. i \in {j, Padding, Overlay} /\ i \in Nat
  BY <1>1, <1>2, BackedByte, SectionFacts DEF Inv
<1>4. i = j
  BY <1>3 DEF Padding, Overlay
<1>5. /\ secs[i].rva \in Nat /\ secs[i].vsize \in Nat /\ secs[i].raw \in Nat
  BY SectionFacts DEF Inv
<1>6. s \in Nat /\ rva \in Nat
  BY <1>1, <1>4, <1>5 DEF Backed, Within
<1> QED BY <1>2, <1>4, <1>5, <1>6 DEF Byte

\* The file has its words, and nothing else.
Whole == word = [b \in 0 .. fileLen - 1 |-> word[b]]

\* The invariant of a file's words: they are all there, the slots of its imports and
\* those redirected last are words of its sections, and the latter hold what they
\* were given.
FileInv == /\ Whole /\ DOMAIN word = 0 .. fileLen - 1
           /\ image.imports \in SUBSET Descriptors
           /\ \A s \in SlotsOf(image.imports) : Owned(s)
           /\ \A s \in DOMAIN bad : Owned(s) /\ Mem(s) = Num(bad[s])

\* What the walk over the import table is asked for here: no slots of its own.
SlotsRead ==
  pc = "idle" /\ ReadTable(fileLen) # {} =>
    SlotsOf(Range(ReadImports(fileLen))) \subseteq SlotsOf(image.imports)

\* rebuildImports gives no import a slot that none had.
LEMMA RebuiltSlots ==
  ASSUME NEW T \in SUBSET Descriptors, NEW dropped
  PROVE  /\ RebuildImports(T, dropped) \in SUBSET Descriptors
         /\ SlotsOf(RebuildImports(T, dropped)) \subseteq SlotsOf(T)
<1>1. \A U : \A s \in SlotsOf(U) : \E d \in U : \E k \in DOMAIN d.names : s = SlotOf(d, k)
  BY DEF SlotsOf, ImportsOf
<1>2. ASSUME NEW U, NEW d \in U, NEW k \in DOMAIN d.names
      PROVE  SlotOf(d, k) \in SlotsOf(U)
  <2> DEFINE im == [dll |-> d.dll, sym |-> d.names[k], slot |-> SlotOf(d, k)]
  <2>1. im \in ImportsOf(U)
    BY DEF ImportsOf
  <2>2. im.slot = SlotOf(d, k)
    OBVIOUS
  <2> HIDE DEF im
  <2> QED BY <2>1, <2>2 DEF SlotsOf
<1>3. ASSUME NEW d \in T, NEW r \in Runs(d, dropped)
      PROVE  /\ Piece(d, r) \in Descriptors
             /\ \A j \in DOMAIN Piece(d, r).names :
                  \E k \in DOMAIN d.names : SlotOf(Piece(d, r), j) = SlotOf(d, k)
  <2>1. d.dll \in Dlls /\ d.first \in Nat /\ d.names \in Seq(Symbols)
    BY DEF Descriptors
  <2>2. PICK n \in Nat : DOMAIN d.names = 1 .. n /\ n = Len(d.names)
    BY <2>1
  <2>3. r[1] \in 1 .. n /\ r[2] \in 1 .. n /\ r[1] <= r[2]
    BY <2>2 DEF Runs, Kept
  <2> DEFINE names == SubSeq(d.names, r[1], r[2])
  <2>4. names \in Seq(Symbols) /\ DOMAIN names = 1 .. (r[2] - r[1] + 1)
    <3>1. \A i \in r[1] .. r[2] : d.names[i] \in Symbols
      BY <2>1, <2>2, <2>3
    <3>2. r[1] \in Int /\ r[2] \in Int
      BY <2>3
    <3> HIDE DEF names
    <3>3. names \in Seq(Symbols) /\ Len(names) = r[2] - r[1] + 1
      BY <2>3, <3>1, <3>2, SubSeqProperties DEF names
    <3> QED BY <3>3
  <2> HIDE DEF names
  <2>5. Piece(d, r) = [dll |-> d.dll, first |-> SlotOf(d, r[1]), names |-> names]
    BY DEF Piece, names
  <2>6. SlotOf(d, r[1]) \in Nat
    BY <2>1, <2>3 DEF SlotOf
  <2>7. Piece(d, r) \in Descriptors
    BY <2>1, <2>4, <2>5, <2>6 DEF Descriptors
  <2>8. ASSUME NEW j \in 1 .. (r[2] - r[1] + 1)
        PROVE  r[1] + j - 1 \in 1 .. n /\ SlotOf(Piece(d, r), j) = SlotOf(d, r[1] + j - 1)
    <3>1. Piece(d, r).first = d.first + r[1] - 1
      BY <2>5 DEF SlotOf
    <3>2. r[1] \in Nat /\ r[2] \in Nat /\ j \in Nat /\ d.first \in Nat
      BY <2>1, <2>3
    <3> QED BY <2>3, <3>1, <3>2 DEF SlotOf
  <2> QED BY <2>2, <2>4, <2>5, <2>7, <2>8
<1>4. \A p \in RebuildImports(T, dropped) :
        \E d \in T : \E r \in Runs(d, dropped) : p = Piece(d, r)
  BY DEF RebuildImports
<1> QED BY <1>1, <1>2, <1>3, <1>4

\* A patch gives the redirected slots their words, and no other address one.
LEMMA PlanWords ==
  ASSUME Inv, FileInv, SlotsRead, NEW t \in Targets, FilePlan(t)
  PROVE  /\ \A s \in DOMAIN bad' : Owned(s)
         /\ DOMAIN word' = DOMAIN word
         /\ \A j \in DOMAIN secs : \A rva : Backed(secs[j], rva) =>
              word'[Byte(secs[j], rva)] =
                IF rva \in DOMAIN bad' THEN Num(bad'[rva]) ELSE word[Byte(secs[j], rva)]
<1> DEFINE D == ReadImports(fileLen)
<1>1. pc = "idle" /\ ReadTable(fileLen) # {}
  BY DEF FilePlan, CanPatch
<1>2. SlotsOf(Range(D)) \subseteq SlotsOf(image.imports)
  BY <1>1 DEF SlotsRead
<1>3. DOMAIN bad' = {im.slot : im \in Redirects(D, t)}
  BY DEF FilePlan
<1>4. word' = [b \in DOMAIN word |->
                 IF \E s \in DOMAIN bad' : FileOff(s) = b
                 THEN Num(bad'[CHOOSE s \in DOMAIN bad' : FileOff(s) = b])
                 ELSE word[b]]
  BY DEF FilePlan
<1> HIDE DEF D
<1>5. Redirects(D, t) \subseteq ImportsOf(Range(D))
  BY DEF Redirects
<1>6. \A s \in DOMAIN bad' : s \in SlotsOf(Range(D))
  BY <1>3, <1>5, Zenon DEF SlotsOf
<1>7. \A s \in DOMAIN bad' : Owned(s)
  BY <1>2, <1>6 DEF FileInv
<1>8. ASSUME NEW j \in DOMAIN secs, NEW rva, Backed(secs[j], rva)
      PROVE  word'[Byte(secs[j], rva)] =
               IF rva \in DOMAIN bad' THEN Num(bad'[rva]) ELSE word[Byte(secs[j], rva)]
  <2> DEFINE b == Byte(secs[j], rva)
  <2>1. b \in DOMAIN word
    BY <1>8, BackedByte DEF FileInv
  <2>2. FileOff(rva) = b
    BY <1>8, Located DEF Backed
  <2>3. \A s \in DOMAIN bad' : FileOff(s) = b => s = rva
    BY <1>7, <1>8, OwnedAlone
  <2> HIDE DEF b
  <2>4. CASE rva \in DOMAIN bad'
    <3>1. (CHOOSE s \in DOMAIN bad' : FileOff(s) = b) = rva
      BY <2>2, <2>3, <2>4
    <3>2. \E s \in DOMAIN bad' : FileOff(s) = b
      BY <2>2, <2>4
    <3>3. word'[b] = Num(bad'[rva])
      BY <1>4, <2>1, <3>1, <3>2
    <3> QED BY <2>4, <3>3 DEF b
  <2>5. CASE rva \notin DOMAIN bad'
    <3>1. ~ \E s \in DOMAIN bad' : FileOff(s) = b
      BY <2>3, <2>5
    <3>2. word'[b] = word[b]
      BY <1>4, <2>1, <3>1
    <3> QED BY <2>5, <3>2 DEF b
  <2> QED BY <2>4, <2>5
<1>9. DOMAIN word' = DOMAIN word
  BY <1>4
<1> QED BY <1>7, <1>8, <1>9

\* The section that is added changes no word of the others, nor its owner.
LEMMA GrownWords ==
  ASSUME Inv, FileInv, FileAddSection, NEW j \in DOMAIN secs
  PROVE  /\ j \in DOMAIN secs' /\ secs'[j] = secs[j]
         /\ \A rva : Backed(secs[j], rva) =>
              LET b == Byte(secs[j], rva)
              IN  word'[b] = word[b] /\ (owner[b] = j => owner'[b] = j)
<1>1. AddSection /\ Room
  BY DEF FileAddSection, AddSection
<1>2. j \in DOMAIN secs' /\ secs'[j] = secs[j]
  BY <1>1, AddedFacts
<1>3. ASSUME NEW rva, Backed(secs[j], rva)
      PROVE  /\ word'[Byte(secs[j], rva)] = word[Byte(secs[j], rva)]
             /\ owner[Byte(secs[j], rva)] = j => owner'[Byte(secs[j], rva)] = j
  <2> DEFINE b == Byte(secs[j], rva)
  <2>1. /\ b \in 0 .. fileLen - 1 /\ b \in DOMAIN owner
        /\ secs[j].rawsize > 0 /\ secs[j].raw <= b /\ b < RawEnd(secs[j])
    BY <1>3, BackedByte
  <2> HIDE DEF b
  <2>2. /\ secs[j].raw \in Nat /\ RawEnd(secs[j]) \in Nat /\ fileLen \in Nat
    BY SectionFacts DEF Inv, TypeOK
  <2>3. /\ NewRaw \in Nat /\ RawEnd(secs[j]) <= NewRaw
        /\ LastHdrEnd \in Nat /\ LastHdrEnd < secs[j].raw
    BY <1>1, <2>1, NewRawFacts
  <2>4. fileLen' \in Nat /\ fileLen <= fileLen'
    BY <1>1, AddedFacts
  <2>5. b \in Nat /\ b # LastHdrEnd /\ b < NewRaw /\ b < fileLen
    BY <2>1, <2>2, <2>3
  <2>6. b \in 0 .. fileLen' - 1 /\ ~ (NewRaw <= b)
    BY <2>2, <2>3, <2>4, <2>5
  <2>7. owner'[b] = owner[b]
    BY <1>1, <2>5, <2>6, OwnerAfter
  <2>8. b \notin NewRaw .. NewRaw + data - 1
    BY <2>3, <2>6
  <2>9. word'[b] = word[b]
    BY <2>5, <2>6, <2>8 DEF FileAddSection
  <2> QED BY <2>7, <2>9 DEF b
<1> QED BY <1>2, <1>3

\* What is mapped at an address of a section that a step keeps.
LEMMA MemOfSection ==
  ASSUME Inv, Inv', NEW i \in DOMAIN secs, i \in DOMAIN secs', secs'[i] = secs[i],
         NEW rva, Within(secs[i], rva)
  PROVE  /\ Mem(rva) = IF Backed(secs[i], rva) THEN word[Byte(secs[i], rva)] ELSE Zero
         /\ Mem(rva)' = IF Backed(secs[i], rva) THEN word'[Byte(secs[i], rva)] ELSE Zero
<1>1. /\ secs \in Seq(Sections) /\ AddressesDisjoint(secs)
      /\ secs' \in Seq(Sections) /\ AddressesDisjoint(secs')
  BY DEF Inv, TypeOK, ImageLoadable
<1>2. MemOf(secs, word, rva) = IF Backed(secs[i], rva) THEN word[Byte(secs[i], rva)] ELSE Zero
  BY <1>1, Mapped
<1>3. MemOf(secs', word', rva) =
        IF Backed(secs'[i], rva) THEN word'[Byte(secs'[i], rva)] ELSE Zero
  BY <1>1, Mapped
<1> QED BY <1>2, <1>3, MemIsMemOf

\* An owned address is backed by the section it lies in.
LEMMA OwnedBacked ==
  ASSUME Inv, NEW s, Owned(s)
  PROVE  /\ \E i \in DOMAIN secs : Within(secs[i], s)
         /\ \A i \in DOMAIN secs : Within(secs[i], s) => Backed(secs[i], s)
<1>1. PICK i \in DOMAIN secs : Backed(secs[i], s)
  BY DEF Owned
<1>2. Within(secs[i], s)
  BY <1>1 DEF Backed
<1>3. secs \in Seq(Sections) /\ AddressesDisjoint(secs)
  BY DEF Inv, TypeOK, ImageLoadable
<1>4. \A k \in DOMAIN secs : Within(secs[k], s) => k = i
  BY <1>1, <1>2, <1>3, OneHolder
<1> QED BY <1>1, <1>2, <1>4

WordsKept ==
  \A i \in DOMAIN secs : \A rva : Within(secs[i], rva) =>
    Mem(rva)' = IF rva \in DOMAIN bad' THEN Num(bad'[rva]) ELSE Mem(rva)

LEMMA FileStep ==
  ASSUME Inv, Inv', FileInv, SlotsRead, [FileNext]_fileVars
  PROVE  WordsKept /\ FileInv'
<1>1. ASSUME NEW t \in Targets, FilePlan(t) PROVE WordsKept /\ FileInv'
  <2>1. UNCHANGED <<secs, fileLen, owner, image>>
    BY <1>1 DEF FilePlan, Plan
  <2>2. \A s \in DOMAIN bad' : Owned(s)
    BY <1>1, PlanWords
  <2>3. DOMAIN word' = DOMAIN word
    BY <1>1, PlanWords
  <2>4. ASSUME NEW i \in DOMAIN secs, NEW rva, Within(secs[i], rva)
        PROVE  Mem(rva)' = IF rva \in DOMAIN bad' THEN Num(bad'[rva]) ELSE Mem(rva)
    <3>1. /\ Mem(rva) = IF Backed(secs[i], rva) THEN word[Byte(secs[i], rva)] ELSE Zero
          /\ Mem(rva)' = IF Backed(secs[i], rva) THEN word'[Byte(secs[i], rva)] ELSE Zero
      BY <2>1, <2>4, MemOfSection
    <3>2. CASE Backed(secs[i], rva)
      <4>1. word'[Byte(secs[i], rva)] =
              IF rva \in DOMAIN bad' THEN Num(bad'[rva]) ELSE word[Byte(secs[i], rva)]
        BY <1>1, <3>2, PlanWords
      <4> QED BY <3>1, <3>2, <4>1
    <3>3. CASE ~ Backed(secs[i], rva)
      <4>1. rva \notin DOMAIN bad'
        BY <2>2, <2>4, <3>3, OwnedBacked
      <4> QED BY <3>1, <3>3, <4>1
    <3> QED BY <3>2, <3>3
  <2>5. \A s : Owned(s) => Owned(s)'
    BY <2>1 DEF Owned
  <2>6. \A s \in DOMAIN bad' : Mem(s)' = Num(bad'[s])
    <3> TAKE s \in DOMAIN bad'
    <3>1. PICK i \in DOMAIN secs : Within(secs[i], s)
      BY <2>2, OwnedBacked
    <3> QED BY <2>4, <3>1
  <2>7. Whole' /\ DOMAIN word' = 0 .. fileLen' - 1
    <3>1. DOMAIN word = 0 .. fileLen' - 1
      BY <2>1 DEF FileInv
    <3>2. word' = [b \in DOMAIN word |->
                     IF \E s \in DOMAIN bad' : FileOff(s) = b
                     THEN Num(bad'[CHOOSE s \in DOMAIN bad' : FileOff(s) = b])
                     ELSE word[b]]
      BY <1>1 DEF FilePlan
    <3> QED BY <2>3, <3>1, <3>2 DEF Whole
  <2>8. FileInv'
    BY <2>1, <2>2, <2>5, <2>6, <2>7 DEF FileInv
  <2> QED BY <2>4, <2>8 DEF WordsKept
<1>2. CASE FileAddSection
  <2>1. UNCHANGED <<bad, section>>
    BY <1>2 DEF FileAddSection
  <2>2. ASSUME NEW i \in DOMAIN secs, NEW rva, Within(secs[i], rva)
        PROVE  Mem(rva)' = Mem(rva)
    <3>1. i \in DOMAIN secs' /\ secs'[i] = secs[i]
      BY <1>2, GrownWords
    <3>2. /\ Mem(rva) = IF Backed(secs[i], rva) THEN word[Byte(secs[i], rva)] ELSE Zero
          /\ Mem(rva)' = IF Backed(secs[i], rva) THEN word'[Byte(secs[i], rva)] ELSE Zero
      BY <2>2, <3>1, MemOfSection
    <3>3. Backed(secs[i], rva) => word'[Byte(secs[i], rva)] = word[Byte(secs[i], rva)]
      BY <1>2, GrownWords
    <3> QED BY <3>2, <3>3
  <2>3. ASSUME NEW s, Owned(s) PROVE Owned(s)'
    <3>1. PICK i \in DOMAIN secs : Backed(secs[i], s) /\ owner[Byte(secs[i], s)] = i
      BY <2>3 DEF Owned
    <3>2. i \in DOMAIN secs' /\ secs'[i] = secs[i] /\ owner'[Byte(secs[i], s)] = i
      BY <1>2, <3>1, GrownWords
    <3>3. Backed(secs'[i], s) /\ owner'[Byte(secs'[i], s)] = i
      BY <3>1, <3>2
    <3> QED BY <3>2, <3>3 DEF Owned
  <2>4. \A s \in DOMAIN bad' : Owned(s)' /\ Mem(s)' = Num(bad'[s])
    <3> TAKE s \in DOMAIN bad'
    <3>1. Owned(s) /\ Mem(s) = Num(bad[s]) /\ bad' = bad
      BY <2>1 DEF FileInv
    <3>2. PICK i \in DOMAIN secs : Within(secs[i], s)
      BY <3>1, OwnedBacked
    <3> QED BY <2>2, <2>3, <3>1, <3>2
  <2>5. image'.imports = RebuildImports(image.imports, DOMAIN bad) \/ image'.imports = image.imports
    BY <1>2 DEF FileAddSection
  <2>6. /\ image'.imports \in SUBSET Descriptors
        /\ SlotsOf(image'.imports) \subseteq SlotsOf(image.imports)
    BY <2>5, RebuiltSlots DEF FileInv
  <2>7. \A s \in SlotsOf(image'.imports) : Owned(s)'
    BY <2>3, <2>6 DEF FileInv
  <2>8. DOMAIN word' = 0 .. fileLen' - 1 /\ Whole'
    BY <1>2 DEF FileAddSection, Whole
  <2>9. FileInv'
    BY <2>4, <2>6, <2>7, <2>8 DEF FileInv
  <2>10. ASSUME NEW i \in DOMAIN secs, NEW rva, Within(secs[i], rva)
         PROVE  Mem(rva)' = IF rva \in DOMAIN bad' THEN Num(bad'[rva]) ELSE Mem(rva)
    BY <2>1, <2>2, <2>10 DEF FileInv
  <2> QED BY <2>9, <2>10 DEF WordsKept
<1>3. CASE UNCHANGED <<secs, fileLen, owner, word, image, bad>>
  <2>1. \A s : Mem(s)' = Mem(s)
    BY <1>3, MemIsMemOf
  <2>2. \A s : Owned(s)' <=> Owned(s)
    BY <1>3 DEF Owned
  <2>3. FileInv'
    BY <1>3, <2>1, <2>2 DEF FileInv, Whole
  <2>4. WordsKept
    BY <1>3, <2>1 DEF WordsKept, FileInv
  <2> QED BY <2>3, <2>4
<1>4. ASSUME NEW t \in Targets, FileRefuse(t) PROVE UNCHANGED <<secs, fileLen, owner, word, image, bad>>
  BY <1>4 DEF FileRefuse, Refuse
<1>5. FileNoRoom \/ FileWrite \/ UNCHANGED fileVars =>
        UNCHANGED <<secs, fileLen, owner, word, image, bad>>
  BY DEF FileNoRoom, NoRoom, FileWrite, Write, fileVars, vars
<1> QED BY <1>1, <1>2, <1>3, <1>4, <1>5 DEF FileNext

LEMMA FileInitInv == FileInit => FileInv
<1> SUFFICES ASSUME FileInit PROVE FileInv
  OBVIOUS
<1>1. PICK f \in Files :
        /\ secs = f.image.secs /\ fileLen = f.image.fileLen /\ owner = f.image.owner
        /\ word = f.word /\ image = [imports |-> Range(f.imports), table |-> f.table]
  BY DEF FileInit
<1>2. /\ f.word = [b \in 0 .. f.image.fileLen - 1 |-> f.word[b]]
      /\ Range(f.imports) \in SUBSET Descriptors /\ SlotsOwned(f)
  <2>1. /\ f.word = [b \in 0 .. f.image.fileLen - 1 |-> f.word[b]]
        /\ f.imports \in Seq(Descriptors) /\ SlotsOwned(f)
    BY <1>1, FilesAssumption, Zenon
  <2>2. Range(f.imports) \in SUBSET Descriptors
    BY <2>1 DEF Range
  <2> QED BY <2>1, <2>2
<1>3. \A s \in SlotsOf(image.imports) : Owned(s)
  BY <1>1, <1>2 DEF SlotsOwned, Owned, Backed, Within, Byte
<1>4. DOMAIN bad = {}
  BY DEF FileInit
<1>5. Whole /\ DOMAIN word = 0 .. fileLen - 1
  BY <1>1, <1>2 DEF Whole
<1> QED BY <1>1, <1>2, <1>3, <1>4, <1>5 DEF FileInv

----------------------------------------------------------------------------
(* Concatenations: BuildSection is made of them. *)

\* A set of naturals has a least element: what the inductions below use.
LEMMA LeastOfNat ==
  ASSUME NEW S \in SUBSET Nat, S # {}
  PROVE  \E m \in S : \A k \in S : m <= k
<1> DEFINE R == {ss \in Nat \X Nat : ss[1] < ss[2]}
<1>1. IsWellFoundedOn(R, Nat)
  BY NatLessThanWellFounded, Zenon DEF OpToRel
<1>2. \E x \in S : \A y \in S : <<y, x>> \notin R
  <2> HIDE DEF R
  <2> QED BY <1>1, WFMin
<1>3. PICK x \in S : \A y \in S : <<y, x>> \notin R
  BY <1>2
<1>4. \A y \in S : x <= y
  <2> TAKE y \in S
  <2>1. x \in Nat /\ y \in Nat /\ <<y, x>> \notin R
    BY <1>3
  <2> QED BY <2>1
<1> QED BY <1>4

\* g is the running concatenation of the first m members of s.
Running(g, s, m) == g = [i \in 1 .. m |-> IF i = 1 THEN s[i] ELSE g[i - 1] \o s[i]]

LEMMA RunsAt ==
  ASSUME NEW g, NEW s, NEW m, Running(g, s, m), NEW i \in 1 .. m
  PROVE  g[i] = IF i = 1 THEN s[i] ELSE g[i - 1] \o s[i]
BY DEF Running

\* Every sequence has its running concatenation.
LEMMA FlatExists ==
  ASSUME NEW s, NEW n \in Nat \ {0}
  PROVE  \E g : Running(g, s, n)
<1> DEFINE T == {m \in 1 .. n : ~ \E g : Running(g, s, m)}
<1> SUFFICES ASSUME T # {} PROVE FALSE
  OBVIOUS
<1>1. PICK m \in T : \A k \in T : m <= k
  <2>1. T \in SUBSET Nat
    OBVIOUS
  <2> HIDE DEF T
  <2> QED BY <2>1, LeastOfNat
<1>2. m \in 1 .. n /\ ~ \E g : Running(g, s, m)
  OBVIOUS
<1>3. CASE m = 1
  <2> DEFINE g == [i \in 1 .. 1 |-> s[i]]
  <2>1. Running(g, s, 1)
    BY DEF Running
  <2> QED BY <1>2, <1>3, <2>1
<1>4. CASE m > 1
  <2>1. m - 1 \in 1 .. n /\ m - 1 \notin T
    BY <1>1, <1>2, <1>4
  <2>2. PICK g : Running(g, s, m - 1)
    BY <2>1
  <2> DEFINE h == [i \in 1 .. m |-> IF i < m THEN g[i] ELSE g[m - 1] \o s[m]]
  <2>3. \A i \in 1 .. m - 1 : g[i] = IF i = 1 THEN s[i] ELSE g[i - 1] \o s[i]
    BY <2>2 DEF Running
  <2>4. \A i \in 1 .. m : h[i] = IF i = 1 THEN s[i] ELSE h[i - 1] \o s[i]
    <3> TAKE i \in 1 .. m
    <3>1. CASE i < m
      <4>1. h[i] = g[i] /\ (i # 1 => h[i - 1] = g[i - 1])
        BY <1>2, <3>1
      <4> QED BY <1>2, <2>3, <3>1, <4>1
    <3>2. CASE i = m
      BY <1>2, <1>4, <3>2
    <3> QED BY <1>2, <3>1, <3>2
  <2>5. Running(h, s, m)
    <3> HIDE DEF h
    <3>1. DOMAIN h = 1 .. m /\ h = [i \in 1 .. m |-> h[i]]
      BY DEF h
    <3> QED BY <2>4, <3>1 DEF Running
  <2> QED BY <1>2, <2>5
<1> QED BY <1>2, <1>3, <1>4

\* FlattenSeq is the last of it.
LEMMA FlattenIs ==
  ASSUME NEW S, NEW s \in Seq(S), s # <<>>
  PROVE  \E g : Running(g, s, Len(s)) /\ FlattenSeq(s) = g[Len(s)]
<1> DEFINE g == CHOOSE g : Running(g, s, Len(s))
<1>1. Len(s) \in Nat \ {0}
  OBVIOUS
<1>2. Running(g, s, Len(s))
  BY <1>1, FlatExists
<1>3. FlattenSeq(s) = g[Len(s)]
  BY <1>1, Zenon DEF FlattenSeq, Running
<1> QED BY <1>2, <1>3

LEMMA FlattenEmpty == FlattenSeq(<<>>) = <<>>
BY DEF FlattenSeq

\* The first n members.
LEMMA Prefix ==
  ASSUME NEW S, NEW s \in Seq(S), NEW n \in Nat, n <= Len(s)
  PROVE  /\ SubSeq(s, 1, n) \in Seq(S) /\ Len(SubSeq(s, 1, n)) = n
         /\ \A i \in 1 .. n : SubSeq(s, 1, n)[i] = s[i]
<1>1. \A i \in 1 .. n : s[i] \in S
  OBVIOUS
<1>2. /\ SubSeq(s, 1, n) \in Seq(S)
      /\ Len(SubSeq(s, 1, n)) = IF 1 <= n THEN n - 1 + 1 ELSE 0
      /\ \A i \in 1 .. n - 1 + 1 : SubSeq(s, 1, n)[i] = s[1 + i - 1]
  BY <1>1, SubSeqProperties
<1>3. n - 1 + 1 = n /\ \A i \in 1 .. n : 1 + i - 1 = i
  OBVIOUS
<1> QED BY <1>2, <1>3

\* One member more is one member appended.
LEMMA FlattenAppend ==
  ASSUME NEW S, NEW s \in Seq(Seq(S)), NEW n \in Nat, n + 1 \in 1 .. Len(s)
  PROVE  FlattenSeq(SubSeq(s, 1, n + 1)) = FlattenSeq(SubSeq(s, 1, n)) \o s[n + 1]
<1> DEFINE p == SubSeq(s, 1, n)
           q == SubSeq(s, 1, n + 1)
<1>1. /\ p \in Seq(Seq(S)) /\ Len(p) = n /\ \A i \in 1 .. n : p[i] = s[i]
      /\ q \in Seq(Seq(S)) /\ Len(q) = n + 1 /\ \A i \in 1 .. n + 1 : q[i] = s[i]
  <2>1. n + 1 \in Nat /\ n <= Len(s) /\ n + 1 <= Len(s)
    OBVIOUS
  <2> QED BY <2>1, Prefix
<1> HIDE DEF p, q
<1>2. PICK h : Running(h, q, n + 1) /\ FlattenSeq(q) = h[n + 1]
  <2>1. q # <<>>
    BY <1>1
  <2> QED BY <1>1, <2>1, FlattenIs
<1>3. h[n + 1] = IF n = 0 THEN s[n + 1] ELSE h[n] \o s[n + 1]
  <2>1. n + 1 \in 1 .. n + 1 /\ n + 1 - 1 = n /\ (n + 1 = 1 <=> n = 0)
    OBVIOUS
  <2>2. h[n + 1] = IF n + 1 = 1 THEN q[n + 1] ELSE h[n + 1 - 1] \o q[n + 1]
    BY <1>2, <2>1, RunsAt
  <2> QED BY <1>1, <2>1, <2>2
<1>4. CASE n = 0
  <2>1. p = <<>> /\ s[n + 1] \in Seq(S)
    BY <1>1, <1>4
  <2>2. FlattenSeq(p) = <<>>
    BY <2>1, FlattenEmpty
  <2>3. FlattenSeq(q) = s[n + 1]
    BY <1>1, <1>2, <1>3, <1>4
  <2>4. <<>> \o s[n + 1] = s[n + 1]
    BY <2>1, ConcatEmptySeq
  <2> QED BY <2>2, <2>3, <2>4 DEF p, q
<1>5. CASE n # 0
  <2>1. PICK g : Running(g, p, n) /\ FlattenSeq(p) = g[n]
    <3>1. p # <<>>
      BY <1>1, <1>5
    <3> QED BY <1>1, <3>1, FlattenIs
  <2>2. \A i \in 1 .. n : /\ h[i] = IF i = 1 THEN s[i] ELSE h[i - 1] \o s[i]
                          /\ g[i] = IF i = 1 THEN s[i] ELSE g[i - 1] \o s[i]
    <3> TAKE i \in 1 .. n
    <3>1. i \in 1 .. n + 1
      OBVIOUS
    <3>2. h[i] = IF i = 1 THEN q[i] ELSE h[i - 1] \o q[i]
      BY <1>2, <3>1, RunsAt
    <3>3. g[i] = IF i = 1 THEN p[i] ELSE g[i - 1] \o p[i]
      BY <2>1, Zenon DEF Running
    <3>4. p[i] = s[i] /\ q[i] = s[i]
      BY <1>1, <3>1
    <3> QED BY <3>2, <3>3, <3>4, Zenon
  <2> DEFINE T == {i \in 1 .. n : h[i] # g[i]}
  <2>3. T = {}
    <3> SUFFICES ASSUME T # {} PROVE FALSE
      OBVIOUS
    <3>1. PICK m \in T : \A i \in T : m <= i
      <4>1. T \in SUBSET Nat
        OBVIOUS
      <4> HIDE DEF T
      <4> QED BY <4>1, LeastOfNat
    <3>2. m \in 1 .. n /\ h[m] # g[m]
      OBVIOUS
    <3>3. m # 1 => m - 1 \in 1 .. n /\ m - 1 \notin T
      BY <3>1, <3>2
    <3> QED BY <2>2, <3>2, <3>3
  <2>4. h[n] = g[n]
    <3>1. n \in 1 .. n
      BY <1>5
    <3>2. h[n] # g[n] => n \in T
      BY <3>1
    <3> HIDE DEF T
    <3> QED BY <2>3, <3>2
  <2> QED BY <1>2, <1>3, <1>5, <2>1, <2>4 DEF p, q
<1> QED BY <1>4, <1>5

\* The first n members of s, one behind the other; member i begins behind the
\* i - 1 before it, and nothing else is there.
Flat(s, n) == FlattenSeq(SubSeq(s, 1, n))

Laid(S, s, n) ==
  /\ Flat(s, n) \in Seq(S)
  /\ \A i \in 1 .. n :
       /\ Flat(s, i - 1) \in Seq(S)
       /\ Len(Flat(s, i - 1)) + Len(s[i]) <= Len(Flat(s, n))
       /\ \A k \in 1 .. Len(s[i]) : Flat(s, n)[Len(Flat(s, i - 1)) + k] = s[i][k]
  /\ \A p \in 1 .. Len(Flat(s, n)) :
       \E i \in 1 .. n : \E k \in 1 .. Len(s[i]) : p = Len(Flat(s, i - 1)) + k

LEMMA FlatLaidStep ==
  ASSUME NEW S, NEW s \in Seq(Seq(S)), NEW n \in Nat, n + 1 \in 1 .. Len(s), Laid(S, s, n)
  PROVE  Laid(S, s, n + 1)
<1> DEFINE m == n + 1
<1>1. s[m] \in Seq(S) /\ Len(s[m]) \in Nat /\ m \in Nat /\ m - 1 = n
  BY LenProperties
<1>2. Flat(s, n) \in Seq(S) /\ Len(Flat(s, n)) \in Nat
  BY DEF Laid
<1>3. Flat(s, m) = Flat(s, n) \o s[m]
  BY FlattenAppend DEF Flat
<1>4. /\ Flat(s, m) \in Seq(S) /\ Len(Flat(s, m)) = Len(Flat(s, n)) + Len(s[m])
      /\ \A p \in 1 .. Len(Flat(s, n)) + Len(s[m]) :
           Flat(s, m)[p] = IF p <= Len(Flat(s, n)) THEN Flat(s, n)[p]
                           ELSE s[m][p - Len(Flat(s, n))]
  <2> DEFINE f == Flat(s, n)
             t == s[m]
  <2>1. f \in Seq(S) /\ t \in Seq(S) /\ Flat(s, m) = f \o t
    BY <1>1, <1>2, <1>3
  <2> HIDE DEF f, t
  <2>2. /\ f \o t \in Seq(S) /\ Len(f \o t) = Len(f) + Len(t)
        /\ \A p \in 1 .. Len(f) + Len(t) :
             (f \o t)[p] = IF p <= Len(f) THEN f[p] ELSE t[p - Len(f)]
    BY <2>1, ConcatProperties
  <2> QED BY <2>1, <2>2 DEF f, t
<1>5. ASSUME NEW i \in 1 .. m
      PROVE  /\ Flat(s, i - 1) \in Seq(S)
             /\ Len(Flat(s, i - 1)) + Len(s[i]) <= Len(Flat(s, m))
             /\ \A k \in 1 .. Len(s[i]) : Flat(s, m)[Len(Flat(s, i - 1)) + k] = s[i][k]
  <2>1. CASE i = m
    <3>1. Flat(s, i - 1) = Flat(s, n)
      BY <1>1, <2>1
    <3>2. \A k \in 1 .. Len(s[m]) :
            /\ Len(Flat(s, n)) + k \in 1 .. Len(Flat(s, n)) + Len(s[m])
            /\ ~ (Len(Flat(s, n)) + k <= Len(Flat(s, n)))
            /\ Len(Flat(s, n)) + k - Len(Flat(s, n)) = k
      BY <1>1, <1>2
    <3>3. \A k \in 1 .. Len(s[m]) : Flat(s, m)[Len(Flat(s, n)) + k] = s[m][k]
      BY <1>4, <3>2
    <3>4. Len(Flat(s, n)) + Len(s[m]) <= Len(Flat(s, m))
      BY <1>1, <1>2, <1>4
    <3> QED BY <1>2, <2>1, <3>1, <3>3, <3>4
  <2>2. CASE i # m
    <3>1. i \in 1 .. n
      BY <2>2
    <3>2. /\ Flat(s, i - 1) \in Seq(S)
          /\ Len(Flat(s, i - 1)) + Len(s[i]) <= Len(Flat(s, n))
          /\ \A k \in 1 .. Len(s[i]) : Flat(s, n)[Len(Flat(s, i - 1)) + k] = s[i][k]
      BY <3>1 DEF Laid
    <3>3. Len(Flat(s, i - 1)) \in Nat /\ Len(s[i]) \in Nat
      BY <3>1, <3>2, LenProperties
    <3>4. \A k \in 1 .. Len(s[i]) :
            Len(Flat(s, i - 1)) + k \in 1 .. Len(Flat(s, n)) + Len(s[m])
            /\ Len(Flat(s, i - 1)) + k <= Len(Flat(s, n))
      <4> DEFINE a == Len(Flat(s, i - 1))
                 b == Len(Flat(s, n))
                 c == Len(s[i])
                 d == Len(s[m])
      <4>1. a \in Nat /\ b \in Nat /\ c \in Nat /\ d \in Nat /\ a + c <= b
        BY <1>1, <1>2, <3>2, <3>3
      <4> HIDE DEF a, b, c, d, m
      <4>2. \A k \in 1 .. c : a + k \in 1 .. b + d /\ a + k <= b
        BY <4>1
      <4> QED BY <4>2 DEF a, b, c, d
    <3>5. Len(Flat(s, i - 1)) + Len(s[i]) <= Len(Flat(s, m))
      <4> DEFINE a == Len(Flat(s, i - 1))
                 b == Len(Flat(s, n))
                 c == Len(s[i])
                 d == Len(s[m])
      <4>1. /\ a \in Nat /\ b \in Nat /\ c \in Nat /\ d \in Nat
            /\ a + c <= b /\ Len(Flat(s, m)) = b + d
        BY <1>1, <1>2, <1>4, <3>2, <3>3
      <4> HIDE DEF a, b, c, d, m
      <4>2. a + c <= b + d
        BY <4>1
      <4> QED BY <4>1, <4>2 DEF a, c
    <3> QED BY <1>4, <3>2, <3>4, <3>5
  <2> QED BY <2>1, <2>2
<1>6. ASSUME NEW p \in 1 .. Len(Flat(s, m))
      PROVE  \E i \in 1 .. m : \E k \in 1 .. Len(s[i]) : p = Len(Flat(s, i - 1)) + k
  <2>1. CASE p <= Len(Flat(s, n))
    <3>1. p \in 1 .. Len(Flat(s, n))
      BY <1>1, <1>2, <1>4, <2>1
    <3>2. PICK i \in 1 .. n : \E k \in 1 .. Len(s[i]) : p = Len(Flat(s, i - 1)) + k
      BY <3>1 DEF Laid
    <3>3. i \in 1 .. m
      OBVIOUS
    <3> QED BY <3>2, <3>3
  <2>2. CASE ~ (p <= Len(Flat(s, n)))
    <3> DEFINE k == p - Len(Flat(s, n))
    <3>1. k \in 1 .. Len(s[m]) /\ p = Len(Flat(s, n)) + k
      BY <1>1, <1>2, <1>4, <2>2
    <3>2. m \in 1 .. m /\ Flat(s, m - 1) = Flat(s, n)
      BY <1>1
    <3> HIDE DEF k, m
    <3> QED BY <3>1, <3>2
  <2> QED BY <2>1, <2>2
<1>7. Laid(S, s, m)
  <2> HIDE DEF m
  <2> QED BY <1>4, <1>5, <1>6 DEF Laid
<1> QED BY <1>7

\* By the least n that fails, every n members lie as Laid says.
LEMMA FlatLaid ==
  ASSUME NEW S, NEW s \in Seq(Seq(S)), NEW n \in 0 .. Len(s)
  PROVE  Laid(S, s, n)
<1> DEFINE T == {k \in 0 .. Len(s) : ~ Laid(S, s, k)}
<1>1. Laid(S, s, 0)
  <2>1. SubSeq(s, 1, 0) = <<>>
    BY SubSeqEmpty
  <2>2. Flat(s, 0) = <<>>
    BY <2>1, FlattenEmpty DEF Flat
  <2>3. Len(Flat(s, 0)) = 0 /\ Flat(s, 0) \in Seq(S)
    BY <2>2, EmptySeq
  <2> QED BY <2>3 DEF Laid
<1>2. T = {}
  <2> SUFFICES ASSUME T # {} PROVE FALSE
    OBVIOUS
  <2>1. PICK m \in T : \A k \in T : m <= k
    <3>1. T \in SUBSET Nat
      OBVIOUS
    <3> HIDE DEF T
    <3> QED BY <3>1, LeastOfNat
  <2>2. m \in 0 .. Len(s) /\ ~ Laid(S, s, m) /\ m # 0
    BY <1>1
  <2>3. PICK j \in Nat : m = j + 1 /\ j \in 0 .. Len(s)
    <3>1. m - 1 \in Nat /\ m = m - 1 + 1 /\ m - 1 \in 0 .. Len(s)
      BY <2>2
    <3> QED BY <3>1
  <2>4. Laid(S, s, j)
    BY <2>1, <2>3
  <2>5. j + 1 \in 1 .. Len(s)
    BY <2>2, <2>3
  <2> QED BY <2>2, <2>3, <2>4, <2>5, FlatLaidStep
<1>3. n \notin T
  BY <1>2
<1> QED BY <1>3

\* The same for all of s.
LEMMA FlattenLaid ==
  ASSUME NEW S, NEW s \in Seq(Seq(S))
  PROVE  FlattenSeq(s) = Flat(s, Len(s)) /\ Laid(S, s, Len(s))
<1>1. Len(s) \in 0 .. Len(s)
  BY LenProperties
<1>2. SubSeq(s, 1, Len(s)) = s
  BY SubSeqFull
<1> QED BY <1>1, <1>2, FlatLaid DEF Flat

\* What a flattened sequence consists of.
LEMMA FlattenRange ==
  ASSUME NEW S, NEW s \in Seq(Seq(S))
  PROVE  /\ FlattenSeq(s) \in Seq(S)
         /\ \A p \in DOMAIN FlattenSeq(s) :
              \E i \in DOMAIN s : \E k \in DOMAIN s[i] : FlattenSeq(s)[p] = s[i][k]
         /\ \A i \in DOMAIN s : \A k \in DOMAIN s[i] :
              \E p \in DOMAIN FlattenSeq(s) : FlattenSeq(s)[p] = s[i][k]
<1> DEFINE F == FlattenSeq(s)
           n == Len(s)
           at(i) == Len(Flat(s, i - 1))
<1>1. F = Flat(s, n) /\ Laid(S, s, n)
  BY FlattenLaid
<1>2. /\ F \in Seq(S)
      /\ \A i \in 1 .. n : /\ at(i) \in Nat /\ at(i) + Len(s[i]) <= Len(F)
                           /\ \A k \in 1 .. Len(s[i]) : F[at(i) + k] = s[i][k]
      /\ \A p \in 1 .. Len(F) : \E i \in 1 .. n : \E k \in 1 .. Len(s[i]) : p = at(i) + k
  BY <1>1, LenProperties DEF Laid
<1>3. /\ DOMAIN F = 1 .. Len(F) /\ Len(F) \in Nat /\ DOMAIN s = 1 .. n
      /\ \A i \in 1 .. n : DOMAIN s[i] = 1 .. Len(s[i]) /\ Len(s[i]) \in Nat
  BY <1>2, LenProperties
<1> HIDE DEF F, n, at
<1>4. ASSUME NEW p \in DOMAIN F
      PROVE  \E i \in DOMAIN s : \E k \in DOMAIN s[i] : F[p] = s[i][k]
  <2>1. p \in 1 .. Len(F)
    BY <1>3
  <2>2. PICK i \in 1 .. n : \E k \in 1 .. Len(s[i]) : p = at(i) + k
    BY <1>2, <2>1
  <2>3. PICK k \in 1 .. Len(s[i]) : p = at(i) + k
    BY <2>2
  <2>4. F[p] = s[i][k]
    BY <1>2, <2>3
  <2> QED BY <1>3, <2>3, <2>4
<1>5. ASSUME NEW i \in DOMAIN s, NEW k \in DOMAIN s[i]
      PROVE  \E p \in DOMAIN F : F[p] = s[i][k]
  <2>1. i \in 1 .. n
    BY <1>3
  <2>1a. k \in 1 .. Len(s[i]) /\ Len(s[i]) \in Nat
    BY <1>3, <2>1
  <2>1b. at(i) \in Nat /\ at(i) + Len(s[i]) <= Len(F) /\ F[at(i) + k] = s[i][k]
    BY <1>2, <2>1, <2>1a
  <2>2. at(i) + k \in 1 .. Len(F) /\ F[at(i) + k] = s[i][k]
    BY <1>3, <2>1a, <2>1b
  <2> QED BY <1>3, <2>2
<1> QED BY <1>2, <1>4, <1>5 DEF F

\* Members of one length stand at multiples of it.
LEMMA FlatEven ==
  ASSUME NEW S, NEW s \in Seq(Seq(S)), NEW c \in Nat,
         \A i \in DOMAIN s : Len(s[i]) = c, NEW n \in 0 .. Len(s)
  PROVE  Len(Flat(s, n)) = c * n
<1> DEFINE T == {k \in 0 .. Len(s) : Len(Flat(s, k)) # c * k}
<1>1. T = {}
  <2> SUFFICES ASSUME T # {} PROVE FALSE
    OBVIOUS
  <2>1. PICK m \in T : \A k \in T : m <= k
    <3>1. T \in SUBSET Nat
      OBVIOUS
    <3> HIDE DEF T
    <3> QED BY <3>1, LeastOfNat
  <2>2. m \in 0 .. Len(s) /\ Len(Flat(s, m)) # c * m
    OBVIOUS
  <2>3. Flat(s, 0) = <<>>
    <3>1. SubSeq(s, 1, 0) = <<>>
      BY SubSeqEmpty
    <3> QED BY <3>1, FlattenEmpty DEF Flat
  <2>4. CASE m = 0
    BY <2>2, <2>3, <2>4
  <2>5. CASE m # 0
    <3>1. PICK j \in Nat : m = j + 1 /\ j \in 0 .. Len(s)
      <4>1. m - 1 \in Nat /\ m = m - 1 + 1 /\ m - 1 \in 0 .. Len(s)
        BY <2>2, <2>5
      <4> QED BY <4>1
    <3>2. Len(Flat(s, j)) = c * j
      BY <2>1, <3>1
    <3>3. j + 1 \in 1 .. Len(s) /\ j + 1 \in DOMAIN s
      BY <2>2, <3>1
    <3>4. Flat(s, m) = Flat(s, j) \o s[m]
      BY <3>1, <3>3, FlattenAppend DEF Flat
    <3>5. Flat(s, j) \in Seq(S) /\ s[m] \in Seq(S) /\ Len(s[m]) = c
      <4>1. Laid(S, s, j)
        BY <3>1, FlatLaid
      <4> QED BY <3>1, <3>3, <4>1 DEF Laid
    <3>6. Len(Flat(s, m)) = c * j + c
      BY <3>2, <3>4, <3>5, ConcatProperties
    <3>7. c * j + c = c * m
      BY <3>1, Z3
    <3> QED BY <2>2, <3>6, <3>7
  <2> QED BY <2>4, <2>5
<1> QED BY <1>1

\* t has the c words of each member of s in turn.
Evenly(t, s, c) ==
  /\ Len(t) = c * Len(s)
  /\ \A i \in 1 .. Len(s) : \A k \in 1 .. c : t[c * (i - 1) + k] = s[i][k]

\* So do those of FlattenSeq: their words are found by counting.
LEMMA FlattenEven ==
  ASSUME NEW S, NEW s \in Seq(Seq(S)), NEW c \in Nat, \A i \in DOMAIN s : Len(s[i]) = c
  PROVE  FlattenSeq(s) \in Seq(S) /\ Evenly(FlattenSeq(s), s, c)
<1> DEFINE n == Len(s)
<1>1. FlattenSeq(s) = Flat(s, n) /\ Laid(S, s, n) /\ n \in 0 .. n /\ DOMAIN s = 1 .. n
  BY FlattenLaid, LenProperties
<1>2. Len(Flat(s, n)) = c * n
  BY <1>1, FlatEven
<1>3. ASSUME NEW i \in 1 .. n, NEW k \in 1 .. c PROVE FlattenSeq(s)[c * (i - 1) + k] = s[i][k]
  <2>1. i - 1 \in 0 .. n
    BY <1>1
  <2>2. Len(Flat(s, i - 1)) = c * (i - 1)
    BY <2>1, FlatEven
  <2>3. Len(s[i]) = c
    BY <1>1
  <2>4. Flat(s, n)[Len(Flat(s, i - 1)) + k] = s[i][k]
    BY <1>1, <2>3 DEF Laid
  <2> QED BY <1>1, <2>2, <2>4
<1> QED BY <1>1, <1>2, <1>3 DEF Laid, Evenly

\* t is five parts, one behind the other.
Parts(t, a, b, c, d, e) ==
  /\ Len(t) = Len(a) + Len(b) + Len(c) + Len(d) + Len(e)
  /\ \A p \in 1 .. Len(a) : t[p] = a[p]
  /\ \A p \in 1 .. Len(b) : t[Len(a) + p] = b[p]
  /\ \A p \in 1 .. Len(c) : t[Len(a) + Len(b) + p] = c[p]
  /\ \A p \in 1 .. Len(d) : t[Len(a) + Len(b) + Len(c) + p] = d[p]
  /\ \A p \in 1 .. Len(e) : t[Len(a) + Len(b) + Len(c) + Len(d) + p] = e[p]

\* A concatenation of five parts has the words of each where its place is.
LEMMA FiveParts ==
  ASSUME NEW T, NEW a \in Seq(T), NEW b \in Seq(T), NEW c \in Seq(T), NEW d \in Seq(T),
         NEW e \in Seq(T)
  PROVE  /\ a \o b \o c \o d \o e \in Seq(T)
         /\ Parts(a \o b \o c \o d \o e, a, b, c, d, e)
<1>1. \A u, v \in Seq(T) : /\ u \o v \in Seq(T) /\ Len(u \o v) = Len(u) + Len(v)
                           /\ Len(u) \in Nat /\ Len(v) \in Nat
                           /\ \A p \in 1 .. Len(u) : (u \o v)[p] = u[p]
                           /\ \A p \in 1 .. Len(v) : (u \o v)[Len(u) + p] = v[p]
  <2> TAKE u, v \in Seq(T)
  <2>1. /\ u \o v \in Seq(T) /\ Len(u \o v) = Len(u) + Len(v)
        /\ \A i \in 1 .. Len(u) + Len(v) :
             (u \o v)[i] = IF i <= Len(u) THEN u[i] ELSE v[i - Len(u)]
    BY ConcatProperties
  <2>2. Len(u) \in Nat /\ Len(v) \in Nat
    OBVIOUS
  <2>3. \A p \in 1 .. Len(u) : p \in 1 .. Len(u) + Len(v) /\ p <= Len(u)
    BY <2>2
  <2>4. \A p \in 1 .. Len(v) : /\ Len(u) + p \in 1 .. Len(u) + Len(v)
                               /\ ~ (Len(u) + p <= Len(u)) /\ Len(u) + p - Len(u) = p
    BY <2>2
  <2> QED BY <2>1, <2>2, <2>3, <2>4
<1> DEFINE ab == a \o b
           abc == ab \o c
           abcd == abc \o d
           t == abcd \o e
<1>2. /\ ab \in Seq(T) /\ Len(ab) = Len(a) + Len(b) /\ Len(a) \in Nat /\ Len(b) \in Nat
      /\ \A p \in 1 .. Len(a) : ab[p] = a[p]
      /\ \A p \in 1 .. Len(b) : ab[Len(a) + p] = b[p]
  BY <1>1
<1> HIDE DEF ab
<1>3. /\ abc \in Seq(T) /\ Len(abc) = Len(ab) + Len(c) /\ Len(ab) \in Nat /\ Len(c) \in Nat
      /\ \A p \in 1 .. Len(ab) : abc[p] = ab[p]
      /\ \A p \in 1 .. Len(c) : abc[Len(ab) + p] = c[p]
  BY <1>1, <1>2
<1> HIDE DEF abc
<1>4. /\ abcd \in Seq(T) /\ Len(abcd) = Len(abc) + Len(d) /\ Len(abc) \in Nat /\ Len(d) \in Nat
      /\ \A p \in 1 .. Len(abc) : abcd[p] = abc[p]
      /\ \A p \in 1 .. Len(d) : abcd[Len(abc) + p] = d[p]
  BY <1>1, <1>3
<1> HIDE DEF abcd
<1>5. /\ t \in Seq(T) /\ Len(t) = Len(abcd) + Len(e) /\ Len(abcd) \in Nat /\ Len(e) \in Nat
      /\ \A p \in 1 .. Len(abcd) : t[p] = abcd[p]
      /\ \A p \in 1 .. Len(e) : t[Len(abcd) + p] = e[p]
  BY <1>1, <1>4
<1> HIDE DEF t
<1>6. \A p \in 1 .. Len(ab) : t[p] = ab[p]
  <2> TAKE p \in 1 .. Len(ab)
  <2>1. p \in 1 .. Len(abc) /\ p \in 1 .. Len(abcd)
    BY <1>3, <1>4
  <2> QED BY <1>3, <1>4, <1>5, <2>1
<1>7. \A p \in 1 .. Len(a) : t[p] = a[p]
  <2> TAKE p \in 1 .. Len(a)
  <2>1. p \in 1 .. Len(ab)
    BY <1>2
  <2> QED BY <1>2, <1>6, <2>1
<1>8. \A p \in 1 .. Len(b) : t[Len(a) + p] = b[p]
  <2> TAKE p \in 1 .. Len(b)
  <2>1. Len(a) + p \in 1 .. Len(ab)
    BY <1>2
  <2> QED BY <1>2, <1>6, <2>1
<1>9. \A p \in 1 .. Len(c) : t[Len(ab) + p] = c[p]
  <2> TAKE p \in 1 .. Len(c)
  <2>1. Len(ab) + p \in 1 .. Len(abc) /\ Len(ab) + p \in 1 .. Len(abcd)
    BY <1>3, <1>4
  <2> QED BY <1>3, <1>4, <1>5, <2>1
<1>10. \A p \in 1 .. Len(d) : t[Len(abc) + p] = d[p]
  <2> TAKE p \in 1 .. Len(d)
  <2>1. Len(abc) + p \in 1 .. Len(abcd)
    BY <1>4
  <2> QED BY <1>4, <1>5, <2>1
<1>11. /\ Len(ab) = Len(a) + Len(b) /\ Len(abc) = Len(a) + Len(b) + Len(c)
       /\ Len(abcd) = Len(a) + Len(b) + Len(c) + Len(d)
       /\ Len(t) = Len(a) + Len(b) + Len(c) + Len(d) + Len(e)
  BY <1>2, <1>3, <1>4, <1>5
<1>12. Parts(t, a, b, c, d, e)
  <2>1. \A p \in 1 .. Len(c) : t[Len(a) + Len(b) + p] = c[p]
    BY <1>9, <1>11
  <2>2. \A p \in 1 .. Len(d) : t[Len(a) + Len(b) + Len(c) + p] = d[p]
    BY <1>10, <1>11
  <2>3. \A p \in 1 .. Len(e) : t[Len(a) + Len(b) + Len(c) + Len(d) + p] = e[p]
    BY <1>5, <1>11
  <2> QED BY <1>7, <1>8, <1>11, <2>1, <2>2, <2>3 DEF Parts
<1> QED BY <1>5, <1>12 DEF ab, abc, abcd, t

----------------------------------------------------------------------------
(* Reading: what is stored in the first n words, internal/pe reads of them. *)

\* What is left of a complete file when it is cut behind its first n words.
Left(n) == [b \in 0 .. n - 1 |-> word[b]]

Cut(n) == Inv /\ DOMAIN word = 0 .. fileLen - 1 /\ n \in 0 .. fileLen

LEMMA LeftWords ==
  ASSUME NEW n, Cut(n)
  PROVE  /\ n \in Nat /\ n <= fileLen /\ DOMAIN Left(n) = 0 .. n - 1
         /\ \A b \in 0 .. n - 1 : b \in DOMAIN word /\ Left(n)[b] = word[b]
<1>1. fileLen \in Nat /\ n \in 0 .. fileLen /\ DOMAIN word = 0 .. fileLen - 1
  BY DEF Cut, Inv, TypeOK
<1>2. DOMAIN Left(n) = 0 .. n - 1 /\ \A b \in 0 .. n - 1 : Left(n)[b] = word[b]
  BY DEF Left
<1> QED BY <1>1, <1>2

\* reader.off finds a backed address where it is, if that is not cut off.
LEMMA OffBacked ==
  ASSUME NEW n, Cut(n), NEW i \in DOMAIN secs, NEW rva, Backed(secs[i], rva)
  PROVE  /\ Off(n, rva) = IF Byte(secs[i], rva) < n THEN Byte(secs[i], rva) ELSE Bad
         /\ Byte(secs[i], rva) \in Nat /\ Byte(secs[i], rva) # Bad
         /\ Byte(secs[i], rva) < n <=> Byte(secs[i], rva) \in 0 .. n - 1
<1> DEFINE hit == {k \in DOMAIN secs : Within(secs[k], rva)}
<1>1. /\ secs \in Seq(Sections) /\ AddressesDisjoint(secs) /\ n \in Nat
      /\ Within(secs[i], rva) /\ rva - secs[i].rva < secs[i].rawsize
  BY LeftWords DEF Cut, Inv, TypeOK, ImageLoadable, Backed
<1>2. Byte(secs[i], rva) \in Nat
  <2>1. Byte(secs[i], rva) \in 0 .. fileLen - 1
    BY BackedByte DEF Cut
  <2> QED BY <2>1
<1>3. hit = {i}
  <2>1. \A k \in DOMAIN secs : Within(secs[k], rva) => k = i
    BY <1>1, OneHolder
  <2> QED BY <1>1, <2>1
<1>4. Least({i}) = i
  BY <1>1 DEF Least
<1>5. Off(n, rva) =
        IF hit # {} /\ rva - secs[Least(hit)].rva < secs[Least(hit)].rawsize
           /\ Byte(secs[Least(hit)], rva) < n
        THEN Byte(secs[Least(hit)], rva) ELSE Bad
  BY DEF Off
<1> HIDE DEF hit
<1>6. Off(n, rva) = IF Byte(secs[i], rva) < n THEN Byte(secs[i], rva) ELSE Bad
  <2>1. hit # {} /\ Least(hit) = i
    BY <1>3, <1>4
  <2> QED BY <1>1, <1>5, <2>1, Zenon
<1> QED BY <1>1, <1>2, <1>6 DEF Bad

\* Addresses end with the image.
LEMMA InImage ==
  ASSUME Inv, NEW i \in DOMAIN secs, NEW rva, Within(secs[i], rva)
  PROVE  rva \in Nat /\ rva < sizeOfImage
<1> DEFINE n == Len(secs)
<1>1. /\ secs[i].rva \in Nat /\ secs[i].vsize \in Nat /\ RvaEnd(secs[i]) \in Nat
      /\ n \in DOMAIN secs /\ i \in 1 .. n /\ n \in Nat
      /\ secs[n].rva \in Nat /\ RvaEnd(secs[n]) \in Nat /\ secs[n].rva <= RvaEnd(secs[n])
  <2>1. secs \in Seq(Sections) /\ secs # <<>>
    BY DEF Inv, TypeOK
  <2>2. n \in DOMAIN secs /\ i \in 1 .. n /\ n \in Nat
    BY <2>1
  <2>3. TypeOK
    BY DEF Inv
  <2> HIDE DEF n
  <2>4. /\ secs[i].rva \in Nat /\ secs[i].vsize \in Nat /\ RvaEnd(secs[i]) \in Nat
        /\ secs[n].rva \in Nat /\ RvaEnd(secs[n]) \in Nat /\ secs[n].rva <= RvaEnd(secs[n])
    BY <2>2, <2>3, SectionFacts
  <2> QED BY <2>2, <2>4
<1>2. secs[i].rva + secs[i].vsize <= RvaEnd(secs[i])
  <2>1. /\ AlignUp(secs[i].vsize, SectAlign) \in Nat
        /\ secs[i].vsize <= AlignUp(secs[i].vsize, SectAlign)
    BY <1>1, AlignUpBounds, AlignAssumption
  <2> QED BY <1>1, <2>1 DEF RvaEnd
<1>3. sizeOfImage = RvaEnd(secs[n])
  BY DEF Inv, ImageLoadable, Loadable
<1>4. i = n \/ RvaEnd(secs[i]) <= secs[n].rva
  BY <1>1 DEF Inv, ImageLoadable, AddressesDisjoint
<1>5. rva \in Nat /\ rva < secs[i].rva + secs[i].vsize
  BY <1>1 DEF Within
<1> HIDE DEF n
<1> QED BY <1>1, <1>2, <1>3, <1>4, <1>5

LEMMA ReadStored ==
  ASSUME NEW n, Cut(n), NEW rva, NEW x, Stored(secs, Left(n), rva, x)
  PROVE  /\ Off(n, rva) # Bad /\ word[Off(n, rva)] = x
         /\ U32(n, rva) = Value(x)
         /\ rva \in Nat /\ rva < sizeOfImage
<1>1. PICK i \in DOMAIN secs : /\ Backed(secs[i], rva) /\ Byte(secs[i], rva) \in DOMAIN Left(n)
                               /\ Left(n)[Byte(secs[i], rva)] = x
  BY DEF Stored
<1>2. rva \in Nat /\ rva < sizeOfImage
  BY <1>1, InImage DEF Backed, Cut
<1>3. Off(n, rva) # Bad /\ word[Off(n, rva)] = x
  <2>1. Byte(secs[i], rva) \in 0 .. n - 1 /\ word[Byte(secs[i], rva)] = x
    BY <1>1, LeftWords
  <2>2. Off(n, rva) = Byte(secs[i], rva) /\ Off(n, rva) # Bad
    BY <1>1, <2>1, OffBacked
  <2> QED BY <2>1, <2>2
<1> QED BY <1>2, <1>3 DEF U32

LEMMA ReadNumber ==
  ASSUME NEW n, Cut(n), NEW rva, NEW v \in Nat, Stored(secs, Left(n), rva, Num(v))
  PROVE  U32(n, rva) = v /\ U32OrZero(n, rva) = v /\ v # Bad
<1>1. U32(n, rva) = Value(Num(v))
  BY ReadStored
<1>2. Value(Num(v)) = v /\ v # Bad
  BY DEF Value, Num, Bad
<1> QED BY <1>1, <1>2 DEF U32OrZero

LEMMA ReadName ==
  ASSUME NEW n, Cut(n), NEW rva, NEW s, NameStored(secs, Left(n), rva, s)
  PROVE  CStr(n, rva) = s
<1>1. PICK i \in DOMAIN secs :
        /\ Backed(secs[i], rva) /\ Byte(secs[i], rva) \in DOMAIN Left(n)
        /\ Left(n)[Byte(secs[i], rva)] = Text(s)
        /\ \E e \in DOMAIN Left(n) : Byte(secs[i], rva) <= e /\ EndsText(Left(n)[e])
  BY DEF NameStored
<1> DEFINE o == Byte(secs[i], rva)
<1>2. o \in 0 .. n - 1 /\ word[o] = Text(s)
  BY <1>1, LeftWords
<1>3. Off(n, rva) = o /\ o # Bad
  BY <1>1, <1>2, OffBacked
<1> HIDE DEF o
<1>4. PICK e \in 0 .. n - 1 : o <= e /\ EndsText(word[e])
  BY <1>1, LeftWords DEF o
<1>5. e \in o .. n - 1
  BY <1>2, <1>4
<1>6. word[o].kind = "text" /\ word[o].text = s
  BY <1>2 DEF Text
<1> QED BY <1>3, <1>4, <1>5, <1>6 DEF CStr

\* The words of a table of names, and what the walk takes them for.
LEMMA ReadSymbol ==
  ASSUME NEW n, Cut(n), NEW at, NEW s \in Symbols, SymbolWritten(secs, Left(n), at, s)
  PROVE  /\ U32(n, at) \notin {Bad, 0} /\ Symbol(n, at) = s
         /\ at \in Nat /\ at < sizeOfImage
<1>1. CASE s \in Ordinals
  <2>1. Stored(secs, Left(n), at, Ord(s))
    BY <1>1 DEF SymbolWritten
  <2>2. /\ word[Off(n, at)] = Ord(s) /\ U32(n, at) = Value(Ord(s))
        /\ at \in Nat /\ at < sizeOfImage
    BY <2>1, ReadStored
  <2>3. Value(Ord(s)) = Far /\ Ord(s).kind = "ord" /\ Ord(s).text = s
    BY DEF Value, Ord
  <2> QED BY <2>2, <2>3 DEF Far, Bad, Symbol
<1>2. CASE s \notin Ordinals
  <2>1. PICK v \in Nat \ {0} : /\ Stored(secs, Left(n), at, Num(v))
                               /\ NameStored(secs, Left(n), v + HintLen, s)
    BY <1>2 DEF SymbolWritten, Numbers
  <2>2. /\ word[Off(n, at)] = Num(v) /\ U32(n, at) = v /\ v # Bad
        /\ at \in Nat /\ at < sizeOfImage
    BY <2>1, ReadStored, ReadNumber
  <2>3. CStr(n, v + HintLen) = s
    BY <2>1, ReadName
  <2>4. Value(Num(v)) = v /\ Num(v).kind = "num"
    BY DEF Value, Num
  <2> QED BY <2>1, <2>2, <2>3, <2>4 DEF Symbol
<1> QED BY <1>1, <1>2

\* So the walk over the names ends behind the last of them,
LEMMA ReadThunks ==
  ASSUME NEW n, Cut(n), NEW at \in Nat, NEW names \in Seq(Symbols),
         Stored(secs, Left(n), at + Len(names), Zero),
         \A j \in DOMAIN names : SymbolWritten(secs, Left(n), at + j - 1, names[j])
  PROVE  /\ ThunkEnd(n, at) = Len(names)
         /\ U32(n, at + Len(names)) = 0
         /\ \A j \in 1 .. Len(names) : Symbol(n, at + j - 1) = names[j]
<1> DEFINE L == Len(names)
<1>1. L \in Nat /\ DOMAIN names = 1 .. L
  OBVIOUS
<1>2. U32(n, at + L) = 0 /\ at + L < sizeOfImage
  BY ReadNumber, ReadStored DEF Zero
<1>3. ThunkStops(n, at, L)
  BY <1>2 DEF ThunkStops
<1>4. \A k \in 0 .. L - 1 : ~ ThunkStops(n, at, k)
  <2> TAKE k \in 0 .. L - 1
  <2>1. k + 1 \in DOMAIN names /\ at + (k + 1) - 1 = at + k
    BY <1>1
  <2>2. names[k + 1] \in Symbols /\ SymbolWritten(secs, Left(n), at + k, names[k + 1])
    BY <2>1
  <2>3. U32(n, at + k) \notin {Bad, 0}
    BY <2>2, ReadSymbol
  <2> QED BY <2>3 DEF ThunkStops
<1>5. L \in 0 .. sizeOfImage
  BY <1>1, <1>2 DEF Cut, Inv, TypeOK
<1>6. \A j \in 1 .. L : Symbol(n, at + j - 1) = names[j]
  <2> TAKE j \in 1 .. L
  <2>1. names[j] \in Symbols /\ SymbolWritten(secs, Left(n), at + j - 1, names[j])
    BY <1>1
  <2> QED BY <2>1, ReadSymbol
<1> HIDE DEF L
<1>7. ThunkEnd(n, at) = L
  <2>1. \A i \in 0 .. sizeOfImage :
          ThunkStops(n, at, i) /\ (\A k \in 0 .. i - 1 : ~ ThunkStops(n, at, k))
          => i = L
    BY <1>1, <1>3, <1>4
  <2> QED BY <1>3, <1>4, <1>5, <2>1 DEF ThunkEnd
<1> QED BY <1>2, <1>6, <1>7 DEF L

\* and a descriptor is read as it was written.
LEMMA ReadDescriptor ==
  ASSUME NEW n, Cut(n), NEW i \in Nat, NEW d \in Descriptors,
         DescWritten(secs, Left(n), importDir + DescLen * i, d)
  PROVE  ~ DescStops(n, i) /\ ReadDesc(n, i) = d /\ DescReadable(n, i)
<1> DEFINE at == importDir + DescLen * i
<1>1. PICK oft \in Numbers(Left(n)) :
        /\ Stored(secs, Left(n), at, Num(oft)) /\ Stored(secs, Left(n), at + 2, Num(d.first))
        /\ \E name \in Numbers(Left(n)) :
             /\ Stored(secs, Left(n), at + 1, Num(name)) /\ NameStored(secs, Left(n), name, d.dll)
             /\ oft # 0 \/ name # 0 \/ d.first # 0
        /\ LET table == IF oft = 0 THEN d.first ELSE oft
           IN  /\ Stored(secs, Left(n), table + Len(d.names), Zero)
               /\ \A j \in DOMAIN d.names : SymbolWritten(secs, Left(n), table + j - 1, d.names[j])
  BY Zenon DEF DescWritten
<1>2. PICK name \in Numbers(Left(n)) : /\ Stored(secs, Left(n), at + 1, Num(name))
                                       /\ NameStored(secs, Left(n), name, d.dll)
                                       /\ oft # 0 \/ name # 0 \/ d.first # 0
  BY <1>1
<1>3. /\ oft \in Nat /\ name \in Nat
      /\ d.dll \in Dlls /\ d.first \in Nat /\ d.names \in Seq(Symbols)
      /\ d = [dll |-> d.dll, first |-> d.first, names |-> d.names]
  BY DEF Numbers, Descriptors
<1>4. Desc(n, i) = [oft |-> oft, name |-> name, ft |-> d.first] /\ oft # Bad
  <2> HIDE DEF at
  <2>1. U32(n, at) = oft /\ oft # Bad
    BY <1>1, <1>3, ReadNumber
  <2>2. U32OrZero(n, at + 1) = name
    <3> DEFINE x == at + 1
    <3>1. Stored(secs, Left(n), x, Num(name)) /\ name \in Nat
      BY <1>2, <1>3
    <3> HIDE DEF x
    <3>2. U32OrZero(n, x) = name
      BY <3>1, ReadNumber
    <3> QED BY <3>2 DEF x
  <2>3. U32OrZero(n, at + 2) = d.first
    BY <1>1, <1>3, ReadNumber
  <2> QED BY <2>1, <2>2, <2>3, Zenon DEF Desc, at
<1> DEFINE table == IF oft = 0 THEN d.first ELSE oft
<1>5. Lookup(Desc(n, i)) = table /\ table \in Nat
  <2>1. Desc(n, i).oft = oft /\ Desc(n, i).ft = d.first
    BY <1>4
  <2>2. Lookup(Desc(n, i)) = table
    BY <2>1, Zenon DEF Lookup
  <2> QED BY <1>3, <2>2
<1>6. ~ DescStops(n, i)
  BY <1>2, <1>4 DEF DescStops
<1>7. CStr(n, name) = d.dll
  BY <1>2, ReadName
<1>8. /\ Stored(secs, Left(n), table + Len(d.names), Zero)
      /\ \A j \in DOMAIN d.names : SymbolWritten(secs, Left(n), table + j - 1, d.names[j])
  BY <1>1
<1> HIDE DEF table, at
<1>9. /\ ThunkEnd(n, table) = Len(d.names)
      /\ U32(n, table + Len(d.names)) = 0
      /\ \A j \in 1 .. Len(d.names) : Symbol(n, table + j - 1) = d.names[j]
  BY <1>3, <1>5, <1>8, ReadThunks
<1>10. [j \in 1 .. ThunkEnd(n, table) |-> Symbol(n, table + j - 1)] = d.names
  BY <1>3, <1>9
<1>11. ReadDesc(n, i) = d
  BY <1>3, <1>4, <1>5, <1>7, <1>10 DEF ReadDesc
<1>12. d.dll # NoText /\ \A j \in DOMAIN d.names : d.names[j] # NoText
  BY <1>3, NamesAssumption
<1>13. DescReadable(n, i)
  BY <1>4, <1>5, <1>7, <1>9, <1>11, <1>12 DEF DescReadable
<1> QED BY <1>6, <1>11, <1>13

\* What was written is what the walks read.
LEMMA ReadWritten ==
  ASSUME NEW n, Cut(n), NEW D \in Seq(Descriptors), importDir # 0,
         ImportsWritten(secs, Left(n), importDir, D)
  PROVE  ReadImports(n) = D /\ ImportsReadable(n)
<1> DEFINE L == Len(D)
<1>1. L \in Nat /\ DOMAIN D = 1 .. L /\ importDir \in Nat
  BY DEF Cut, Inv, TypeOK
<1>2. \A i \in 0 .. L - 1 : /\ ~ DescStops(n, i) /\ ReadDesc(n, i) = D[i + 1]
                            /\ DescReadable(n, i)
  <2> TAKE i \in 0 .. L - 1
  <2>1. i \in Nat /\ i + 1 \in DOMAIN D /\ D[i + 1] \in Descriptors /\ (i + 1) - 1 = i
    BY <1>1
  <2>2. DescWritten(secs, Left(n), importDir + DescLen * i, D[i + 1])
    BY <2>1 DEF ImportsWritten
  <2> QED BY <2>1, <2>2, ReadDescriptor
<1>3. \A f \in 0 .. 2 : Stored(secs, Left(n), importDir + DescLen * L + f, Num(0))
  BY DEF ImportsWritten, DescLen, Zero
<1>4. /\ Stored(secs, Left(n), importDir + DescLen * L, Num(0))
      /\ Stored(secs, Left(n), importDir + DescLen * L + 1, Num(0))
      /\ Stored(secs, Left(n), importDir + DescLen * L + 2, Num(0))
  <2>1. importDir + DescLen * L + 0 = importDir + DescLen * L
    BY <1>1 DEF DescLen
  <2> HIDE DEF L
  <2> QED BY <1>3, <2>1
<1>5. Desc(n, L) = [oft |-> 0, name |-> 0, ft |-> 0] /\ 0 # Bad
  BY <1>4, ReadNumber DEF Desc
<1>6. importDir + DescLen * L < sizeOfImage /\ sizeOfImage \in Nat
  BY <1>4, ReadStored DEF Cut, Inv, TypeOK
<1>7. L \in 0 .. sizeOfImage
  BY <1>1, <1>6 DEF DescLen
<1>8. DescStops(n, L) /\ Desc(n, L).oft # Bad
  BY <1>5 DEF DescStops
<1> HIDE DEF L
<1>9. DescEnd(n) = L
  <2>1. \A i \in 0 .. sizeOfImage :
          DescStops(n, i) /\ (\A k \in 0 .. i - 1 : ~ DescStops(n, k)) => i = L
    BY <1>1, <1>2, <1>8
  <2> QED BY <1>2, <1>7, <1>8, <2>1 DEF DescEnd
<1>10. ReadImports(n) = D
  <2>1. \A i \in 1 .. L : ReadDesc(n, i - 1) = D[i]
    <3> TAKE i \in 1 .. L
    <3>1. i - 1 \in 0 .. L - 1 /\ (i - 1) + 1 = i
      BY <1>1
    <3> QED BY <1>2, <3>1
  <2> QED BY <1>1, <1>9, <2>1 DEF ReadImports
<1>11. ImportsReadable(n)
  BY <1>2, <1>8, <1>9 DEF ImportsReadable
<1> QED BY <1>10, <1>11

----------------------------------------------------------------------------
(* Building: the pieces, and the texts that are written once. *)

LEMMA IsSequence ==
  ASSUME NEW T, NEW n \in Nat, NEW f \in [1 .. n -> T]
  PROVE  f \in Seq(T) /\ Len(f) = n /\ DOMAIN f = 1 .. n
OBVIOUS

\* Each text that is not left out is found at its place.
LEMMA OnceHolds ==
  ASSUME NEW T, NEW texts \in Seq(T), NEW out
  PROVE  /\ Once(texts, out) \in Seq(T)
         /\ \A i \in DOMAIN texts : texts[i] \notin out =>
              /\ Place(texts[i], Once(texts, out)) \in DOMAIN Once(texts, out)
              /\ Once(texts, out)[Place(texts[i], Once(texts, out))] = texts[i]
<1> DEFINE s == [i \in DOMAIN texts |->
                   IF texts[i] \in out \/ \E j \in 1 .. i - 1 : texts[j] = texts[i]
                   THEN <<>> ELSE <<texts[i]>>]
           O == Once(texts, out)
<1>1. O = FlattenSeq(s)
  BY DEF Once
<1>2. s \in Seq(Seq(T)) /\ DOMAIN s = DOMAIN texts
  <2>1. \A i \in DOMAIN texts : <<>> \in Seq(T) /\ <<texts[i]>> \in Seq(T)
    OBVIOUS
  <2>2. \A i \in DOMAIN texts : s[i] \in Seq(T)
    BY <2>1
  <2>3. DOMAIN texts = 1 .. Len(texts) /\ Len(texts) \in Nat
    OBVIOUS
  <2> HIDE DEF s
  <2>4. s = [i \in 1 .. Len(texts) |-> s[i]]
    BY <2>3 DEF s
  <2> QED BY <2>2, <2>3, <2>4
<1>3. ASSUME NEW i \in DOMAIN texts, texts[i] \notin out
      PROVE  \E p \in DOMAIN O : O[p] = texts[i]
  <2> DEFINE B == {j \in DOMAIN texts : texts[j] = texts[i]}
  <2>1. PICK m \in B : \A j \in B : m <= j
    <3>1. B \in SUBSET Nat /\ B # {}
      OBVIOUS
    <3> HIDE DEF B
    <3> QED BY <3>1, LeastOfNat
  <2>2. m \in DOMAIN texts /\ texts[m] = texts[i] /\ m \in Nat /\ DOMAIN texts = 1 .. Len(texts)
    BY <2>1
  <2>3. \A j \in 1 .. m - 1 : texts[j] # texts[m]
    <3> SUFFICES ASSUME NEW j \in 1 .. m - 1, texts[j] = texts[m] PROVE FALSE
      OBVIOUS
    <3>1. j \in B
      BY <2>2
    <3>2. m <= j
      BY <2>1, <3>1
    <3> QED BY <2>2, <3>2
  <2>4. s[m] = <<texts[i]>>
    BY <1>3, <2>2, <2>3
  <2>5. 1 \in DOMAIN s[m] /\ s[m][1] = texts[i]
    BY <2>4
  <2> HIDE DEF s
  <2>6. \A k \in DOMAIN s[m] : \E p \in DOMAIN FlattenSeq(s) : FlattenSeq(s)[p] = s[m][k]
    <3>1. s \in Seq(Seq(T)) /\ m \in DOMAIN s
      BY <1>2, <2>2
    <3>2. \A h \in DOMAIN s : \A k \in DOMAIN s[h] :
            \E p \in DOMAIN FlattenSeq(s) : FlattenSeq(s)[p] = s[h][k]
      BY <3>1, FlattenRange, Zenon
    <3> QED BY <3>1, <3>2
  <2>7. \E p \in DOMAIN FlattenSeq(s) : FlattenSeq(s)[p] = s[m][1]
    BY <2>5, <2>6
  <2> QED BY <1>1, <2>5, <2>7
<1>4. O \in Seq(T)
  <2> HIDE DEF s
  <2> QED BY <1>1, <1>2, FlattenRange
<1>5. ASSUME NEW i \in DOMAIN texts, texts[i] \notin out
      PROVE  Place(texts[i], O) \in DOMAIN O /\ O[Place(texts[i], O)] = texts[i]
  <2> HIDE DEF O
  <2> QED BY <1>3, <1>5 DEF Place
<1> QED BY <1>4, <1>5 DEF O

\* and nowhere else: what is written is some text, once.
LEMMA OnceAlone ==
  ASSUME NEW T, NEW texts \in Seq(T), NEW out, NEW p \in DOMAIN Once(texts, out)
  PROVE  /\ Place(Once(texts, out)[p], Once(texts, out)) = p
         /\ \E i \in DOMAIN texts : texts[i] = Once(texts, out)[p] /\ texts[i] \notin out
<1> DEFINE s == [i \in DOMAIN texts |->
                   IF texts[i] \in out \/ \E j \in 1 .. i - 1 : texts[j] = texts[i]
                   THEN <<>> ELSE <<texts[i]>>]
           O == Once(texts, out)
           n == Len(texts)
           at(i) == Len(Flat(s, i - 1))
<1>1. O = FlattenSeq(s)
  BY DEF Once
<1>2. n \in Nat /\ DOMAIN texts = 1 .. n
  OBVIOUS
<1>3. s \in Seq(Seq(T)) /\ Len(s) = n
  <2>1. \A i \in 1 .. n : <<>> \in Seq(T) /\ <<texts[i]>> \in Seq(T)
    BY <1>2
  <2>2. s \in [1 .. n -> Seq(T)]
    BY <1>2, <2>1
  <2> HIDE DEF s, n
  <2> QED BY <1>2, <2>2, IsSequence
<1>4. \A i \in 1 .. n : Len(s[i]) # 0 =>
        /\ s[i] = <<texts[i]>> /\ Len(s[i]) = 1 /\ texts[i] \notin out
        /\ \A j \in 1 .. i - 1 : texts[j] # texts[i]
  BY <1>2
<1> HIDE DEF s, n
<1>5. Laid(T, s, n) /\ O = Flat(s, n)
  BY <1>1, <1>3, FlattenLaid
<1> HIDE DEF O, at
<1>6. /\ DOMAIN O = 1 .. Len(O)
      /\ \A i \in 1 .. n : \A k \in 1 .. Len(s[i]) : O[at(i) + k] = s[i][k]
      /\ \A r \in 1 .. Len(O) : \E i \in 1 .. n : \E k \in 1 .. Len(s[i]) : r = at(i) + k
  <2>1. /\ O \in Seq(T)
        /\ \A i \in 1 .. n : \A k \in 1 .. Len(s[i]) : O[at(i) + k] = s[i][k]
        /\ \A r \in 1 .. Len(O) : \E i \in 1 .. n : \E k \in 1 .. Len(s[i]) : r = at(i) + k
    BY <1>5, Zenon DEF Laid, at
  <2> QED BY <2>1
<1>7. ASSUME NEW r \in DOMAIN O
      PROVE  \E i \in 1 .. n : /\ r = at(i) + 1 /\ O[r] = texts[i] /\ texts[i] \notin out
                               /\ \A j \in 1 .. i - 1 : texts[j] # texts[i]
  <2>1. PICK i \in 1 .. n : \E k \in 1 .. Len(s[i]) : r = at(i) + k
    BY <1>6
  <2>2. PICK k \in 1 .. Len(s[i]) : r = at(i) + k
    BY <2>1
  <2>3. Len(s[i]) \in Nat
    <3>1. i \in DOMAIN s
      BY <1>3
    <3>2. s[i] \in Seq(T)
      BY <1>3, <3>1
    <3> QED BY <3>2
  <2>4. Len(s[i]) # 0
    BY <2>3
  <2>5. k = 1 /\ s[i][1] = texts[i]
    BY <1>4, <2>4
  <2>6. O[r] = texts[i]
    BY <1>6, <2>2, <2>5
  <2> QED BY <1>4, <2>2, <2>4, <2>5, <2>6
<1>8. ASSUME NEW r \in DOMAIN O, O[r] = O[p] PROVE r = p
  <2>1. PICK i \in 1 .. n : /\ r = at(i) + 1 /\ O[r] = texts[i]
                            /\ \A j \in 1 .. i - 1 : texts[j] # texts[i]
    BY <1>7
  <2>2. PICK k \in 1 .. n : /\ p = at(k) + 1 /\ O[p] = texts[k]
                            /\ \A j \in 1 .. k - 1 : texts[j] # texts[k]
    BY <1>7 DEF O
  <2>3. ~ (i \in 1 .. k - 1) /\ ~ (k \in 1 .. i - 1)
    BY <1>8, <2>1, <2>2
  <2>4. i = k
    BY <1>2, <2>3
  <2> QED BY <2>1, <2>2, <2>4
<1>9. Place(O[p], O) = p
  BY <1>8 DEF Place, O
<1>10. \E i \in DOMAIN texts : texts[i] = O[p] /\ texts[i] \notin out
  BY <1>2, <1>7 DEF O
<1> QED BY <1>9, <1>10 DEF O

\* At most one run starts at a slot.
LEMMA OneRun ==
  ASSUME NEW d \in Descriptors, NEW dropped, NEW k \in DOMAIN d.names,
         NEW r \in Runs(d, dropped), r[1] = k
  PROVE  PieceAt(d, k, dropped) = <<Piece(d, r)>>
<1> DEFINE kept == Kept(d, dropped)
           from == {q \in Runs(d, dropped) : q[1] = k}
<1>1. kept \subseteq Nat
  <2>1. d.names \in Seq(Symbols)
    BY DEF Descriptors
  <2> QED BY <2>1 DEF Kept
<1>2. \A q \in Runs(d, dropped) :
        /\ q \in kept \X kept /\ q[1] <= q[2] /\ q[1] .. q[2] \subseteq kept /\ q[2] + 1 \notin kept
  BY DEF Runs
<1> HIDE DEF kept
<1>3. ASSUME NEW q \in from PROVE q = r
  <2>1. q \in kept \X kept /\ r \in kept \X kept /\ q[1] = k /\ r[1] = k
    BY <1>2
  <2>2. q[1] \in Nat /\ q[2] \in Nat /\ r[1] \in Nat /\ r[2] \in Nat
        /\ q = <<q[1], q[2]>> /\ r = <<r[1], r[2]>>
    <3>1. \A x \in kept \X kept : x[1] \in kept /\ x[2] \in kept /\ x = <<x[1], x[2]>>
      OBVIOUS
    <3> QED BY <1>1, <2>1, <3>1
  <2>3. q[1] .. q[2] \subseteq kept /\ q[2] + 1 \notin kept /\ q[1] <= q[2]
        /\ r[1] .. r[2] \subseteq kept /\ r[2] + 1 \notin kept /\ r[1] <= r[2]
    BY <1>2
  <2>4. q[2] = r[2]
    <3>1. CASE q[2] < r[2]
      <4>1. q[2] + 1 \in r[1] .. r[2]
        BY <2>1, <2>2, <2>3, <3>1
      <4> QED BY <2>3, <4>1
    <3>2. CASE r[2] < q[2]
      <4>1. r[2] + 1 \in q[1] .. q[2]
        BY <2>1, <2>2, <2>3, <3>2
      <4> QED BY <2>3, <4>1
    <3> QED BY <2>2, <3>1, <3>2
  <2> QED BY <2>1, <2>2, <2>4
<1>4. r \in from
  OBVIOUS
<1>5. PieceAt(d, k, dropped) =
        IF from = {} THEN <<>> ELSE <<Piece(d, CHOOSE q \in from : TRUE)>>
  BY DEF PieceAt
<1> HIDE DEF from
<1>6. (CHOOSE q \in from : TRUE) = r
  BY <1>3, <1>4
<1> QED BY <1>4, <1>5, <1>6

\* The pieces, in the order of the file, are what RebuildImports says.
LEMMA PiecesRange ==
  ASSUME NEW D \in Seq(Descriptors), NEW dropped
  PROVE  /\ Pieces(D, dropped) \in Seq(Descriptors)
         /\ Range(Pieces(D, dropped)) = RebuildImports(Range(D), dropped)
<1> DEFINE R == RebuildImports(Range(D), dropped)
           s(i) == [k \in DOMAIN D[i].names |-> PieceAt(D[i], k, dropped)]
           t == [i \in DOMAIN D |-> FlattenSeq(s(i))]
<1>1. R \subseteq Descriptors
  <2>1. Range(D) \in SUBSET Descriptors
    BY DEF Range
  <2> QED BY <2>1, RebuiltSlots
<1>2. \A p : p \in R <=> \E i \in DOMAIN D : \E r \in Runs(D[i], dropped) : p = Piece(D[i], r)
  BY DEF RebuildImports, Range
<1> HIDE DEF R
<1>3. ASSUME NEW i \in DOMAIN D
      PROVE  /\ s(i) \in Seq(Seq(R)) /\ DOMAIN s(i) = DOMAIN D[i].names
             /\ \A r \in Runs(D[i], dropped) :
                  r[1] \in DOMAIN s(i) /\ s(i)[r[1]] = <<Piece(D[i], r)>>
  <2>0. D[i] \in Descriptors
    OBVIOUS
  <2>1. D[i] \in Descriptors /\ D[i].names \in Seq(Symbols)
    BY <2>0 DEF Descriptors
  <2>2. \A r \in Runs(D[i], dropped) : r[1] \in DOMAIN D[i].names
    BY DEF Runs, Kept
  <2>3. \A r \in Runs(D[i], dropped) : PieceAt(D[i], r[1], dropped) = <<Piece(D[i], r)>>
    BY <2>1, <2>2, OneRun
  <2>4. ASSUME NEW k \in DOMAIN D[i].names PROVE PieceAt(D[i], k, dropped) \in Seq(R)
    <3> DEFINE from == {r \in Runs(D[i], dropped) : r[1] = k}
    <3>1. CASE from = {}
      <4>1. PieceAt(D[i], k, dropped) = <<>>
        BY <3>1 DEF PieceAt
      <4> QED BY <4>1
    <3>2. CASE from # {}
      <4>1. PICK r \in Runs(D[i], dropped) : r[1] = k
        BY <3>2
      <4>2. Piece(D[i], r) \in R
        BY <1>2
      <4>3. PieceAt(D[i], k, dropped) = <<Piece(D[i], r)>>
        BY <2>3, <4>1
      <4> QED BY <4>2, <4>3
    <3> QED BY <3>1, <3>2
  <2>5. PICK n \in Nat : DOMAIN D[i].names = 1 .. n
    BY <2>1
  <2>6. s(i) \in [1 .. n -> Seq(R)]
    BY <2>4, <2>5
  <2>7. s(i) \in Seq(Seq(R))
    <3> HIDE DEF s
    <3> QED BY <2>6
  <2> QED BY <2>2, <2>3, <2>7
<1> HIDE DEF s
<1>4. \A i \in DOMAIN D : FlattenSeq(s(i)) \in Seq(R)
  BY <1>3, FlattenRange
<1>5. t \in Seq(Seq(R)) /\ DOMAIN t = DOMAIN D /\ \A i \in DOMAIN D : t[i] = FlattenSeq(s(i))
  <2>1. PICK n \in Nat : DOMAIN D = 1 .. n
    OBVIOUS
  <2>2. t \in [1 .. n -> Seq(R)]
    BY <1>4, <2>1
  <2>3. t \in Seq(Seq(R))
    <3> HIDE DEF t
    <3> QED BY <2>2
  <2> QED BY <2>3
<1>6. Pieces(D, dropped) = FlattenSeq(t)
  BY DEF Pieces, t, s
<1> HIDE DEF t
<1>7. FlattenSeq(t) \in Seq(R)
  BY <1>5, FlattenRange
<1>8. ASSUME NEW p \in R PROVE \E q \in DOMAIN FlattenSeq(t) : FlattenSeq(t)[q] = p
  <2>1. PICK i \in DOMAIN D : \E r \in Runs(D[i], dropped) : p = Piece(D[i], r)
    BY <1>2
  <2>2. PICK r \in Runs(D[i], dropped) : p = Piece(D[i], r)
    BY <2>1
  <2>3. r[1] \in DOMAIN s(i) /\ s(i)[r[1]] = <<p>>
    BY <1>3, <2>2
  <2>4. 1 \in DOMAIN s(i)[r[1]] /\ s(i)[r[1]][1] = p
    BY <2>3
  <2>5. PICK q \in DOMAIN FlattenSeq(s(i)) : FlattenSeq(s(i))[q] = p
    BY <1>3, <2>3, <2>4, FlattenRange
  <2>6. i \in DOMAIN t /\ q \in DOMAIN t[i] /\ t[i][q] = p
    BY <1>5, <2>5
  <2> QED BY <1>5, <2>6, FlattenRange
<1>9. Range(FlattenSeq(t)) = R
  <2>1. \A q \in DOMAIN FlattenSeq(t) : FlattenSeq(t)[q] \in R
    BY <1>7
  <2> QED BY <1>8, <2>1 DEF Range
<1>10. FlattenSeq(t) \in Seq(Descriptors)
  <2>1. \A q \in DOMAIN FlattenSeq(t) : FlattenSeq(t)[q] \in Descriptors
    BY <1>1, <1>7
  <2>2. /\ DOMAIN FlattenSeq(t) = 1 .. Len(FlattenSeq(t)) /\ Len(FlattenSeq(t)) \in Nat
        /\ FlattenSeq(t) = [q \in 1 .. Len(FlattenSeq(t)) |-> FlattenSeq(t)[q]]
    BY <1>7
  <2> DEFINE F == FlattenSeq(t)
  <2> HIDE DEF F
  <2> QED BY <2>1, <2>2 DEF F
<1> QED BY <1>6, <1>9, <1>10 DEF R

----------------------------------------------------------------------------
(* The section rebuildImports returns, word by word. *)

Words == {Num(v) : v \in Nat} \cup {Nul} \cup {Text(s) : s \in Dlls \cup Symbols \cup {NoText}}
         \cup {Ord(s) : s \in Symbols \cup {NoText}}

\* In the section S, for the address base: a name, an entry of a lookup table, and
\* a descriptor with what it refers to.
NameIn(S, p, s) == {p, p + 1} \subseteq DOMAIN S /\ S[p] = Text(s) /\ S[p + 1] = Nul

SymbolIn(S, base, p, s) ==
  /\ p \in DOMAIN S
  /\ IF s \in Ordinals THEN S[p] = Ord(s)
     ELSE \E q \in Nat \ {0, 1} : S[p] = Num(base + q - 1) /\ NameIn(S, q + HintLen, s)

DescIn(S, base, p, d) ==
  /\ {p, p + 1, p + 2} \subseteq DOMAIN S /\ S[p + 2] = Num(d.first)
  /\ \E q \in Nat \ {0} : S[p + 1] = Num(base + q - 1) /\ NameIn(S, q, d.dll)
  /\ \E t \in Nat \ {0, 1} :
       /\ S[p] = Num(base + t - 1) /\ p + 2 < t
       /\ t + Len(d.names) \in DOMAIN S /\ S[t + Len(d.names)] = Zero
       /\ \A j \in DOMAIN d.names : SymbolIn(S, base, t + j - 1, d.names[j])

\* The descriptor d at p refers to the name at q: as its DLL's, or as that of a
\* function whose hint is before it.
RefersTo(S, base, p, d, q) ==
  \/ S[p + 1] = Num(base + q - 1)
  \/ \E t \in Nat : \E j \in DOMAIN d.names :
       S[p] = Num(base + t - 1) /\ S[t + j - 1] = Num(base + q - HintLen - 1)

\* The section ends with a name, which is somebody's.
LastNamed(S, base, ps) ==
  LET q == Len(S) - 1
  IN  /\ q \in DOMAIN S /\ \E s : S[q] = Text(s)
      /\ \E i \in DOMAIN ps : RefersTo(S, base, DescLen * (i - 1) + 1, ps[i], q)

\* Every descriptor of the section refers to the names it should, and the walk
\* over them ends: the addresses the code computes from the number of descriptors,
\* the lengths of the tables and the places of the names agree with the layout.
LEMMA Built ==
  ASSUME NEW ps \in Seq(Descriptors), NEW base \in Nat
  PROVE  LET S == BuildSection(ps, base)
         IN  /\ S \in Seq(Words)
             /\ \A i \in DOMAIN ps : DescIn(S, base, DescLen * (i - 1) + 1, ps[i])
             /\ \A f \in 0 .. DescLen - 1 : /\ DescLen * Len(ps) + f + 1 \in DOMAIN S
                                            /\ S[DescLen * Len(ps) + f + 1] = Zero
             /\ ps # <<>> => LastNamed(S, base, ps)
<1> DEFINE Names == Symbols \cup {NoText}
           N == DOMAIN ps
           n == Len(ps)
           tables == [i \in N |-> Append(ps[i].names, NoText)]
           lookups == FlattenSeq(tables)
           tableStart == base + DescLen * (Len(ps) + 1)
           intStart(i) == tableStart + Len(FlattenSeq(SubSeq(tables, 1, i - 1)))
           nameStart == tableStart + Len(lookups)
           dllOf == [i \in N |-> ps[i].dll]
           dlls == Once(dllOf, {})
           funcs == Once(lookups, Ordinals \cup {NoText})
           dllAt(s) == nameStart + 2 * (Place(s, dlls) - 1)
           funcAt(s) == nameStart + 2 * Len(dlls) + 3 * (Place(s, funcs) - 1)
           thunk(s) == IF s = NoText THEN Zero
                       ELSE IF s \in Ordinals THEN Ord(s) ELSE Num(funcAt(s))
           as == [i \in N |-> <<Num(intStart(i)), Num(dllAt(ps[i].dll)), Num(ps[i].first)>>]
           a == FlattenSeq(as)
           b == <<Zero, Zero, Zero>>
           c == [j \in DOMAIN lookups |-> thunk(lookups[j])]
           ds == [i \in DOMAIN dlls |-> <<Text(dlls[i]), Nul>>]
           d == FlattenSeq(ds)
           es == [i \in DOMAIN funcs |-> <<Zero, Text(funcs[i]), Nul>>]
           e == FlattenSeq(es)
           S == BuildSection(ps, base)
<1>1. S = a \o b \o c \o d \o e
  BY Zenon DEF BuildSection
<1>2. n \in Nat /\ N = 1 .. n
  OBVIOUS
<1>3. \A i \in N : /\ ps[i].names \in Seq(Symbols) /\ ps[i].dll \in Dlls /\ ps[i].first \in Nat
                   /\ DOMAIN ps[i].names = 1 .. Len(ps[i].names) /\ Len(ps[i].names) \in Nat
  <2> TAKE i \in N
  <2>1. ps[i] \in Descriptors
    OBVIOUS
  <2>2. ps[i].names \in Seq(Symbols) /\ ps[i].dll \in Dlls /\ ps[i].first \in Nat
    BY <2>1 DEF Descriptors
  <2> QED BY <2>2
<1>4. /\ tables \in Seq(Seq(Names)) /\ DOMAIN tables = N /\ Len(tables) = n
      /\ \A i \in N : /\ Len(tables[i]) = Len(ps[i].names) + 1
                      /\ \A k \in DOMAIN ps[i].names : tables[i][k] = ps[i].names[k]
                      /\ tables[i][Len(ps[i].names) + 1] = NoText
  <2>1. ASSUME NEW i \in N
        PROVE  /\ tables[i] \in Seq(Names) /\ Len(tables[i]) = Len(ps[i].names) + 1
               /\ \A k \in DOMAIN ps[i].names : tables[i][k] = ps[i].names[k]
               /\ tables[i][Len(ps[i].names) + 1] = NoText
    <3> DEFINE u == ps[i].names
    <3>1. u \in Seq(Names) /\ NoText \in Names /\ tables[i] = Append(u, NoText)
      <4>1. u \in Seq(Symbols)
        BY <1>3
      <4> HIDE DEF u
      <4>2. u \in Seq(Symbols \cup {NoText})
        BY <4>1
      <4> QED BY <4>2 DEF u
    <3> HIDE DEF u, Names, tables
    <3> QED BY <3>1 DEF u
  <2>2. tables \in [1 .. n -> Seq(Names)]
    BY <1>2, <2>1
  <2>3. tables \in Seq(Seq(Names)) /\ Len(tables) = n
    <3> HIDE DEF tables, n, Names
    <3> QED BY <1>2, <2>2
  <2> QED BY <2>1, <2>3
<1> HIDE DEF tables, Names, n
<1> DEFINE off(i) == Len(Flat(tables, i - 1))
           L == Len(lookups)
<1>5. /\ lookups \in Seq(Names) /\ L \in Nat /\ DOMAIN lookups = 1 .. L
      /\ \A i \in N : /\ off(i) \in Nat /\ off(i) + Len(ps[i].names) + 1 <= L
                      /\ \A k \in DOMAIN ps[i].names : lookups[off(i) + k] = ps[i].names[k]
                      /\ lookups[off(i) + Len(ps[i].names) + 1] = NoText
                      /\ intStart(i) = tableStart + off(i)
  <2>1. FlattenSeq(tables) = Flat(tables, n) /\ Laid(Names, tables, n)
    BY <1>4, FlattenLaid
  <2>2. lookups \in Seq(Names) /\ L \in Nat /\ DOMAIN lookups = 1 .. L
    BY <2>1 DEF Laid
  <2>3. ASSUME NEW i \in N
        PROVE  /\ off(i) \in Nat /\ off(i) + Len(ps[i].names) + 1 <= L
               /\ \A k \in DOMAIN ps[i].names : lookups[off(i) + k] = ps[i].names[k]
               /\ lookups[off(i) + Len(ps[i].names) + 1] = NoText
    <3>1. /\ Flat(tables, i - 1) \in Seq(Names) /\ off(i) + Len(tables[i]) <= L
          /\ \A k \in 1 .. Len(tables[i]) : lookups[off(i) + k] = tables[i][k]
      BY <1>2, <2>1 DEF Laid
    <3>2. off(i) \in Nat
      BY <3>1, LenProperties
    <3> HIDE DEF lookups, off, L
    <3>3. \A k \in DOMAIN ps[i].names : k \in 1 .. Len(tables[i])
      BY <1>3, <1>4
    <3>4. /\ Len(ps[i].names) + 1 \in 1 .. Len(tables[i])
          /\ off(i) + Len(ps[i].names) + 1 = off(i) + Len(tables[i])
          /\ off(i) + Len(ps[i].names) + 1 = off(i) + (Len(ps[i].names) + 1)
      <4> DEFINE o == off(i)
                 u == Len(ps[i].names)
                 v == Len(tables[i])
      <4>1. o \in Nat /\ u \in Nat /\ v = u + 1
        BY <1>3, <1>4, <3>2
      <4> HIDE DEF o, u, v
      <4>2. u + 1 \in 1 .. v /\ o + u + 1 = o + v /\ o + u + 1 = o + (u + 1)
        BY <4>1
      <4> QED BY <4>2 DEF o, u, v
    <3> QED BY <1>4, <3>1, <3>2, <3>3, <3>4
  <2>4. \A i \in N : intStart(i) = tableStart + off(i)
    BY DEF Flat
  <2> QED BY <2>2, <2>3, <2>4
<1>5a. ASSUME NEW x \in 1 .. L, lookups[x] # NoText
       PROVE  \E i \in N : \E k \in DOMAIN ps[i].names : x = off(i) + k
  <2>1. FlattenSeq(tables) = Flat(tables, n) /\ Laid(Names, tables, n)
    BY <1>4, FlattenLaid
  <2>2. \E i \in 1 .. n : \E k \in 1 .. Len(tables[i]) : x = Len(Flat(tables, i - 1)) + k
    BY <2>1 DEF Laid
  <2>3. PICK i \in 1 .. n : \E k \in 1 .. Len(tables[i]) : x = off(i) + k
    BY <2>2
  <2>4. PICK k \in 1 .. Len(tables[i]) : x = off(i) + k
    BY <2>3
  <2>5. i \in N /\ Len(tables[i]) = Len(ps[i].names) + 1
    BY <1>2, <1>4
  <2> DEFINE o == off(i)
             m == Len(ps[i].names)
  <2>6. /\ o \in Nat /\ m \in Nat /\ k \in 1 .. m + 1 /\ x = o + k
        /\ lookups[o + m + 1] = NoText
    BY <1>3, <1>5, <2>4, <2>5
  <2> HIDE DEF o, m, lookups
  <2>7. k # m + 1
    BY <1>5a, <2>6
  <2>8. k \in 1 .. m
    BY <2>6, <2>7
  <2> QED BY <1>3, <2>4, <2>5, <2>8 DEF m
<1> HIDE DEF lookups, off, intStart
<1>6. /\ dlls \in Seq(Dlls)
      /\ \A i \in N : /\ Place(ps[i].dll, dlls) \in DOMAIN dlls
                      /\ dlls[Place(ps[i].dll, dlls)] = ps[i].dll
  <2>1. dllOf \in Seq(Dlls) /\ DOMAIN dllOf = N /\ \A i \in N : dllOf[i] = ps[i].dll
    <3>1. dllOf \in [1 .. n -> Dlls]
      BY <1>2, <1>3
    <3> QED BY <1>2, <3>1
  <2> HIDE DEF dllOf
  <2>2. /\ dlls \in Seq(Dlls)
        /\ \A i \in N : dllOf[i] \notin {} =>
             /\ Place(dllOf[i], dlls) \in DOMAIN dlls /\ dlls[Place(dllOf[i], dlls)] = dllOf[i]
    BY <2>1, OnceHolds
  <2> QED BY <2>1, <2>2
<1>6a. ASSUME NEW x \in DOMAIN dlls PROVE \E i \in N : Place(ps[i].dll, dlls) = x
  <2>1. dllOf \in Seq(Dlls) /\ DOMAIN dllOf = N /\ \A i \in N : dllOf[i] = ps[i].dll
    <3>1. dllOf \in [1 .. n -> Dlls]
      BY <1>2, <1>3
    <3> QED BY <1>2, <3>1
  <2> HIDE DEF dllOf
  <2>2. Place(dlls[x], dlls) = x /\ \E i \in DOMAIN dllOf : dllOf[i] = dlls[x]
    BY <2>1, OnceAlone
  <2> QED BY <2>1, <2>2
<1>7. /\ funcs \in Seq(Names)
      /\ \A j \in 1 .. L : lookups[j] \notin Ordinals \cup {NoText} =>
           Place(lookups[j], funcs) \in DOMAIN funcs /\ funcs[Place(lookups[j], funcs)] = lookups[j]
  <2>1. lookups \in Seq(Names) /\ DOMAIN lookups = 1 .. L
    BY <1>5
  <2> HIDE DEF L
  <2>2. /\ funcs \in Seq(Names)
        /\ \A j \in DOMAIN lookups : lookups[j] \notin Ordinals \cup {NoText} =>
             Place(lookups[j], funcs) \in DOMAIN funcs /\ funcs[Place(lookups[j], funcs)] = lookups[j]
    BY <2>1, OnceHolds
  <2> QED BY <2>1, <2>2
<1>7a. ASSUME NEW x \in DOMAIN funcs
       PROVE  \E j \in 1 .. L :
                lookups[j] \notin Ordinals \cup {NoText} /\ Place(lookups[j], funcs) = x
  <2> DEFINE out == Ordinals \cup {NoText}
  <2>1. lookups \in Seq(Names) /\ DOMAIN lookups = 1 .. L /\ funcs = Once(lookups, out)
    BY <1>5
  <2> HIDE DEF out, funcs, L
  <2>2. x \in DOMAIN Once(lookups, out)
    BY <2>1
  <2>3. /\ Place(Once(lookups, out)[x], Once(lookups, out)) = x
        /\ \E j \in DOMAIN lookups :
             lookups[j] = Once(lookups, out)[x] /\ lookups[j] \notin out
    BY <2>1, <2>2, OnceAlone
  <2>4. PICK j \in 1 .. L : lookups[j] = funcs[x] /\ lookups[j] \notin out
    BY <2>1, <2>3
  <2>5. Place(lookups[j], funcs) = x
    BY <2>1, <2>3, <2>4
  <2> QED BY <2>4, <2>5 DEF out
<1> HIDE DEF dlls, funcs, dllOf
<1> DEFINE K == Len(dlls)
           M == Len(funcs)
<1>8. K \in Nat /\ DOMAIN dlls = 1 .. K /\ M \in Nat /\ DOMAIN funcs = 1 .. M
  BY <1>6, <1>7
<1> HIDE DEF K, M, L
<1>9. tableStart = base + 3 * n + 3 /\ nameStart = base + 3 * n + 3 + L
  BY <1>2 DEF DescLen, n, L
<1>10. \A i \in N : /\ dllAt(ps[i].dll) = base + 3 * n + 3 + L + 2 * (Place(ps[i].dll, dlls) - 1)
                    /\ dllAt(ps[i].dll) \in Nat
                    /\ intStart(i) = base + 3 * n + 3 + off(i) /\ intStart(i) \in Nat
  <2> TAKE i \in N
  <2>1. Place(ps[i].dll, dlls) \in 1 .. K
    BY <1>6, <1>8
  <2>2. /\ dllAt(ps[i].dll) = base + 3 * n + 3 + L + 2 * (Place(ps[i].dll, dlls) - 1)
        /\ intStart(i) = base + 3 * n + 3 + off(i)
    BY <1>5, <1>9
  <2> DEFINE o == off(i)
             at == Place(ps[i].dll, dlls)
             x == dllAt(ps[i].dll)
             y == intStart(i)
  <2>3. /\ n \in Nat /\ L \in Nat /\ K \in Nat /\ o \in Nat /\ at \in 1 .. K
        /\ x = base + 3 * n + 3 + L + 2 * (at - 1) /\ y = base + 3 * n + 3 + o
    BY <1>2, <1>5, <1>8, <2>1, <2>2
  <2> HIDE DEF o, at, x, y
  <2>4. x \in Nat /\ y \in Nat
    BY <2>3
  <2> QED BY <2>2, <2>4 DEF x, y
<1>11. \A j \in 1 .. L : lookups[j] \notin Ordinals \cup {NoText} =>
         /\ Place(lookups[j], funcs) \in 1 .. M
         /\ funcAt(lookups[j]) = base + 3 * n + 3 + L + 2 * K + 3 * (Place(lookups[j], funcs) - 1)
         /\ funcAt(lookups[j]) \in Nat
  <2> TAKE j \in 1 .. L
  <2> HAVE lookups[j] \notin Ordinals \cup {NoText}
  <2>1. Place(lookups[j], funcs) \in 1 .. M
    BY <1>7, <1>8
  <2>2. funcAt(lookups[j]) = base + 3 * n + 3 + L + 2 * K + 3 * (Place(lookups[j], funcs) - 1)
    BY <1>9 DEF K
  <2> QED BY <1>2, <1>5, <1>8, <2>1, <2>2
<1> HIDE DEF dllAt, funcAt, tableStart, nameStart
<1>12. /\ a \in Seq(Words) /\ Len(a) = 3 * n
       /\ \A i \in N : \A k \in 1 .. 3 : a[3 * (i - 1) + k] = as[i][k]
  <2>1. \A i \in N : as[i] \in Seq(Words) /\ Len(as[i]) = 3
    <3> TAKE i \in N
    <3>1. {Num(intStart(i)), Num(dllAt(ps[i].dll)), Num(ps[i].first)} \subseteq Words
      BY <1>3, <1>10 DEF Words
    <3> HIDE DEF intStart, dllAt
    <3> QED BY <3>1
  <2>2. as \in Seq(Seq(Words)) /\ DOMAIN as = N /\ Len(as) = n
    <3>1. as \in [1 .. n -> Seq(Words)]
      BY <1>2, <2>1
    <3> HIDE DEF as
    <3>2. DOMAIN as = N /\ n \in Nat /\ N = 1 .. n
      BY <1>2, <3>1
    <3>3. as \in Seq(Seq(Words)) /\ Len(as) = n
      BY <3>1, <3>2, IsSequence
    <3> QED BY <3>2, <3>3
  <2> HIDE DEF as
  <2>3. \A i \in DOMAIN as : Len(as[i]) = 3
    BY <2>1, <2>2
  <2>4. FlattenSeq(as) \in Seq(Words) /\ Evenly(FlattenSeq(as), as, 3)
    BY <2>2, <2>3, FlattenEven
  <2> QED BY <1>2, <2>2, <2>4 DEF Evenly
<1>13. b \in Seq(Words) /\ Len(b) = 3 /\ \A k \in 1 .. 3 : b[k] = Zero
  BY DEF Words, Zero
<1>14. /\ c \in Seq(Words) /\ Len(c) = L
       /\ \A j \in 1 .. L : c[j] = thunk(lookups[j])
  <2>1. \A j \in 1 .. L : thunk(lookups[j]) \in Words
    BY <1>5, <1>11 DEF Words, Zero, Names
  <2>2. c \in [1 .. L -> Words] /\ \A j \in 1 .. L : c[j] = thunk(lookups[j])
    BY <1>5, <2>1
  <2>3. c \in Seq(Words) /\ Len(c) = L
    <3> HIDE DEF c
    <3> QED BY <1>5, <2>2
  <2> QED BY <2>2, <2>3
<1>15. /\ d \in Seq(Words) /\ Len(d) = 2 * K
       /\ \A i \in 1 .. K : \A k \in 1 .. 2 : d[2 * (i - 1) + k] = ds[i][k]
  <2>1. \A i \in 1 .. K : ds[i] \in Seq(Words) /\ Len(ds[i]) = 2
    BY <1>6, <1>8 DEF Words
  <2>2. ds \in Seq(Seq(Words)) /\ DOMAIN ds = 1 .. K /\ Len(ds) = K
    <3>1. ds \in [1 .. K -> Seq(Words)]
      BY <1>8, <2>1
    <3> HIDE DEF ds
    <3> QED BY <1>8, <3>1
  <2> HIDE DEF ds
  <2>3. \A i \in DOMAIN ds : Len(ds[i]) = 2
    BY <2>1, <2>2
  <2>4. FlattenSeq(ds) \in Seq(Words) /\ Evenly(FlattenSeq(ds), ds, 2)
    BY <2>2, <2>3, FlattenEven
  <2> QED BY <2>2, <2>4 DEF Evenly
<1>16. /\ e \in Seq(Words) /\ Len(e) = 3 * M
       /\ \A i \in 1 .. M : \A k \in 1 .. 3 : e[3 * (i - 1) + k] = es[i][k]
  <2>1. \A i \in 1 .. M : es[i] \in Seq(Words) /\ Len(es[i]) = 3
    BY <1>7, <1>8 DEF Words, Zero, Names
  <2>2. es \in Seq(Seq(Words)) /\ DOMAIN es = 1 .. M /\ Len(es) = M
    <3>1. es \in [1 .. M -> Seq(Words)]
      BY <1>8, <2>1
    <3> HIDE DEF es
    <3> QED BY <1>8, <3>1
  <2> HIDE DEF es
  <2>3. \A i \in DOMAIN es : Len(es[i]) = 3
    BY <2>1, <2>2
  <2>4. FlattenSeq(es) \in Seq(Words) /\ Evenly(FlattenSeq(es), es, 3)
    BY <2>2, <2>3, FlattenEven
  <2> QED BY <2>2, <2>4 DEF Evenly
<1>17. /\ \A i \in N : /\ as[i][1] = Num(intStart(i)) /\ as[i][2] = Num(dllAt(ps[i].dll))
                       /\ as[i][3] = Num(ps[i].first)
       /\ \A i \in 1 .. K : ds[i][1] = Text(dlls[i]) /\ ds[i][2] = Nul
       /\ \A i \in 1 .. M : es[i][2] = Text(funcs[i]) /\ es[i][3] = Nul
  BY <1>8
<1> HIDE DEF a, b, c, d, e, as, ds, es, thunk, S
<1>18a. n \in Nat /\ L \in Nat /\ K \in Nat /\ M \in Nat
  BY <1>2, <1>5, <1>8
<1>18. /\ S \in Seq(Words) /\ DOMAIN S = 1 .. 3 * n + 3 + L + 2 * K + 3 * M
       /\ \A p \in 1 .. 3 * n : S[p] = a[p]
       /\ \A p \in 1 .. 3 : S[3 * n + p] = b[p]
       /\ \A p \in 1 .. L : S[3 * n + 3 + p] = c[p]
       /\ \A p \in 1 .. 2 * K : S[3 * n + 3 + L + p] = d[p]
       /\ \A p \in 1 .. 3 * M : S[3 * n + 3 + L + 2 * K + p] = e[p]
  <2>0. /\ a \in Seq(Words) /\ b \in Seq(Words) /\ c \in Seq(Words) /\ d \in Seq(Words)
        /\ e \in Seq(Words)
    BY <1>12, <1>13, <1>14, <1>15, <1>16
  <2>1. S \in Seq(Words) /\ Parts(S, a, b, c, d, e)
    BY <1>1, <2>0, FiveParts
  <2>2. DOMAIN S = 1 .. Len(S)
    BY <2>1
  <2> QED BY <1>12, <1>13, <1>14, <1>15, <1>16, <2>1, <2>2 DEF Parts
<1>19. ASSUME NEW i \in N, NEW k \in 1 .. 3
       PROVE  3 * (i - 1) + k \in DOMAIN S /\ S[3 * (i - 1) + k] = as[i][k]
  <2>1. i \in 1 .. n
    BY <1>2
  <2>2. 3 * (i - 1) + k \in 1 .. 3 * n /\ 3 * (i - 1) + k \in 1 .. 3 * n + 3 + L + 2 * K + 3 * M
    BY <1>18a, <2>1
  <2> QED BY <1>12, <1>18, <2>2
<1>20. \A k \in 1 .. 3 : 3 * n + k \in DOMAIN S /\ S[3 * n + k] = Zero
  <2> TAKE k \in 1 .. 3
  <2>1. 3 * n + k \in 1 .. 3 * n + 3 + L + 2 * K + 3 * M
    BY <1>18a
  <2> QED BY <1>13, <1>18, <2>1
<1>21. \A j \in 1 .. L : 3 * n + 3 + j \in DOMAIN S /\ S[3 * n + 3 + j] = thunk(lookups[j])
  <2> TAKE j \in 1 .. L
  <2>1. 3 * n + 3 + j \in 1 .. 3 * n + 3 + L + 2 * K + 3 * M
    BY <1>18a
  <2> QED BY <1>14, <1>18, <2>1
<1>22. ASSUME NEW i \in 1 .. K
       PROVE  NameIn(S, 3 * n + 3 + L + 2 * (i - 1) + 1, dlls[i])
  <2> DEFINE p == 3 * n + 3 + L + 2 * (i - 1) + 1
  <2>1. /\ 2 * (i - 1) + 1 \in 1 .. 2 * K /\ 2 * (i - 1) + 2 \in 1 .. 2 * K
        /\ p = 3 * n + 3 + L + (2 * (i - 1) + 1) /\ p + 1 = 3 * n + 3 + L + (2 * (i - 1) + 2)
        /\ {p, p + 1} \subseteq 1 .. 3 * n + 3 + L + 2 * K + 3 * M
    BY <1>18a
  <2> HIDE DEF p
  <2>2. S[p] = d[2 * (i - 1) + 1] /\ S[p + 1] = d[2 * (i - 1) + 2] /\ {p, p + 1} \subseteq DOMAIN S
    BY <1>18, <2>1
  <2>3. S[p] = Text(dlls[i]) /\ S[p + 1] = Nul
    BY <1>15, <1>17, <2>2
  <2> QED BY <2>2, <2>3 DEF NameIn, p
<1>23. ASSUME NEW i \in 1 .. M
       PROVE  NameIn(S, 3 * n + 3 + L + 2 * K + 3 * (i - 1) + 2, funcs[i])
  <2> DEFINE p == 3 * n + 3 + L + 2 * K + 3 * (i - 1) + 2
  <2>1. /\ 3 * (i - 1) + 2 \in 1 .. 3 * M /\ 3 * (i - 1) + 3 \in 1 .. 3 * M
        /\ p = 3 * n + 3 + L + 2 * K + (3 * (i - 1) + 2)
        /\ p + 1 = 3 * n + 3 + L + 2 * K + (3 * (i - 1) + 3)
        /\ {p, p + 1} \subseteq 1 .. 3 * n + 3 + L + 2 * K + 3 * M
    BY <1>18a
  <2> HIDE DEF p
  <2>2. S[p] = e[3 * (i - 1) + 2] /\ S[p + 1] = e[3 * (i - 1) + 3] /\ {p, p + 1} \subseteq DOMAIN S
    BY <1>18, <2>1
  <2>3. S[p] = Text(funcs[i]) /\ S[p + 1] = Nul
    BY <1>16, <1>17, <2>2
  <2> QED BY <2>2, <2>3 DEF NameIn, p
<1>24. ASSUME NEW j \in 1 .. L, lookups[j] # NoText
       PROVE  SymbolIn(S, base, 3 * n + 3 + j, lookups[j])
  <2>1. 3 * n + 3 + j \in DOMAIN S /\ S[3 * n + 3 + j] = thunk(lookups[j])
    BY <1>21
  <2>2. CASE lookups[j] \in Ordinals
    <3>1. thunk(lookups[j]) = Ord(lookups[j])
      BY <1>24, <2>2 DEF thunk
    <3> QED BY <2>1, <2>2, <3>1 DEF SymbolIn
  <2>3. CASE lookups[j] \notin Ordinals
    <3> DEFINE at == Place(lookups[j], funcs)
               q == 3 * n + 3 + L + 2 * K + 3 * (at - 1) + 1
    <3>1. /\ at \in 1 .. M /\ funcs[at] = lookups[j]
          /\ funcAt(lookups[j]) = base + 3 * n + 3 + L + 2 * K + 3 * (at - 1)
      BY <1>7, <1>8, <1>11, <1>24, <2>3
    <3> HIDE DEF at
    <3>2. q \in Nat \ {0, 1} /\ base + q - 1 = base + 3 * n + 3 + L + 2 * K + 3 * (at - 1)
          /\ q + HintLen = 3 * n + 3 + L + 2 * K + 3 * (at - 1) + 2
      <4>1. PICK x \in Nat : x = at - 1
        BY <1>18a, <3>1
      <4>2. q = 3 * n + 3 + L + 2 * K + 3 * x + 1
        BY <4>1
      <4> HIDE DEF q
      <4>3. /\ q \in Nat \ {0, 1} /\ base + q - 1 = base + 3 * n + 3 + L + 2 * K + 3 * x
            /\ q + HintLen = 3 * n + 3 + L + 2 * K + 3 * x + 2
        BY <1>18a, <4>2 DEF HintLen
      <4> QED BY <4>1, <4>3
    <3>3. NameIn(S, q + HintLen, lookups[j])
      BY <1>23, <3>1, <3>2
    <3>4. thunk(lookups[j]) = Num(funcAt(lookups[j]))
      BY <1>24, <2>3 DEF thunk
    <3>5. S[3 * n + 3 + j] = Num(base + q - 1)
      BY <2>1, <3>1, <3>2, <3>4
    <3> HIDE DEF q
    <3> QED BY <2>1, <2>3, <3>2, <3>3, <3>5 DEF SymbolIn
  <2> QED BY <2>2, <2>3
<1>25. ASSUME NEW i \in N PROVE DescIn(S, base, DescLen * (i - 1) + 1, ps[i])
  <2> DEFINE p == 3 * (i - 1) + 1
             at == Place(ps[i].dll, dlls)
             q == 3 * n + 3 + L + 2 * (at - 1) + 1
             t == 3 * n + 3 + off(i) + 1
  <2>1. /\ i \in 1 .. n /\ DescLen * (i - 1) + 1 = p
        /\ 3 * (i - 1) + 2 = p + 1 /\ 3 * (i - 1) + 3 = p + 2
    BY <1>2 DEF DescLen
  <2>2. /\ {p, p + 1, p + 2} \subseteq DOMAIN S /\ S[p] = Num(intStart(i))
        /\ S[p + 1] = Num(dllAt(ps[i].dll)) /\ S[p + 2] = Num(ps[i].first)
    <3>1. \A k \in 1 .. 3 : 3 * (i - 1) + k \in DOMAIN S /\ S[3 * (i - 1) + k] = as[i][k]
      BY <1>19
    <3>2. 1 \in 1 .. 3 /\ 2 \in 1 .. 3 /\ 3 \in 1 .. 3
      OBVIOUS
    <3> QED BY <1>17, <2>1, <3>1, <3>2
  <2> HIDE DEF p
  <2>3. at \in 1 .. K /\ dlls[at] = ps[i].dll
    BY <1>6, <1>8
  <2>4. dllAt(ps[i].dll) = base + 3 * n + 3 + L + 2 * (at - 1)
    BY <1>10
  <2> HIDE DEF at
  <2>5. q \in Nat \ {0} /\ base + q - 1 = base + 3 * n + 3 + L + 2 * (at - 1)
    <3>1. PICK x \in Nat : x = at - 1
      BY <1>18a, <2>3
    <3>2. q = 3 * n + 3 + L + 2 * x + 1
      BY <3>1
    <3> HIDE DEF q
    <3>3. q \in Nat \ {0} /\ base + q - 1 = base + 3 * n + 3 + L + 2 * x
      BY <1>18a, <3>2
    <3> QED BY <3>1, <3>3
  <2>6. NameIn(S, q, ps[i].dll)
    BY <1>22, <2>3
  <2>7. /\ off(i) \in Nat /\ off(i) + Len(ps[i].names) + 1 \in 1 .. L
        /\ Len(ps[i].names) \in Nat /\ DOMAIN ps[i].names = 1 .. Len(ps[i].names)
        /\ lookups[off(i) + Len(ps[i].names) + 1] = NoText
    BY <1>3, <1>5
  <2> DEFINE o == off(i)
             m == Len(ps[i].names)
  <2>8. /\ t \in Nat \ {0, 1} /\ base + t - 1 = intStart(i) /\ p + 2 < t
        /\ t + Len(ps[i].names) = 3 * n + 3 + (off(i) + Len(ps[i].names) + 1)
    <3>1. intStart(i) = base + 3 * n + 3 + off(i)
      BY <1>10
    <3>2. /\ o \in Nat /\ m \in Nat /\ t = 3 * n + 3 + o + 1
          /\ intStart(i) = base + 3 * n + 3 + o /\ p = 3 * (i - 1) + 1 /\ i \in 1 .. n
      BY <2>1, <2>7, <3>1 DEF p
    <3> HIDE DEF o, m, t
    <3>3. /\ t \in Nat \ {0, 1} /\ base + t - 1 = base + 3 * n + 3 + o /\ p + 2 < t
          /\ t + m = 3 * n + 3 + (o + m + 1)
      BY <1>18a, <3>2
    <3> QED BY <3>2, <3>3 DEF o, m
  <2>9. t + Len(ps[i].names) \in DOMAIN S /\ S[t + Len(ps[i].names)] = Zero
    BY <1>21, <2>7, <2>8 DEF thunk
  <2>10. \A j \in DOMAIN ps[i].names : SymbolIn(S, base, t + j - 1, ps[i].names[j])
    <3> TAKE j \in DOMAIN ps[i].names
    <3>1. off(i) + j \in 1 .. L /\ t + j - 1 = 3 * n + 3 + (off(i) + j)
      <4>1. /\ o \in Nat /\ m \in Nat /\ t = 3 * n + 3 + o + 1 /\ o + m + 1 <= L
            /\ j \in 1 .. m
        BY <1>18a, <2>7
      <4> HIDE DEF o, m, t
      <4>2. o + j \in 1 .. L /\ t + j - 1 = 3 * n + 3 + (o + j)
        BY <1>18a, <4>1
      <4> QED BY <4>2 DEF o
    <3>2. lookups[off(i) + j] = ps[i].names[j] /\ ps[i].names[j] \in Symbols
      BY <1>3, <1>5
    <3>3. lookups[off(i) + j] # NoText
      BY <3>2, NamesAssumption
    <3> QED BY <1>24, <3>1, <3>2, <3>3
  <2> HIDE DEF q, t
  <2> QED BY <2>1, <2>2, <2>4, <2>5, <2>6, <2>8, <2>9, <2>10 DEF DescIn
<1>26. \A f \in 0 .. DescLen - 1 : /\ DescLen * Len(ps) + f + 1 \in DOMAIN S
                                   /\ S[DescLen * Len(ps) + f + 1] = Zero
  <2> TAKE f \in 0 .. DescLen - 1
  <2>1. f + 1 \in 1 .. 3 /\ DescLen * Len(ps) + f + 1 = 3 * n + (f + 1)
    BY <1>2 DEF DescLen, n
  <2> QED BY <1>20, <2>1
<1>27. ASSUME ps # <<>> PROVE LastNamed(S, base, ps)
  <2> DEFINE q == Len(S) - 1
  <2>1. /\ 1 \in N /\ K # 0 /\ Len(S) = 3 * n + 3 + L + 2 * K + 3 * M /\ q \in DOMAIN S
    <3>1. n # 0
      BY <1>27 DEF n
    <3>2. 1 \in N
      BY <1>2, <3>1
    <3>3. K # 0
      BY <1>6, <1>8, <3>2
    <3>4. Len(S) = 3 * n + 3 + L + 2 * K + 3 * M
      <4>1. PICK z : z = 3 * n + 3 + L + 2 * K + 3 * M
        OBVIOUS
      <4>2. z \in Nat /\ DOMAIN S = 1 .. z /\ S \in Seq(Words)
        BY <1>18, <1>18a, <4>1
      <4>3. Len(S) = z
        BY <4>2
      <4> QED BY <4>1, <4>3
    <3>5. q \in DOMAIN S
      BY <1>18, <1>18a, <3>3, <3>4
    <3> QED BY <3>2, <3>3, <3>4, <3>5
  <2> HIDE DEF q
  <2>2. CASE M = 0
    <3>1. PICK i \in N : Place(ps[i].dll, dlls) = K
      <4>1. K \in DOMAIN dlls
        BY <1>8, <2>1
      <4> QED BY <1>6a, <4>1
    <3>2. /\ S[3 * (i - 1) + 2] = Num(dllAt(ps[i].dll))
          /\ dllAt(ps[i].dll) = base + 3 * n + 3 + L + 2 * (K - 1)
      <4>0. \A k \in 1 .. 3 : S[3 * (i - 1) + k] = as[i][k]
        BY <1>19
      <4>1. 2 \in 1 .. 3
        OBVIOUS
      <4>1a. S[3 * (i - 1) + 2] = as[i][2]
        BY <4>0, <4>1
      <4>2. dllAt(ps[i].dll) = base + 3 * n + 3 + L + 2 * (Place(ps[i].dll, dlls) - 1)
        BY <1>10
      <4> QED BY <1>17, <3>1, <4>1a, <4>2
    <3>3. /\ DescLen * (i - 1) + 1 + 1 = 3 * (i - 1) + 2
          /\ base + q - 1 = base + 3 * n + 3 + L + 2 * (K - 1)
          /\ q = 3 * n + 3 + L + 2 * (K - 1) + 1
      BY <1>2, <1>18a, <2>1, <2>2 DEF DescLen, q
    <3>4. RefersTo(S, base, DescLen * (i - 1) + 1, ps[i], q)
      BY <3>2, <3>3 DEF RefersTo
    <3>5. S[q] = Text(dlls[K])
      <4>1. NameIn(S, 3 * n + 3 + L + 2 * (K - 1) + 1, dlls[K])
        BY <1>18a, <1>22, <2>1
      <4> QED BY <3>3, <4>1 DEF NameIn
    <3> QED BY <2>1, <3>4, <3>5 DEF LastNamed, q
  <2>3. CASE M # 0
    <3>1. PICK x \in 1 .. L : /\ lookups[x] \notin Ordinals \cup {NoText}
                              /\ Place(lookups[x], funcs) = M
      <4>1. M \in DOMAIN funcs
        BY <1>8, <2>3
      <4> QED BY <1>7a, <4>1
    <3>2. PICK i \in N : \E k \in DOMAIN ps[i].names : x = off(i) + k
      BY <1>5a, <3>1
    <3>3. PICK j \in DOMAIN ps[i].names : x = off(i) + j
      BY <3>2
    <3> DEFINE t == 3 * n + 3 + off(i) + 1
               o == off(i)
    <3>4. /\ S[3 * (i - 1) + 1] = Num(intStart(i)) /\ intStart(i) = base + 3 * n + 3 + off(i)
      <4>0. \A k \in 1 .. 3 : S[3 * (i - 1) + k] = as[i][k]
        BY <1>19
      <4>1. 1 \in 1 .. 3
        OBVIOUS
      <4>1a. S[3 * (i - 1) + 1] = as[i][1]
        BY <4>0, <4>1
      <4> QED BY <1>10, <1>17, <4>1a
    <3>5. o \in Nat /\ j \in Nat
      BY <1>3, <1>5
    <3>6. /\ DescLen * (i - 1) + 1 = 3 * (i - 1) + 1 /\ t \in Nat
          /\ base + t - 1 = base + 3 * n + 3 + off(i) /\ t + j - 1 = 3 * n + 3 + x
      <4>1. DescLen * (i - 1) + 1 = 3 * (i - 1) + 1
        BY DEF DescLen
      <4>2. x = o + j /\ t = 3 * n + 3 + o + 1
        BY <3>3
      <4> HIDE DEF t, o
      <4>3. t \in Nat /\ base + t - 1 = base + 3 * n + 3 + o /\ t + j - 1 = 3 * n + 3 + x
        BY <1>18a, <3>5, <4>2
      <4> QED BY <4>1, <4>3 DEF o
    <3> HIDE DEF t, o
    <3>7. S[3 * n + 3 + x] = Num(base + 3 * n + 3 + L + 2 * K + 3 * (M - 1))
      BY <1>11, <1>21, <3>1 DEF thunk
    <3>8. /\ base + q - HintLen - 1 = base + 3 * n + 3 + L + 2 * K + 3 * (M - 1)
          /\ q = 3 * n + 3 + L + 2 * K + 3 * (M - 1) + 2
      BY <1>18a, <2>1 DEF HintLen, q
    <3>9. RefersTo(S, base, DescLen * (i - 1) + 1, ps[i], q)
      <4>1. S[DescLen * (i - 1) + 1] = Num(base + t - 1)
        BY <3>4, <3>6
      <4>2. S[t + j - 1] = Num(base + q - HintLen - 1)
        BY <3>6, <3>7, <3>8
      <4> QED BY <3>6, <4>1, <4>2 DEF RefersTo
    <3>10. S[q] = Text(funcs[M])
      <4>1. NameIn(S, 3 * n + 3 + L + 2 * K + 3 * (M - 1) + 2, funcs[M])
        BY <1>18a, <1>23, <2>3
      <4> QED BY <3>8, <4>1 DEF NameIn
    <3> QED BY <2>1, <3>9, <3>10 DEF LastNamed, q
  <2> QED BY <2>2, <2>3
<1> QED BY <1>18, <1>25, <1>26, <1>27, Zenon DEF S

----------------------------------------------------------------------------
(* The import table that was written is the one that is read. *)

\* The words S stand at the start of the section s, which has the address base.
Put(S, base, s, w) ==
  /\ s.raw \in Nat
  /\ \A p \in DOMAIN S :
       LET rva == base + p - 1
           o == s.raw + p - 1
       IN  Backed(s, rva) /\ Byte(s, rva) = o /\ o \in DOMAIN w /\ w[o] = S[p]

\* Mapped at the address it was built for, the section is an import table.
LEMMA PutWritten ==
  ASSUME NEW ps \in Seq(Descriptors), NEW base \in Nat, NEW ss, NEW w,
         NEW k \in DOMAIN ss, Put(BuildSection(ps, base), base, ss[k], w)
  PROVE  ImportsWritten(ss, w, base, ps)
<1> DEFINE S == BuildSection(ps, base)
<1>1. /\ S \in Seq(Words)
      /\ \A i \in DOMAIN ps : DescIn(S, base, DescLen * (i - 1) + 1, ps[i])
      /\ \A f \in 0 .. DescLen - 1 : /\ DescLen * Len(ps) + f + 1 \in DOMAIN S
                                     /\ S[DescLen * Len(ps) + f + 1] = Zero
  BY Built, Zenon
<1>2. Put(S, base, ss[k], w)
  OBVIOUS
<1> HIDE DEF S
<1>3. /\ ss[k].raw \in Nat
      /\ \A p \in DOMAIN S :
           LET rva == base + p - 1
               o == ss[k].raw + p - 1
           IN  Backed(ss[k], rva) /\ Byte(ss[k], rva) = o /\ o \in DOMAIN w /\ w[o] = S[p]
  BY <1>2, Zenon DEF Put
<1>4. DOMAIN S \subseteq Nat
  BY <1>1
<1>5. ASSUME NEW p \in DOMAIN S, NEW rva, rva = base + p - 1
      PROVE  /\ Stored(ss, w, rva, S[p])
             /\ \A v \in Nat : S[p] = Num(v) => v \in Numbers(w)
  <2> DEFINE o == ss[k].raw + p - 1
  <2>1. Backed(ss[k], rva) /\ Byte(ss[k], rva) = o /\ o \in DOMAIN w /\ w[o] = S[p]
    BY <1>3, <1>5
  <2> HIDE DEF o
  <2>2. Stored(ss, w, rva, S[p])
    BY <2>1 DEF Stored
  <2>3. ASSUME NEW v \in Nat, S[p] = Num(v) PROVE v \in Numbers(w)
    <3>1. w[o].kind = "num" /\ w[o].num = v
      BY <2>1, <2>3 DEF Num
    <3> QED BY <2>1, <3>1 DEF Numbers
  <2> QED BY <2>2, <2>3
<1>6. ASSUME NEW p \in Nat, NEW s, NameIn(S, p, s), NEW rva, rva = base + p - 1
      PROVE  NameStored(ss, w, rva, s)
  <2> DEFINE o == ss[k].raw + p - 1
             e == ss[k].raw + (p + 1) - 1
  <2>1. p \in DOMAIN S /\ p + 1 \in DOMAIN S /\ S[p] = Text(s) /\ S[p + 1] = Nul
    BY <1>6 DEF NameIn
  <2>2. Backed(ss[k], rva) /\ Byte(ss[k], rva) = o /\ o \in DOMAIN w /\ w[o] = Text(s)
    BY <1>3, <1>6, <2>1
  <2>3. e \in DOMAIN w /\ w[e] = Nul
    BY <1>3, <2>1
  <2>4. o <= e
    BY <1>3
  <2>5. EndsText(w[e])
    BY <2>3 DEF EndsText, Nul
  <2> HIDE DEF o, e
  <2> QED BY <2>2, <2>3, <2>4, <2>5 DEF NameStored
<1>7. ASSUME NEW p \in Nat, NEW s, SymbolIn(S, base, p, s), NEW rva, rva = base + p - 1
      PROVE  SymbolWritten(ss, w, rva, s)
  <2>1. p \in DOMAIN S
    BY <1>7 DEF SymbolIn
  <2>2. CASE s \in Ordinals
    BY <1>5, <1>7, <2>1, <2>2 DEF SymbolIn, SymbolWritten
  <2>3. CASE s \notin Ordinals
    <3>1. PICK q \in Nat \ {0, 1} : S[p] = Num(base + q - 1) /\ NameIn(S, q + HintLen, s)
      BY <1>7, <2>3 DEF SymbolIn
    <3> DEFINE v == base + q - 1
    <3>2. v \in Nat \ {0} /\ v + HintLen = base + (q + HintLen) - 1 /\ q + HintLen \in Nat
      BY DEF HintLen
    <3>3. NameStored(ss, w, v + HintLen, s)
      BY <1>6, <3>1, <3>2
    <3> HIDE DEF v
    <3>4. S[p] = Num(v)
      BY <3>1 DEF v
    <3>5. v \in Numbers(w) /\ v # 0 /\ Stored(ss, w, rva, Num(v))
      BY <1>5, <1>7, <2>1, <3>2, <3>4
    <3> QED BY <2>3, <3>3, <3>5 DEF SymbolWritten
  <2> QED BY <2>2, <2>3
<1>8. ASSUME NEW i \in DOMAIN ps PROVE DescWritten(ss, w, base + DescLen * (i - 1), ps[i])
  <2> DEFINE p == DescLen * (i - 1) + 1
             at == base + DescLen * (i - 1)
             d == ps[i]
  <2>0. /\ p \in Nat /\ at = base + p - 1 /\ at + 1 = base + (p + 1) - 1
        /\ at + 2 = base + (p + 2) - 1
    <3>1. i \in Nat \ {0}
      OBVIOUS
    <3> QED BY <3>1 DEF DescLen
  <2>1. DescIn(S, base, p, d)
    BY <1>1
  <2>2. d.names \in Seq(Symbols) /\ d.first \in Nat
    <3>1. d \in Descriptors
      OBVIOUS
    <3> QED BY <3>1 DEF Descriptors
  <2> HIDE DEF p, at, d
  <2>3. {p, p + 1, p + 2} \subseteq DOMAIN S /\ S[p + 2] = Num(d.first)
    BY <2>1 DEF DescIn
  <2>4. PICK q \in Nat \ {0} : S[p + 1] = Num(base + q - 1) /\ NameIn(S, q, d.dll)
    BY <2>1 DEF DescIn
  <2>5. PICK t \in Nat \ {0, 1} :
          /\ S[p] = Num(base + t - 1) /\ p + 2 < t
          /\ t + Len(d.names) \in DOMAIN S /\ S[t + Len(d.names)] = Zero
          /\ \A j \in DOMAIN d.names : SymbolIn(S, base, t + j - 1, d.names[j])
    BY <2>1 DEF DescIn
  <2> DEFINE oft == base + t - 1
             name == base + q - 1
  <2>6. oft \in Nat /\ oft # 0 /\ name \in Nat
    OBVIOUS
  <2>7. Stored(ss, w, at, Num(oft)) /\ oft \in Numbers(w)
    BY <1>5, <2>0, <2>3, <2>5, <2>6
  <2>8. Stored(ss, w, at + 1, Num(name)) /\ name \in Numbers(w)
    BY <1>5, <2>0, <2>3, <2>4, <2>6
  <2>9. Stored(ss, w, at + 2, Num(d.first))
    BY <1>5, <2>0, <2>3
  <2>10. NameStored(ss, w, name, d.dll)
    BY <1>6, <2>4
  <2>11. Stored(ss, w, oft + Len(d.names), Zero)
    <3>1. Len(d.names) \in Nat
      BY <2>2
    <3>2. oft + Len(d.names) = base + (t + Len(d.names)) - 1
      <4> DEFINE m == Len(d.names)
      <4>1. m \in Nat
        BY <3>1
      <4> HIDE DEF m
      <4>2. oft + m = base + (t + m) - 1
        BY <4>1
      <4> QED BY <4>2 DEF m
    <3> HIDE DEF oft
    <3> QED BY <1>5, <2>5, <3>2
  <2>12. \A j \in DOMAIN d.names : SymbolWritten(ss, w, oft + j - 1, d.names[j])
    <3> TAKE j \in DOMAIN d.names
    <3>1. j \in Nat \ {0}
      BY <2>2
    <3>2. oft + j - 1 = base + (t + j - 1) - 1 /\ t + j - 1 \in Nat
      BY <3>1
    <3>3. SymbolIn(S, base, t + j - 1, d.names[j])
      BY <2>5
    <3> HIDE DEF oft
    <3> QED BY <1>7, <3>2, <3>3
  <2> HIDE DEF oft, name
  <2>13. DescWritten(ss, w, at, d)
    BY <2>6, <2>7, <2>8, <2>9, <2>10, <2>11, <2>12 DEF DescWritten
  <2> QED BY <2>13 DEF at, d
<1>9. ASSUME NEW f \in 0 .. DescLen - 1 PROVE Stored(ss, w, base + DescLen * Len(ps) + f, Zero)
  <2> DEFINE p == DescLen * Len(ps) + f + 1
  <2>1. p \in DOMAIN S /\ S[p] = Zero
    BY <1>1
  <2>2. base + DescLen * Len(ps) + f = base + p - 1
    <3>1. Len(ps) \in Nat
      OBVIOUS
    <3> QED BY <3>1 DEF DescLen
  <2> HIDE DEF p
  <2> QED BY <1>5, <2>1, <2>2
<1> QED BY <1>8, <1>9 DEF ImportsWritten

\* AddSection puts its data into the file where the section header says.
LEMMA AddedPut ==
  ASSUME Inv, FileAddSection, DOMAIN section = 1 .. data
  PROVE  /\ Len(secs) + 1 \in DOMAIN secs' /\ secs'[Len(secs) + 1].raw = NewRaw
         /\ Put(section, NewRVA, secs'[Len(secs) + 1], word')
<1> DEFINE m == Len(secs) + 1
<1>1. AddSection /\ Room
  BY DEF FileAddSection, AddSection
<1>2. /\ m \in DOMAIN secs' /\ data \in Nat \ {0} /\ data <= AlignUp(data, FileAlign)
      /\ AlignUp(data, FileAlign) \in Nat /\ fileLen' \in Nat
      /\ NewRaw + AlignUp(data, FileAlign) <= fileLen'
      /\ secs'[m].rva = NewRVA /\ secs'[m].vsize = data
      /\ secs'[m].raw = NewRaw /\ secs'[m].rawsize = AlignUp(data, FileAlign)
  <2>1. Len(secs) \in Nat
    BY DEF Inv, TypeOK
  <2> QED BY <1>1, <2>1, AddedFacts
<1>3. NewRVA \in Nat /\ NewRaw \in Nat /\ LastHdrEnd \in Nat /\ LastHdrEnd < NewRaw
  BY <1>1, NewRVAFacts, NewRawFacts
<1>4. word' = [b \in 0 .. fileLen' - 1 |->
                 IF b = LastHdrEnd THEN Code
                 ELSE IF b \in NewRaw .. NewRaw + data - 1 THEN section[b - NewRaw + 1]
                 ELSE IF b < fileLen THEN word[b] ELSE Zero]
  BY DEF FileAddSection
<1> HIDE DEF m
<1>5. ASSUME NEW p \in 1 .. data
      PROVE  LET rva == NewRVA + p - 1
                 o == secs'[m].raw + p - 1
             IN  /\ Backed(secs'[m], rva) /\ Byte(secs'[m], rva) = o /\ o \in DOMAIN word'
                 /\ word'[o] = section[p]
  <2> DEFINE rva == NewRVA + p - 1
             o == NewRaw + p - 1
  <2>1. Backed(secs'[m], rva) /\ Byte(secs'[m], rva) = o
    BY <1>2, <1>3 DEF Backed, Within, Byte
  <2>2. /\ o \in 0 .. fileLen' - 1 /\ o # LastHdrEnd /\ o \in NewRaw .. NewRaw + data - 1
        /\ o - NewRaw + 1 = p
    <3> DEFINE a == AlignUp(data, FileAlign)
               m2 == fileLen'
    <3>1. /\ data \in Nat \ {0} /\ data <= a /\ a \in Nat /\ m2 \in Nat /\ NewRaw + a <= m2
          /\ NewRaw \in Nat /\ LastHdrEnd \in Nat /\ LastHdrEnd < NewRaw
      BY <1>2, <1>3
    <3> HIDE DEF a, m2
    <3>2. /\ o \in 0 .. m2 - 1 /\ o # LastHdrEnd /\ o \in NewRaw .. NewRaw + data - 1
          /\ o - NewRaw + 1 = p
      BY <3>1
    <3> QED BY <3>2 DEF m2
  <2> HIDE DEF o
  <2>3. o \in DOMAIN word' /\ word'[o] = section[p]
    BY <1>4, <2>2
  <2> QED BY <1>2, <2>1, <2>3 DEF o
<1>6. Put(section, NewRVA, secs'[m], word')
  BY <1>2, <1>3, <1>5 DEF Put
<1> QED BY <1>2, <1>6 DEF m

\* The import table stands in the file, and what the patch is about to add is the
\* rebuilt one, laid out for the place it gets.
WrittenInv ==
  /\ DOMAIN image = {"imports", "table"}
  /\ Complete => \E D \in Seq(Descriptors) :
                   Range(D) = image.imports /\ ImportsStand(secs, word, importDir, D)
  /\ pc = "planned" => \E D \in Seq(Descriptors) :
                         /\ Range(D) = RebuildImports(image.imports, DOMAIN bad)
                         /\ section = BuildSection(D, planned) /\ data = Len(section)

\* The imports that are read are those the file stands for.
LEMMA WrittenRead ==
  ASSUME Inv, FileInv, WrittenInv, Complete
  PROVE  /\ ReadImports(fileLen) \in Seq(Descriptors)
         /\ Range(ReadImports(fileLen)) = image.imports
         /\ importDir = 0 \/ ImportsReadable(fileLen)
<1>1. PICK D \in Seq(Descriptors) :
        Range(D) = image.imports /\ ImportsStand(secs, word, importDir, D)
  BY DEF WrittenInv
<1>2. Cut(fileLen) /\ Left(fileLen) = word
  BY DEF Cut, Left, FileInv, Whole, Inv, TypeOK
<1>3. CASE importDir = 0
  <2>1. D = <<>> /\ ReadImports(fileLen) = [i \in 1 .. 0 |-> ReadDesc(fileLen, i - 1)]
    BY <1>1, <1>3 DEF ImportsStand, ReadImports
  <2>2. ReadImports(fileLen) = <<>>
    BY <2>1
  <2> QED BY <1>1, <1>3, <2>1, <2>2
<1>4. CASE importDir # 0
  BY <1>1, <1>2, <1>4, ReadWritten DEF ImportsStand
<1> QED BY <1>3, <1>4

\* No step loses the import table: the old one may be torn while its slots are
\* redirected, but then the new one is there before anybody reads.
LEMMA WrittenStep ==
  ASSUME Inv, FileInv, WrittenInv, [FileNext]_fileVars
  PROVE  WrittenInv'
<1>1. ASSUME NEW t \in Targets, FilePlan(t) PROVE WrittenInv'
  <2>1. pc = "idle" /\ pc' = "planned" /\ image' = image /\ planned' = PlannedSectionRVA
        /\ data' = Len(section')
        /\ section' = BuildSection(Pieces(ReadImports(fileLen), DOMAIN bad'), PlannedSectionRVA)
    BY <1>1 DEF FilePlan, Plan
  <2> DEFINE D == Pieces(ReadImports(fileLen), DOMAIN bad')
  <2>2. D \in Seq(Descriptors) /\ Range(D) = RebuildImports(image.imports, DOMAIN bad')
    BY <2>1, WrittenRead, PiecesRange DEF Complete
  <2> HIDE DEF D
  <2>3. section' = BuildSection(D, planned')
    BY <2>1 DEF D
  <2> QED BY <2>1, <2>2, <2>3 DEF WrittenInv, Complete
<1>2. CASE FileAddSection
  <2>1. pc = "planned" /\ planned = NewRVA /\ NewRVA \in Nat
    <3>1. PlannedSectionRVA = NewRVA
      BY DEF PlannedSectionRVA, NewRVA, RvaEnds, RvaEnd
    <3> QED BY <1>2, <3>1, NewRVAFacts DEF FileAddSection, AddSection, Inv
  <2>2. PICK D \in Seq(Descriptors) : /\ Range(D) = RebuildImports(image.imports, DOMAIN bad)
                                      /\ section = BuildSection(D, NewRVA)
                                      /\ data = Len(section)
    BY <2>1 DEF WrittenInv
  <2>3. DOMAIN section = 1 .. data
    <3>1. section \in Seq(Words)
      BY <2>1, <2>2, Built
    <3> QED BY <2>2, <3>1
  <2>4. /\ Len(secs) + 1 \in DOMAIN secs'
        /\ Put(BuildSection(D, NewRVA), NewRVA, secs'[Len(secs) + 1], word')
    BY <1>2, <2>2, <2>3, AddedPut
  <2>5. ImportsWritten(secs', word', NewRVA, D)
    BY <2>1, <2>4, PutWritten
  <2>6. pc' = "added" /\ importDir' = NewRVA
        /\ image' = [image EXCEPT !.imports = RebuildImports(@, DOMAIN bad)]
    BY <1>2 DEF FileAddSection, AddSection
  <2>7. DOMAIN image' = {"imports", "table"} /\ image'.imports = Range(D)
    BY <2>2, <2>6 DEF WrittenInv
  <2>8. ImportsStand(secs', word', importDir', D)
    BY <2>1, <2>5, <2>6, NewRVAPositive DEF ImportsStand
  <2> QED BY <2>6, <2>7, <2>8 DEF WrittenInv, Complete
<1>3. CASE UNCHANGED <<secs, word, importDir, image>> /\ pc' = "idle" /\ pc = "added"
  BY <1>3 DEF WrittenInv, Complete
<1>4. CASE UNCHANGED image /\ pc' = "refused"
  BY <1>4 DEF WrittenInv, Complete
<1>5. CASE UNCHANGED fileVars
  BY <1>5 DEF WrittenInv, Complete, fileVars, vars
<1>6. ASSUME NEW t \in Targets, FileRefuse(t) PROVE UNCHANGED image /\ pc' = "refused"
  BY <1>6 DEF FileRefuse, Refuse
<1>7. FileNoRoom => UNCHANGED image /\ pc' = "refused"
  BY DEF FileNoRoom, NoRoom
<1>8. FileWrite => UNCHANGED <<secs, word, importDir, image>> /\ pc' = "idle" /\ pc = "added"
  BY DEF FileWrite, Write
<1> QED BY <1>1, <1>2, <1>3, <1>4, <1>5, <1>6, <1>7, <1>8 DEF FileNext

LEMMA WrittenInit == FileInit => WrittenInv
<1> SUFFICES ASSUME FileInit PROVE WrittenInv
  OBVIOUS
<1>1. PICK f \in Files :
        /\ secs = f.image.secs /\ importDir = f.image.importDir
        /\ word = f.word /\ image = [imports |-> Range(f.imports), table |-> f.table]
  BY DEF FileInit
<1>2. /\ f.imports \in Seq(Descriptors)
      /\ ImportsStand(f.image.secs, f.word, f.image.importDir, f.imports)
  BY <1>1, FilesAssumption
<1>3. pc = "idle"
  BY DEF FileInit, Init
<1>4. DOMAIN image = {"imports", "table"} /\ image.imports = Range(f.imports)
  BY <1>1
<1> QED BY <1>1, <1>2, <1>3, <1>4 DEF WrittenInv

----------------------------------------------------------------------------
(* The shim's table: read, whatever looks like it. *)

\* The file as it is, and what is left of it, seen as Linked sees the linker's.
Now == [secs |-> secs, owner |-> owner, word |-> word, slots |-> SlotsOf(image.imports)]

Seen(n) == [secs |-> secs, owner |-> [b \in 0 .. n - 1 |-> owner[b]], word |-> Left(n),
            slots |-> SlotsOf(image.imports)]

LEMMA SeenWords ==
  ASSUME NEW n, Cut(n)
  PROVE  /\ \A b : Settled(Seen(n), b) => b \in 0 .. n - 1 /\ Seen(n).word[b] = word[b]
         /\ Seen(n).secs = secs /\ Seen(n).word = Left(n)
<1>1. ASSUME NEW b, Settled(Seen(n), b) PROVE b \in 0 .. n - 1
  BY <1>1 DEF Settled, Seen
<1>2. \A b \in 0 .. n - 1 : Seen(n).word[b] = word[b]
  BY LeftWords DEF Seen
<1> QED BY <1>1, <1>2 DEF Seen

\* Nothing is cut off yet.
LEMMA SeenWhole ==
  ASSUME Inv, FileInv
  PROVE  Cut(fileLen) /\ Left(fileLen) = word /\ Seen(fileLen) = Now
<1>1. Cut(fileLen) /\ Left(fileLen) = word
  BY DEF Cut, Left, FileInv, Whole, Inv, TypeOK
<1>2. [b \in 0 .. fileLen - 1 |-> owner[b]] = owner
  BY DEF Inv, TypeOK
<1>3. Seen(fileLen) = Now
  BY <1>1, <1>2, Zenon DEF Seen, Now
<1> QED BY <1>1, <1>3

\* A settled name is read, and where nothing is, nothing is read.
LEMMA ReadSettled ==
  ASSUME NEW n, Cut(n), NEW rva
  PROVE  /\ \A s : NameSettled(Seen(n), rva, s) => CStr(n, rva) = s
         /\ NothingAt(Seen(n), rva) => CStr(n, rva) = ""
<1>1. ASSUME NEW s, NameSettled(Seen(n), rva, s) PROVE CStr(n, rva) = s
  <2>1. PICK i \in DOMAIN secs :
          /\ Backed(secs[i], rva) /\ Settled(Seen(n), Byte(secs[i], rva))
          /\ Left(n)[Byte(secs[i], rva)] = Text(s)
          /\ \E e \in DOMAIN Left(n) : Byte(secs[i], rva) <= e /\ EndsText(Left(n)[e])
    BY <1>1, SeenWords DEF NameSettled
  <2>2. Byte(secs[i], rva) \in DOMAIN Left(n)
    BY <2>1, SeenWords, LeftWords
  <2>3. NameStored(secs, Left(n), rva, s)
    BY <2>1, <2>2 DEF NameStored
  <2> QED BY <2>3, ReadName
<1>2. ASSUME NothingAt(Seen(n), rva) PROVE CStr(n, rva) = ""
  <2>1. PICK i \in DOMAIN secs : /\ Backed(secs[i], rva) /\ Settled(Seen(n), Byte(secs[i], rva))
                                 /\ Left(n)[Byte(secs[i], rva)] \in {Nul, Zero}
    BY <1>2, SeenWords DEF NothingAt
  <2> DEFINE o == Byte(secs[i], rva)
  <2>2. o \in 0 .. n - 1 /\ word[o] \in {Nul, Zero}
    BY <2>1, SeenWords, LeftWords
  <2>3. Off(n, rva) = o /\ o # Bad
    BY <2>1, <2>2, OffBacked
  <2>4. /\ word[o].kind \in {"nul", "num"} /\ word[o].kind # "text" /\ Value(word[o]) = 0
        /\ EndsText(word[o])
    BY <2>2 DEF Nul, Zero, Num, Value, EndsText
  <2> HIDE DEF o
  <2>5. o \in o .. n - 1
    BY <2>2
  <2> QED BY <2>3, <2>4, <2>5 DEF CStr
<1> QED BY <1>1, <1>2

\* What is dismissed is never parsed.
LEMMA DismissedUnread ==
  ASSUME NEW n, Cut(n), NEW o \in Nat, Dismissed(Seen(n), o)
  PROVE  o \notin TablesIn(n)
<1> SUFFICES ASSUME Value(word[o + 1]) = Version, ParsesAt(n, o) PROVE FALSE
  BY DEF TablesIn, Candidates
<1>1. PICK b \in {o + MagicLen, o + MagicLen + 1} :
        ~ (Value(word[b]) >= ImageBase) \/ NothingAt(Seen(n), Value(word[b]) - ImageBase)
  <2>1. CASE Settled(Seen(n), o + 1) /\ Value(Seen(n).word[o + 1]) # Version
    BY <2>1, SeenWords
  <2>2. CASE \E b \in {o + MagicLen, o + MagicLen + 1} :
               /\ Settled(Seen(n), b)
               /\ \/ ~ (Value(Seen(n).word[b]) >= ImageBase)
                  \/ NothingAt(Seen(n), Value(Seen(n).word[b]) - ImageBase)
    <3>1. PICK b \in {o + MagicLen, o + MagicLen + 1} :
            /\ Settled(Seen(n), b)
            /\ \/ ~ (Value(Seen(n).word[b]) >= ImageBase)
               \/ NothingAt(Seen(n), Value(Seen(n).word[b]) - ImageBase)
      BY <2>2
    <3>2. Seen(n).word[b] = word[b]
      BY <3>1, SeenWords
    <3> QED BY <3>1, <3>2
  <2> QED BY <2>1, <2>2, Zenon DEF Dismissed
<1>2. 1 \in 1 .. CountAt(o)
  <2>1. (n - o - MagicLen) \div EntryLen \in Int
    BY LeftWords DEF MagicLen, EntryLen
  <2>2. CountAt(o) \in 1 .. (n - o - MagicLen) \div EntryLen
    BY DEF ParsesAt
  <2> QED BY <2>1, <2>2
<1>3. /\ NamesAbove(o, 1) /\ EntryAt(n, o, 1).dll # "" /\ EntryAt(n, o, 1).func # ""
  BY <1>2 DEF ParsesAt
<1>4. /\ o + MagicLen + EntryLen * (1 - 1) = o + MagicLen
      /\ o + MagicLen + EntryLen * (1 - 1) + 0 = o + MagicLen
      /\ o + MagicLen + EntryLen * (1 - 1) + 1 = o + MagicLen + 1
  BY DEF MagicLen, EntryLen
<1>5. /\ Value(word[o + MagicLen]) >= ImageBase
      /\ Value(word[o + MagicLen + 1]) >= ImageBase
  <2>1. \A f \in 0 .. 1 : Value(word[o + MagicLen + EntryLen * (1 - 1) + f]) >= ImageBase
    BY <1>3 DEF NamesAbove
  <2>2. 0 \in 0 .. 1 /\ 1 \in 0 .. 1
    OBVIOUS
  <2> QED BY <1>4, <2>1, <2>2
<1>6. /\ CStr(n, Value(word[o + MagicLen]) - ImageBase) # ""
      /\ CStr(n, Value(word[o + MagicLen + 1]) - ImageBase) # ""
  BY <1>3, <1>4 DEF EntryAt
<1> QED BY <1>1, <1>5, <1>6, ReadSettled

\* A settled record parses, and is the one that was written.
LEMMA EntryRead ==
  ASSUME NEW n, Cut(n), NEW o \in Nat, NEW i \in Nat, NEW e,
         EntrySettled(Seen(n), o + MagicLen + EntryLen * (i - 1), e),
         \A f \in 0 .. EntryLen - 1 : Settled(Seen(n), o + MagicLen + EntryLen * (i - 1) + f)
  PROVE  /\ EntryAt(n, o, i) = e /\ NamesAbove(o, i)
         /\ e.dll \notin {"", NoText} /\ e.func \notin {"", NoText}
<1> DEFINE at == o + MagicLen + EntryLen * (i - 1)
<1>0. /\ Seen(n).word[at] = word[at] /\ Seen(n).word[at + 1] = word[at + 1]
      /\ Seen(n).word[at + 2] = word[at + 2] /\ Seen(n).word[at + 3] = word[at + 3]
      /\ \A f \in 0 .. 1 : Seen(n).word[at + f] = word[at + f]
  <2>1. at \in Int
    BY DEF MagicLen, EntryLen
  <2> HIDE DEF at
  <2>2. \A f \in 0 .. 3 : Seen(n).word[at + f] = word[at + f]
    BY SeenWords DEF at, EntryLen
  <2>3. at + 0 = at /\ {0, 1, 2, 3} \subseteq 0 .. 3 /\ 0 .. 1 \subseteq 0 .. 3
    BY <2>1
  <2> QED BY <2>2, <2>3
<1>1. /\ \A f \in 0 .. 1 : Value(word[at + f]) >= ImageBase
      /\ {e.dll, e.func} \cap {"", NoText} = {}
      /\ NameSettled(Seen(n), Value(word[at]) - ImageBase, e.dll)
      /\ NameSettled(Seen(n), Value(word[at + 1]) - ImageBase, e.func)
      /\ e = [dll |-> e.dll, func |-> e.func,
              polyfill |-> Value(word[at + 2]), own |-> Value(word[at + 3])]
  <2>1. /\ \A f \in 0 .. 1 : Value(Seen(n).word[at + f]) >= ImageBase
        /\ {e.dll, e.func} \cap {"", NoText} = {}
        /\ NameSettled(Seen(n), Value(Seen(n).word[at]) - ImageBase, e.dll)
        /\ NameSettled(Seen(n), Value(Seen(n).word[at + 1]) - ImageBase, e.func)
        /\ e = [dll |-> e.dll, func |-> e.func,
                polyfill |-> Value(Seen(n).word[at + 2]), own |-> Value(Seen(n).word[at + 3])]
    BY Zenon DEF EntrySettled
  <2> HIDE DEF at
  <2>2. \A f \in 0 .. 1 : Value(word[at + f]) >= ImageBase
    BY <1>0, <2>1
  <2> QED BY <1>0, <2>1, <2>2
<1>2. EntryAt(n, o, i) =
        [dll |-> CStr(n, Value(word[at]) - ImageBase),
         func |-> CStr(n, Value(word[at + 1]) - ImageBase),
         polyfill |-> Value(word[at + 2]), own |-> Value(word[at + 3])]
  BY DEF EntryAt
<1>3. NamesAbove(o, i)
  BY <1>1 DEF NamesAbove
<1> HIDE DEF at
<1>4. EntryAt(n, o, i) = e
  BY <1>1, <1>2, ReadSettled
<1> QED BY <1>1, <1>3, <1>4

\* Where the least candidate is.
LEMMA LeastIs ==
  ASSUME NEW S, NEW o \in S, o \in Nat, \A k \in S : o <= k /\ k \in Nat
  PROVE  Least(S) = o
<1>1. \A m \in S : (\A k \in S : m <= k) => m = o
  OBVIOUS
<1> QED BY <1>1 DEF Least

\* The first candidate that parses is the table of the linker.
LEMMA TableReadBack ==
  ASSUME NEW n, Cut(n), NEW table, TableWritten(Seen(n), table)
  PROVE  ReadTable(n) = table /\ (table # {} => TableReadable(n))
<1>1. CASE table = {}
  <2>1. \A o \in DOMAIN Left(n) :
          Left(n)[o] = Magic => Dismissed(Seen(n), o) \/ o + MagicLen - 1 \notin DOMAIN Left(n)
    BY <1>1, SeenWords, Zenon DEF TableWritten
  <2>2. ASSUME NEW o \in TablesIn(n) PROVE FALSE
    <3>1. o \in 0 .. n - MagicLen /\ word[o] = Magic
      BY <2>2 DEF TablesIn, Candidates
    <3>2. /\ o \in DOMAIN Left(n) /\ o + MagicLen - 1 \in DOMAIN Left(n) /\ o \in Nat
          /\ Left(n)[o] = Magic
      BY <3>1, LeftWords DEF MagicLen
    <3> QED BY <2>1, <2>2, <3>2, DismissedUnread
  <2> QED BY <1>1, <2>2 DEF ReadTable
<1>2. CASE table # {}
  <2>1. PICK o \in DOMAIN Left(n) :
          /\ TableAt(Seen(n), o, table)
          /\ \A k \in 0 .. o - 1 : Left(n)[k] = Magic => Dismissed(Seen(n), k)
    BY <1>2, SeenWords, Zenon DEF TableWritten
  <2> DEFINE at(i) == o + MagicLen + EntryLen * (i - 1)
  <2>2. PICK count \in Numbers(Left(n)) \ {0} :
          /\ Left(n)[o] = Magic /\ Left(n)[o + 1] = Num(Version) /\ Left(n)[o + 2] = Num(count)
          /\ \A b \in o .. at(count + 1) - 1 : Settled(Seen(n), b)
          /\ \A e \in table : \E i \in 1 .. count : EntrySettled(Seen(n), at(i), e)
          /\ \A i \in 1 .. count : \E e \in table : EntrySettled(Seen(n), at(i), e)
    BY <2>1, SeenWords, Zenon DEF TableAt
  <2>3. count \in Nat \ {0} /\ o \in 0 .. n - 1 /\ o \in Nat /\ n \in Nat
    BY LeftWords DEF Numbers
  <2>4. /\ o + MagicLen + EntryLen * count <= n
        /\ word[o] = Magic /\ word[o + 1] = Num(Version) /\ word[o + 2] = Num(count)
    <3> DEFINE last == at(count + 1) - 1
    <3>1. /\ last = o + MagicLen + EntryLen * count - 1 /\ last \in o .. last
          /\ {o, o + 1, o + 2} \subseteq o .. last
      BY <2>3 DEF MagicLen, EntryLen
    <3>2. Settled(Seen(n), last) /\ \A b \in {o, o + 1, o + 2} : Settled(Seen(n), b)
      BY <2>2, <3>1
    <3> HIDE DEF last
    <3>3. last \in 0 .. n - 1 /\ \A b \in {o, o + 1, o + 2} : Left(n)[b] = word[b]
      BY <3>2, SeenWords, LeftWords
    <3> QED BY <2>2, <2>3, <3>1, <3>3 DEF MagicLen, EntryLen
  <2>5. CountAt(o) = count /\ Value(word[o + 1]) = Version
    BY <2>4 DEF CountAt, Num, Value
  <2>6. \A i \in 1 .. count : \A e \in table : EntrySettled(Seen(n), at(i), e) =>
          /\ EntryAt(n, o, i) = e /\ NamesAbove(o, i)
          /\ e.dll \notin {"", NoText} /\ e.func \notin {"", NoText}
    <3> TAKE i \in 1 .. count
    <3> TAKE e \in table
    <3> HAVE EntrySettled(Seen(n), at(i), e)
    <3>1. i \in Nat /\ o \in Nat
      BY <2>3
    <3>2. \A f \in 0 .. EntryLen - 1 : at(i) + f \in o .. at(count + 1) - 1
      BY <2>3 DEF MagicLen, EntryLen
    <3>3. \A f \in 0 .. EntryLen - 1 : Settled(Seen(n), at(i) + f)
      <4> HIDE DEF at
      <4> QED BY <2>2, <3>2
    <3> QED BY <3>1, <3>3, EntryRead
  <2>7. \A i \in 1 .. count : /\ EntryAt(n, o, i) \in table /\ NamesAbove(o, i)
                              /\ EntryAt(n, o, i).dll \notin {"", NoText}
                              /\ EntryAt(n, o, i).func \notin {"", NoText}
    BY <2>2, <2>6
  <2>8. \A e \in table : \E i \in 1 .. count : e = EntryAt(n, o, i)
    BY <2>2, <2>6
  <2> HIDE DEF at
  <2>9. count \in 1 .. (n - o - MagicLen) \div EntryLen
    BY <2>3, <2>4, Z3 DEF MagicLen, EntryLen
  <2>10. o \in TablesIn(n)
    <3>1. ParsesAt(n, o)
      BY <2>5, <2>7, <2>9 DEF ParsesAt
    <3>2. o \in 0 .. n - MagicLen
      BY <2>3, <2>4 DEF MagicLen, EntryLen
    <3> QED BY <2>4, <2>5, <3>1, <3>2 DEF TablesIn, Candidates
  <2>11. \A k \in TablesIn(n) : o <= k /\ k \in Nat
    <3> TAKE k \in TablesIn(n)
    <3>1. k \in 0 .. n - 1 /\ k \in Nat /\ word[k] = Magic
      BY <2>3 DEF TablesIn, Candidates, MagicLen
    <3>1a. Left(n)[k] = Magic
      BY <3>1, LeftWords
    <3>2. ~ (k \in 0 .. o - 1)
      BY <2>1, <3>1, <3>1a, DismissedUnread
    <3> QED BY <2>3, <3>1, <3>2
  <2>12. Least(TablesIn(n)) = o
    BY <2>3, <2>10, <2>11, LeastIs
  <2>13. ReadTable(n) = {EntryAt(n, o, i) : i \in 1 .. count}
    BY <2>5, <2>10, <2>12 DEF ReadTable
  <2>14. ReadTable(n) = table
    BY <2>7, <2>8, <2>13
  <2>15. TableReadable(n)
    BY <2>10 DEF TableReadable
  <2> QED BY <2>14, <2>15
<1> QED BY <1>1, <1>2

----------------------------------------------------------------------------
(* It stays: nothing that tells it from the others is ever written to. *)

\* From x to y no settled word changes, and no magic appears.
Preserves(x, y) ==
  /\ \A b : Settled(x, b) => Settled(y, b) /\ b \in DOMAIN y.word /\ y.word[b] = x.word[b]
  /\ \A i \in DOMAIN x.secs : i \in DOMAIN y.secs /\ y.secs[i] = x.secs[i]
  /\ \A o \in DOMAIN y.word : y.word[o] = Magic => o \in DOMAIN x.word /\ x.word[o] = Magic
  /\ DOMAIN x.word \subseteq Nat
  /\ \A o \in DOMAIN y.word : \A k \in 0 .. o : k \in DOMAIN y.word

\* What keeps the settled words keeps the settled names, and the places where no
\* name is.
LEMMA NameKept ==
  ASSUME NEW x, NEW y, Preserves(x, y), NEW rva
  PROVE  /\ \A s : NameSettled(x, rva, s) => NameSettled(y, rva, s)
         /\ NothingAt(x, rva) => NothingAt(y, rva)
<1>1. ASSUME NEW s, NameSettled(x, rva, s) PROVE NameSettled(y, rva, s)
  <2>1. PICK i \in DOMAIN x.secs :
          /\ Backed(x.secs[i], rva) /\ Settled(x, Byte(x.secs[i], rva))
          /\ x.word[Byte(x.secs[i], rva)] = Text(s)
          /\ \E e \in DOMAIN x.word :
               Byte(x.secs[i], rva) <= e /\ Settled(x, e) /\ EndsText(x.word[e])
    BY <1>1 DEF NameSettled
  <2>2. PICK e \in DOMAIN x.word :
          Byte(x.secs[i], rva) <= e /\ Settled(x, e) /\ EndsText(x.word[e])
    BY <2>1
  <2>3. i \in DOMAIN y.secs /\ y.secs[i] = x.secs[i]
    BY DEF Preserves
  <2>4. /\ Settled(y, Byte(x.secs[i], rva)) /\ y.word[Byte(x.secs[i], rva)] = Text(s)
        /\ Settled(y, e) /\ EndsText(y.word[e]) /\ e \in DOMAIN y.word
    BY <2>1, <2>2 DEF Preserves
  <2> QED BY <2>1, <2>2, <2>3, <2>4 DEF NameSettled
<1>2. ASSUME NothingAt(x, rva) PROVE NothingAt(y, rva)
  <2>1. PICK i \in DOMAIN x.secs :
          /\ Backed(x.secs[i], rva) /\ Settled(x, Byte(x.secs[i], rva))
          /\ x.word[Byte(x.secs[i], rva)] \in {Nul, Zero}
    BY <1>2 DEF NothingAt
  <2>2. i \in DOMAIN y.secs /\ y.secs[i] = x.secs[i]
    BY DEF Preserves
  <2>3. /\ Settled(y, Byte(x.secs[i], rva))
        /\ y.word[Byte(x.secs[i], rva)] = x.word[Byte(x.secs[i], rva)]
    BY <2>1 DEF Preserves
  <2> QED BY <2>1, <2>2, <2>3 DEF NothingAt
<1> QED BY <1>1, <1>2

\* What is dismissed stays dismissed.
LEMMA DismissedKept ==
  ASSUME NEW x, NEW y, Preserves(x, y), NEW o, Dismissed(x, o)
  PROVE  Dismissed(y, o)
<1>1. \A b : Settled(x, b) => Settled(y, b) /\ y.word[b] = x.word[b]
  BY DEF Preserves
<1>2. CASE Settled(x, o + 1) /\ Value(x.word[o + 1]) # Version
  BY <1>1, <1>2, Zenon DEF Dismissed
<1>3. CASE \E b \in {o + MagicLen, o + MagicLen + 1} :
             /\ Settled(x, b)
             /\ \/ ~ (Value(x.word[b]) >= ImageBase)
                \/ NothingAt(x, Value(x.word[b]) - ImageBase)
  <2>1. PICK b \in {o + MagicLen, o + MagicLen + 1} :
          /\ Settled(x, b)
          /\ ~ (Value(x.word[b]) >= ImageBase) \/ NothingAt(x, Value(x.word[b]) - ImageBase)
    BY <1>3
  <2>2. Settled(y, b) /\ y.word[b] = x.word[b]
    BY <1>1, <2>1
  <2>3. ~ (Value(y.word[b]) >= ImageBase) \/ NothingAt(y, Value(y.word[b]) - ImageBase)
    BY <2>1, <2>2, NameKept
  <2> QED BY <2>2, <2>3, Zenon DEF Dismissed
<1> QED BY <1>2, <1>3, Zenon DEF Dismissed

\* So the table stays, and with it what tells the others from it.
LEMMA TableKept ==
  ASSUME NEW x, NEW y, Preserves(x, y), NEW table, table # {}, TableWritten(x, table)
  PROVE  TableWritten(y, table)
<1>0. \A b : Settled(x, b) => Settled(y, b) /\ b \in DOMAIN y.word /\ y.word[b] = x.word[b]
  BY DEF Preserves
<1>1. PICK o \in DOMAIN x.word : /\ TableAt(x, o, table)
                                 /\ \A k \in 0 .. o - 1 : x.word[k] = Magic => Dismissed(x, k)
  BY Zenon DEF TableWritten
<1> DEFINE at(i) == o + MagicLen + EntryLen * (i - 1)
<1>2. PICK count \in Numbers(x.word) \ {0} :
        /\ x.word[o] = Magic /\ x.word[o + 1] = Num(Version) /\ x.word[o + 2] = Num(count)
        /\ \A b \in o .. at(count + 1) - 1 : Settled(x, b)
        /\ \A e \in table : \E i \in 1 .. count : EntrySettled(x, at(i), e)
        /\ \A i \in 1 .. count : \E e \in table : EntrySettled(x, at(i), e)
  BY <1>1, Zenon DEF TableAt
<1>3. o \in Nat /\ count \in Nat \ {0}
  BY DEF Preserves, Numbers
<1>4. \A b \in o .. at(count + 1) - 1 :
        Settled(y, b) /\ b \in DOMAIN y.word /\ y.word[b] = x.word[b]
  <2> HIDE DEF at
  <2> QED BY <1>0, <1>2
<1>5. {o, o + 1, o + 2} \subseteq o .. at(count + 1) - 1
  BY <1>3 DEF MagicLen, EntryLen
<1>6. \A i \in 1 .. count : {at(i), at(i) + 1, at(i) + 2, at(i) + 3} \subseteq o .. at(count + 1) - 1
  BY <1>3 DEF MagicLen, EntryLen
<1> HIDE DEF at
<1>7. /\ y.word[o] = Magic /\ y.word[o + 1] = Num(Version) /\ y.word[o + 2] = Num(count)
      /\ o \in DOMAIN y.word
  BY <1>2, <1>4, <1>5
<1>8. count \in Numbers(y.word) \ {0}
  <2>1. o + 2 \in DOMAIN y.word /\ y.word[o + 2].kind = "num" /\ y.word[o + 2].num = count
    BY <1>4, <1>5, <1>7 DEF Num
  <2> QED BY <1>3, <2>1 DEF Numbers
<1>9. ASSUME NEW i \in 1 .. count, NEW e \in table, EntrySettled(x, at(i), e)
      PROVE  EntrySettled(y, at(i), e)
  <2>1. \A b \in {at(i), at(i) + 1, at(i) + 2, at(i) + 3} : y.word[b] = x.word[b]
    BY <1>4, <1>6
  <2>2. /\ \A f \in 0 .. 1 : Value(x.word[at(i) + f]) >= ImageBase
        /\ {e.dll, e.func} \cap {"", NoText} = {}
        /\ NameSettled(x, Value(x.word[at(i)]) - ImageBase, e.dll)
        /\ NameSettled(x, Value(x.word[at(i) + 1]) - ImageBase, e.func)
        /\ e = [dll |-> e.dll, func |-> e.func,
                polyfill |-> Value(x.word[at(i) + 2]), own |-> Value(x.word[at(i) + 3])]
    BY <1>9, Zenon DEF EntrySettled
  <2>3. \A f \in 0 .. 1 : at(i) + f \in {at(i), at(i) + 1}
    BY <1>3 DEF at, MagicLen, EntryLen
  <2>4. \A f \in 0 .. 1 : Value(y.word[at(i) + f]) >= ImageBase
    BY <2>1, <2>2, <2>3
  <2>5. /\ NameSettled(y, Value(y.word[at(i)]) - ImageBase, e.dll)
        /\ NameSettled(y, Value(y.word[at(i) + 1]) - ImageBase, e.func)
    BY <2>1, <2>2, NameKept
  <2>6. e = [dll |-> e.dll, func |-> e.func,
             polyfill |-> Value(y.word[at(i) + 2]), own |-> Value(y.word[at(i) + 3])]
    BY <2>1, <2>2
  <2> QED BY <2>2, <2>4, <2>5, <2>6, Zenon DEF EntrySettled
<1>10. TableAt(y, o, table)
  <2>1. /\ \A b \in o .. at(count + 1) - 1 : Settled(y, b)
        /\ \A e \in table : \E i \in 1 .. count : EntrySettled(y, at(i), e)
        /\ \A i \in 1 .. count : \E e \in table : EntrySettled(y, at(i), e)
    BY <1>2, <1>4, <1>9
  <2> QED BY <1>7, <1>8, <2>1, Zenon DEF TableAt, at
<1>11. \A k \in 0 .. o - 1 : y.word[k] = Magic => Dismissed(y, k)
  <2> TAKE k \in 0 .. o - 1
  <2> HAVE y.word[k] = Magic
  <2>1. k \in DOMAIN y.word
    <3>1. k \in 0 .. o
      BY <1>3
    <3> QED BY <1>7, <3>1 DEF Preserves
  <2>2. x.word[k] = Magic
    BY <2>1 DEF Preserves
  <2> QED BY <1>1, <2>2, DismissedKept
<1> QED BY <1>7, <1>10, <1>11, Zenon DEF TableWritten

\* Nothing that a patch writes is a magic.
LEMMA NoMagic ==
  /\ \A v : Num(v) # Magic
  /\ Code # Magic /\ Zero # Magic
  /\ \A x \in Words : x # Magic
<1>1. \A v : Num(v).kind = "num"
  BY DEF Num
<1>2. \A s : Text(s).kind = "text" /\ Ord(s).kind = "ord"
  BY DEF Text, Ord
<1>3. Nul.kind = "nul" /\ Code.kind = "code" /\ Magic.kind = "magic"
  BY DEF Nul, Code, Magic
<1>4. Zero = Num(0)
  BY DEF Zero
<1>5. \A x \in Words : x.kind \in {"num", "nul", "text", "ord"}
  BY <1>1, <1>2, <1>3 DEF Words
<1>6. \A v : Num(v) # Magic
  BY <1>1, <1>3
<1>7. Code # Magic
  BY <1>3
<1>8. \A x \in Words : x # Magic
  BY <1>3, <1>5
<1> QED BY <1>4, <1>6, <1>7, <1>8

\* Redirecting slots keeps what is settled.
LEMMA PlanKeeps ==
  ASSUME Inv, FileInv, SlotsRead, NEW t \in Targets, FilePlan(t)
  PROVE  Preserves(Now, Now')
<1> DEFINE slots == SlotsOf(image.imports)
<1>1. UNCHANGED <<secs, owner, image, fileLen>>
  BY DEF FilePlan, Plan
<1>2. /\ Now = [secs |-> secs, owner |-> owner, word |-> word, slots |-> slots]
      /\ Now' = [secs |-> secs, owner |-> owner, word |-> word', slots |-> slots]
  BY <1>1 DEF Now
<1>3. /\ DOMAIN word = 0 .. fileLen - 1 /\ DOMAIN owner = 0 .. fileLen - 1 /\ fileLen \in Nat
      /\ DOMAIN word' = DOMAIN word
  BY PlanWords DEF FileInv, Inv, TypeOK
<1>4. word' = [b \in DOMAIN word |->
                 IF \E s \in DOMAIN bad' : FileOff(s) = b
                 THEN Num(bad'[CHOOSE s \in DOMAIN bad' : FileOff(s) = b])
                 ELSE word[b]]
  BY DEF FilePlan
<1>5. \A s \in DOMAIN bad' : s \in slots
  <2> DEFINE D == ReadImports(fileLen)
  <2>1. pc = "idle" /\ ReadTable(fileLen) # {}
    BY DEF FilePlan, CanPatch
  <2>2. SlotsOf(Range(D)) \subseteq slots
    BY <2>1 DEF SlotsRead
  <2>3. DOMAIN bad' = {im.slot : im \in Redirects(D, t)}
    BY DEF FilePlan
  <2> HIDE DEF D, slots
  <2>4. Redirects(D, t) \subseteq ImportsOf(Range(D))
    BY DEF Redirects
  <2>5. \A s \in DOMAIN bad' : s \in SlotsOf(Range(D))
    BY <2>3, <2>4, Zenon DEF SlotsOf
  <2> QED BY <2>2, <2>5
<1>6. \A s \in slots : Owned(s)
  BY DEF FileInv
<1> HIDE DEF slots
<1>7. ASSUME NEW b, Settled(Now, b)
      PROVE  Settled(Now', b) /\ b \in DOMAIN word' /\ word'[b] = word[b]
  <2>1. b \in DOMAIN owner /\ \A s \in slots : \A i \in DOMAIN secs :
          Within(secs[i], s) => Byte(secs[i], s) # b
    BY <1>2, <1>7 DEF Settled
  <2>2. ASSUME NEW s \in DOMAIN bad' PROVE FileOff(s) # b
    <3>1. PICK i \in DOMAIN secs : Within(secs[i], s)
      BY <1>5, <1>6, OwnedBacked
    <3>2. FileOff(s) = Byte(secs[i], s)
      BY <3>1, Located
    <3> QED BY <1>5, <2>1, <3>1, <3>2
  <2>3. b \in DOMAIN word
    BY <1>3, <2>1
  <2>4. word'[b] = word[b]
    BY <1>4, <2>2, <2>3
  <2>5. Settled(Now', b)
    BY <1>2, <1>7 DEF Settled
  <2> QED BY <1>3, <2>3, <2>4, <2>5
<1>8. ASSUME NEW o \in DOMAIN word', word'[o] = Magic
      PROVE  o \in DOMAIN word /\ word[o] = Magic
  BY <1>3, <1>4, <1>8, NoMagic
<1>9. /\ DOMAIN word \subseteq Nat
      /\ \A o \in DOMAIN word' : \A k \in 0 .. o : k \in DOMAIN word'
  BY <1>3
<1> QED BY <1>2, <1>3, <1>7, <1>8, <1>9 DEF Preserves

\* So does the new section, with its header.
LEMMA AddedKeeps ==
  ASSUME Inv, Inv', FileInv, FileAddSection, section \in Seq(Words), data = Len(section)
  PROVE  Preserves(Now, Now')
<1> DEFINE slots == SlotsOf(image.imports)
           after == SlotsOf(image'.imports)
<1>1. AddSection /\ Room
  BY DEF FileAddSection, AddSection
<1>2. /\ Now = [secs |-> secs, owner |-> owner, word |-> word, slots |-> slots]
      /\ Now' = [secs |-> secs', owner |-> owner', word |-> word', slots |-> after]
  BY DEF Now
<1>3. /\ DOMAIN word = 0 .. fileLen - 1 /\ DOMAIN owner = 0 .. fileLen - 1
      /\ fileLen \in Nat /\ fileLen' \in Nat /\ fileLen <= fileLen'
      /\ DOMAIN word' = 0 .. fileLen' - 1
  BY <1>1, AddedFacts DEF FileInv, FileAddSection, Inv, TypeOK
<1>4. word' = [b \in 0 .. fileLen' - 1 |->
                 IF b = LastHdrEnd THEN Code
                 ELSE IF b \in NewRaw .. NewRaw + data - 1 THEN section[b - NewRaw + 1]
                 ELSE IF b < fileLen THEN word[b] ELSE Zero]
  BY DEF FileAddSection
<1>5. \A s \in after : s \in slots
  <2>1. image'.imports = RebuildImports(image.imports, DOMAIN bad) \/ image'.imports = image.imports
    BY DEF FileAddSection
  <2> QED BY <2>1, RebuiltSlots DEF FileInv
<1>6. \A s \in slots : Owned(s)
  BY DEF FileInv
<1> HIDE DEF slots, after
<1>7. \A i \in DOMAIN secs : i \in DOMAIN secs' /\ secs'[i] = secs[i]
  BY GrownWords
<1>8. NewRaw \in Nat /\ data \in Nat
  BY <1>1, NewRawFacts DEF Inv, TypeOK
<1>9. ASSUME NEW b, Settled(Now, b)
      PROVE  Settled(Now', b) /\ b \in DOMAIN word' /\ word'[b] = word[b]
  <2>1. /\ b \in DOMAIN owner /\ owner[b] \in Nat
        /\ \A s \in slots : \A i \in DOMAIN secs :
             Within(secs[i], s) => Byte(secs[i], s) # b
    BY <1>2, <1>9 DEF Settled
  <2>2. b \in Nat /\ b # LastHdrEnd /\ b < NewRaw
    BY <1>1, <2>1, OwnedUnits
  <2>3. b < fileLen /\ b \in 0 .. fileLen' - 1 /\ ~ (NewRaw <= b)
        /\ b \notin NewRaw .. NewRaw + data - 1
    BY <1>3, <1>8, <2>1, <2>2
  <2>4. word'[b] = word[b]
    BY <1>4, <2>2, <2>3
  <2>5. b \in DOMAIN owner' /\ owner'[b] \in Nat
    BY <1>1, <2>1, <2>2, <2>3, OwnerAfter
  <2>6. ASSUME NEW s \in after, NEW i \in DOMAIN secs', Within(secs'[i], s)
        PROVE  Byte(secs'[i], s) # b
    <3>1. PICK k \in DOMAIN secs : Within(secs[k], s)
      BY <1>5, <1>6, OwnedBacked
    <3>2. k \in DOMAIN secs' /\ Within(secs'[k], s)
      BY <1>7, <3>1
    <3>3. secs' \in Seq(Sections) /\ AddressesDisjoint(secs')
      BY DEF Inv, TypeOK, ImageLoadable
    <3>4. i = k
      BY <2>6, <3>2, <3>3, OneHolder
    <3> QED BY <1>5, <1>7, <2>1, <3>1, <3>4
  <2>7. Settled(Now', b)
    BY <1>2, <2>5, <2>6 DEF Settled
  <2> QED BY <1>3, <2>3, <2>4, <2>7
<1>10. ASSUME NEW o \in DOMAIN word', word'[o] = Magic
       PROVE  o \in DOMAIN word /\ word[o] = Magic
  <2>1. o \in 0 .. fileLen' - 1 /\ o \in Nat
    BY <1>3
  <2>2. o # LastHdrEnd
    BY <1>4, <1>10, <2>1, NoMagic
  <2>3. o \notin NewRaw .. NewRaw + data - 1
    <3>1. SUFFICES ASSUME o \in NewRaw .. NewRaw + data - 1 PROVE FALSE
      OBVIOUS
    <3>2. o - NewRaw + 1 \in 1 .. Len(section)
      BY <1>8, <3>1
    <3>3. section[o - NewRaw + 1] \in Words
      BY <3>2
    <3> QED BY <1>4, <1>10, <2>1, <2>2, <3>1, <3>3, NoMagic
  <2>4. word'[o] = IF o < fileLen THEN word[o] ELSE Zero
    BY <1>4, <2>1, <2>2, <2>3
  <2>5. o < fileLen /\ word[o] = Magic
    BY <1>10, <2>4, NoMagic
  <2> QED BY <1>3, <2>1, <2>5
<1>11. /\ DOMAIN word \subseteq Nat
       /\ \A o \in DOMAIN word' : \A k \in 0 .. o : k \in DOMAIN word'
  <2>1. PICK n \in Nat : n = fileLen'
    BY <1>3
  <2>2. DOMAIN word' = 0 .. n - 1 /\ fileLen <= n
    BY <1>3, <2>1
  <2>3. ASSUME NEW o \in 0 .. n - 1, NEW k \in 0 .. o PROVE k \in 0 .. n - 1
    <3>1. n \in Nat
      OBVIOUS
    <3> QED BY <3>1
  <2>4. DOMAIN word \subseteq Nat
    BY <1>3
  <2> QED BY <2>2, <2>3, <2>4
<1> QED BY <1>2, <1>7, <1>9, <1>10, <1>11 DEF Preserves

----------------------------------------------------------------------------
(* The file's contents, over any number of patches. *)

\* The shim's table is there, and no image without one is patched.
TableInv == /\ TableWritten(Now, image.table)
            /\ pc \in {"planned", "added"} => image.table # {}

ContentInv == Inv /\ FileInv /\ WrittenInv /\ TableInv

\* A patch redirects no slot that is not the image's.
LEMMA SlotsReadBack == ContentInv => SlotsRead
<1> SUFFICES ASSUME ContentInv PROVE SlotsRead
  OBVIOUS
<1>1. pc = "idle" => Range(ReadImports(fileLen)) = image.imports
  BY WrittenRead DEF ContentInv, Complete
<1> QED BY <1>1 DEF SlotsRead

\* The table that is read is the one the file stands for.
LEMMA TableRead ==
  ASSUME ContentInv
  PROVE  /\ ReadTable(fileLen) = image.table
         /\ image.table # {} => TableReadable(fileLen)
<1>1. Cut(fileLen) /\ TableWritten(Seen(fileLen), image.table)
  BY SeenWhole DEF ContentInv, TableInv
<1> QED BY <1>1, TableReadBack

\* No step loses the table.
LEMMA TableStep ==
  ASSUME ContentInv, Inv', [FileNext]_fileVars
  PROVE  TableInv'
<1>0. /\ Inv /\ FileInv /\ WrittenInv /\ SlotsRead
      /\ TableWritten(Now, image.table) /\ DOMAIN image = {"imports", "table"}
      /\ pc \in {"planned", "added"} => image.table # {}
  BY SlotsReadBack DEF ContentInv, WrittenInv, TableInv
<1>1. ASSUME NEW t \in Targets, FilePlan(t) PROVE TableInv'
  <2>1. ReadTable(fileLen) # {} /\ image' = image
    BY <1>1 DEF FilePlan, CanPatch
  <2>2. image.table # {}
    BY <2>1, TableRead
  <2>3. Preserves(Now, Now')
    BY <1>0, <1>1, PlanKeeps
  <2>4. TableWritten(Now', image.table)
    BY <1>0, <2>2, <2>3, TableKept
  <2> QED BY <2>1, <2>2, <2>4 DEF TableInv
<1>2. CASE FileAddSection
  <2>1. pc = "planned"
    BY <1>2 DEF FileAddSection, AddSection
  <2>2. PICK D \in Seq(Descriptors) : section = BuildSection(D, planned) /\ data = Len(section)
    BY <1>0, <2>1 DEF WrittenInv
  <2>3. section \in Seq(Words)
    <3>1. planned \in Nat
      BY <1>0 DEF Inv, TypeOK
    <3> QED BY <2>2, <3>1, Built
  <2>4. Preserves(Now, Now')
    BY <1>0, <1>2, <2>2, <2>3, AddedKeeps
  <2>5. image.table # {} /\ image'.table = image.table
    BY <1>0, <1>2, <2>1 DEF FileAddSection
  <2>6. TableWritten(Now', image.table)
    BY <1>0, <2>4, <2>5, TableKept
  <2> QED BY <2>5, <2>6 DEF TableInv
<1>3. CASE /\ UNCHANGED <<secs, owner, word, image>>
           /\ pc' = pc \/ pc' \in {"idle", "refused"}
  <2>1. Now' = Now
    BY <1>3 DEF Now
  <2> QED BY <1>0, <1>3, <2>1 DEF TableInv
<1>4. ASSUME NEW t \in Targets, FileRefuse(t)
      PROVE  UNCHANGED <<secs, owner, word, image>> /\ pc' \in {"idle", "refused"}
  BY <1>4 DEF FileRefuse, Refuse
<1>5. FileNoRoom \/ FileWrite =>
        UNCHANGED <<secs, owner, word, image>> /\ pc' \in {"idle", "refused"}
  BY DEF FileNoRoom, NoRoom, FileWrite, Write
<1>6. UNCHANGED fileVars => UNCHANGED <<secs, owner, word, image, pc>>
  BY DEF fileVars, vars
<1> QED BY <1>1, <1>2, <1>3, <1>4, <1>5, <1>6 DEF FileNext

LEMMA TableInit == FileInit => TableInv
<1> SUFFICES ASSUME FileInit PROVE TableInv
  OBVIOUS
<1>1. PICK f \in Files :
        /\ secs = f.image.secs /\ owner = f.image.owner
        /\ word = f.word /\ image = [imports |-> Range(f.imports), table |-> f.table]
  BY DEF FileInit
<1>2. TableWritten(Linked(f), f.table)
  BY <1>1, FilesAssumption
<1>3. Linked(f) = Now /\ f.table = image.table
  BY <1>1 DEF Linked, Now
<1>4. pc = "idle"
  BY DEF FileInit, Init
<1> QED BY <1>2, <1>3, <1>4 DEF TableInv

\* The invariant of the contents.
LEMMA ContentInvariant == FileSpec => []ContentInv
<1>1. FileInit => ContentInv
  BY InitLayout, InitInv, FileInitInv, WrittenInit, TableInit DEF ContentInv
<1>2. ContentInv /\ [FileNext]_fileVars => ContentInv'
  <2> SUFFICES ASSUME ContentInv, [FileNext]_fileVars PROVE ContentInv'
    OBVIOUS
  <2>1. Inv /\ FileInv /\ WrittenInv /\ SlotsRead
    BY SlotsReadBack DEF ContentInv
  <2>2. Inv'
    BY <2>1, StepLayout, NextInv
  <2> QED BY <2>1, <2>2, FileStep, WrittenStep, TableStep DEF ContentInv
<1> QED BY <1>1, <1>2, PTL DEF FileSpec

\* However often an image is patched, Open finds the table that the shim's linker
\* left in it, and never what merely looks like one.
THEOREM TableFoundAlways == FileSpec => []TableFound
<1>1. ContentInv => TableFound
  BY TableRead DEF TableFound
<1> QED BY <1>1, ContentInvariant, PTL

\* Between two patches every file with a table opens, for verify and for the next
\* patch, and has the imports that RebuildImports, on which Patcher rests, takes it
\* to have: the section that rebuildImports lays out, for every number of
\* descriptors, names and pieces, is read as what it was built from.
THEOREM ImportsReadBackAlways == FileSpec => []ImportsReadBack
<1>1. ContentInv => ImportsReadBack
  <2> SUFFICES ASSUME ContentInv, Complete, image.table # {}
               PROVE  Opens(fileLen) /\ Range(ReadImports(fileLen)) = image.imports
    BY DEF ImportsReadBack
  <2>1. /\ Range(ReadImports(fileLen)) = image.imports
        /\ importDir = 0 \/ ImportsReadable(fileLen)
    BY WrittenRead DEF ContentInv
  <2>2. TableReadable(fileLen)
    BY TableRead
  <2>3. LastHdrEnd <= fileLen
    <3>1. LastHdrEnd \in Nat \ {0} /\ fileLen \in Nat /\ DOMAIN owner = 0 .. fileLen - 1
      <4>1. Len(secs) \in Nat \ {0} /\ fileLen \in Nat /\ DOMAIN owner = 0 .. fileLen - 1
        BY DEF ContentInv, Inv, TypeOK
      <4> QED BY <4>1, AlignAssumption DEF LastHdrEnd
    <3>2. \A b \in 0 .. FirstSectOff + Len(secs) - 1 : b \in DOMAIN owner
      <4>1. HeadersThere(secs, owner)
        BY DEF ContentInv, Inv, SectionsIntact
      <4> QED BY <4>1, Zenon DEF HeadersThere
    <3>3. LastHdrEnd - 1 \in 0 .. FirstSectOff + Len(secs) - 1
      <4>1. FirstSectOff \in Nat /\ Len(secs) \in Nat \ {0}
        BY AlignAssumption DEF ContentInv, Inv, TypeOK
      <4> QED BY <4>1 DEF LastHdrEnd
    <3>4. LastHdrEnd - 1 \in 0 .. fileLen - 1
      BY <3>1, <3>2, <3>3, Zenon
    <3> QED BY <3>1, <3>4
  <2> QED BY <2>1, <2>2, <2>3 DEF Opens
<1> QED BY <1>1, ContentInvariant, PTL

\* A patch changes in the memory of the program the redirected slots, which get the
\* polyfill, and no other word: neither by Patch's writes nor by AddSection's
\* header and data, however often the file is patched.
THEOREM MemoryKeptAlways == FileSpec => MemoryKept
<1>1. ContentInv /\ [FileNext]_fileVars =>
        [\A i \in DOMAIN secs : \A rva \in secs[i].rva .. secs[i].rva + secs[i].vsize - 1 :
           Mem(rva)' = IF rva \in DOMAIN bad' THEN Num(bad'[rva]) ELSE Mem(rva)]_fileVars
  <2> SUFFICES ASSUME ContentInv, [FileNext]_fileVars PROVE WordsKept
    BY DEF WordsKept, Within
  <2>1. Inv /\ FileInv /\ SlotsRead
    BY SlotsReadBack DEF ContentInv
  <2>2. Inv'
    BY <2>1, StepLayout, NextInv
  <2> QED BY <2>1, <2>2, FileStep
<1> QED BY <1>1, ContentInvariant, PTL DEF FileSpec, MemoryKept

----------------------------------------------------------------------------
(* A file that is cut inside the new section is refused. *)

\* How many words of section k are left.
Rest(n, k) == n - secs[k].raw

LEMMA RestWord ==
  ASSUME NEW n, Cut(n), NEW S \in Seq(Words), NEW k \in DOMAIN secs,
         Put(S, importDir, secs[k], word), NEW p \in DOMAIN S, NEW rva, rva = importDir + p - 1
  PROVE  /\ rva \in Nat /\ rva < sizeOfImage /\ word[secs[k].raw + p - 1] = S[p]
         /\ Off(n, rva) = IF p <= Rest(n, k) THEN secs[k].raw + p - 1 ELSE Bad
         /\ U32(n, rva) = IF p <= Rest(n, k) THEN Value(S[p]) ELSE Bad
<1> DEFINE o == secs[k].raw + p - 1
<1>1. secs[k].raw \in Nat /\ p \in Nat /\ n \in Nat
  BY LeftWords DEF Put
<1>2. Backed(secs[k], rva) /\ Byte(secs[k], rva) = o /\ word[o] = S[p]
  BY Zenon DEF Put
<1>3. rva \in Nat /\ rva < sizeOfImage
  BY <1>2, InImage DEF Backed, Cut
<1>4. Off(n, rva) = (IF o < n THEN o ELSE Bad) /\ o # Bad
  BY <1>2, OffBacked
<1>5. o < n <=> p <= Rest(n, k)
  BY <1>1 DEF Rest
<1> HIDE DEF o
<1>6. Off(n, rva) = IF p <= Rest(n, k) THEN o ELSE Bad
  BY <1>4, <1>5
<1>7. U32(n, rva) = IF p <= Rest(n, k) THEN Value(S[p]) ELSE Bad
  BY <1>2, <1>4, <1>6 DEF U32
<1> QED BY <1>2, <1>3, <1>6, <1>7 DEF o

\* The name the section ends with cannot be read: at best the zero behind it is
\* missing, and everything that follows.
LEMMA LastNameLost ==
  ASSUME NEW n, Cut(n), NEW S \in Seq(Words), NEW k \in DOMAIN secs,
         Put(S, importDir, secs[k], word), Rest(n, k) < Len(S),
         NEW q \in DOMAIN S, q = Len(S) - 1, NEW s, S[q] = Text(s)
  PROVE  CStr(n, importDir + q - 1) = NoText
<1> DEFINE rva == importDir + q - 1
           o == secs[k].raw + q - 1
<1>1. /\ Off(n, rva) = IF q <= Rest(n, k) THEN o ELSE Bad
      /\ word[o] = S[q]
  BY RestWord
<1>2. CASE ~ (q <= Rest(n, k))
  BY <1>1, <1>2 DEF CStr
<1>3. CASE q <= Rest(n, k)
  <2>1. o = n - 1 /\ n \in Nat /\ secs[k].raw \in Nat /\ q \in Nat
    <3>1. secs[k].raw \in Nat /\ q \in Nat /\ n \in Nat /\ Len(S) \in Nat
      BY LeftWords DEF Put
    <3> QED BY <1>3, <3>1 DEF Rest
  <2>2. ~ EndsText(word[o])
    <3>1. word[o] = Text(s)
      BY <1>1
    <3> QED BY <3>1 DEF EndsText, Text
  <2>3. \A e \in o .. n - 1 : e = o
    BY <2>1
  <2> HIDE DEF o, rva
  <2>4. Off(n, rva) = o
    BY <1>1, <1>3
  <2>5. ~ \E e \in o .. n - 1 : EndsText(word[e])
    BY <2>2, <2>3
  <2>6. CStr(n, rva) = NoText
    BY <2>4, <2>5 DEF CStr
  <2> QED BY <2>6 DEF rva
<1> QED BY <1>2, <1>3

\* The walks end where they can first stop.
LEMMA DescEndIs ==
  ASSUME NEW n, NEW L \in Nat, L <= sizeOfImage, sizeOfImage \in Nat, DescStops(n, L)
  PROVE  /\ DescEnd(n) \in 0 .. L /\ DescStops(n, DescEnd(n))
         /\ \A i \in 0 .. DescEnd(n) - 1 : ~ DescStops(n, i)
<1> DEFINE T == {i \in 0 .. L : DescStops(n, i)}
<1>1. PICK m \in T : \A i \in T : m <= i
  <2>1. T \in SUBSET Nat /\ T # {}
    OBVIOUS
  <2> HIDE DEF T
  <2> QED BY <2>1, LeastOfNat
<1>2. m \in 0 .. sizeOfImage /\ DescStops(n, m) /\ \A i \in 0 .. m - 1 : ~ DescStops(n, i)
  BY <1>1
<1>3. /\ DescEnd(n) \in 0 .. sizeOfImage /\ DescStops(n, DescEnd(n))
      /\ \A i \in 0 .. DescEnd(n) - 1 : ~ DescStops(n, i)
  BY <1>2 DEF DescEnd
<1>4. ~ (L \in 0 .. DescEnd(n) - 1)
  BY <1>3
<1> QED BY <1>3, <1>4

LEMMA ThunkEndIs ==
  ASSUME NEW n, NEW at, NEW L \in Nat, L <= sizeOfImage, sizeOfImage \in Nat,
         ThunkStops(n, at, L)
  PROVE  /\ ThunkEnd(n, at) \in 0 .. L /\ ThunkStops(n, at, ThunkEnd(n, at))
         /\ \A j \in 0 .. ThunkEnd(n, at) - 1 : ~ ThunkStops(n, at, j)
<1> DEFINE T == {j \in 0 .. L : ThunkStops(n, at, j)}
           end == ThunkEnd(n, at)
<1>1. PICK m \in T : \A j \in T : m <= j
  <2>1. T \in SUBSET Nat /\ T # {}
    OBVIOUS
  <2> HIDE DEF T
  <2> QED BY <2>1, LeastOfNat
<1>2. m \in 0 .. sizeOfImage /\ ThunkStops(n, at, m) /\ \A j \in 0 .. m - 1 : ~ ThunkStops(n, at, j)
  BY <1>1
<1>3. /\ end \in 0 .. sizeOfImage /\ ThunkStops(n, at, end)
      /\ \A j \in 0 .. end - 1 : ~ ThunkStops(n, at, j)
  BY <1>2 DEF ThunkEnd
<1>4. ~ (L \in 0 .. end - 1)
  BY <1>3
<1> QED BY <1>3, <1>4

\* In the section S the table of names at t, with the zero behind it.
NamesIn(S, base, t, names) ==
  /\ t + Len(names) \in DOMAIN S /\ S[t + Len(names)] = Zero
  /\ \A j \in DOMAIN names : SymbolIn(S, base, t + j - 1, names[j])

\* All of them are left, and the walk from the address on passes over them.
Walked(n, k, t, at, names) ==
  /\ ThunkEnd(n, at) = Len(names) /\ t + Len(names) <= Rest(n, k)
  /\ \A j \in DOMAIN names : Off(n, at + j - 1) = secs[k].raw + (t + j - 1) - 1

\* The walk over a table of names ends, and if it reads a zero there, it is the one
\* that was written, and it has read all of them.
LEMMA RestThunks ==
  ASSUME NEW n, Cut(n), NEW S \in Seq(Words), NEW k \in DOMAIN secs,
         Put(S, importDir, secs[k], word), NEW t \in Nat \ {0, 1}, NEW names \in Seq(Symbols),
         NamesIn(S, importDir, t, names), NEW at, at = importDir + t - 1
  PROVE  /\ ThunkEnd(n, at) \in Nat
         /\ U32(n, at + ThunkEnd(n, at)) = 0 => Walked(n, k, t, at, names)
<1> DEFINE end == ThunkEnd(n, at)
           L == Len(names)
<1>0. /\ L \in Nat /\ DOMAIN names = 1 .. L /\ importDir \in Nat /\ sizeOfImage \in Nat
      /\ at = importDir + t - 1 /\ at \in Nat
  BY DEF Cut, Inv, TypeOK
<1>0a. /\ t + L \in DOMAIN S /\ S[t + L] = Zero
       /\ \A j \in DOMAIN names : SymbolIn(S, importDir, t + j - 1, names[j])
  BY DEF NamesIn
<1>1. ASSUME NEW j \in 0 .. L
      PROVE  /\ t + j \in DOMAIN S /\ at + j = importDir + (t + j) - 1
             /\ j # L => SymbolIn(S, importDir, t + j, names[j + 1])
  <2>1. at + j = importDir + (t + j) - 1
    BY <1>0
  <2>2. CASE j = L
    BY <1>0a, <2>1, <2>2
  <2>3. CASE j # L
    <3>1. j + 1 \in DOMAIN names /\ t + (j + 1) - 1 = t + j
      <4> HIDE DEF L
      <4>1. j + 1 \in 1 .. L /\ t + (j + 1) - 1 = t + j
        BY <1>0, <2>3
      <4> QED BY <1>0, <4>1
    <3>2. SymbolIn(S, importDir, t + j, names[j + 1])
      BY <1>0a, <3>1
    <3> QED BY <2>1, <3>2 DEF SymbolIn
  <2> QED BY <2>2, <2>3
<1> HIDE DEF L
<1>2. ASSUME NEW j \in 0 .. L
      PROVE  /\ U32(n, at + j) = IF t + j <= Rest(n, k) THEN Value(S[t + j]) ELSE Bad
             /\ Off(n, at + j) = IF t + j <= Rest(n, k) THEN secs[k].raw + (t + j) - 1 ELSE Bad
             /\ at + j < sizeOfImage
  BY <1>1, RestWord
<1>3. Value(Zero) = 0 /\ Bad # 0
  BY DEF Value, Zero, Num, Bad
<1>4. ThunkStops(n, at, L)
  <2>1. S[t + L] = Zero /\ L \in 0 .. L
    BY <1>0, <1>0a
  <2> QED BY <1>2, <1>3, <2>1 DEF ThunkStops
<1>5. L <= sizeOfImage
  <2>1. at + L < sizeOfImage
    BY <1>0, <1>2
  <2> QED BY <1>0, <2>1
<1>6. /\ end \in 0 .. L /\ \A j \in 0 .. end - 1 : ~ ThunkStops(n, at, j)
  BY <1>0, <1>4, <1>5, ThunkEndIs
<1> HIDE DEF end
<1> SUFFICES ASSUME U32(n, at + end) = 0 PROVE Walked(n, k, t, at, names)
  BY <1>6 DEF end
<1>7. U32(n, at + end) = 0
  OBVIOUS
<1>8. end = L
  <2> SUFFICES ASSUME end # L PROVE FALSE
    OBVIOUS
  <2>1. SymbolIn(S, importDir, t + end, names[end + 1])
    BY <1>1, <1>6
  <2>2. Value(S[t + end]) = 0
    BY <1>2, <1>3, <1>6, <1>7
  <2>3. CASE S[t + end] = Ord(names[end + 1])
    BY <2>2, <2>3 DEF Value, Ord, Far
  <2>4. CASE \E q \in Nat \ {0, 1} : S[t + end] = Num(importDir + q - 1)
    <3>1. PICK q \in Nat \ {0, 1} : S[t + end] = Num(importDir + q - 1)
      BY <2>4
    <3>2. importDir + q - 1 = 0
      BY <2>2, <3>1 DEF Value, Num
    <3> QED BY <1>0, <3>2
  <2> QED BY <2>1, <2>3, <2>4 DEF SymbolIn
<1>9. t + L <= Rest(n, k)
  BY <1>0, <1>2, <1>3, <1>7, <1>8
<1>10. ASSUME NEW j \in DOMAIN names PROVE Off(n, at + j - 1) = secs[k].raw + (t + j - 1) - 1
  <2>1. /\ j - 1 \in 0 .. L /\ j - 1 \in 0 .. end - 1 /\ at + (j - 1) = at + j - 1
        /\ t + (j - 1) = t + j - 1
    BY <1>0, <1>8 DEF L
  <2>2. U32(n, at + (j - 1)) # Bad
    BY <1>6, <2>1 DEF ThunkStops
  <2> QED BY <1>2, <2>1, <2>2
<1> QED BY <1>8, <1>9, <1>10 DEF Walked, end, L

\* Where descriptor i of what BuildSection returned is.
DescAt(i) == DescLen * (i - 1) + 1

\* Every descriptor has to be there,
LEMMA RestDescs ==
  ASSUME NEW n, Cut(n), NEW D \in Seq(Descriptors), NEW k \in DOMAIN secs,
         Put(BuildSection(D, importDir), importDir, secs[k], word), ImportsReadable(n)
  PROVE  /\ \A i \in DOMAIN D : DescReadable(n, i - 1)
         /\ \A i \in DOMAIN D : DescAt(i) <= Rest(n, k)
<1> DEFINE S == BuildSection(D, importDir)
           L == Len(D)
           z == DescLen * L + 1
<1>0. L \in Nat /\ DOMAIN D = 1 .. L /\ importDir \in Nat /\ sizeOfImage \in Nat
  BY DEF Cut, Inv, TypeOK
<1>1. /\ S \in Seq(Words)
      /\ \A i \in DOMAIN D : DescIn(S, importDir, DescAt(i), D[i])
      /\ \A f \in 0 .. DescLen - 1 : DescLen * L + f + 1 \in DOMAIN S /\ S[DescLen * L + f + 1] = Zero
  BY <1>0, Built, Zenon DEF DescAt
<1>2. Put(S, importDir, secs[k], word)
  OBVIOUS
<1> HIDE DEF S
<1>3. \A f \in 0 .. 2 : z + f \in DOMAIN S /\ S[z + f] = Zero
  <2>1. DescLen - 1 = 2 /\ \A f \in 0 .. 2 : DescLen * L + f + 1 = z + f
    BY <1>0 DEF DescLen
  <2> QED BY <1>1, <2>1
<1>4. importDir + DescLen * L = importDir + z - 1 /\ z \in Nat /\ L < z
  BY <1>0 DEF DescLen
<1> HIDE DEF z, L
<1>5. ASSUME NEW f \in 0 .. 2
      PROVE  /\ U32(n, importDir + DescLen * L + f) \in {0, Bad}
             /\ importDir + DescLen * L + f < sizeOfImage
  <2>1. importDir + DescLen * L + f = importDir + (z + f) - 1
    BY <1>0, <1>4 DEF DescLen
  <2>2. Value(Zero) = 0
    BY DEF Value, Zero, Num
  <2> QED BY <1>1, <1>2, <1>3, <2>1, <2>2, RestWord
<1>6. DescStops(n, L) /\ L <= sizeOfImage
  <2> DEFINE at == importDir + DescLen * L
  <2>1. at + 0 = at /\ 0 \in 0 .. 2 /\ 1 \in 0 .. 2 /\ 2 \in 0 .. 2 /\ at \in Nat /\ L <= at
    BY <1>0 DEF DescLen
  <2>2. U32(n, at) \in {0, Bad} /\ U32OrZero(n, at + 1) = 0 /\ U32OrZero(n, at + 2) = 0
        /\ at < sizeOfImage
    <3> HIDE DEF at
    <3> QED BY <1>5, <2>1 DEF U32OrZero, at
  <2>3. Desc(n, L) = [oft |-> U32(n, at), name |-> 0, ft |-> 0]
    BY <2>2 DEF Desc
  <2> HIDE DEF at
  <2>4. DescStops(n, L)
    BY <2>2, <2>3 DEF DescStops
  <2> QED BY <1>0, <2>1, <2>2, <2>4
<1>7. ASSUME NEW i \in DOMAIN D
      PROVE  /\ DescStops(n, i - 1) => Desc(n, i - 1).oft = Bad
             /\ Desc(n, i - 1).oft # Bad => DescAt(i) <= Rest(n, k)
  <2>1. importDir + DescLen * (i - 1) = importDir + DescAt(i) - 1
    BY <1>0 DEF DescLen, DescAt
  <2>2. PICK t \in Nat \ {0, 1} : S[DescAt(i)] = Num(importDir + t - 1)
    BY <1>1 DEF DescIn
  <2>3. DescAt(i) \in DOMAIN S
    BY <1>1 DEF DescIn
  <2>4. Desc(n, i - 1).oft = IF DescAt(i) <= Rest(n, k) THEN Value(S[DescAt(i)]) ELSE Bad
    BY <1>1, <1>2, <2>1, <2>3, RestWord DEF Desc
  <2>5. Value(S[DescAt(i)]) # 0
    <3>1. Value(S[DescAt(i)]) = importDir + t - 1
      BY <2>2 DEF Value, Num
    <3> QED BY <1>0, <3>1
  <2> QED BY <2>4, <2>5 DEF DescStops
<1>8. /\ DescEnd(n) \in 0 .. L /\ DescStops(n, DescEnd(n))
      /\ \A i \in 0 .. DescEnd(n) - 1 : ~ DescStops(n, i)
  BY <1>0, <1>6, DescEndIs
<1>9. DescEnd(n) = L
  <2> SUFFICES ASSUME DescEnd(n) # L PROVE FALSE
    OBVIOUS
  <2>1. PICK i \in DOMAIN D : DescEnd(n) = i - 1
    <3>1. DescEnd(n) + 1 \in DOMAIN D /\ DescEnd(n) = (DescEnd(n) + 1) - 1
      BY <1>0, <1>8 DEF L
    <3> QED BY <3>1
  <2>2. Desc(n, DescEnd(n)).oft = Bad
    BY <1>7, <1>8, <2>1
  <2> QED BY <2>2 DEF ImportsReadable
<1>10. ASSUME NEW i \in DOMAIN D PROVE DescReadable(n, i - 1) /\ DescAt(i) <= Rest(n, k)
  <2>1. i - 1 \in 0 .. DescEnd(n) - 1
    BY <1>0, <1>9 DEF L
  <2>2. DescReadable(n, i - 1)
    BY <2>1 DEF ImportsReadable
  <2>3. Desc(n, i - 1).oft # Bad
    BY <1>8, <2>1 DEF DescStops
  <2> QED BY <1>7, <2>2, <2>3
<1> QED BY <1>10

\* and what it refers to, of which the last is not.
LEMMA RestRefused ==
  ASSUME NEW n, Cut(n), NEW D \in Seq(Descriptors), D # <<>>, NEW k \in DOMAIN secs,
         Put(BuildSection(D, importDir), importDir, secs[k], word),
         Rest(n, k) < Len(BuildSection(D, importDir)), ImportsReadable(n)
  PROVE  FALSE
<1> DEFINE S == BuildSection(D, importDir)
           q == Len(S) - 1
<1>0. importDir \in Nat /\ Rest(n, k) \in Int
  BY LeftWords DEF Cut, Inv, TypeOK, Put, Rest
<1>1. /\ S \in Seq(Words) /\ LastNamed(S, importDir, D)
      /\ \A i \in DOMAIN D : DescIn(S, importDir, DescAt(i), D[i])
  BY <1>0, Built, Zenon DEF DescAt
<1>2. /\ \A i \in DOMAIN D : DescReadable(n, i - 1)
      /\ \A i \in DOMAIN D : DescAt(i) <= Rest(n, k)
  BY RestDescs
<1>3. Put(S, importDir, secs[k], word) /\ Rest(n, k) < Len(S)
  OBVIOUS
<1> HIDE DEF S
<1>4. PICK i \in DOMAIN D : RefersTo(S, importDir, DescAt(i), D[i], q)
  BY <1>1 DEF LastNamed, DescAt
<1>5. q \in DOMAIN S /\ q \in Nat \ {0} /\ \E s : S[q] = Text(s)
  <2>1. q \in DOMAIN S /\ \E s : S[q] = Text(s)
    BY <1>1 DEF LastNamed
  <2> HIDE DEF q
  <2> QED BY <1>1, <2>1
<1>6. CStr(n, importDir + q - 1) = NoText
  BY <1>1, <1>3, <1>5, LastNameLost
<1> HIDE DEF q
<1> DEFINE p == DescAt(i)
           d == D[i]
           at == importDir + DescLen * (i - 1)
<1>7. /\ d.names \in Seq(Symbols) /\ i \in Nat /\ p \in Nat
      /\ at = importDir + p - 1 /\ at + 1 = importDir + (p + 1) - 1 /\ p <= Rest(n, k)
  <2>1. d \in Descriptors /\ i \in Nat /\ p <= Rest(n, k)
    BY <1>2
  <2>2. d.names \in Seq(Symbols)
    BY <2>1 DEF Descriptors
  <2>3. i \in Nat \ {0}
    OBVIOUS
  <2>4. p \in Nat /\ at = importDir + p - 1 /\ at + 1 = importDir + (p + 1) - 1
    <3> HIDE DEF d
    <3> QED BY <1>0, <2>3 DEF DescAt, DescLen
  <2> QED BY <2>1, <2>2, <2>4
<1>8. DescIn(S, importDir, p, d) /\ DescReadable(n, i - 1)
  BY <1>1, <1>2
<1>9. Desc(n, i - 1) = [oft |-> U32(n, at), name |-> U32OrZero(n, at + 1),
                        ft |-> U32OrZero(n, at + 2)]
  BY DEF Desc
<1>10. RefersTo(S, importDir, p, d, q)
  BY <1>4
<1> HIDE DEF p, d, at
<1>11. {p, p + 1} \subseteq DOMAIN S
  BY <1>8 DEF DescIn
<1>12. PICK t \in Nat \ {0, 1} :
         /\ S[p] = Num(importDir + t - 1) /\ p + 2 < t
         /\ t + Len(d.names) \in DOMAIN S /\ S[t + Len(d.names)] = Zero
         /\ \A j \in DOMAIN d.names : SymbolIn(S, importDir, t + j - 1, d.names[j])
  BY <1>8 DEF DescIn
<1> DEFINE oft == importDir + t - 1
           end == ThunkEnd(n, oft)
           names == [j \in 1 .. end |-> Symbol(n, oft + j - 1)]
<1>13. /\ Desc(n, i - 1).oft = oft /\ oft # 0 /\ oft \in Nat
       /\ Desc(n, i - 1).name = U32OrZero(n, at + 1) /\ Lookup(Desc(n, i - 1)) = oft
  <2>1. U32(n, at) = Value(S[p])
    BY <1>1, <1>3, <1>7, <1>11, RestWord
  <2>2. Value(S[p]) = oft /\ oft # 0 /\ oft \in Nat
    BY <1>0, <1>12 DEF Value, Num
  <2> HIDE DEF oft
  <2> QED BY <1>9, <2>1, <2>2 DEF Lookup
<1>14. /\ CStr(n, Desc(n, i - 1).name) # NoText
       /\ U32(n, oft + Len(names)) = 0
       /\ \A j \in DOMAIN names : names[j] # NoText
  <2>1. ReadDesc(n, i - 1).names = names
    BY <1>13 DEF ReadDesc
  <2> HIDE DEF names
  <2> QED BY <1>8, <1>13, <2>1, Zenon DEF DescReadable
<1> HIDE DEF oft
<1>15. end \in Nat /\ (U32(n, oft + end) = 0 => Walked(n, k, t, oft, d.names))
  <2>1. oft = importDir + t - 1 /\ NamesIn(S, importDir, t, d.names)
    BY <1>12 DEF oft, NamesIn
  <2>2. S \in Seq(Words) /\ d.names \in Seq(Symbols)
    BY <1>1, <1>7
  <2>3. Put(S, importDir, secs[k], word)
    BY <1>3
  <2> HIDE DEF names, end
  <2>4. /\ ThunkEnd(n, oft) \in Nat
        /\ U32(n, oft + ThunkEnd(n, oft)) = 0 => Walked(n, k, t, oft, d.names)
    BY <2>1, <2>2, <2>3, RestThunks, Zenon
  <2> QED BY <2>4 DEF end
<1>16. /\ end = Len(d.names) /\ t + Len(d.names) <= Rest(n, k)
       /\ \A j \in DOMAIN d.names : Off(n, oft + j - 1) = secs[k].raw + (t + j - 1) - 1
  <2>1. Len(names) = end
    BY <1>15
  <2> HIDE DEF names
  <2> QED BY <1>14, <1>15, <2>1 DEF Walked
<1>17. p + 1 <= Rest(n, k)
  <2>1. Len(d.names) \in Nat /\ p \in Nat /\ Rest(n, k) \in Int
    BY <1>0, <1>7
  <2>2. p + 2 < t /\ t + Len(d.names) <= Rest(n, k)
    BY <1>12, <1>16
  <2> QED BY <2>1, <2>2
<1>18. S[p + 1] # Num(importDir + q - 1)
  <2> SUFFICES ASSUME S[p + 1] = Num(importDir + q - 1) PROVE FALSE
    OBVIOUS
  <2>1. U32(n, at + 1) = Value(S[p + 1])
    BY <1>1, <1>3, <1>7, <1>11, <1>17, RestWord
  <2>2. Value(S[p + 1]) = importDir + q - 1
    BY DEF Value, Num
  <2>3. importDir + q - 1 # Bad
    BY <1>0, <1>5 DEF Bad
  <2> QED BY <1>6, <1>13, <1>14, <2>1, <2>2, <2>3 DEF U32OrZero
<1>19. PICK v \in Nat : \E j \in DOMAIN d.names :
         S[p] = Num(importDir + v - 1) /\ S[v + j - 1] = Num(importDir + q - HintLen - 1)
  BY <1>10, <1>18 DEF RefersTo
<1>20. PICK j \in DOMAIN d.names :
         S[p] = Num(importDir + v - 1) /\ S[v + j - 1] = Num(importDir + q - HintLen - 1)
  BY <1>19
<1>21. v = t
  <2>1. Num(importDir + v - 1).num = Num(importDir + t - 1).num
    BY <1>12, <1>20
  <2>2. importDir + v - 1 = importDir + t - 1
    BY <2>1 DEF Num
  <2> QED BY <1>0, <2>2
<1>22. word[Off(n, oft + j - 1)] = Num(importDir + q - HintLen - 1)
  <2>1. t + j - 1 \in DOMAIN S
    BY <1>12 DEF SymbolIn
  <2>2. word[secs[k].raw + (t + j - 1) - 1] = S[t + j - 1]
    BY <1>1, <1>3, <2>1, RestWord
  <2> QED BY <1>16, <1>20, <1>21, <2>2
<1>23. Symbol(n, oft + j - 1) = NoText
  <2> DEFINE w == importDir + q - HintLen - 1
  <2>1. Num(w).kind = "num" /\ Value(Num(w)) = w /\ w + HintLen = importDir + q - 1
    BY <1>0, <1>5 DEF Num, Value, HintLen
  <2> HIDE DEF w
  <2>2. word[Off(n, oft + j - 1)] = Num(w)
    BY <1>22 DEF w
  <2> QED BY <1>6, <2>1, <2>2 DEF Symbol
<1>24. j \in DOMAIN names /\ names[j] = Symbol(n, oft + j - 1)
  <2>1. j \in 1 .. end
    BY <1>7, <1>16
  <2> QED BY <2>1 DEF names
<1> QED BY <1>14, <1>23, <1>24

----------------------------------------------------------------------------
(* What is left of a patched file when os.WriteFile was cut short. *)

\* A cut behind the section leaves the imports,
LEMMA RestRead ==
  ASSUME NEW n, Cut(n), NEW D \in Seq(Descriptors), NEW k \in DOMAIN secs,
         importDir # 0, Put(BuildSection(D, importDir), importDir, secs[k], word),
         Len(BuildSection(D, importDir)) <= Rest(n, k)
  PROVE  ReadImports(n) = D
<1> DEFINE S == BuildSection(D, importDir)
<1>1. S \in Seq(Words) /\ importDir \in Nat
  <2>1. importDir \in Nat
    BY DEF Cut, Inv, TypeOK
  <2> QED BY <2>1, Built
<1>2. Put(S, importDir, secs[k], word) /\ Len(S) <= Rest(n, k)
  OBVIOUS
<1> HIDE DEF S
<1>3. ASSUME NEW p \in DOMAIN S
      PROVE  secs[k].raw + p - 1 \in 0 .. n - 1
  <2>1. p \in Nat \ {0} /\ p <= Len(S) /\ Len(S) \in Nat
    BY <1>1
  <2>2. secs[k].raw \in Nat /\ n \in Nat
    BY <1>2, LeftWords DEF Put
  <2>3. Len(S) <= n - secs[k].raw
    BY <1>2 DEF Rest
  <2> QED BY <2>1, <2>2, <2>3
<1>4. Put(S, importDir, secs[k], Left(n))
  BY <1>2, <1>3, LeftWords DEF Put
<1>5. ImportsWritten(secs, Left(n), importDir, D)
  BY <1>1, <1>4, PutWritten DEF S
<1> QED BY <1>5, ReadWritten

\* and one behind all that somebody owns the table.
LEMMA TableLeft ==
  ASSUME NEW n, Cut(n), FileInv, \A b \in DOMAIN owner : owner[b] \in Nat => b < n,
         NEW table, table # {}, TableWritten(Now, table)
  PROVE  ReadTable(n) = table
<1>1. n \in Nat /\ DOMAIN owner = 0 .. fileLen - 1
  BY LeftWords DEF Cut, Inv, TypeOK
<1>2. Now = [secs |-> secs, owner |-> owner, word |-> word, slots |-> SlotsOf(image.imports)]
  BY DEF Now
<1>3. Seen(n) = [secs |-> secs, owner |-> [b \in 0 .. n - 1 |-> owner[b]], word |-> Left(n),
                 slots |-> SlotsOf(image.imports)]
  BY DEF Seen
<1>4. ASSUME NEW b, Settled(Now, b)
      PROVE  Settled(Seen(n), b) /\ b \in DOMAIN Left(n) /\ Left(n)[b] = word[b]
  <2>1. /\ b \in DOMAIN owner /\ owner[b] \in Nat
        /\ \A s \in SlotsOf(image.imports) : \A i \in DOMAIN secs :
             Within(secs[i], s) => Byte(secs[i], s) # b
    BY <1>2, <1>4 DEF Settled
  <2>2. b \in 0 .. n - 1
    BY <1>1, <2>1
  <2>3. [c \in 0 .. n - 1 |-> owner[c]][b] = owner[b]
    BY <2>2
  <2>4. Settled(Seen(n), b)
    BY <1>3, <2>1, <2>2, <2>3 DEF Settled
  <2> QED BY <2>2, <2>4, LeftWords
<1>5. \A o \in DOMAIN Left(n) : Left(n)[o] = Magic => o \in DOMAIN word /\ word[o] = Magic
  BY LeftWords
<1>6. DOMAIN word \subseteq Nat /\ \A o \in DOMAIN Left(n) : \A b \in 0 .. o : b \in DOMAIN Left(n)
  <2>1. DOMAIN word \subseteq Nat
    BY DEF FileInv
  <2>2. DOMAIN Left(n) = 0 .. n - 1
    BY LeftWords
  <2> QED BY <1>1, <2>1, <2>2
<1>7. Preserves(Now, Seen(n))
  BY <1>2, <1>3, <1>4, <1>5, <1>6 DEF Preserves
<1>8. TableWritten(Seen(n), table)
  BY <1>7, TableKept
<1> QED BY <1>8, TableReadBack

\* What survives lies in a run of what survives.
LEMMA RunAround ==
  ASSUME NEW d \in Descriptors, NEW dropped, NEW i \in Kept(d, dropped)
  PROVE  \E r \in Runs(d, dropped) : i \in r[1] .. r[2]
<1> DEFINE kept == Kept(d, dropped)
           A == {a \in kept : a <= i /\ a .. i \subseteq kept}
           B == {b \in kept : i <= b /\ i .. b \subseteq kept}
<1>1. PICK n \in Nat : DOMAIN d.names = 1 .. n
  BY DEF Descriptors
<1>2. kept \in SUBSET (1 .. n) /\ i \in kept /\ i \in Nat
  BY <1>1 DEF Kept
<1> HIDE DEF kept
<1>2a. i \in A /\ i \in B
  <2>1. i .. i = {i} /\ i <= i
    BY <1>2
  <2> QED BY <1>2, <2>1
<1>3. PICK a \in A : \A x \in A : a <= x
  <2>1. A \in SUBSET Nat /\ A # {}
    <3>1. \A x \in A : x \in Nat
      BY <1>2
    <3> HIDE DEF A
    <3> QED BY <1>2a, <3>1
  <2> HIDE DEF A
  <2> QED BY <2>1, LeastOfNat
<1>4. PICK b \in B : \A x \in B : x <= b
  <2>1. B \in SUBSET Nat /\ B # {} /\ \A x \in B : x <= n
    <3>1. \A x \in B : x \in Nat /\ x <= n
      BY <1>2
    <3> HIDE DEF B
    <3> QED BY <1>2a, <3>1
  <2> HIDE DEF B
  <2>2. Greatest(B) \in B /\ \A x \in B : x <= Greatest(B)
    BY <2>1, GreatestOfBounded
  <2> QED BY <2>2
<1>5. /\ a \in kept /\ b \in kept /\ a \in Nat \ {0} /\ b \in Nat /\ a <= i /\ i <= b
      /\ a .. i \subseteq kept /\ i .. b \subseteq kept
  BY <1>2, <1>3, <1>4
<1>6. a - 1 \notin kept
  <2> SUFFICES ASSUME a - 1 \in kept PROVE FALSE
    OBVIOUS
  <2>1. (a - 1) .. i \subseteq kept
    BY <1>2, <1>5
  <2>2. a - 1 \in A
    BY <1>2, <1>5, <2>1
  <2> QED BY <1>3, <1>5, <2>2
<1>7. b + 1 \notin kept
  <2> SUFFICES ASSUME b + 1 \in kept PROVE FALSE
    OBVIOUS
  <2>1. i .. (b + 1) \subseteq kept
    BY <1>2, <1>5
  <2>2. b + 1 \in B
    BY <1>2, <1>5, <2>1
  <2> QED BY <1>4, <1>5, <2>2
<1>8. a .. b \subseteq kept /\ a <= b /\ i \in a .. b
  BY <1>2, <1>5
<1> HIDE DEF A, B
<1>9. <<a, b>> \in Runs(d, dropped)
  BY <1>5, <1>6, <1>7, <1>8 DEF Runs, kept
<1> QED BY <1>8, <1>9

\* So rebuildImports keeps every slot that it does not drop.
LEMMA SlotsKept ==
  ASSUME NEW T \in SUBSET Descriptors, NEW dropped, NEW s \in SlotsOf(T), s \notin dropped
  PROVE  s \in SlotsOf(RebuildImports(T, dropped))
<1>1. PICK d \in T : \E i \in DOMAIN d.names : s = SlotOf(d, i)
  BY DEF SlotsOf, ImportsOf
<1>2. PICK i \in DOMAIN d.names : s = SlotOf(d, i)
  BY <1>1
<1>3. i \in Kept(d, dropped)
  BY <1>2 DEF Kept
<1>4. PICK r \in Runs(d, dropped) : i \in r[1] .. r[2]
  BY <1>3, RunAround
<1>5. d.names \in Seq(Symbols) /\ d.first \in Nat
  BY DEF Descriptors
<1>6. PICK n \in Nat : DOMAIN d.names = 1 .. n
  BY <1>5
<1>7. r[1] \in 1 .. n /\ r[2] \in 1 .. n /\ r[1] <= r[2]
  BY <1>6 DEF Runs, Kept
<1> DEFINE names == SubSeq(d.names, r[1], r[2])
           j == i - r[1] + 1
           p == Piece(d, r)
<1>8. DOMAIN names = 1 .. (r[2] - r[1] + 1)
  <2>1. \A x \in r[1] .. r[2] : d.names[x] \in Symbols
    BY <1>5, <1>6, <1>7
  <2>2. r[1] \in Int /\ r[2] \in Int
    BY <1>7
  <2> HIDE DEF names
  <2>3. names \in Seq(Symbols) /\ Len(names) = r[2] - r[1] + 1
    BY <1>7, <2>1, <2>2, SubSeqProperties DEF names
  <2> QED BY <2>3
<1>9. p.names = names /\ p.first = d.first + r[1] - 1 /\ p.dll = d.dll
  BY DEF Piece, SlotOf
<1>10. p \in RebuildImports(T, dropped)
  BY DEF RebuildImports
<1>11. j \in DOMAIN p.names /\ SlotOf(p, j) = s
  <2>1. j \in 1 .. (r[2] - r[1] + 1)
    BY <1>4, <1>7
  <2>2. d.first + r[1] - 1 + j - 1 = d.first + i - 1
    BY <1>5, <1>6, <1>7
  <2>3. SlotOf(p, j) = s
    <3> HIDE DEF p, j
    <3> QED BY <1>2, <1>9, <2>2 DEF SlotOf
  <2> QED BY <1>8, <1>9, <2>1, <2>3
<1> HIDE DEF p, j, names
<1>12. [dll |-> p.dll, sym |-> p.names[j], slot |-> SlotOf(p, j)]
         \in ImportsOf(RebuildImports(T, dropped))
  BY <1>10, <1>11 DEF ImportsOf
<1> QED BY <1>11, <1>12 DEF SlotsOf

(* The invariant that says so. *)

\* What AddSection added is in the file, and nobody owns what is behind it.
AddedInv ==
  pc = "added" =>
    /\ importDir # 0
    /\ \E D \in Seq(Descriptors) : \E k \in DOMAIN secs :
      /\ Range(D) = image.imports
      /\ Put(BuildSection(D, importDir), importDir, secs[k], word)
      /\ \A b \in DOMAIN owner :
           secs[k].raw + Len(BuildSection(D, importDir)) <= b => owner[b] \in {Padding, Overlay}

\* No patch redirects all slots: the table names one that the shim calls itself.
OwnInv ==
  image.table # {} =>
    \E e \in image.table : \E s \in SlotsOf(image.imports) :
      e.own = ImageBase + s /\ (pc = "planned" => s \notin DOMAIN bad)

TornInv == ContentInv /\ AddedInv /\ OwnInv

LEMMA AddedStep ==
  ASSUME ContentInv, AddedInv, [FileNext]_fileVars
  PROVE  AddedInv'
<1>1. CASE FileAddSection
  <2>1. /\ Inv /\ WrittenInv /\ AddSection /\ Room /\ pc = "planned" /\ importDir' = NewRVA
        /\ planned = NewRVA /\ NewRVA \in Nat
    <3>1. PlannedSectionRVA = NewRVA
      BY DEF PlannedSectionRVA, NewRVA, RvaEnds, RvaEnd
    <3>2. Inv /\ WrittenInv /\ AddSection /\ Room /\ pc = "planned" /\ importDir' = NewRVA
      BY <1>1 DEF ContentInv, FileAddSection, AddSection
    <3> QED BY <3>1, <3>2, NewRVAFacts DEF Inv
  <2>2. PICK D \in Seq(Descriptors) : /\ Range(D) = RebuildImports(image.imports, DOMAIN bad)
                                      /\ section = BuildSection(D, NewRVA)
                                      /\ data = Len(section)
    BY <2>1 DEF WrittenInv
  <2>3. DOMAIN section = 1 .. data
    <3>1. section \in Seq(Words)
      BY <2>1, <2>2, Built
    <3> QED BY <2>2, <3>1
  <2> DEFINE k == Len(secs) + 1
  <2>4. /\ k \in DOMAIN secs' /\ secs'[k].raw = NewRaw
        /\ Put(BuildSection(D, NewRVA), NewRVA, secs'[k], word')
    BY <1>1, <2>1, <2>2, <2>3, AddedPut
  <2>5. Range(D) = image'.imports
    BY <1>1, <2>1, <2>2 DEF FileAddSection, WrittenInv
  <2>6. ASSUME NEW b \in DOMAIN owner', NewRaw + data <= b
        PROVE  owner'[b] \in {Padding, Overlay}
    <3>1. /\ fileLen' \in Nat /\ DOMAIN owner' = 0 .. fileLen' - 1
          /\ owner \in [0 .. fileLen - 1 -> Owners] /\ fileLen \in Nat
      BY <2>1, AddedFacts DEF AddSection, Inv, TypeOK
    <3>2. /\ NewRaw \in Nat /\ LastHdrEnd \in Nat /\ LastHdrEnd < NewRaw /\ data \in Nat
          /\ b \in 0 .. fileLen' - 1 /\ b \in Nat
      BY <2>1, <3>1, NewRawFacts, AddedFacts
    <3>3. b # LastHdrEnd /\ ~ (NewRaw <= b /\ b < NewRaw + data) /\ ~ (b < NewRaw)
      BY <2>6, <3>2
    <3>4. owner'[b] = IF b < fileLen THEN owner[b] ELSE Padding
      BY <2>1, <3>2, <3>3, OwnerAfter
    <3>5. CASE b < fileLen
      <4>1. b \in DOMAIN owner /\ owner[b] \in Owners
        BY <3>1, <3>2, <3>5
      <4>2. owner[b] \notin Nat
        BY <2>1, <3>3, <4>1, OwnedUnits
      <4> QED BY <3>4, <3>5, <4>1, <4>2 DEF Owners
    <3> QED BY <3>4, <3>5
  <2> HIDE DEF k
  <2>7. \A b \in DOMAIN owner' :
          secs'[k].raw + Len(BuildSection(D, NewRVA)) <= b => owner'[b] \in {Padding, Overlay}
    BY <2>2, <2>4, <2>6
  <2>8. NewRVA # 0
    BY <2>1, NewRVAPositive
  <2> QED BY <2>1, <2>4, <2>5, <2>7, <2>8 DEF AddedInv
<1>2. CASE UNCHANGED fileVars
  BY <1>2 DEF AddedInv, fileVars, vars
<1>3. ASSUME NEW t \in Targets, FilePlan(t) \/ FileRefuse(t) PROVE pc' # "added"
  BY <1>3 DEF FilePlan, Plan, FileRefuse, Refuse
<1>4. FileNoRoom \/ FileWrite => pc' # "added"
  BY DEF FileNoRoom, NoRoom, FileWrite, Write
<1> QED BY <1>1, <1>2, <1>3, <1>4 DEF FileNext, AddedInv

LEMMA OwnStep ==
  ASSUME ContentInv, OwnInv, [FileNext]_fileVars
  PROVE  OwnInv'
<1>1. ASSUME NEW t \in Targets, FilePlan(t), image'.table # {}
      PROVE  \E e \in image'.table : \E s \in SlotsOf(image'.imports) :
               e.own = ImageBase + s /\ s \notin DOMAIN bad'
  <2>1. image' = image /\ DOMAIN bad' = {im.slot : im \in Redirects(ReadImports(fileLen), t)}
    BY <1>1 DEF FilePlan
  <2>2. PICK e \in image.table : \E s \in SlotsOf(image.imports) : e.own = ImageBase + s
    BY <1>1, <2>1 DEF OwnInv
  <2>3. PICK s \in SlotsOf(image.imports) : e.own = ImageBase + s
    BY <2>2
  <2>4. e \in ReadTable(fileLen)
    BY TableRead
  <2>5. \A im \in Redirects(ReadImports(fileLen), t) : im.slot # s
    BY <2>3, <2>4 DEF Redirects
  <2>6. s \notin DOMAIN bad'
    BY <2>1, <2>5
  <2> QED BY <2>1, <2>3, <2>6
<1>2. ASSUME FileAddSection, image'.table # {}
      PROVE  \E e \in image'.table : \E s \in SlotsOf(image'.imports) : e.own = ImageBase + s
  <2>1. /\ pc = "planned" /\ image'.table = image.table
        /\ image'.imports = RebuildImports(image.imports, DOMAIN bad)
    BY <1>2 DEF FileAddSection, AddSection, ContentInv, WrittenInv
  <2>2. PICK e \in image.table : \E s \in SlotsOf(image.imports) :
               e.own = ImageBase + s /\ s \notin DOMAIN bad
    BY <1>2, <2>1 DEF OwnInv
  <2>3. PICK s \in SlotsOf(image.imports) : e.own = ImageBase + s /\ s \notin DOMAIN bad
    BY <2>2
  <2>4. s \in SlotsOf(image'.imports)
    BY <2>1, <2>3, SlotsKept DEF ContentInv, FileInv
  <2> QED BY <2>1, <2>3, <2>4
<1>3. FileAddSection => pc' # "planned"
  BY DEF FileAddSection, AddSection
<1>4. CASE UNCHANGED image /\ (pc' = "planned" => UNCHANGED <<pc, bad>>)
  BY <1>4 DEF OwnInv
<1>5. ASSUME NEW t \in Targets, FileRefuse(t) PROVE UNCHANGED image /\ pc' # "planned"
  BY <1>5 DEF FileRefuse, Refuse
<1>6. FileNoRoom \/ FileWrite => UNCHANGED image /\ pc' # "planned"
  BY DEF FileNoRoom, NoRoom, FileWrite, Write
<1>7. UNCHANGED fileVars => UNCHANGED <<image, pc, bad>>
  BY DEF fileVars, vars
<1>8. \A t \in Targets : FilePlan(t) => OwnInv'
  BY <1>1 DEF OwnInv
<1>9. FileAddSection => OwnInv'
  BY <1>2, <1>3 DEF OwnInv
<1> QED BY <1>4, <1>5, <1>6, <1>7, <1>8, <1>9 DEF FileNext

LEMMA OwnInit == FileInit => OwnInv
<1> SUFFICES ASSUME FileInit PROVE OwnInv
  OBVIOUS
<1>1. PICK f \in Files : image = [imports |-> Range(f.imports), table |-> f.table]
  BY DEF FileInit
<1>2. OwnSlotNamed(Range(f.imports), f.table)
  BY FilesAssumption, Zenon
<1>3. pc = "idle"
  BY DEF FileInit, Init
<1> QED BY <1>1, <1>2, <1>3 DEF OwnInv, OwnSlotNamed

LEMMA TornInvariant == FileSpec => []TornInv
<1>1. FileInit => AddedInv
  BY DEF FileInit, Init, AddedInv
<1>2. FileInit => AddedInv /\ OwnInv
  BY <1>1, OwnInit
<1>3. ContentInv /\ (AddedInv /\ OwnInv) /\ [FileNext]_fileVars => (AddedInv /\ OwnInv)'
  BY AddedStep, OwnStep
<1> QED BY <1>2, <1>3, ContentInvariant, PTL DEF FileSpec, TornInv

\* os.WriteFile may be cut short anywhere.  Open, and with it verify and the next
\* patch, refuses what is left whenever anything that somebody owns is missing, for
\* the import section always stands last and ends with a name that is referred to;
\* and what Open takes has the imports and the table of the whole.
THEOREM TornRefusedAlways == FileSpec => []TornRefused
<1>1. TornInv => TornRefused
  <2> SUFFICES ASSUME TornInv, pc = "added", NEW n \in 0 .. fileLen - 1, Opens(n)
               PROVE  /\ \A b \in n .. fileLen - 1 : owner[b] \in {Padding, Overlay}
                      /\ ReadImports(n) = ReadImports(fileLen)
                      /\ ReadTable(n) = ReadTable(fileLen)
    BY DEF TornRefused
  <2>0. /\ Inv /\ FileInv /\ TableWritten(Now, image.table) /\ image.table # {}
        /\ fileLen \in Nat /\ DOMAIN owner = 0 .. fileLen - 1
        /\ owner \in [0 .. fileLen - 1 -> Owners]
    BY DEF TornInv, ContentInv, TableInv, Inv, TypeOK
  <2>1. Cut(fileLen) /\ Cut(n)
    BY <2>0 DEF Cut, FileInv
  <2>2. PICK D \in Seq(Descriptors), k \in DOMAIN secs :
          /\ Range(D) = image.imports
          /\ Put(BuildSection(D, importDir), importDir, secs[k], word)
          /\ \A b \in DOMAIN owner :
               secs[k].raw + Len(BuildSection(D, importDir)) <= b =>
                 owner[b] \in {Padding, Overlay}
    BY DEF TornInv, AddedInv
  <2>13. importDir # 0
    BY DEF TornInv, AddedInv
  <2> DEFINE S == BuildSection(D, importDir)
  <2>3. /\ S \in Seq(Words) /\ Len(S) \in Nat /\ secs[k].raw \in Nat
        /\ \A p \in DOMAIN S : secs[k].raw + p - 1 \in DOMAIN word
    <3>1. importDir \in Nat
      BY <2>0 DEF Inv, TypeOK
    <3>2. S \in Seq(Words)
      BY <3>1, Built
    <3> HIDE DEF S
    <3>3. Put(S, importDir, secs[k], word)
      BY <2>2 DEF S
    <3>4. secs[k].raw \in Nat /\ \A p \in DOMAIN S : secs[k].raw + p - 1 \in DOMAIN word
      BY <3>3 DEF Put
    <3> QED BY <3>2, <3>4
  <2>4. D # <<>>
    <3>1. image.imports # {}
      BY <2>0 DEF TornInv, OwnInv, SlotsOf, ImportsOf
    <3> QED BY <2>2, <3>1 DEF Range
  <2>5. ImportsReadable(n)
    BY <2>13 DEF Opens
  <2>6. ~ (Rest(n, k) < Len(S))
    BY <2>1, <2>2, <2>4, <2>5, RestRefused
  <2> HIDE DEF S
  <2>7. Len(S) <= Rest(n, k) /\ Len(S) <= Rest(fileLen, k) /\ secs[k].raw + Len(S) <= n
    BY <2>0, <2>3, <2>6 DEF Rest
  <2>8. \A b \in n .. fileLen - 1 : owner[b] \in {Padding, Overlay}
    <3> TAKE b \in n .. fileLen - 1
    <3>1. b \in DOMAIN owner /\ secs[k].raw + Len(S) <= b
      BY <2>0, <2>3, <2>7
    <3> QED BY <2>2, <3>1 DEF S
  <2>9. ReadImports(n) = ReadImports(fileLen)
    BY <2>1, <2>2, <2>7, <2>13, RestRead DEF S
  <2>10. \A b \in DOMAIN owner : owner[b] \in Nat => b < n
    <3> SUFFICES ASSUME NEW b \in DOMAIN owner, owner[b] \in Nat, ~ (b < n) PROVE FALSE
      OBVIOUS
    <3>1. b \in n .. fileLen - 1
      BY <2>0
    <3>2. owner[b] \in {Padding, Overlay}
      BY <2>8, <3>1
    <3> QED BY <3>2 DEF Padding, Overlay
  <2>11. ReadTable(n) = image.table
    BY <2>0, <2>1, <2>10, TableLeft
  <2>12. ReadTable(fileLen) = image.table
    BY TableRead DEF TornInv
  <2> QED BY <2>8, <2>9, <2>11, <2>12
<1> QED BY <1>1, TornInvariant, PTL

=============================================================================
