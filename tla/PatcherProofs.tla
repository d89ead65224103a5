---------------------------- MODULE PatcherProofs ----------------------------
(***************************************************************************)
(* Proofs about Patcher for every set of images, profiles and paths: first *)
(* what rebuildImports produces, for every table and every set of dropped  *)
(* slots, then what patch and verify make of it.                           *)
(***************************************************************************)
EXTENDS Patcher, WellFoundedInduction, SequenceTheorems, TLAPS

----------------------------------------------------------------------------
(* The import table. *)

\* A non-empty set of naturals has a least element.
LEMMA LeastExists ==
  ASSUME NEW S \in SUBSET Nat, S # {}
  PROVE  \E x \in S : \A y \in S : x <= y
<1> DEFINE Less == {ss \in Nat \X Nat : ss[1] < ss[2]}
<1>1. IsWellFoundedOn(Less, Nat)
  BY NatLessThanWellFounded, Zenon DEF OpToRel
<1>2. PICK x \in S : \A y \in S : ~ (<<y, x>> \in Less)
  BY <1>1, WFMin, Zenon
<1>3. ASSUME NEW y \in S PROVE x <= y
  <2>1. x \in Nat /\ y \in Nat
    OBVIOUS
  <2>2. ~ (y < x)
    BY <1>2, <2>1
  <2> QED
    BY <2>1, <2>2
<1> QED
  BY <1>3

\* The least and the greatest element of an integer interval that has a property
\* at i and everywhere between.
LEMMA RunStart ==
  ASSUME NEW kept \in SUBSET Nat, NEW i \in kept, 0 \notin kept
  PROVE  \E a \in kept : a <= i /\ a .. i \subseteq kept /\ a - 1 \notin kept
<1> DEFINE A == {a \in kept : a <= i /\ a .. i \subseteq kept}
<1>1. A \in SUBSET Nat /\ i \in A
  <2>1. i \in Nat /\ i <= i /\ i .. i = {i}
    OBVIOUS
  <2> QED
    BY <2>1
<1>2. PICK a \in A : \A y \in A : a <= y
  BY <1>1, LeastExists
<1>3. a - 1 \notin kept
  <2> SUFFICES ASSUME a - 1 \in kept PROVE FALSE
    OBVIOUS
  <2>1. a \in Nat /\ a - 1 \in Nat
    BY <1>1, <1>2
  <2>2. (a - 1) .. i \subseteq kept
    BY <2>1, <1>2
  <2>3. a - 1 \in A
    BY <2>1, <2>2, <1>2
  <2> QED
    BY <2>1, <2>3, <1>2
<1> QED
  BY <1>2, <1>3

LEMMA RunEnd ==
  ASSUME NEW n \in Nat, NEW kept \in SUBSET (1 .. n), NEW i \in kept
  PROVE  \E b \in kept : i <= b /\ i .. b \subseteq kept /\ b + 1 \notin kept
<1> DEFINE D == {n - b : b \in {x \in kept : i <= x /\ i .. x \subseteq kept}}
<1>1. D \in SUBSET Nat /\ n - i \in D
  OBVIOUS
<1>2. PICK m \in D : \A y \in D : m <= y
  BY <1>1, LeastExists
<1>3. PICK b \in kept : m = n - b /\ i <= b /\ i .. b \subseteq kept
  BY <1>2
<1>4. b + 1 \notin kept
  <2> SUFFICES ASSUME b + 1 \in kept PROVE FALSE
    OBVIOUS
  <2>1. i .. (b + 1) \subseteq kept
    BY <1>3
  <2>2. n - (b + 1) \in D
    BY <2>1, <1>3
  <2> QED
    BY <2>2, <1>2, <1>3
<1> QED
  BY <1>3, <1>4

\* Every position that survives lies in one of the runs, and a run holds only
\* positions that survive.
LEMMA RunsCoverKept ==
  ASSUME NEW d \in Descriptors, NEW bad
  PROVE  /\ \A r \in Runs(d, bad) : \A k \in r[1] .. r[2] : k \in Kept(d, bad)
         /\ \A k \in Kept(d, bad) : \E r \in Runs(d, bad) : k \in r[1] .. r[2]
<1> DEFINE kept == Kept(d, bad)
<1>1. PICK n \in Nat : DOMAIN d.names = 1 .. n
  BY DEF Descriptors
<1>2. kept \in SUBSET (1 .. n) /\ kept \in SUBSET Nat /\ 0 \notin kept
  BY <1>1 DEF Kept
<1>3. \A r \in Runs(d, bad) : \A k \in r[1] .. r[2] : k \in kept
  BY DEF Runs
<1>4. ASSUME NEW k \in kept
      PROVE  \E r \in Runs(d, bad) : k \in r[1] .. r[2]
  <2>1. PICK a \in kept : a <= k /\ a .. k \subseteq kept /\ a - 1 \notin kept
    BY <1>2, RunStart
  <2>2. PICK b \in kept : k <= b /\ k .. b \subseteq kept /\ b + 1 \notin kept
    BY <1>2, RunEnd
  <2>3. a \in Nat /\ b \in Nat /\ k \in Nat
    BY <1>2
  <2>4. a <= b /\ a .. b \subseteq kept /\ k \in a .. b
    BY <2>1, <2>2, <2>3
  <2>5. <<a, b>> \in Runs(d, bad)
    BY <2>1, <2>2, <2>4 DEF Runs
  <2> QED
    BY <2>4, <2>5
<1> QED
  BY <1>3, <1>4

\* A new descriptor lists exactly the positions of its run, in their old slots.
LEMMA PieceImports ==
  ASSUME NEW d \in Descriptors, NEW bad, NEW r \in Runs(d, bad)
  PROVE  /\ Piece(d, r) \in Descriptors
         /\ DOMAIN Piece(d, r).names = 1 .. (r[2] - r[1] + 1)
         /\ \A j \in 1 .. (r[2] - r[1] + 1) :
               /\ r[1] + j - 1 \in r[1] .. r[2]
               /\ Piece(d, r).names[j] = d.names[r[1] + j - 1]
               /\ SlotOf(Piece(d, r), j) = SlotOf(d, r[1] + j - 1)
<1>1. PICK n \in Nat : DOMAIN d.names = 1 .. n /\ n = Len(d.names)
  BY DEF Descriptors
<1>2. /\ r[1] \in 1 .. n /\ r[2] \in 1 .. n /\ r[1] <= r[2]
      /\ r[1] .. r[2] \subseteq 1 .. n
  BY <1>1 DEF Runs, Kept
<1>3. /\ d.names \in Seq(Symbols) /\ d.first \in Nat /\ d.dll \in Dlls
      /\ \A i \in 1 .. n : d.names[i] \in Symbols
  BY <1>1 DEF Descriptors
<1> DEFINE names == SubSeq(d.names, r[1], r[2])
<1>4. /\ names \in Seq(Symbols)
      /\ Len(names) = r[2] - r[1] + 1
      /\ \A j \in 1 .. (r[2] - r[1] + 1) : names[j] = d.names[r[1] + j - 1]
  <2>1. \A i \in r[1] .. r[2] : d.names[i] \in Symbols
    BY <1>2, <1>3
  <2>2. r[1] \in Int /\ r[2] \in Int
    BY <1>2
  <2> HIDE DEF names
  <2> QED
    BY <2>1, <2>2, <1>2, SubSeqProperties DEF names
<1>5. SlotOf(d, r[1]) \in Nat
  BY <1>2, <1>3 DEF SlotOf
<1> HIDE DEF names
<1>6. Piece(d, r) = [dll |-> d.dll, first |-> SlotOf(d, r[1]), names |-> names]
  BY DEF Piece, names
<1>7. DOMAIN names = 1 .. (r[2] - r[1] + 1)
  BY <1>2, <1>4
<1>8. Piece(d, r) \in Descriptors
  BY <1>3, <1>4, <1>5, <1>6 DEF Descriptors
<1>9. ASSUME NEW j \in 1 .. (r[2] - r[1] + 1)
      PROVE  /\ r[1] + j - 1 \in r[1] .. r[2]
             /\ Piece(d, r).names[j] = d.names[r[1] + j - 1]
             /\ SlotOf(Piece(d, r), j) = SlotOf(d, r[1] + j - 1)
  <2>1. j \in Int /\ r[1] \in Int /\ r[2] \in Int
    BY <1>2
  <2>2. r[1] + j - 1 \in r[1] .. r[2]
    BY <2>1
  <2>3. SlotOf(Piece(d, r), j) = SlotOf(d, r[1] + j - 1)
    <3>1. Piece(d, r).first = d.first + r[1] - 1
      BY <1>6 DEF SlotOf
    <3>2. SlotOf(Piece(d, r), j) = Piece(d, r).first + j - 1
      BY DEF SlotOf
    <3>3. SlotOf(d, r[1] + j - 1) = d.first + (r[1] + j - 1) - 1
      BY DEF SlotOf
    <3>4. \A x, y, z \in Int : (x + y - 1) + z - 1 = x + (y + z - 1) - 1
      OBVIOUS
    <3>5. d.first \in Int
      BY <1>3
    <3> QED
      BY <2>1, <3>1, <3>2, <3>3, <3>4, <3>5
  <2> QED
    BY <2>2, <2>3, <1>4, <1>6
<1> QED
  BY <1>6, <1>7, <1>8, <1>9

\* rebuildImports (patch.go:200): the rebuilt table describes exactly the imports
\* whose slots were not dropped, each with its DLL, its symbol and its old slot.
THEOREM RebuildKeepsImports ==
  ASSUME NEW T \in SUBSET Descriptors, NEW bad
  PROVE  /\ RebuildImports(T, bad) \in SUBSET Descriptors
         /\ ImportsOf(RebuildImports(T, bad))
              = {im \in ImportsOf(T) : im.slot \notin bad}
<1> DEFINE Imp(d, i) == [dll |-> d.dll, sym |-> d.names[i], slot |-> SlotOf(d, i)]
           New == RebuildImports(T, bad)
<1>1. \A U : ImportsOf(U) = UNION {{Imp(d, i) : i \in DOMAIN d.names} : d \in U}
  BY DEF ImportsOf
<1>2. New \in SUBSET Descriptors
  BY PieceImports DEF RebuildImports
<1>3. ASSUME NEW im \in ImportsOf(New)
      PROVE  im \in ImportsOf(T) /\ im.slot \notin bad
  <2>1. PICK p \in New : \E j \in DOMAIN p.names : im = Imp(p, j)
    BY <1>1
  <2>11. PICK j \in DOMAIN p.names : im = Imp(p, j)
    BY <2>1
  <2>2. PICK d \in T : \E r \in Runs(d, bad) : p = Piece(d, r)
    BY DEF RebuildImports
  <2>12. PICK r \in Runs(d, bad) : p = Piece(d, r)
    BY <2>2
  <2>3. d \in Descriptors
    OBVIOUS
  <2> DEFINE k == r[1] + j - 1
  <2>4. /\ j \in 1 .. (r[2] - r[1] + 1)
        /\ k \in r[1] .. r[2]
        /\ p.names[j] = d.names[k]
        /\ SlotOf(p, j) = SlotOf(d, k)
        /\ p.dll = d.dll
    <3>1. /\ DOMAIN p.names = 1 .. (r[2] - r[1] + 1)
          /\ \A i \in 1 .. (r[2] - r[1] + 1) :
               /\ r[1] + i - 1 \in r[1] .. r[2]
               /\ p.names[i] = d.names[r[1] + i - 1]
               /\ SlotOf(p, i) = SlotOf(d, r[1] + i - 1)
      BY <2>12, <2>3, PieceImports
    <3>2. p.dll = d.dll
      BY <2>12 DEF Piece
    <3> QED
      BY <3>1, <3>2
  <2>5. k \in Kept(d, bad)
    BY <2>3, <2>4, RunsCoverKept
  <2>6. k \in DOMAIN d.names /\ SlotOf(d, k) \notin bad
    BY <2>5 DEF Kept
  <2> HIDE DEF k
  <2>7. im = Imp(d, k)
    BY <2>11, <2>4
  <2> QED
    BY <1>1, <2>6, <2>7
<1>4. ASSUME NEW im \in ImportsOf(T), im.slot \notin bad
      PROVE  im \in ImportsOf(New)
  <2>1. PICK d \in T : \E k \in DOMAIN d.names : im = Imp(d, k)
    BY <1>1, <1>4
  <2>11. PICK k \in DOMAIN d.names : im = Imp(d, k)
    BY <2>1
  <2>2. d \in Descriptors
    OBVIOUS
  <2>3. k \in Kept(d, bad)
    BY <1>4, <2>11 DEF Kept
  <2>4. PICK r \in Runs(d, bad) : k \in r[1] .. r[2]
    BY <2>2, <2>3, RunsCoverKept
  <2> DEFINE p == Piece(d, r)
             j == k - r[1] + 1
  <2>5. p \in New
    BY <2>4 DEF RebuildImports
  <2>6. r[1] \in Int /\ r[2] \in Int /\ k \in Int
    BY <2>2 DEF Runs, Kept, Descriptors
  <2>7. j \in 1 .. (r[2] - r[1] + 1) /\ r[1] + j - 1 = k
    BY <2>4, <2>6
  <2>8. j \in DOMAIN p.names /\ p.names[j] = d.names[k] /\ SlotOf(p, j) = SlotOf(d, k)
    <3>1. /\ DOMAIN p.names = 1 .. (r[2] - r[1] + 1)
          /\ \A i \in 1 .. (r[2] - r[1] + 1) :
               /\ p.names[i] = d.names[r[1] + i - 1]
               /\ SlotOf(p, i) = SlotOf(d, r[1] + i - 1)
      BY <2>2, PieceImports
    <3> QED
      BY <2>7, <3>1
  <2>9. p.dll = d.dll
    BY DEF Piece
  <2> HIDE DEF p, j
  <2>10. im = Imp(p, j)
    BY <2>11, <2>8, <2>9
  <2> QED
    BY <1>1, <2>5, <2>8, <2>10
<1> QED
  BY <1>2, <1>3, <1>4

----------------------------------------------------------------------------
(***************************************************************************)
(* The inductive invariant.  Sound is what every image on the disk or in   *)
(* memory satisfies, patched or not: its imports are those the program     *)
(* calls, and a called slot that is no longer imported holds the polyfill  *)
(* of the function called, in an image that cannot be moved.               *)
(***************************************************************************)
CallsMatchImports(img) ==
  \A im \in ImportsOf(img.imports) : img.code[im.slot] = <<im.dll, im.sym>>

RemovedSlotsServed(img) ==
  \A s \in CalledSlots(img) \ SlotsOf(img.imports) :
    /\ ~ img.dynamicBase
    /\ img.iat[s] \in PolyfillsFor(img.table, img.code[s][1], img.code[s][2])

Spelled(img) == \A im \in ImportsOf(img.imports) : SpelledLikeProfiles(im.dll)

Sound(img) == /\ img \in Images
              /\ SlotsOf(img.imports) \subseteq CalledSlots(img)
              /\ CallsMatchImports(img)
              /\ RemovedSlotsServed(img)
              /\ OwnSlotsImported(img)
              /\ OwnFuncsExported(img)
              /\ SpellingAgrees => Spelled(img)

DiskInv == \A f \in Paths : IsImage(disk[f]) => Sound(disk[f])

RunInv ==
  /\ pc # "idle" => job \in Jobs
  /\ pc \in {"opened", "read", "rewritten", "writing", "patched"} =>
       job.profile.subsystem # 0
  /\ pc \in {"opened", "read"} => info = disk[job.in] /\ IsImage(disk[job.in])
  /\ pc = "read" => raw = info
  /\ pc \in {"rewritten", "writing", "patched"} =>
       Sound(raw) /\ VerifyOK(raw, job.profile)
  /\ pc = "patched" => disk[job.out] = raw
  /\ pc = "refused" =>
       \/ ~ CanOpen(job)
       \/ Unserved(disk[job.in], job.profile) # {}
       \/ BadSlots(disk[job.in], job.profile) # {}
       \/ disk[job.in].room = 0

Inv == TypeOK /\ DiskInv /\ RunInv

----------------------------------------------------------------------------
\* Membership in ImportsOf gives slots; used for every set of descriptors.
LEMMA SlotOfImport ==
  ASSUME NEW T, NEW im \in ImportsOf(T)
  PROVE  im.slot \in SlotsOf(T)
BY DEF SlotsOf

\* What the linker produces is sound, because all its called slots are imported.
LEMMA OriginalsSound ==
  ASSUME NEW img \in Originals
  PROVE  Sound(img) /\ IsImage(img)
<1>1. GoodOriginal(img)
  BY OriginalsGood
<1>2. IsImage(img)
  BY <1>1, ConstantTypes DEF GoodOriginal, IsImage
<1>3. CalledSlots(img) \ SlotsOf(img.imports) = {}
  BY <1>1 DEF GoodOriginal
<1>4. SpellingAgrees => Spelled(img)
  BY DEF SpellingAgrees, Spelled
<1> QED
  BY <1>1, <1>2, <1>3, <1>4 DEF GoodOriginal, Sound, CallsMatchImports, RemovedSlotsServed

\* The fields of the rewritten image.
LEMMA RewrittenFields ==
  ASSUME NEW img \in Images, NEW p
  PROVE  LET new == Rewritten(img, img, p) IN
         /\ new.os = p.os /\ new.subsystem = p.subsystem /\ new.dynamicBase = FALSE
         /\ new.table = img.table /\ new.code = img.code /\ new.room = img.room - 1
         /\ new.imports = RebuildImports(img.imports, BadSlots(img, p))
         /\ \A s \in Slots : new.iat[s] =
              IF s \in BadSlots(img, p)
              THEN CHOOSE a \in Addresses :
                     \E im \in Redirected(img, p) :
                        /\ im.slot = s
                        /\ a \in PolyfillsFor(img.table, im.dll, im.sym)
              ELSE img.iat[s]
BY DEF Rewritten, Images

\* The imports of the rewritten image: those whose slots were not redirected.
LEMMA RewrittenImports ==
  ASSUME NEW img \in Images, NEW p
  PROVE  ImportsOf(Rewritten(img, img, p).imports)
           = {im \in ImportsOf(img.imports) : im.slot \notin BadSlots(img, p)}
<1>1. img.imports \in SUBSET Descriptors
  BY DEF Images
<1> QED
  BY <1>1, RebuildKeepsImports, RewrittenFields

\* A redirected slot receives the polyfill of the function called through it.
LEMMA RedirectedSlotServed ==
  ASSUME NEW img, Sound(img), NEW p, NEW s \in BadSlots(img, p)
  PROVE  Rewritten(img, img, p).iat[s]
           \in PolyfillsFor(img.table, img.code[s][1], img.code[s][2]) \cap Addresses
<1> DEFINE Served(a) == \E im \in Redirected(img, p) :
                           /\ im.slot = s
                           /\ a \in PolyfillsFor(img.table, im.dll, im.sym)
<1>1. img \in Images /\ CallsMatchImports(img) /\ s \in Slots
  BY DEF Sound, BadSlots, Redirected, SlotsOf, CalledSlots
<1>2. PICK im \in Redirected(img, p) : im.slot = s
  BY DEF BadSlots
<1>3. PICK e \in img.table : /\ e.dll = im.dll /\ e.func = im.sym
                             /\ e.polyfill # Null
  BY <1>2 DEF Redirected, PolyfillsFor
<1>4. e \in Entries
  BY <1>1, <1>3 DEF Images
<1>5. e.polyfill \in Addresses
  BY <1>3, <1>4 DEF Entries
<1>6. e.polyfill \in PolyfillsFor(img.table, im.dll, im.sym)
  BY <1>3 DEF PolyfillsFor
<1>7. \E a \in Addresses : Served(a)
  BY <1>2, <1>5, <1>6
<1> DEFINE c == CHOOSE a \in Addresses : Served(a)
<1>8. c \in Addresses /\ Served(c)
  BY <1>7
<1>9. Rewritten(img, img, p).iat[s] = c
  BY <1>1, RewrittenFields
<1>10. PICK jm \in Redirected(img, p) :
          jm.slot = s /\ c \in PolyfillsFor(img.table, jm.dll, jm.sym)
  BY <1>8
<1>11. img.code[s] = <<jm.dll, jm.sym>>
  BY <1>1, <1>10 DEF Redirected, CallsMatchImports
<1> HIDE DEF c
<1> QED
  BY <1>8, <1>9, <1>10, <1>11

\* Replacing fields of an image by values of their types gives an image.
LEMMA ImageUpdate ==
  ASSUME NEW img \in Images, NEW o \in Nat, NEW v \in Nat,
         NEW iat \in [Slots -> Addresses \cup {Null}],
         NEW imports \in SUBSET Descriptors, NEW room \in Nat
  PROVE  [img EXCEPT !.os = o, !.subsystem = v, !.dynamicBase = FALSE,
                     !.iat = iat, !.imports = imports, !.room = room] \in Images
BY DEF Images

\* Patch keeps an image sound (patch.go:124-176).
LEMMA RewrittenSound ==
  ASSUME NEW img, Sound(img), NEW p \in Profiles, img.room > 0
  PROVE  Sound(Rewritten(img, img, p))
<1> DEFINE new == Rewritten(img, img, p)
<1>1. img \in Images
  BY DEF Sound
<1>2. /\ new.table = img.table /\ new.code = img.code
      /\ new.dynamicBase = FALSE
  BY <1>1, RewrittenFields
<1>3. ImportsOf(new.imports)
        = {im \in ImportsOf(img.imports) : im.slot \notin BadSlots(img, p)}
  BY <1>1, RewrittenImports
<1>4. new \in Images
  <2>1. p.os \in Nat /\ p.subsystem \in Nat
    BY ConstantTypes DEF ProfileType
  <2>2. img.room - 1 \in Nat
    BY <1>1 DEF Images
  <2>3. RebuildImports(img.imports, BadSlots(img, p)) \in SUBSET Descriptors
    BY <1>1, RebuildKeepsImports DEF Images
  <2> DEFINE iat == [s \in Slots |-> IF s \in BadSlots(img, p)
                THEN CHOOSE a \in Addresses :
                       \E im \in Redirected(img, p) :
                          /\ im.slot = s
                          /\ a \in PolyfillsFor(img.table, im.dll, im.sym)
                ELSE img.iat[s]]
  <2>4. iat \in [Slots -> Addresses \cup {Null}]
    <3>1. iat = new.iat
      BY <1>1 DEF Rewritten, Images
    <3>2. \A s \in Slots \ BadSlots(img, p) : iat[s] = img.iat[s]
      OBVIOUS
    <3>3. iat = [s \in Slots |-> iat[s]]
      OBVIOUS
    <3> HIDE DEF iat, new
    <3>4. ASSUME NEW s \in Slots PROVE iat[s] \in Addresses \cup {Null}
      <4>1. CASE s \in BadSlots(img, p)
        <5>1. Rewritten(img, img, p).iat[s] \in Addresses
          BY <4>1, RedirectedSlotServed
        <5> QED
          BY <3>1, <5>1 DEF new
      <4>2. CASE s \notin BadSlots(img, p)
        BY <3>2, <4>2, <1>1 DEF Images
      <4> QED
        BY <4>1, <4>2
    <3> QED
      BY <3>3, <3>4
  <2> HIDE DEF iat
  <2>5. new = [img EXCEPT !.os = p.os, !.subsystem = p.subsystem,
                 !.dynamicBase = FALSE, !.iat = iat,
                 !.imports = RebuildImports(img.imports, BadSlots(img, p)),
                 !.room = img.room - 1]
    BY DEF Rewritten, iat
  <2> HIDE DEF new
  <2> QED
    BY <1>1, <2>1, <2>2, <2>3, <2>4, <2>5, ImageUpdate
<1> HIDE DEF new
<1>5. CalledSlots(new) = CalledSlots(img)
  BY <1>2 DEF CalledSlots
<1>6. SlotsOf(new.imports) = SlotsOf(img.imports) \ BadSlots(img, p)
  BY <1>3 DEF SlotsOf
<1>7. SlotsOf(new.imports) \subseteq CalledSlots(new)
  BY <1>5, <1>6 DEF Sound
<1>8. CallsMatchImports(new)
  BY <1>2, <1>3 DEF Sound, CallsMatchImports
<1>9. RemovedSlotsServed(new)
  <2> SUFFICES ASSUME NEW s \in CalledSlots(new) \ SlotsOf(new.imports)
               PROVE  new.iat[s] \in PolyfillsFor(img.table, img.code[s][1],
                                                  img.code[s][2])
    BY <1>2 DEF RemovedSlotsServed
  <2>1. CASE s \in BadSlots(img, p)
    BY <2>1, RedirectedSlotServed DEF new
  <2>2. CASE s \notin BadSlots(img, p)
    <3>1. s \in CalledSlots(img) \ SlotsOf(img.imports)
      BY <2>2, <1>5, <1>6
    <3>2. s \in Slots
      BY <3>1 DEF CalledSlots
    <3>3. new.iat[s] = img.iat[s]
      BY <3>2, <2>2, <1>1, RewrittenFields DEF new
    <3> QED
      BY <3>1, <3>3 DEF Sound, RemovedSlotsServed
  <2> QED
    BY <2>1, <2>2
<1>10. OwnSlotsImported(new)
  <2> SUFFICES ASSUME NEW e \in img.table, e.own # NoSlot
               PROVE  \E im \in ImportsOf(new.imports) :
                        im.slot = e.own /\ EqFold(im.dll, e.dll) /\ im.sym = e.func
    BY <1>2 DEF OwnSlotsImported
  <2>1. PICK im \in ImportsOf(img.imports) :
          im.slot = e.own /\ EqFold(im.dll, e.dll) /\ im.sym = e.func
    BY DEF Sound, OwnSlotsImported
  <2>2. e.own \in OwnSlots(img.table)
    BY DEF OwnSlots
  <2>3. im.slot \notin BadSlots(img, p)
    BY <2>1, <2>2 DEF BadSlots, Redirected
  <2> QED
    BY <2>1, <2>3, <1>3
<1>11. OwnFuncsExported(new)
  BY <1>2 DEF Sound, OwnFuncsExported
<1>12. SpellingAgrees => Spelled(new)
  BY <1>3 DEF Sound, Spelled
<1>13. Sound(new)
  BY <1>4, <1>7, <1>8, <1>9, <1>10, <1>11, <1>12 DEF Sound
<1> QED
  BY <1>13 DEF new

\* What Patch writes, Verify accepts for the same profile.
LEMMA RewrittenVerifies ==
  ASSUME NEW img, Sound(img), NEW p \in Profiles, p.subsystem # 0,
         Unserved(img, p) = {}, IsImage(Rewritten(img, img, p))
  PROVE  VerifyOK(Rewritten(img, img, p), p)
<1> DEFINE new == Rewritten(img, img, p)
<1>1. img \in Images
  BY DEF Sound
<1>2. /\ new.os = p.os /\ new.subsystem = p.subsystem /\ ~ new.dynamicBase
      /\ new.table = img.table
  BY <1>1, RewrittenFields
<1>3. ImportsOf(new.imports)
        = {im \in ImportsOf(img.imports) : im.slot \notin BadSlots(img, p)}
  BY <1>1, RewrittenImports
<1> HIDE DEF new
<1>4. StillMissing(new, p) = {}
  <2> SUFFICES ASSUME NEW im \in StillMissing(new, p) PROVE FALSE
    OBVIOUS
  <2>1. /\ im \in ImportsOf(img.imports) /\ im.slot \notin BadSlots(img, p)
        /\ im.slot \notin OwnSlots(img.table) /\ Missing(p, im.dll, im.sym)
    BY <1>2, <1>3 DEF StillMissing
  <2>2. PolyfillsFor(img.table, im.dll, im.sym) # {}
    BY <2>1 DEF Unserved
  <2>3. im \in Redirected(img, p)
    BY <2>1, <2>2 DEF Redirected
  <2> QED
    BY <2>1, <2>3 DEF BadSlots
<1>5. StillUnhooked(new) = {}
  <2> SUFFICES ASSUME NEW im \in StillUnhooked(new) PROVE FALSE
    OBVIOUS
  <2>1. /\ im \in ImportsOf(img.imports) /\ im.slot \notin BadSlots(img, p)
        /\ im.slot \notin OwnSlots(img.table) /\ ForceHook(im.dll, im.sym)
        /\ PolyfillsFor(img.table, im.dll, im.sym) # {}
    BY <1>2, <1>3 DEF StillUnhooked
  <2>2. im \in Redirected(img, p)
    BY <2>1 DEF Redirected
  <2> QED
    BY <2>1, <2>2 DEF BadSlots
<1> QED
  BY <1>2, <1>4, <1>5 DEF VerifyOK, new

----------------------------------------------------------------------------
LEMMA InitInv == Init => Inv
<1> SUFFICES ASSUME Init PROVE Inv
  OBVIOUS
<1>1. \A f \in Paths : IsImage(disk[f]) => Sound(disk[f])
  BY OriginalsSound DEF Init, IsImage
<1>2. Originals \subseteq Images
  BY OriginalsSound DEF Sound
<1> QED
  BY <1>1, <1>2 DEF Init, Inv, TypeOK, DiskInv, RunInv

\* Writing a sound image, Torn or Absent to a path keeps DiskInv.
LEMMA DiskUpdate ==
  ASSUME TypeOK, DiskInv, NEW f \in Paths, NEW x,
         x \in {Absent, Torn} \/ Sound(x),
         disk' = [disk EXCEPT ![f] = x]
  PROVE  /\ disk' \in [Paths -> Images \cup {Absent, Torn}]
         /\ DiskInv'
         /\ disk'[f] = x
<1>1. x \in Images \cup {Absent, Torn}
  BY DEF Sound
<1>2. disk \in [Paths -> Images \cup {Absent, Torn}]
  BY DEF TypeOK
<1>3. \A g \in Paths : disk'[g] = IF g = f THEN x ELSE disk[g]
  BY <1>2
<1>4. DiskInv'
  BY <1>3 DEF DiskInv, IsImage
<1> QED
  BY <1>1, <1>2, <1>3, <1>4

LEMMA NextInv == Inv /\ [Next]_vars => Inv'
<1> SUFFICES ASSUME Inv, [Next]_vars PROVE Inv'
  OBVIOUS
<1> USE DEF Inv
<1>1. CASE Build
  <2>1. PICK f \in Paths : \E img \in Originals : disk' = [disk EXCEPT ![f] = img]
    BY <1>1 DEF Build
  <2>2. PICK img \in Originals : disk' = [disk EXCEPT ![f] = img]
    BY <2>1
  <2>3. disk' \in [Paths -> Images \cup {Absent, Torn}] /\ DiskInv'
    BY <2>2, OriginalsSound, DiskUpdate
  <2> QED
    BY <2>3, <1>1 DEF Build, TypeOK, RunInv
<1>2. CASE Invoke
  BY <1>2 DEF Invoke, TypeOK, DiskInv, RunInv
<1>3. CASE Open
  <2>1. job \in Jobs /\ job.in \in Paths /\ IsImage(disk[job.in])
        /\ job.profile.subsystem # 0
    BY <1>3 DEF Open, RunInv, CanOpen, Jobs
  <2>2. disk[job.in] \in Images
    BY <2>1 DEF TypeOK, IsImage
  <2> QED
    BY <2>1, <2>2, <1>3 DEF Open, TypeOK, DiskInv, RunInv
<1>4. CASE ReadRaw
  <2>1. job \in Jobs /\ job.in \in Paths /\ IsImage(disk[job.in])
        /\ job.profile.subsystem # 0 /\ info = disk[job.in]
    BY <1>4 DEF ReadRaw, RunInv, Jobs
  <2>2. disk[job.in] \in Images
    BY <2>1 DEF TypeOK, IsImage
  <2> QED
    BY <2>1, <2>2, <1>4 DEF ReadRaw, TypeOK, DiskInv, RunInv
<1>5. CASE Rewrite
  <2> DEFINE p == job.profile
             new == Rewritten(info, info, p)
  <2>1. /\ job \in Jobs /\ p.subsystem # 0 /\ raw = info
        /\ info = disk[job.in] /\ IsImage(disk[job.in])
        /\ Unserved(info, p) = {} /\ info.room > 0 /\ raw' = new
    BY <1>5 DEF Rewrite, RunInv
  <2>2. p \in Profiles /\ job.in \in Paths
    BY <2>1 DEF Jobs
  <2>3. Sound(info)
    BY <2>1, <2>2 DEF DiskInv
  <2>4. Sound(new)
    BY <2>1, <2>2, <2>3, RewrittenSound
  <2>5. IsImage(new)
    BY <2>4, ConstantTypes DEF Sound, IsImage
  <2>6. VerifyOK(new, p)
    BY <2>1, <2>2, <2>3, <2>5, RewrittenVerifies
  <2>7. new \in Images
    BY <2>4 DEF Sound
  <2> HIDE DEF new
  <2> QED
    BY <2>1, <2>4, <2>6, <2>7, <1>5 DEF Rewrite, TypeOK, DiskInv, RunInv
<1>6. CASE Refuse
  BY <1>6 DEF Refuse, TypeOK, DiskInv, RunInv, CanOpen
<1>7. CASE WriteBegin
  <2>1. job \in Jobs /\ job.out \in Paths
    BY <1>7 DEF WriteBegin, RunInv, Jobs
  <2>2. disk' \in [Paths -> Images \cup {Absent, Torn}] /\ DiskInv'
    BY <2>1, <1>7, DiskUpdate DEF WriteBegin
  <2> QED
    BY <2>1, <2>2, <1>7 DEF WriteBegin, TypeOK, RunInv
<1>8. CASE WriteEnd
  <2>1. job \in Jobs /\ job.out \in Paths /\ Sound(raw)
    BY <1>8 DEF WriteEnd, RunInv, Jobs
  <2>2. /\ disk' \in [Paths -> Images \cup {Absent, Torn}] /\ DiskInv'
        /\ disk'[job.out] = raw
    BY <2>1, <1>8, DiskUpdate DEF WriteEnd
  <2> QED
    BY <2>1, <2>2, <1>8 DEF WriteEnd, TypeOK, RunInv
<1>9. CASE Exit
  BY <1>9 DEF Exit, TypeOK, DiskInv, RunInv
<1>10. CASE UNCHANGED vars
  BY <1>10 DEF vars, TypeOK, DiskInv, RunInv, CanOpen
<1> QED
  BY <1>1, <1>2, <1>3, <1>4, <1>5, <1>6, <1>7, <1>8, <1>9, <1>10 DEF Next

LEMMA Invariance == Spec => []Inv
BY InitInv, NextInv, PTL DEF Spec

\* Type correctness of the disk and of one run of `go2xp patch'.
THEOREM TypeCorrect == Spec => []TypeOK
BY Invariance, PTL DEF Inv

\* `go2xp patch' succeeds only with a file `go2xp verify' accepts (patch.go:83,
\* verify.go:10).
THEOREM PatchVerifiesAlways == Spec => []PatchVerifies
<1>1. Inv => PatchVerifies
  BY DEF Inv, RunInv, PatchVerifies
<1> QED
  BY <1>1, Invariance, PTL

\* Whatever file verify accepts loads on the target and calls the right
\* functions, provided the profiles spell DLL names as the images do.
THEOREM VerifySoundAlways ==
  ASSUME SpellingAgrees
  PROVE  Spec => []VerifySound
<1>1. Inv => VerifySound
  <2> SUFFICES ASSUME Inv, NEW f \in Paths, NEW p \in Profiles, VerifyOK(disk[f], p)
               PROVE  Loads(disk[f], p) /\ CallsRight(disk[f])
    BY DEF VerifySound
  <2> DEFINE img == disk[f]
  <2>1. Sound(img) /\ img \in Images
    BY DEF Inv, DiskInv, VerifyOK, Sound
  <2> HIDE DEF img
  <2>2. /\ img.subsystem = p.subsystem /\ ~ img.dynamicBase
        /\ StillMissing(img, p) = {}
    BY DEF VerifyOK, img
  <2>3. ASSUME NEW im \in ImportsOf(img.imports)
        PROVE  Exported(p, im.dll, im.sym)
    <3>1. CASE im.slot \in OwnSlots(img.table)
      <4>1. PICK e \in img.table : e.own = im.slot /\ e.own # NoSlot
        BY <3>1 DEF OwnSlots
      <4>2. PICK jm \in ImportsOf(img.imports) :
              jm.slot = e.own /\ EqFold(jm.dll, e.dll) /\ jm.sym = e.func
        BY <4>1, <2>1 DEF Sound, OwnSlotsImported
      <4>3. jm.dll = im.dll /\ jm.sym = im.sym
        BY <4>1, <4>2, <2>1 DEF Sound, CallsMatchImports
      <4>4. Exported(p, e.dll, e.func)
        BY <4>1, <2>1 DEF Sound, OwnFuncsExported
      <4> QED
        BY <4>2, <4>3, <4>4 DEF Exported, EqFold
    <3>2. CASE im.slot \notin OwnSlots(img.table)
      <4>1. ~ Missing(p, im.dll, im.sym)
        BY <3>2, <2>2 DEF StillMissing
      <4>2. SpelledLikeProfiles(im.dll)
        BY <2>1, SpellingAgrees DEF Sound, Spelled
      <4> SUFFICES ASSUME NEW d \in Dlls, EqFold(d, im.dll), Missing(p, d, im.sym)
                   PROVE  FALSE
        BY DEF Exported
      <4>3. CASE \E w \in p.wholeDll : EqFold(w, d)
        BY <4>1, <4>3 DEF Missing, EqFold
      <4>4. CASE im.sym \in p.missing[d]
        BY <4>1, <4>2, <4>4 DEF Missing, SpelledLikeProfiles
      <4> QED
        BY <4>3, <4>4 DEF Missing
    <3> QED
      BY <3>1, <3>2
  <2>4. p.subsystem \in Nat
    BY ConstantTypes DEF ProfileType
  <2>5. Loads(img, p)
    BY <2>2, <2>3, <2>4 DEF Loads
  <2>6. CallsRight(img)
    BY <2>1 DEF Sound, CallsMatchImports, RemovedSlotsServed, CallsRight, ReachesRight
  <2> QED
    BY <2>5, <2>6 DEF img
<1> QED
  BY <1>1, Invariance, PTL

\* The slots of the shim itself survive every patch (patch.go:127).
THEOREM OwnSlotsSurviveAlways == Spec => []OwnSlotsSurvive
<1>1. Inv => OwnSlotsSurvive
  <2> SUFFICES ASSUME Inv, NEW f \in Paths, IsImage(disk[f]),
                      NEW e \in disk[f].table, e.own # NoSlot
               PROVE  /\ e.own \in SlotsOf(disk[f].imports)
                      /\ ReachesRight(disk[f], e.own)
    BY DEF OwnSlotsSurvive
  <2>1. Sound(disk[f])
    BY DEF Inv, DiskInv
  <2>2. e.own \in SlotsOf(disk[f].imports)
    BY <2>1 DEF Sound, OwnSlotsImported, SlotsOf
  <2> QED
    BY <2>1, <2>2 DEF Sound, CallsMatchImports, ReachesRight
<1> QED
  BY <1>1, Invariance, PTL

\* A file that verify accepts can be patched again (patch.go:83-183).
THEOREM AcceptedIsPatchableAlways == Spec => []AcceptedIsPatchable
<1>1. Inv => AcceptedIsPatchable
  <2> SUFFICES ASSUME Inv, pc = "refused", VerifyOK(disk[job.in], job.profile)
               PROVE  disk[job.in].room = 0 \/ disk[job.in].table = {}
    BY DEF AcceptedIsPatchable
  <2>1. CASE ~ CanOpen(job)
    BY <2>1 DEF CanOpen, VerifyOK
  <2>2. CASE Unserved(disk[job.in], job.profile) # {}
    BY <2>2 DEF Unserved, VerifyOK, StillMissing
  <2>3. CASE BadSlots(disk[job.in], job.profile) # {}
    BY <2>3 DEF BadSlots, Redirected, VerifyOK, StillMissing, StillUnhooked
  <2> QED
    BY <2>1, <2>2, <2>3 DEF Inv, RunInv
<1> QED
  BY <1>1, Invariance, PTL

\* Patching again keeps every earlier redirection (patch.go:124-161).
THEOREM RedirectsKeptAlways == Spec => RedirectsKept
<1>1. Inv /\ [Next]_vars =>
        [pc' = "rewritten" =>
          /\ SlotsOf(raw'.imports) \subseteq SlotsOf(info.imports)
          /\ \A s \in CalledSlots(info) \ SlotsOf(info.imports) :
                raw'.iat[s] = info.iat[s]]_vars
  <2> SUFFICES ASSUME Inv, Next, pc' = "rewritten"
               PROVE  /\ SlotsOf(raw'.imports) \subseteq SlotsOf(info.imports)
                      /\ \A s \in CalledSlots(info) \ SlotsOf(info.imports) :
                            raw'.iat[s] = info.iat[s]
    OBVIOUS
  <2> DEFINE p == job.profile
  <2>1. Rewrite
    BY DEF Next, Build, Invoke, Open, ReadRaw, Refuse, WriteBegin, WriteEnd, Exit
  <2>2. /\ raw' = Rewritten(info, info, p)
        /\ job.in \in Paths /\ info = disk[job.in] /\ IsImage(info)
    BY <2>1 DEF Rewrite, Inv, RunInv, Jobs
  <2>3. info \in Images
    BY <2>2 DEF Inv, DiskInv, Sound
  <2>4. ImportsOf(raw'.imports)
          = {im \in ImportsOf(info.imports) : im.slot \notin BadSlots(info, p)}
    BY <2>2, <2>3, RewrittenImports
  <2>5. SlotsOf(raw'.imports) \subseteq SlotsOf(info.imports)
    BY <2>4 DEF SlotsOf
  <2>6. ASSUME NEW s \in CalledSlots(info) \ SlotsOf(info.imports)
        PROVE  raw'.iat[s] = info.iat[s]
    <3>1. s \in Slots /\ s \notin BadSlots(info, p)
      BY DEF CalledSlots, BadSlots, Redirected, SlotsOf
    <3>2. Rewritten(info, info, p).iat[s] = info.iat[s]
      BY <3>1, <2>3, RewrittenFields
    <3> QED
      BY <3>2, <2>2
  <2> QED
    BY <2>5, <2>6
<1> QED
  BY <1>1, Invariance, PTL DEF Spec, RedirectsKept
=============================================================================
