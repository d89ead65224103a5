---------------------------- MODULE MCPatchedFile ----------------------------
(***************************************************************************)
(* Instances of PatchedFile: one program in two layouts, one of them with  *)
(* another order in the file than in memory.  Its data section holds the   *)
(* shim's table, the slots and zeroed data without bytes in the file; its  *)
(* import section has three descriptors, one of them without lookup table. *)
(* The code before them contains what could be mistaken for the table.     *)
(***************************************************************************)
EXTENDS PatchedFile

CONSTANTS FirstRaws,    \* where the first section may start in the file
          MaxData       \* more than any import section takes

MCDlls == {"kernel32.dll", "bcryptprimitives.dll"}
MCOrdinals == {"#17"}
MCSymbols == {"A", "B", "G", "P"} \cup MCOrdinals
MCSlots == 1 .. 200
MCDataSizes == 1 .. MaxData

\* G is a hook, P all of its DLL; B has no polyfill.
MCTargets == {{}, {"A"}, {"A", "G", "P"}, {"A", "B"}}

Own == 5                  \* of the slots below, the shim's own

\* d is the RVA of the data section, i that of the import section.
Slots0(d) == d + 25

MCTable(d) ==
  {[dll |-> "kernel32.dll", func |-> "G", polyfill |-> 1004,
    own |-> ImageBase + Slots0(d) + Own],
   [dll |-> "kernel32.dll", func |-> "A", polyfill |-> 1005, own |-> 0],
   [dll |-> "bcryptprimitives.dll", func |-> "P", polyfill |-> 1006, own |-> 0]}

MCImports(d) ==
  <<[dll |-> "kernel32.dll", first |-> Slots0(d), names |-> <<"#17", "A", "B", "G">>],
    [dll |-> "kernel32.dll", first |-> Slots0(d) + Own, names |-> <<"G">>],
    [dll |-> "bcryptprimitives.dll", first |-> Slots0(d) + Own + 2, names |-> <<"P">>]>>

Thunks(i) == [a |-> Num(i + 23), b |-> Num(i + 26), g |-> Num(i + 29), p |-> Num(i + 32)]

VA(rva) == Num(ImageBase + rva)

DataWords(d, i, magic) ==
  LET th == Thunks(i)
  IN  <<magic, Num(Version), Num(3),
        VA(d + 15), VA(d + 19), Num(1004), VA(Slots0(d) + Own),
        VA(d + 15), VA(d + 21), Num(1005), Zero,
        VA(d + 17), VA(d + 23), Num(1006), Zero,
        Text("kernel32.dll"), Nul, Text("bcryptprimitives.dll"), Nul,
        Text("G"), Nul, Text("A"), Nul, Text("P"), Nul,
        Ord("#17"), th.a, th.b, th.g, Zero, th.g, Zero, th.p, Zero>>

ImportWords(d, i) ==
  LET th == Thunks(i)
  IN  <<Num(i + 12), Num(i + 19), Num(Slots0(d)),
        Num(i + 17), Num(i + 19), Num(Slots0(d) + Own),
        Zero, Num(i + 21), Num(Slots0(d) + Own + 2),
        Zero, Zero, Zero,
        Ord("#17"), th.a, th.b, th.g, Zero, th.g, Zero,
        Text("kernel32.dll"), Nul, Text("bcryptprimitives.dll"), Nul,
        Zero, Text("A"), Nul, Zero, Text("B"), Nul, Zero, Text("G"), Nul,
        Zero, Text("P"), Nul, Zero>>

Plain == <<Code, Code, Code, Code, Code, Code, Code, Zero>>

\* The magic alone; with a count that is too large; with a name below the image
\* base; with a name that is empty.
LookAlikes(d) ==
  {<<Code, Magic, Code, Code, Code, Code, Code, Zero>>,
   <<Code, Magic, Num(Version), Num(50), Num(7), Code, Code, Zero>>,
   <<Magic, Num(Version), Num(1), Num(7), Num(9), Code, Code, Zero>>,
   <<Magic, Num(Version), Num(1), VA(d + 16), VA(d + 15), Code, Code, Zero>>}

\* A magic with its version at the very end, behind the last section.
Appended == <<Code, Magic, Num(Version)>>

----------------------------------------------------------------------------
Section(rva, vsize, raw, rawsize) ==
  [rva |-> rva, vsize |-> vsize, raw |-> raw, rawsize |-> rawsize]

\* A file with the sections ss, whose words stand in the order of their places in
\* the file: body is all of them from the first place on.
File(ss, d, body, overlay, tab) ==
  LET first == Least({ss[k].raw : k \in DOMAIN ss})
      len == first + Len(body) + Len(overlay)
  IN  [image |->
         [secs |-> ss, sizeOfImage |-> RvaEnd(ss[Len(ss)]), fileLen |-> len,
          importDir |-> ss[CHOOSE k \in DOMAIN ss : ss[k].rawsize = 36].rva,
          owner |-> [b \in 0 .. len - 1 |->
                       IF b < FirstSectOff + Len(ss) THEN Header
                       ELSE IF b < first THEN Padding
                       ELSE IF b >= first + Len(body) THEN Overlay
                       ELSE CHOOSE k \in DOMAIN ss : b \in Extent(ss[k])]],
       word |-> [b \in 0 .. len - 1 |-> IF b < FirstSectOff + Len(ss) THEN Code
                                        ELSE IF b < first THEN Zero
                                        ELSE (body \o overlay)[b - first + 1]],
       imports |-> MCImports(d), table |-> tab]

Straight(raw, text, magic, overlay, tab) ==
  File(<<Section(4, 7, raw, 8), Section(12, 37, raw + 8, 34), Section(52, 35, raw + 42, 36)>>,
       12, text \o DataWords(12, 52, magic) \o ImportWords(12, 52), overlay, tab)

\* The data section is the last in memory and the first in the file.
Crossed(raw, text, overlay) ==
  File(<<Section(4, 7, raw + 34, 8), Section(12, 35, raw + 42, 36), Section(48, 37, raw, 34)>>,
       48, DataWords(48, 12, Magic) \o text \o ImportWords(48, 12), overlay, MCTable(48))

\* A program that imports nothing, and so has no import directory.
Importless(raw) ==
  [Straight(raw, Plain, Code, <<>>, {}) EXCEPT !.image.importDir = 0, !.imports = <<>>]

MCFiles ==
  {Straight(raw, text, Magic, <<>>, MCTable(12)) :
     raw \in FirstRaws, text \in {Plain} \cup LookAlikes(12)}
  \cup {Crossed(raw, Plain, overlay) : raw \in FirstRaws, overlay \in {<<>>, Appended}}
  \cup {Straight(raw, text, Code, Appended, {}) :
          raw \in FirstRaws, text \in {Plain} \cup LookAlikes(12)}
  \cup {Importless(raw) : raw \in FirstRaws}

MCImages == {f.image : f \in MCFiles}
=============================================================================
