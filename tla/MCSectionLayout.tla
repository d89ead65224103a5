--------------------------- MODULE MCSectionLayout ---------------------------
(***************************************************************************)
(* Instances of SectionLayout: code, data that is larger in memory than in *)
(* the file, zeroed data with no bytes in the file, and a last section     *)
(* smaller in memory than in the file; with header room for a few more     *)
(* sections and up to MaxOverlay units behind the last one.                *)
(***************************************************************************)
EXTENDS SectionLayout

CONSTANTS FirstRaws,    \* where the first section may start in the file
          MaxOverlay    \* units behind the last section

Section(rva, vsize, raw, rawsize) ==
  [rva |-> rva, vsize |-> vsize, raw |-> raw, rawsize |-> rawsize]

Layouts(first) ==
  {<<Section(4, 5, first, 6), Section(12, 7, first + 6, 2), Section(20, 3, first + 8, 4)>>,
   <<Section(4, 5, first, 6), Section(12, 3, first + 6, 4), Section(16, 6, 0, 0)>>}

ImageFrom(ss, overlay) ==
  LET end == Greatest({RawEnd(ss[i]) : i \in DOMAIN ss})
  IN  [secs |-> ss,
       sizeOfImage |-> RvaEnd(ss[Len(ss)]),
       fileLen |-> end + overlay, importDir |-> ss[1].rva,
       owner |-> [b \in 0 .. end + overlay - 1 |->
                    IF b < FirstSectOff + Len(ss) THEN Header
                    ELSE IF \E i \in DOMAIN ss : b \in Extent(ss[i])
                    THEN CHOOSE i \in DOMAIN ss : b \in Extent(ss[i])
                    ELSE IF b >= end THEN Overlay ELSE Padding]]

MCImages == {ImageFrom(ss, overlay) : ss \in UNION {Layouts(first) : first \in FirstRaws},
                                      overlay \in 0 .. MaxOverlay}
=============================================================================
