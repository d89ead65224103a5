----------------------------- MODULE ImportTable -----------------------------
(***************************************************************************)
(* The import table of a PE image, as internal/pe/pe.go reads it and       *)
(* internal/patch/patch.go rebuilds it.  A table is a SET of descriptors:  *)
(* nothing below depends on the order in which they stand in the file.  A  *)
(* descriptor names a DLL and lists the symbols whose addresses the loader *)
(* stores in consecutive slots from `first' on.  Slots are numbered in     *)
(* units of the 4 bytes the code adds per import.                          *)
(***************************************************************************)
EXTENDS Integers, Sequences, FiniteSets

CONSTANTS Dlls,      \* DLL names as spelled in an import descriptor
          Symbols,   \* imported names, and the ordinals imported without one
          Slots      \* the words of the image's import address table

ASSUME SlotsAssumption == Slots \subseteq Nat

Descriptors == [dll : Dlls, first : Nat, names : Seq(Symbols)]

\* Import.SlotRVA = FirstThunk + 4*i for the i-th entry of the lookup table.
SlotOf(d, i) == d.first + i - 1

\* reader.imports: one entry per (descriptor, position).
ImportsOf(T) ==
  UNION {{[dll |-> d.dll, sym |-> d.names[i], slot |-> SlotOf(d, i)] :
             i \in DOMAIN d.names} : d \in T}

SlotsOf(T) == {im.slot : im \in ImportsOf(T)}

----------------------------------------------------------------------------
(***************************************************************************)
(* rebuildImports drops the slots in `bad'.  What survives of a            *)
(* descriptor is split into maximal runs of consecutive slots, one new     *)
(* descriptor per run, because one FirstThunk can only describe            *)
(* consecutive slots.  FirstThunk stays the slot the code already uses.    *)
(***************************************************************************)
Kept(d, bad) == {i \in DOMAIN d.names : SlotOf(d, i) \notin bad}

Runs(d, bad) ==
  LET kept == Kept(d, bad)
  IN  {r \in kept \X kept : /\ r[1] <= r[2]
                            /\ r[1] .. r[2] \subseteq kept
                            /\ r[1] - 1 \notin kept
                            /\ r[2] + 1 \notin kept}

Piece(d, r) == [dll |-> d.dll, first |-> SlotOf(d, r[1]),
                names |-> SubSeq(d.names, r[1], r[2])]

\* Mutated form: no splitting, the surviving names packed behind the first slot.
RebuildUnsplit(T, bad) ==
  LET Nth(d, j) == CHOOSE k \in Kept(d, bad) :
                     Cardinality({i \in Kept(d, bad) : i <= k}) = j
  IN  {[dll |-> d.dll, first |-> SlotOf(d, Nth(d, 1)),
        names |-> [j \in 1 .. Cardinality(Kept(d, bad)) |-> d.names[Nth(d, j)]]] :
          d \in {x \in T : Kept(x, bad) # {}}}

RebuildImports(T, bad) == UNION {{Piece(d, r) : r \in Runs(d, bad)} : d \in T}

=============================================================================
