---------------------------- MODULE MCSystemPath -----------------------------
(* Five units; a buffer of eight; names and directories of lengths on both  *)
(* sides of every limit.                                                    *)
EXTENDS SystemPath

CONSTANTS a, A, s, l, z

MCUnits == {a, A, s, l, z}
MCSeparators == {s, l}
MCFold == [u \in MCUnits |-> IF u = A THEN a ELSE u]

Letters(k) == [i \in 1 .. k |-> a]
MCMissing == {<<a, a, z>>}
MCNames == {Append(Letters(k), z) : k \in {0, 1, 3, 4, 5, 7, 9}}
           \cup {<<A, a, z>>, <<a, a, z>>, <<a, l, a, z>>, <<s, a, z>>}
           \cup {Append(Letters(7) \o <<s>>, z)}
MCDirs == {Letters(k) : k \in {2, 3, 4, 7, 8, 9}}
          \cup {Append(Letters(k), s) : k \in {1, 2, 3}}
==============================================================================
