---------------------------- MODULE MCChildProcess ----------------------------
(***************************************************************************)
(* Instance of ChildProcess on an XP, a Windows 7 without and one with the *)
(* service pack that knows WSA_FLAG_NO_HANDLE_INHERIT.                     *)
(***************************************************************************)
EXTENDS ChildProcess, TLC

MCSystems == {[lists |-> FALSE, noInherit |-> FALSE],
              [lists |-> TRUE, noInherit |-> FALSE],
              [lists |-> TRUE, noInherit |-> TRUE]}

Symmetry == Permutations(Launchers) \cup Permutations(Askers)
=============================================================================
