------------------------------ MODULE MCPatcher ------------------------------
(***************************************************************************)
(* Instances of Patcher: one program linked with the shim, in variants a   *)
(* build can produce (no shim, a shim table without one polyfill, header   *)
(* room for 0, 1 or 2 more sections), a program that needs no patching, and*)
(* the profiles of two targets.                                            *)
(***************************************************************************)
EXTENDS Patcher

CONSTANTS a1, a2, a3, a4,       \* polyfill addresses
          CaseVariants,         \* TRUE: an external linker spelled a DLL its way
          MaxRoom               \* header padding, in section headers

MCDlls == {"kernel32.dll", "KERNEL32.dll", "bcryptprimitives.dll"}
MCFold == [d \in MCDlls |-> IF d = "KERNEL32.dll" THEN "kernel32.dll" ELSE d]
MCFuncs == {"GetProcAddress", "GetErrorMode", "CreateFileW", "ProcessPrng",
            "SetThreadDescription"}
MCSymbols == MCFuncs \cup {"#17"}
MCSlots == 1 .. 8
MCAddresses == {a1, a2, a3, a4}
MCHooks == {"GetProcAddress"}

Entry(d, f, a, o) == [dll |-> d, func |-> f, polyfill |-> a, own |-> o]

Hook   == Entry("kernel32.dll", "GetProcAddress", a1, 6)
HookUnfinished == Entry("kernel32.dll", "GetProcAddress", Null, 6)
PfMode == Entry("kernel32.dll", "GetErrorMode", a2, NoSlot)
PfPrng == Entry("bcryptprimitives.dll", "ProcessPrng", a3, NoSlot)
PfDesc == Entry("kernel32.dll", "SetThreadDescription", a4, NoSlot)

\* The program's descriptors: missing names at both ends and in the middle.
Program(k32) ==
  {[dll |-> k32, first |-> 1,
    names |-> <<"GetErrorMode", "CreateFileW", "GetProcAddress",
                "SetThreadDescription", "#17">>],
   [dll |-> k32, first |-> 6, names |-> <<"GetProcAddress">>],
   [dll |-> "bcryptprimitives.dll", first |-> 8, names |-> <<"ProcessPrng">>]}

Image(tab, imps, room) ==
  [os |-> 10, subsystem |-> 6, dynamicBase |-> TRUE, table |-> tab,
   imports |-> imps, unmapped |-> {}, room |-> room,
   iat |-> [s \in MCSlots |-> Null],
   code |-> [s \in MCSlots |->
               IF s \notin SlotsOf(imps) THEN None
               ELSE LET im == CHOOSE i \in ImportsOf(imps) : i.slot = s
                    IN  <<im.dll, im.sym>>]]

Tables == {{}, {Hook, PfMode, PfPrng, PfDesc}, {Hook, PfMode, PfPrng},
           {HookUnfinished, PfMode, PfPrng, PfDesc}}

\* Built with -buildmode=exe, for Windows 7 and of nothing a Windows 7 lacks.
Modest(tab) ==
  LET imps == {[dll |-> "kernel32.dll", first |-> 1, names |-> <<"GetProcAddress", "CreateFileW">>],
               [dll |-> "kernel32.dll", first |-> 6, names |-> <<"GetProcAddress">>]}
  IN  [Image(tab, imps, MaxRoom) EXCEPT !.os = 6, !.subsystem = 6, !.dynamicBase = FALSE]

\* A tool has moved the slot of GetErrorMode into the headers.
Moved == [Image({Hook, PfMode, PfPrng, PfDesc}, Program("kernel32.dll"), MaxRoom)
            EXCEPT !.unmapped = {1}]

MCOriginals ==
  {Image(tab, Program(k32), room) :
     tab \in Tables, room \in 0 .. MaxRoom,
     k32 \in IF CaseVariants THEN {"KERNEL32.dll"} ELSE {"kernel32.dll"}}
  \cup {Modest(tab) : tab \in IF CaseVariants THEN {} ELSE {{Hook}, {HookUnfinished}}}
  \cup IF CaseVariants THEN {} ELSE {Moved}

NoneMissing == [d \in MCDlls |-> {}]
XP == [os |-> 5, subsystem |-> 5, wholeDll |-> {"bcryptprimitives.dll"},
       missing |-> [NoneMissing EXCEPT !["kernel32.dll"] =
                      {"GetErrorMode", "SetThreadDescription"}]]
Win7 == [os |-> 6, subsystem |-> 6, wholeDll |-> {},
         missing |-> [NoneMissing EXCEPT !["kernel32.dll"] =
                        {"SetThreadDescription"}]]
Broken == [os |-> 5, subsystem |-> 0, wholeDll |-> {}, missing |-> NoneMissing]
MCProfiles == {XP, Win7, Broken}

ASSUME CaseVariants \/ SpellingAgrees
=============================================================================
