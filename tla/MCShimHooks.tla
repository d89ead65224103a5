----------------------------- MODULE MCShimHooks -----------------------------
(***************************************************************************)
(* Instance of ShimHooks: two goroutines racing the shim's init on an XP,  *)
(* which lacks CancelIoEx and two of the DLLs, on a Vista that lacks only  *)
(* the DLL of ProcessPrng, and on a Windows that has everything.           *)
(***************************************************************************)
EXTENDS AuditedHooks, TLC

MCDlls == {"kernel32.dll", "advapi32.dll", "bcryptprimitives.dll", "dwmapi.dll"}
MCMissing == {"bcryptprimitives.dll"}
MCNames == {"CancelIoEx", "CreateProcessW", "CreateFileW",
            "SetThreadDescription", "DwmSetWindowAttribute", "ProcessPrng", "#42",
            "OpenThreadToken", "GetSystemTimePreciseAsFileTime"}
MCEarly == {"ProcessPrng"}
MCLate == <<"CancelIoEx", "CreateProcessW">>
MCStubs == {"DwmSetWindowAttribute"}
MCOverrides == {"CreateProcessW"}
MCProcs == {<<"kernel32.dll", n>> : n \in {"CancelIoEx", "CreateProcessW", "SetThreadDescription",
                                          "GetSystemTimePreciseAsFileTime"}}
           \cup {<<"dwmapi.dll", "DwmSetWindowAttribute">>, <<"advapi32.dll", "OpenThreadToken">>}
           \cup {<<"bcryptprimitives.dll", n>> : n \in {"ProcessPrng", "#42"}}

Exports(d, ns) == {<<d, n>> : n \in ns}
XP == [dlls |-> {"kernel32.dll", "advapi32.dll"},
       exports |-> Exports("kernel32.dll", {"CreateProcessW", "CreateFileW"})
                   \cup Exports("advapi32.dll", {"OpenThreadToken"})]
\* dwmapi.dll is there and does not have the function.
Vista == [dlls |-> MCDlls \ MCMissing,
          exports |-> XP.exports \cup Exports("kernel32.dll", {"CancelIoEx", "OpenThreadToken"})]
Win10 == [dlls |-> MCDlls,
          exports |-> Vista.exports \cup Exports("kernel32.dll", {"SetThreadDescription",
                                                               "GetSystemTimePreciseAsFileTime"})
                                    \cup Exports("bcryptprimitives.dll", {"ProcessPrng"})
                                    \cup Exports("dwmapi.dll", {"DwmSetWindowAttribute"})]
MCSystems == {XP, Vista, Win10}

\* One list for each kernel32.
ListOf(s) == [n \in {"CancelIoEx", "CreateProcessW", "CreateFileW", "SetThreadDescription",
                      "OpenThreadToken", "GetSystemTimePreciseAsFileTime"} |->
                IF <<"kernel32.dll", n>> \in s.exports THEN "yes" ELSE "no"]
MCExportLists == [s \in MCSystems |-> ListOf(s)]

\* One LazyProc is the program's alias, one has a name in small letters; a symbol
\* like os.(*Cmd).process is no LazyProc.
MCVariable == [p \in MCProcs |-> CASE p[2] = "GetSystemTimePreciseAsFileTime" -> "PreciseTime"
                                 [] p[2] = "#42" -> "ordinal42"
                                 [] OTHER -> p[2]]
MCOther == {"ess"}
MCCapitalised == {MCVariable[p] : p \in MCProcs} \ {"ordinal42"}

\* The profile of the XP accepts what the one of the Vista does not.
MCPending == [s \in MCSystems |-> IF s = XP THEN {"SetThreadDescription"} ELSE {}]

Symmetry == Permutations(Threads)
=============================================================================
