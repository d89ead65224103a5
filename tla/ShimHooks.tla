------------------------------ MODULE ShimHooks ------------------------------
(***************************************************************************)
(* The two import hooks of the shim in a running process: LoadLibraryExW   *)
(* and GetProcAddress, through which every lazily resolved call goes, and  *)
(* the initialisation of the shim package, which fills in one callback at  *)
(* a time while goroutines of packages initialised earlier may already be  *)
(* looking names up and calling them.                                      *)
(***************************************************************************)
EXTENDS Integers, Sequences, FiniteSets

CONSTANTS
  Threads,
  Dlls,         \* DLL names a program loads
  MissingDlls,  \* go2xp_missing_dlls
  Names,        \* procedure names, and ordinals
  Early,        \* polyfills in assembly, complete at load time
  Late,         \* sequence: polyfills in Go, in the order init installs them
  Stubs,        \* table entries that only fail, each in its function's own way
  Overrides,    \* go2xp_overrides: wrapped although the system has them
  Procs,        \* the <<dll, name>> pairs of the program's LazyProcs
  Systems,      \* [dlls, exports]: what a Windows version offers
  Sentinel, Null

\* What a LazyProc can end up holding: an address in the shim or in the system.
Shim(n) == <<"shim", n>>
System(d, n) == <<"system", d, n>>

LateNames == {Late[i] : i \in DOMAIN Late}
TableNames == Early \cup LateNames \cup Stubs

Handles == Dlls \cup {Sentinel}
Addresses == {Shim(n) : n \in Names} \cup {System(d, n) : d \in Dlls, n \in Names}

VARIABLES
  system,     \* the Windows the process runs on
  envForce,   \* GO2XP_FORCE_POLYFILLS is set
  forced,     \* forcePolyfills
  installed,  \* how many cb* variables init has filled in
  initDone,   \* the shim's init has returned
  handle,     \* LazyDLL: the module handle once loaded, else Null
  proc,       \* LazyProc: the address once found, else Null
  asked,      \* handles and names the system's own functions were given
  thr         \* the threads of the program

vars == <<system, envForce, forced, installed, initDone, handle, proc, asked, thr>>

\* err: who set the thread's last error since it began this call: nobody ("stale"),
\* a function of the system, the hook ("127"), or the function that was called.
Idle == [pc |-> "idle", want |-> Null, ret |-> "none", err |-> "stale"]

Init == /\ system \in Systems /\ envForce \in BOOLEAN
        /\ forced = FALSE /\ installed = 0 /\ initDone = FALSE
        /\ handle = [d \in Dlls |-> Null]
        /\ proc = [p \in Procs |-> Null]
        /\ asked = {}
        /\ thr = [t \in Threads |-> Idle]

----------------------------------------------------------------------------
(* The hooks as functions of the state. *)

\* xp_LoadLibraryExW: the sentinel for a DLL that is not there at all, else the
\* system's own loader.  Null is what the loader returns for a DLL it has not.
Module(d) == IF d \in MissingDlls THEN Sentinel
             ELSE IF d \in system.dlls THEN d ELSE Null

\* xp_GetProcAddress: who is asked first, and who after a miss.
\* Mutated forms: the forced mode is tested before the sentinel, does not fall
\* back on the system, or the overrides are not looked up.
RouteForcedFirst(h, n) ==
  IF forced THEN <<"table", "system">>
  ELSE IF h = Sentinel THEN <<"table", "nobody">>
  ELSE IF n \in Overrides THEN <<"table", "system">>
  ELSE <<"system", "table">>

RouteForcedTableOnly(h, n) ==
  IF h = Sentinel \/ forced THEN <<"table", "nobody">>
  ELSE IF n \in Overrides THEN <<"table", "system">>
  ELSE <<"system", "table">>

RouteNoOverrides(h, n) ==
  IF h = Sentinel THEN <<"table", "nobody">>
  ELSE IF forced THEN <<"table", "system">>
  ELSE <<"system", "table">>

RouteTableFirst(h, n) ==
  IF h = Sentinel THEN <<"table", "nobody">> ELSE <<"table", "system">>

Route(h, n) ==
  IF h = Sentinel THEN <<"table", "nobody">>
  ELSE IF forced \/ n \in Overrides THEN <<"table", "system">>
  ELSE <<"system", "table">>

Answer(source, h, n) ==
  CASE source = "table"  -> IF n \in TableNames THEN Shim(n) ELSE Null
    [] source = "system" -> IF <<h, n>> \in system.exports THEN System(h, n) ELSE Null
    [] source = "nobody" -> Null

Found(h, n) ==
  LET first == Answer(Route(h, n)[1], h, n)
  IN  IF first # Null THEN first ELSE Answer(Route(h, n)[2], h, n)

AsksSystem(h, n) ==
  \/ Route(h, n)[1] = "system"
  \/ Route(h, n)[2] = "system" /\ Answer(Route(h, n)[1], h, n) = Null

\* The last error after a lookup.  The system's function sets one when it does not
\* have the name; the hook adds 127 where a miss ends in the table, and leaves
\* alone what the system's function said where a miss ends there.
LastError(h, n, before) ==
  IF Found(h, n) = Null /\ Route(h, n)[2] # "system" THEN "127"
  ELSE IF AsksSystem(h, n) /\ Answer("system", h, n) = Null THEN "system"
  ELSE before

\* The trampoline of a late polyfill serves once init has stored its callback.
Serves(n) == \E i \in DOMAIN Late : Late[i] = n /\ i <= installed

----------------------------------------------------------------------------
(* Package initialisation, on the thread that runs main.init. *)

\* init: cbCancelIoEx = syscall.NewCallback(...), and so on, one after the other.
InstallNext == /\ installed < Len(Late)
               /\ installed' = installed + 1
               /\ UNCHANGED <<system, envForce, forced, initDone, handle, proc, asked, thr>>

\* The forced mode is read from the environment last.
InitReturn == /\ installed = Len(Late) /\ ~ initDone
              /\ forced' = envForce
              /\ initDone' = TRUE
              /\ UNCHANGED <<system, envForce, installed, handle, proc, asked, thr>>

----------------------------------------------------------------------------
(* A thread of the program calls a LazyProc: load the module, find the     *)
(* address, call it.  What was found is kept for every later call.         *)

Begin(t) == /\ thr[t].pc = "idle"
            /\ \E p \in Procs :
                 thr' = [thr EXCEPT ![t] = [Idle EXCEPT !.pc = "load", !.want = p]]
            /\ UNCHANGED <<system, envForce, forced, installed, initDone, handle, proc, asked>>

LoadLibraryExW(t) ==
  /\ thr[t].pc = "load"
  /\ LET d == thr[t].want[1]
         h == IF handle[d] # Null THEN handle[d] ELSE Module(d)
     IN  /\ handle' = [handle EXCEPT ![d] = h]
         /\ asked' = asked \cup
                       {x \in {d} : handle[d] = Null /\ d \notin MissingDlls}
         /\ thr' = [thr EXCEPT ![t] =
                      IF h # Null THEN [@ EXCEPT !.pc = "find"]
                      ELSE [@ EXCEPT !.pc = "idle", !.ret = "nodll", !.err = "system"]]
  /\ UNCHANGED <<system, envForce, forced, installed, initDone, proc>>

GetProcAddress(t) ==
  /\ thr[t].pc = "find"
  /\ LET p == thr[t].want
         h == handle[p[1]]
         a == IF proc[p] # Null THEN proc[p] ELSE Found(h, p[2])
         e == IF proc[p] # Null THEN thr[t].err ELSE LastError(h, p[2], thr[t].err)
     IN  /\ proc' = [proc EXCEPT ![p] = a]
         /\ asked' = asked \cup
                       {x \in {h} : proc[p] = Null /\ AsksSystem(h, p[2])}
         /\ thr' = [thr EXCEPT ![t] =
                      IF a # Null THEN [@ EXCEPT !.pc = "call", !.err = e]
                      ELSE [@ EXCEPT !.pc = "idle", !.ret = "noproc", !.err = e]]
  /\ UNCHANGED <<system, envForce, forced, installed, initDone, handle>>

\* The call itself: the system's function, an assembly polyfill, a stub, or the
\* trampoline of a Go polyfill, which returns 0 and nothing else when it is early.
Call(t) ==
  /\ thr[t].pc = "call"
  /\ LET p == thr[t].want
         n == p[2]
         ret == IF proc[p] # Shim(n) THEN "system"
                ELSE IF n \in Stubs THEN "refused"
                ELSE IF n \in Early \/ Serves(n) THEN "served" ELSE "early"
     IN  thr' = [thr EXCEPT ![t] =
                   [@ EXCEPT !.pc = "idle", !.ret = ret,
                             !.err = IF ret = "early" THEN thr[t].err ELSE "set"]]
  /\ UNCHANGED <<system, envForce, forced, installed, initDone, handle, proc, asked>>

Step(t) == Begin(t) \/ LoadLibraryExW(t) \/ GetProcAddress(t) \/ Call(t)

Next == InstallNext \/ InitReturn \/ \E t \in Threads : Step(t)

Spec == Init /\ [][Next]_vars

----------------------------------------------------------------------------
(* What gen_table.py guarantees of the table, and a Windows of its exports. *)
ASSUME TableAssumption ==
  /\ MissingDlls \subseteq Dlls
  /\ Procs \subseteq Dlls \X Names
  /\ Overrides \subseteq LateNames
  /\ TableNames \subseteq Names
  /\ Stubs \cap (Early \cup LateNames) = {}
  /\ Late \in Seq(Names)

ASSUME SystemsAssumption ==
  \A s \in Systems : s.dlls \subseteq Dlls /\ s.exports \subseteq s.dlls \X Names

ASSUME NullAssumption == /\ Sentinel \notin Dlls
                         /\ Null \notin Handles /\ Null \notin Addresses
                         /\ Null \notin Procs

----------------------------------------------------------------------------
(* Properties. *)

TypeOK ==
  /\ system \in Systems /\ envForce \in BOOLEAN /\ forced \in BOOLEAN
  /\ installed \in 0 .. Len(Late) /\ initDone \in BOOLEAN
  /\ handle \in [Dlls -> Handles \cup {Null}]
  /\ proc \in [Procs -> Addresses \cup {Null}]
  /\ asked \subseteq Handles
  /\ thr \in [Threads -> [pc : {"idle", "load", "find", "call"},
                          want : Procs \cup {Null},
                          ret : {"none", "nodll", "noproc", "system", "served",
                                 "refused", "early"},
                          err : {"stale", "system", "127", "set"}]]
  /\ \A t \in Threads : thr[t].pc # "idle" => thr[t].want \in Procs
  /\ \A t \in Threads : thr[t].pc = "find" => handle[thr[t].want[1]] # Null
  /\ \A t \in Threads : thr[t].pc = "call" => proc[thr[t].want] # Null

\* The sentinel stands for a DLL that is not there: it is never handed to the
\* system's GetProcAddress, and the name of that DLL never to its loader,
\* whatever was looked up, by whom, and in whichever mode.
SentinelContained == asked \cap ({Sentinel} \cup MissingDlls) = {}

\* A lookup comes back empty only when neither the table nor the module has the
\* name: the forced mode, too, leaves everything the table does not know to the
\* system.  The module of a DLL on the list of missing ones is the sentinel, which
\* has no names of its own.
NoFalseMiss ==
  \A t \in Threads : thr[t].ret = "noproc" =>
    /\ thr[t].want[2] \notin TableNames
    /\ thr[t].want \notin {p \in system.exports : p[1] \notin MissingDlls}

\* One patched binary on every Windows: a LazyProc holds the emulation of a name
\* that the system exports in three cases only.  The name is an override; the
\* harness has forced the polyfills; or its DLL is on the list of missing ones.
\* The third is wider than what the comment at xp_GetProcAddress says ("the real
\* function is asked first and always wins", but for "a DLL that is not there at
\* all"): the LoadLibraryExW hook answers for a listed DLL without looking whether
\* the system has it, so ProcessPrng is emulated also where bcryptprimitives.dll
\* exports it.
NativePreferred ==
  \A p \in Procs :
    proc[p] = Shim(p[2]) /\ p \in system.exports =>
      p[1] \in MissingDlls \/ p[2] \in Overrides \/ forced

\* A LazyProc of an override never holds the system's function, however early it
\* was found: what is found is kept, and no later call would be wrapped.
OverridesWrapped ==
  \A p \in Procs : p[2] \in Overrides => proc[p] \in {Null, Shim(p[2])}

\* docs/SPEC.md:213: while its variable is still 0 a trampoline answers "not
\* implemented", 0 and ERROR_CALL_NOT_IMPLEMENTED.
EarlyCallReported ==
  \A t \in Threads : thr[t].ret = "early" => thr[t].err = "set"

=============================================================================
