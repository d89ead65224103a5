--------------------------- MODULE ShimHooksProofs ---------------------------
(***************************************************************************)
(* The invariants of ShimHooks hold for every table, every set of threads  *)
(* and every Windows the assumptions of that module admit.                 *)
(***************************************************************************)
EXTENDS AuditedHooks, TLAPS

\* What the properties rest on besides the types: a handle is what the hook
\* returned for that name, and the forced mode comes with the end of init.
HandlesRight == \A d \in Dlls : handle[d] \in {Null, Module(d)}

InitOrder == forced => initDone

Inv == /\ TypeOK /\ HandlesRight /\ InitOrder
       /\ SentinelContained /\ NoFalseMiss
       /\ NativePreferred /\ OverridesWrapped

LEMMA Kinds ==
  \A n, m, d : /\ Shim(n) # System(d, m)
               /\ n \in Names => Shim(n) \in Addresses /\ Shim(n) # Null
               /\ n \in Names /\ d \in Dlls =>
                    System(d, n) \in Addresses /\ System(d, n) # Null
<1> SUFFICES ASSUME NEW n, NEW m, NEW d
             PROVE  /\ Shim(n) # System(d, m)
                    /\ n \in Names => Shim(n) \in Addresses /\ Shim(n) # Null
                    /\ n \in Names /\ d \in Dlls =>
                         System(d, n) \in Addresses /\ System(d, n) # Null
  OBVIOUS
<1>1. Shim(n)[1] = "shim" /\ System(d, m)[1] = "system"
  BY DEF Shim, System
<1>2. Shim(n) # System(d, m)
  BY <1>1
<1>3. n \in Names => Shim(n) \in Addresses
  BY DEF Addresses
<1>4. n \in Names /\ d \in Dlls => System(d, n) \in Addresses
  BY DEF Addresses
<1> QED
  BY <1>2, <1>3, <1>4, NullAssumption

\* What the hook answers for one of the program's names through its module.
LEMMA FoundFacts ==
  ASSUME TypeOK, NEW p \in Procs, NEW h, h = Module(p[1]), h # Null
  PROVE  /\ Found(h, p[2]) \in Addresses \cup {Null}
         /\ p[2] \in Overrides => Found(h, p[2]) = Shim(p[2])
         /\ Found(h, p[2]) = Shim(p[2]) /\ p \in system.exports
              => p[1] \in MissingDlls \/ p[2] \in Overrides \/ forced
         /\ Found(h, p[2]) = Null
              => /\ p[2] \notin TableNames
                 /\ p \notin {x \in system.exports : x[1] \notin MissingDlls}
         /\ AsksSystem(h, p[2]) => h # Sentinel
<1> DEFINE n == p[2]
<1>1. /\ p \in Dlls \X Names /\ p = <<p[1], n>> /\ p[1] \in Dlls /\ n \in Names
      /\ Overrides \subseteq TableNames /\ system \in Systems
  BY TableAssumption DEF TypeOK, TableNames
<1>2. /\ h = Sentinel <=> p[1] \in MissingDlls
      /\ h # Sentinel => h = p[1]
  BY <1>1, NullAssumption, TableAssumption DEF Module, Handles
<1>3. /\ Answer("table", h, n) = IF n \in TableNames THEN Shim(n) ELSE Null
      /\ Answer("system", h, n) =
           IF <<h, n>> \in system.exports THEN System(h, n) ELSE Null
      /\ Answer("nobody", h, n) = Null
  BY DEF Answer
<1>4. /\ Shim(n) \in Addresses /\ Shim(n) # Null
      /\ h # Sentinel =>
           /\ System(h, n) \in Addresses /\ System(h, n) # Null
           /\ Shim(n) # System(h, n)
  BY <1>1, <1>2, Kinds
<1> HIDE DEF n
<1>5. CASE h = Sentinel
  <2>1. Route(h, n)[1] = "table" /\ Route(h, n)[2] = "nobody"
    BY <1>5 DEF Route
  <2>2. Found(h, n) = IF n \in TableNames THEN Shim(n) ELSE Null
    BY <2>1, <1>3, <1>4 DEF Found
  <2>3. ~ AsksSystem(h, n)
    BY <2>1 DEF AsksSystem
  <2> QED
    BY <1>1, <1>2, <1>4, <1>5, <2>2, <2>3 DEF n
<1>6. CASE h # Sentinel /\ (forced \/ n \in Overrides)
  <2>1. Route(h, n)[1] = "table" /\ Route(h, n)[2] = "system"
    BY <1>6 DEF Route
  <2>2. Found(h, n) = IF n \in TableNames THEN Shim(n)
                      ELSE IF p \in system.exports THEN System(h, n) ELSE Null
    BY <2>1, <1>1, <1>2, <1>3, <1>4, <1>6 DEF Found
  <2> QED
    BY <1>1, <1>2, <1>4, <1>6, <2>2 DEF n
<1>7. CASE h # Sentinel /\ ~ (forced \/ n \in Overrides)
  <2>1. Route(h, n)[1] = "system" /\ Route(h, n)[2] = "table"
    BY <1>7 DEF Route
  <2>2. Found(h, n) = IF p \in system.exports THEN System(h, n)
                      ELSE IF n \in TableNames THEN Shim(n) ELSE Null
    BY <2>1, <1>1, <1>2, <1>3, <1>4, <1>7 DEF Found
  <2> QED
    BY <1>1, <1>2, <1>4, <1>7, <2>2 DEF n
<1> QED
  BY <1>5, <1>6, <1>7

----------------------------------------------------------------------------
LEMMA InitInv == Init => Inv
<1> SUFFICES ASSUME Init PROVE Inv
  OBVIOUS
<1>1. Len(Late) \in Nat
  BY TableAssumption
<1>2. \A t \in Threads : thr[t] = [pc |-> "idle", want |-> Null, ret |-> "none", err |-> "stale"]
  BY DEF Init, Idle
<1>3. TypeOK
  <2>1. thr \in [Threads -> [pc : {"idle", "load", "find", "call"},
                            want : Procs \cup {Null},
                            ret : {"none", "nodll", "noproc", "system", "served",
                                   "refused", "early"},
                            err : {"stale", "system", "127", "set"}]]
    BY DEF Init, Idle
  <2>2. \A t \in Threads : thr[t].pc = "idle"
    BY <1>2
  <2>3. installed \in 0 .. Len(Late)
    BY <1>1 DEF Init
  <2>4. asked \subseteq Handles
    BY DEF Init
  <2> QED
    BY <2>1, <2>2, <2>3, <2>4 DEF Init, TypeOK
<1>4. \A p \in Procs : proc[p] = Null
  BY DEF Init
<1>5. \A p \in Procs : Shim(p[2]) # Null
  BY TableAssumption, Kinds
<1> QED
  BY <1>2, <1>3, <1>4, <1>5
  DEF Init, Inv, HandlesRight, InitOrder, SentinelContained, NoFalseMiss,
      NativePreferred, OverridesWrapped

\* The steps of init leave handles, addresses and threads alone.
LEMMA InstallNextInv == Inv /\ InstallNext => Inv'
<1> SUFFICES ASSUME Inv, InstallNext PROVE Inv'
  OBVIOUS
<1> USE DEF Inv, InstallNext
<1>0. Len(Late) \in Nat
  BY TableAssumption
<1>1. TypeOK'
  BY <1>0 DEF TypeOK
<1>2. HandlesRight'
  BY DEF HandlesRight, Module
<1>3. InitOrder'
  BY <1>0 DEF InitOrder, TypeOK
<1> QED
  BY <1>1, <1>2, <1>3 DEF SentinelContained, NoFalseMiss,
     NativePreferred, OverridesWrapped

LEMMA InitReturnInv == Inv /\ InitReturn => Inv'
<1> SUFFICES ASSUME Inv, InitReturn PROVE Inv'
  OBVIOUS
<1> USE DEF Inv, InitReturn
<1>1. TypeOK'
  BY DEF TypeOK
<1>2. HandlesRight'
  BY DEF HandlesRight, Module
<1>3. InitOrder' /\ ~ forced
  BY DEF InitOrder
<1>4. NativePreferred'
  BY <1>3 DEF NativePreferred
<1> QED
  BY <1>1, <1>2, <1>3, <1>4 DEF SentinelContained, NoFalseMiss,
     OverridesWrapped

LEMMA BeginInv == \A t \in Threads : Inv /\ Begin(t) => Inv'
<1> SUFFICES ASSUME Inv, NEW t \in Threads, Begin(t) PROVE Inv'
  OBVIOUS
<1> USE DEF Inv
<1>1. PICK p \in Procs :
        thr' = [thr EXCEPT ![t] = [Idle EXCEPT !.pc = "load", !.want = p]]
  BY DEF Begin
<1>2. /\ thr'[t] = [pc |-> "load", want |-> p, ret |-> "none", err |-> "stale"]
      /\ \A u \in Threads \ {t} : thr'[u] = thr[u]
  BY <1>1 DEF TypeOK, Idle
<1>3. TypeOK'
  BY <1>1, <1>2 DEF TypeOK, Begin, Idle
<1>4. HandlesRight' /\ InitOrder' /\ SentinelContained'
  BY DEF HandlesRight, InitOrder, SentinelContained, Module, Begin
<1>5. NoFalseMiss'
  <2>1. system' = system
    BY DEF Begin
  <2>2. \A u \in Threads : thr'[u].ret = "noproc" => thr'[u] = thr[u]
    BY <1>2
  <2> QED
    BY <2>1, <2>2 DEF NoFalseMiss
<1> QED
  BY <1>3, <1>4, <1>5 DEF NativePreferred, OverridesWrapped, Begin

\* The module handle is what the hook returns, and the system's loader is not
\* asked for a DLL that the sentinel stands for.
LEMMA LoadInv == \A t \in Threads : Inv /\ LoadLibraryExW(t) => Inv'
<1> SUFFICES ASSUME Inv, NEW t \in Threads, LoadLibraryExW(t) PROVE Inv'
  OBVIOUS
<1> USE DEF Inv
<1> DEFINE d == thr[t].want[1]
           h == IF handle[d] # Null THEN handle[d] ELSE Module(d)
<1>1. /\ thr[t].pc = "load" /\ thr[t].want \in Procs /\ d \in Dlls
      /\ thr[t] \in [pc : {"idle", "load", "find", "call"}, want : Procs \cup {Null},
                     ret : {"none", "nodll", "noproc", "system", "served",
                            "refused", "early"},
                     err : {"stale", "system", "127", "set"}]
  BY TableAssumption DEF LoadLibraryExW, TypeOK
<1>2. h = Module(d) /\ h \in Handles \cup {Null}
  BY <1>1 DEF HandlesRight, Module, Handles, TypeOK
<1>3. /\ handle' = [handle EXCEPT ![d] = h]
      /\ asked' \subseteq asked \cup ({d} \ MissingDlls)
      /\ UNCHANGED <<system, envForce, forced, installed, initDone, proc>>
  BY DEF LoadLibraryExW
<1>4. thr' = [thr EXCEPT ![t] =
                IF h # Null THEN [@ EXCEPT !.pc = "find"]
                ELSE [@ EXCEPT !.pc = "idle", !.ret = "nodll", !.err = "system"]]
  BY DEF LoadLibraryExW
<1> HIDE DEF h
<1>5. /\ thr'[t].want = thr[t].want
      /\ h # Null => thr'[t] = [thr[t] EXCEPT !.pc = "find"]
      /\ h = Null => thr'[t] = [thr[t] EXCEPT !.pc = "idle", !.ret = "nodll", !.err = "system"]
      /\ \A u \in Threads \ {t} : thr'[u] = thr[u]
  BY <1>1, <1>4 DEF TypeOK
<1>6. /\ handle' \in [Dlls -> Handles \cup {Null}]
      /\ \A x \in Dlls : handle[x] # Null => handle'[x] # Null
      /\ handle'[d] = h
      /\ \A x \in Dlls \ {d} : handle'[x] = handle[x]
  BY <1>1, <1>2, <1>3 DEF TypeOK, HandlesRight
<1>7. TypeOK'
  <2>1. /\ system' \in Systems /\ envForce' \in BOOLEAN /\ forced' \in BOOLEAN
        /\ installed' \in 0 .. Len(Late) /\ initDone' \in BOOLEAN
        /\ proc' \in [Procs -> Addresses \cup {Null}]
    BY <1>3 DEF TypeOK
  <2>2. asked' \subseteq Handles
    BY <1>1, <1>3 DEF TypeOK, Handles
  <2>3. thr' \in [Threads -> [pc : {"idle", "load", "find", "call"},
                             want : Procs \cup {Null},
                             ret : {"none", "nodll", "noproc", "system", "served",
                                    "refused", "early"},
                             err : {"stale", "system", "127", "set"}]]
    BY <1>1, <1>4 DEF TypeOK
  <2>4. \A u \in Threads : thr'[u].pc # "idle" => thr'[u].want \in Procs
    BY <1>1, <1>5 DEF TypeOK
  <2>5. \A u \in Threads : thr'[u].pc = "find" => handle'[thr'[u].want[1]] # Null
    <3> SUFFICES ASSUME NEW u \in Threads, thr'[u].pc = "find"
                 PROVE  handle'[thr'[u].want[1]] # Null
      OBVIOUS
    <3>1. CASE u = t
      BY <1>1, <1>5, <1>6, <3>1
    <3>2. CASE u # t
      BY <1>5, <1>6, <3>2, TableAssumption DEF TypeOK
    <3> QED BY <3>1, <3>2
  <2>6. \A u \in Threads : thr'[u].pc = "call" => proc'[thr'[u].want] # Null
    <3> SUFFICES ASSUME NEW u \in Threads, thr'[u].pc = "call"
                 PROVE  proc'[thr'[u].want] # Null
      OBVIOUS
    <3>1. thr'[u] = thr[u]
      BY <1>1, <1>5
    <3> QED BY <1>3, <3>1 DEF TypeOK
  <2> QED
    BY <1>6, <2>1, <2>2, <2>3, <2>4, <2>5, <2>6 DEF TypeOK
<1>8. HandlesRight'
  BY <1>2, <1>3, <1>6 DEF HandlesRight, Module
<1>9. SentinelContained'
  BY <1>1, <1>3, NullAssumption DEF SentinelContained
<1>10. NoFalseMiss'
  <2>1. \A u \in Threads : thr'[u].ret = "noproc" =>
          thr[u].ret = "noproc" /\ thr'[u].want = thr[u].want
    BY <1>1, <1>5
  <2> QED
    BY <1>3, <2>1 DEF NoFalseMiss
<1> QED
  BY <1>3, <1>7, <1>8, <1>9, <1>10 DEF InitOrder, NativePreferred, OverridesWrapped

\* The address is what the hook answers in this state, or what was held already.
LEMMA FindInv == \A t \in Threads : Inv /\ GetProcAddress(t) => Inv'
<1> SUFFICES ASSUME Inv, NEW t \in Threads, GetProcAddress(t) PROVE Inv'
  OBVIOUS
<1> USE DEF Inv
<1> DEFINE p == thr[t].want
           h == handle[p[1]]
           a == IF proc[p] # Null THEN proc[p] ELSE Found(h, p[2])
           e == IF proc[p] # Null THEN thr[t].err ELSE LastError(h, p[2], thr[t].err)
<1>1. /\ thr[t].pc = "find" /\ p \in Procs /\ p[1] \in Dlls /\ h # Null
      /\ thr[t] \in [pc : {"idle", "load", "find", "call"}, want : Procs \cup {Null},
                     ret : {"none", "nodll", "noproc", "system", "served",
                            "refused", "early"},
                     err : {"stale", "system", "127", "set"}]
  BY TableAssumption DEF GetProcAddress, TypeOK
<1>2. h = Module(p[1]) /\ h \in Handles
  BY <1>1 DEF HandlesRight, TypeOK
<1>3. /\ Found(h, p[2]) \in Addresses \cup {Null}
      /\ p[2] \in Overrides => Found(h, p[2]) = Shim(p[2])
      /\ Found(h, p[2]) = Shim(p[2]) /\ p \in system.exports
           => p[1] \in MissingDlls \/ p[2] \in Overrides \/ forced
      /\ Found(h, p[2]) = Null
           => /\ p[2] \notin TableNames
              /\ p \notin {x \in system.exports : x[1] \notin MissingDlls}
      /\ AsksSystem(h, p[2]) => h # Sentinel
  BY <1>1, <1>2, FoundFacts
<1>4. /\ proc' = [proc EXCEPT ![p] = a]
      /\ asked' \subseteq asked \cup {x \in {h} : AsksSystem(h, p[2])}
      /\ thr' = [thr EXCEPT ![t] =
                   IF a # Null THEN [@ EXCEPT !.pc = "call", !.err = e]
                   ELSE [@ EXCEPT !.pc = "idle", !.ret = "noproc", !.err = e]]
      /\ UNCHANGED <<system, envForce, forced, installed, initDone, handle>>
  BY DEF GetProcAddress
<1>5. /\ a \in Addresses \cup {Null}
      /\ p[2] \in Overrides => a \in {Null, Shim(p[2])}
      /\ a = Shim(p[2]) /\ p \in system.exports
           => p[1] \in MissingDlls \/ p[2] \in Overrides \/ forced
      /\ a = Null => /\ p[2] \notin TableNames
                     /\ p \notin {x \in system.exports : x[1] \notin MissingDlls}
      /\ proc[p] # Null => a # Null
  BY <1>1, <1>3 DEF TypeOK, OverridesWrapped, NativePreferred
<1>5a. e \in {"stale", "system", "127", "set"}
  <2>1. LastError(h, p[2], thr[t].err) \in {thr[t].err, "system", "127"}
    BY DEF LastError
  <2> QED BY <1>1, <2>1
<1> HIDE DEF a, e
<1>6. /\ a # Null => thr'[t] = [thr[t] EXCEPT !.pc = "call", !.err = e]
      /\ a = Null => thr'[t] = [thr[t] EXCEPT !.pc = "idle", !.ret = "noproc", !.err = e]
      /\ thr'[t].want = p
      /\ \A u \in Threads \ {t} : thr'[u] = thr[u]
  BY <1>1, <1>4 DEF TypeOK
<1>7. /\ proc' \in [Procs -> Addresses \cup {Null}]
      /\ proc'[p] = a
      /\ \A q \in Procs \ {p} : proc'[q] = proc[q]
      /\ \A q \in Procs : proc[q] # Null => proc'[q] # Null
  BY <1>1, <1>4, <1>5 DEF TypeOK
<1>8. TypeOK'
  <2>1. /\ system' \in Systems /\ envForce' \in BOOLEAN /\ forced' \in BOOLEAN
        /\ installed' \in 0 .. Len(Late) /\ initDone' \in BOOLEAN
        /\ handle' \in [Dlls -> Handles \cup {Null}]
    BY <1>4 DEF TypeOK
  <2>2. asked' \subseteq Handles
    BY <1>2, <1>4 DEF TypeOK
  <2>3. thr' \in [Threads -> [pc : {"idle", "load", "find", "call"},
                             want : Procs \cup {Null},
                             ret : {"none", "nodll", "noproc", "system", "served",
                                    "refused", "early"},
                             err : {"stale", "system", "127", "set"}]]
    BY <1>1, <1>4, <1>5a DEF TypeOK
  <2>4. \A u \in Threads : thr'[u].pc # "idle" => thr'[u].want \in Procs
    BY <1>1, <1>6 DEF TypeOK
  <2>5. \A u \in Threads : thr'[u].pc = "find" => handle'[thr'[u].want[1]] # Null
    BY <1>1, <1>4, <1>6 DEF TypeOK
  <2>6. \A u \in Threads : thr'[u].pc = "call" => proc'[thr'[u].want] # Null
    <3> SUFFICES ASSUME NEW u \in Threads, thr'[u].pc = "call"
                 PROVE  proc'[thr'[u].want] # Null
      OBVIOUS
    <3>1. CASE u = t
      BY <1>1, <1>6, <1>7, <3>1
    <3>2. CASE u # t
      BY <1>6, <1>7, <3>2 DEF TypeOK
    <3> QED BY <3>1, <3>2
  <2> QED
    BY <1>7, <2>1, <2>2, <2>3, <2>4, <2>5, <2>6 DEF TypeOK
<1>9. HandlesRight' /\ InitOrder'
  BY <1>4 DEF HandlesRight, InitOrder, Module
<1>10. SentinelContained'
  <2>1. AsksSystem(h, p[2]) => h \notin {Sentinel} \cup MissingDlls
    BY <1>1, <1>2, <1>3 DEF Module
  <2> QED
    BY <1>4, <2>1 DEF SentinelContained
<1>11. NoFalseMiss'
  <2> SUFFICES ASSUME NEW u \in Threads, thr'[u].ret = "noproc"
               PROVE  /\ thr'[u].want[2] \notin TableNames
                      /\ thr'[u].want \notin {x \in system.exports : x[1] \notin MissingDlls}
    BY <1>4 DEF NoFalseMiss
  <2>1. CASE u # t
    BY <1>6, <2>1 DEF NoFalseMiss
  <2>2. CASE u = t /\ a # Null
    BY <1>1, <1>6, <2>2 DEF NoFalseMiss
  <2>3. CASE u = t /\ a = Null
    BY <1>5, <1>6, <2>3
  <2> QED BY <2>1, <2>2, <2>3
<1>12. NativePreferred'
  BY <1>4, <1>5, <1>7 DEF NativePreferred
<1>13. OverridesWrapped'
  BY <1>5, <1>7 DEF OverridesWrapped
<1> QED
  BY <1>8, <1>9, <1>10, <1>11, <1>12, <1>13

LEMMA CallInv == \A t \in Threads : Inv /\ Call(t) => Inv'
<1> SUFFICES ASSUME Inv, NEW t \in Threads, Call(t) PROVE Inv'
  OBVIOUS
<1> USE DEF Inv
<1>1. PICK r \in {"system", "refused", "served", "early"}, e \in {thr[t].err, "set"} :
        thr' = [thr EXCEPT ![t] = [@ EXCEPT !.pc = "idle", !.ret = r, !.err = e]]
  BY DEF Call
<1>2. /\ UNCHANGED <<system, envForce, forced, installed, initDone, handle, proc, asked>>
      /\ thr[t] \in [pc : {"idle", "load", "find", "call"}, want : Procs \cup {Null},
                     ret : {"none", "nodll", "noproc", "system", "served",
                            "refused", "early"},
                     err : {"stale", "system", "127", "set"}]
  BY DEF Call, TypeOK
<1>3. /\ thr'[t].pc = "idle" /\ thr'[t].ret = r
      /\ \A u \in Threads \ {t} : thr'[u] = thr[u]
  BY <1>1, <1>2 DEF TypeOK
<1>4. TypeOK'
  BY <1>1, <1>2, <1>3 DEF TypeOK
<1>5. NoFalseMiss'
  BY <1>2, <1>3 DEF NoFalseMiss
<1> QED
  BY <1>2, <1>4, <1>5 DEF HandlesRight, InitOrder, Module, SentinelContained,
     NativePreferred, OverridesWrapped

LEMMA NextInv == Inv /\ [Next]_vars => Inv'
<1> SUFFICES ASSUME Inv, [Next]_vars PROVE Inv'
  OBVIOUS
<1>1. CASE InstallNext
  BY <1>1, InstallNextInv
<1>2. CASE InitReturn
  BY <1>2, InitReturnInv
<1>3. CASE \E t \in Threads : Step(t)
  BY <1>3, BeginInv, LoadInv, FindInv, CallInv DEF Step
<1>4. CASE UNCHANGED vars
  BY <1>4 DEF vars, Inv, TypeOK, HandlesRight, InitOrder, Module, SentinelContained,
     NoFalseMiss, NativePreferred, OverridesWrapped
<1> QED
  BY <1>1, <1>2, <1>3, <1>4 DEF Next

LEMMA Invariance == Spec => []Inv
<1> QED
  BY InitInv, NextInv, PTL DEF Spec

----------------------------------------------------------------------------
\* The state of the hooks has its type throughout: no thread calls through an
\* address, or looks a name up through a handle, that is null.
THEOREM HooksTypeCorrect == Spec => []TypeOK
<1>1. Inv => TypeOK
  BY DEF Inv
<1> QED BY <1>1, Invariance, PTL

\* Neither the sentinel nor the name of a DLL it stands for reaches the system.
THEOREM SentinelContainedAlways == Spec => []SentinelContained
<1>1. Inv => SentinelContained
  BY DEF Inv
<1> QED BY <1>1, Invariance, PTL

\* An empty answer of the hook is right: neither the system nor the table has the name.
THEOREM NoFalseMissAlways == Spec => []NoFalseMiss
<1>1. Inv => NoFalseMiss
  BY DEF Inv
<1> QED BY <1>1, Invariance, PTL

\* Where the system exports a name, a LazyProc holds the system's own function, save
\* that of an override, in the forced mode, and through a DLL on the list of missing
\* ones, which is emulated although the system may have it.
THEOREM NativePreferredAlways == Spec => []NativePreferred
<1>1. Inv => NativePreferred
  BY DEF Inv
<1> QED BY <1>1, Invariance, PTL

\* The overrides are wrapped from the first lookup on, in every mode.
THEOREM OverridesWrappedAlways == Spec => []OverridesWrapped
<1>1. Inv => OverridesWrapped
  BY DEF Inv
<1> QED BY <1>1, Invariance, PTL

\* A function that audit takes to be there or covered is never missing at run time:
\* of kernel32, what is absent and accepted by nobody is in the table.  It holds of
\* LazyProcs called after their functions, and audit passes no binary without symbols.
THEOREM AuditSoundAlways == Spec => []AuditSound
<1>1. ASSUME TypeOK, NoFalseMiss PROVE AuditSound
  <2> SUFFICES ASSUME NEW stripped \in BOOLEAN, AuditPasses(system, stripped), NEW t \in Threads, NEW p \in Procs,
                      p[1] = Kernel32, Known(system, p[2]), Conventional(p),
                      thr[t].want = p, thr[t].ret = "noproc",
                      p[2] \notin Pending[system] \cup Advapi32OnXP
               PROVE  FALSE
    BY DEF AuditSound
  <2>1. p[2] \notin TableNames /\ p \notin {q \in system.exports : q[1] \notin MissingDlls}
    BY <1>1 DEF NoFalseMiss
  <2>2. p = <<Kernel32, p[2]>> /\ system \in Systems
    BY <1>1, TableAssumption DEF TypeOK
  <2>3. p \notin system.exports
    BY <2>1, ListsAssumption
  <2>4. ~ Present(system, p[2])
    BY <2>2, <2>3, ListsAssumption DEF Present, Known
  <2>5. p[2] \in LazyProcs(stripped)
    <3>1. ~ stripped
      BY DEF AuditPasses, LazyProcs, Symbols
    <3> QED BY <3>1 DEF LazyProcs, Symbols, Conventional
  <2>6. p[2] \in Uncovered(system, stripped)
    BY <2>1, <2>4, <2>5 DEF Uncovered, Absent
  <2> QED BY <2>6 DEF AuditPasses
<1>2. Inv => AuditSound
  BY <1>1 DEF Inv
<1> QED BY <1>2, Invariance, PTL
=============================================================================
