-------------------------- MODULE ChildProcessProofs --------------------------
(***************************************************************************)
(* The properties of ChildProcess for any number of threads and children,  *)
(* on any Windows that either has attribute lists or has not.              *)
(***************************************************************************)
EXTENDS ChildProcess, TLAPS

----------------------------------------------------------------------------
(* The inductive invariant. *)

\* What a launch has at each of its steps: the list is the system's own exactly
\* where the system has lists, and the child's handle is open all the time.
LaunchOK(l) ==
  /\ launch[l].ret # "misread"
  /\ launch[l].pc # "idle" => handle[l] = "inherit"
  /\ list[l] = "made-up" => ~ system.lists
  /\ list[l] = "real" => system.lists
  /\ launch[l].pc \in {"size", "init", "update"} => launch[l].kind = "listed"
  /\ launch[l].pc = "update" => list[l] # None
  /\ launch[l].pc = "create" /\ launch[l].kind = "listed" => list[l] # None

LaunchInv == \A l \in Launchers : LaunchOK(l)

\* A socket that is inheritable although it was asked not to be is on its way to being
\* hidden, or could not be hidden; and only a system that does not know the flag ever
\* comes to the retry with arguments it accepts.
DialOK(d) ==
  /\ handle[d] = "inherit" /\ d \in Asked => d \in Exposed
  /\ system.noInherit => /\ dial[d].pc \notin {"retry", "hide"}
                         /\ dial[d].flag => handle[d] # "inherit"

DialInv == \A d \in Dialers : DialOK(d)

\* Without a race one thread asks at most, and it holds the program's mode.
ModeInv ==
  ~ raced => /\ Asking = {} => mode = meant
             /\ \A a \in Asking : Asking = {a} /\ ask[a] = meant

ChildOK(c) ==
  /\ c.by \in c.handles
  /\ system.lists /\ c.kind = "listed" => c.handles = {c.by}
  /\ c.handles \cap c.asked \subseteq c.exposed
  /\ system.noInherit => c.handles \cap c.asked = {}
  /\ c.mode # "wrong"

ChildrenInv == \A c \in children : ChildOK(c)

IInv == TypeOK /\ LaunchInv /\ DialInv /\ ModeInv /\ ChildrenInv

----------------------------------------------------------------------------
(* Each part of the invariant depends on few of the variables. *)

LaunchTypes == [Launchers -> [pc : {"idle", "size", "init", "update", "create", "close"},
                              kind : Kinds,
                              ret : {"none", "error", "started", "misread"}]]

\* A step of a launch types what it changes; what one assigns to a launch is
\* looked at apart from the rest of the state.
LEMMA LaunchTyped ==
  ASSUME TypeOK, launch' \in LaunchTypes, list' \in [Launchers -> Lists \cup {None}],
         handle' \in [Launchers \cup Dialers -> {"closed", "private", "inherit"}],
         UNCHANGED <<system, dial, modeVars>>
  PROVE  TypeOK'
<1>1. UNCHANGED <<system, dial, mode, meant, ask, raced>>
  BY DEF modeVars
<1>2. system' \in Systems
  BY <1>1 DEF TypeOK
<1>3. dial' \in [Dialers -> [pc : {"idle", "retry", "again", "hide", "open"},
                            flag : BOOLEAN, hidden : BOOLEAN]]
  BY <1>1 DEF TypeOK
<1>4. mode' \in Modes /\ meant' \in Modes /\ ask' \in [Askers -> Modes \cup {None}]
  BY <1>1 DEF TypeOK
<1>5. raced' \in BOOLEAN
  BY <1>1 DEF TypeOK
<1> QED BY <1>2, <1>3, <1>4, <1>5, Zenon DEF TypeOK, LaunchTypes

\* The three ways a launch moves on.
LEMMA LaunchMoves ==
  ASSUME TypeOK, NEW l \in Launchers,
         NEW pc \in {"idle", "size", "init", "update", "create", "close"},
         NEW ret \in {"none", "error", "started", "misread"}
  PROVE  /\ [launch EXCEPT ![l].pc = pc] \in LaunchTypes
         /\ [launch EXCEPT ![l].pc = pc, ![l].ret = ret] \in LaunchTypes
<1> launch \in LaunchTypes
  BY DEF TypeOK, LaunchTypes
<1> HIDE DEF Kinds
<1>1. launch[l] \in [pc : {"idle", "size", "init", "update", "create", "close"},
                    kind : Kinds, ret : {"none", "error", "started", "misread"}]
  BY DEF LaunchTypes
<1>2. [launch[l] EXCEPT !.pc = pc] \in
        [pc : {"idle", "size", "init", "update", "create", "close"},
         kind : Kinds, ret : {"none", "error", "started", "misread"}]
  BY <1>1
<1>3. [launch[l] EXCEPT !.pc = pc, !.ret = ret] \in
        [pc : {"idle", "size", "init", "update", "create", "close"},
         kind : Kinds, ret : {"none", "error", "started", "misread"}]
  BY <1>1
<1> QED BY <1>2, <1>3 DEF LaunchTypes

LEMMA LaunchUntouchedTyped ==
  TypeOK => /\ launch \in LaunchTypes /\ list \in [Launchers -> Lists \cup {None}]
            /\ handle \in [Launchers \cup Dialers -> {"closed", "private", "inherit"}]
BY DEF TypeOK, LaunchTypes

LEMMA SocketsUntouched ==
  ASSUME DialInv, UNCHANGED <<system, dial>>,
         \A d \in Dialers : handle'[d] = handle[d]
  PROVE  DialInv'
BY DEF DialInv, DialOK, Exposed, Asked

LEMMA ModesUntouched == ModeInv /\ UNCHANGED modeVars => ModeInv'
BY DEF ModeInv, modeVars, Asking

LEMMA ChildrenUntouched == ChildrenInv /\ UNCHANGED <<system, children>> => ChildrenInv'
BY DEF ChildrenInv, ChildOK

LEMMA LaunchesUntouched ==
  ASSUME LaunchInv, UNCHANGED <<system, launch, list>>,
         \A l \in Launchers : handle'[l] = handle[l]
  PROVE  LaunchInv'
BY DEF LaunchInv, LaunchOK

----------------------------------------------------------------------------
(* The steps. *)

LEMMA InitEstablishes == Init => IInv
<1> SUFFICES ASSUME Init PROVE IInv
  OBVIOUS
<1>1. TypeOK
  BY ConstantTypes DEF Init, TypeOK, Resting, Undialed, Kinds
<1>2. LaunchInv
  BY ConstantTypes DEF Init, LaunchInv, LaunchOK, Resting, Lists
<1>3. DialInv
  BY DEF Init, DialInv, DialOK, Undialed, Asked
<1>4. ModeInv
  BY DEF Init, ModeInv, Asking
<1>5. ChildrenInv
  BY DEF Init, ChildrenInv
<1> QED BY <1>1, <1>2, <1>3, <1>4, <1>5 DEF IInv

\* A step of a launch that leaves the sockets alone keeps the rest of the invariant.
LEMMA LaunchStep ==
  ASSUME IInv, NEW l \in Launchers,
         UNCHANGED <<system, dial, modeVars>>,
         \E h \in {"closed", "inherit"} : handle' = [handle EXCEPT ![l] = h]
                                        \/ UNCHANGED handle
  PROVE  DialInv' /\ ModeInv'
<1>1. \A d \in Dialers : handle'[d] = handle[d]
  BY ConstantTypes DEF IInv, TypeOK
<1> QED BY <1>1, SocketsUntouched, ModesUntouched DEF IInv

LEMMA BeginKeeps == ASSUME IInv, NEW l \in Launchers, Begin(l) PROVE IInv'
<1>1. PICK kind \in Kinds :
        launch' = [launch EXCEPT ![l] = [pc |-> IF kind = "listed" THEN "size" ELSE "create",
                                         kind |-> kind, ret |-> "none"]]
  BY DEF Begin
<1>2. /\ handle' = [handle EXCEPT ![l] = "inherit"] /\ launch[l].pc = "idle"
      /\ UNCHANGED <<system, list, children, dial, modeVars>>
  BY DEF Begin, socketVars
<1>3. TypeOK'
  BY <1>1, <1>2 DEF IInv, TypeOK, Kinds, modeVars
<1>4. LaunchInv'
  <2> SUFFICES ASSUME NEW m \in Launchers PROVE LaunchOK(m)'
    BY DEF LaunchInv
  <2>1. LaunchOK(m)
    BY DEF IInv, LaunchInv
  <2> QED BY <1>1, <1>2, <2>1 DEF IInv, TypeOK, LaunchOK
<1>5. DialInv' /\ ModeInv'
  BY <1>2, LaunchStep
<1>6. ChildrenInv'
  BY <1>2, ChildrenUntouched DEF IInv
<1> QED BY <1>3, <1>4, <1>5, <1>6 DEF IInv

LEMMA QuerySizeKeeps == ASSUME IInv, NEW l \in Launchers, QuerySize(l) PROVE IInv'
<1>1. /\ launch[l].pc = "size" /\ launch' = [launch EXCEPT ![l].pc = "init"]
      /\ UNCHANGED <<system, list, children, dial, handle, modeVars>>
  BY DEF QuerySize, Goto, socketVars
<1>2. TypeOK'
  <2>1. TypeOK
    BY DEF IInv
  <2>2. launch' \in LaunchTypes
    BY <1>1, <2>1, LaunchMoves
  <2> QED BY <1>1, <2>1, <2>2, LaunchTyped, LaunchUntouchedTyped
<1>3. LaunchInv'
  <2> SUFFICES ASSUME NEW m \in Launchers PROVE LaunchOK(m)'
    BY DEF LaunchInv
  <2>1. LaunchOK(m)
    BY DEF IInv, LaunchInv
  <2> QED BY <1>1, <2>1 DEF IInv, TypeOK, LaunchOK
<1>4. DialInv' /\ ModeInv'
  BY <1>1, LaunchStep
<1>5. ChildrenInv'
  BY <1>1, ChildrenUntouched DEF IInv
<1> QED BY <1>2, <1>3, <1>4, <1>5 DEF IInv

LEMMA InitializeKeeps ==
  ASSUME IInv, NEW l \in Launchers, InitializeProcThreadAttributeList(l) PROVE IInv'
<1>1. PICK x \in Initialized :
        /\ list' = [list EXCEPT ![l] = x]
        /\ IF x = None THEN Return(l, "error") ELSE Goto(l, "update")
  BY DEF InitializeProcThreadAttributeList
<1>2. /\ launch[l].pc = "init"
      /\ UNCHANGED <<system, children, dial, handle, modeVars>>
  BY DEF InitializeProcThreadAttributeList, socketVars
<1>3. TypeOK'
  <2>1. TypeOK
    BY DEF IInv
  <2>2. launch' \in LaunchTypes
    BY <1>1, <2>1, LaunchMoves DEF Goto, Return
  <2>3. list' \in [Launchers -> Lists \cup {None}]
    BY <1>1, <2>1, LaunchUntouchedTyped DEF Initialized, Lists
  <2> QED BY <1>2, <2>1, <2>2, <2>3, LaunchTyped, LaunchUntouchedTyped
<1>4. LaunchInv'
  <2> SUFFICES ASSUME NEW m \in Launchers PROVE LaunchOK(m)'
    BY DEF LaunchInv
  <2>1. LaunchOK(m)
    BY DEF IInv, LaunchInv
  <2>2. CASE x = None
    BY <1>1, <1>2, <2>1, <2>2, ConstantTypes
    DEF IInv, TypeOK, LaunchOK, Initialized, Return, Lists
  <2>3. CASE x # None
    BY <1>1, <1>2, <2>1, <2>3 DEF IInv, TypeOK, LaunchOK, Initialized, Goto
  <2> QED BY <2>2, <2>3
<1>5. DialInv' /\ ModeInv'
  BY <1>2, LaunchStep
<1>6. ChildrenInv'
  BY <1>2, ChildrenUntouched DEF IInv
<1> QED BY <1>3, <1>4, <1>5, <1>6 DEF IInv

LEMMA UpdateKeeps ==
  ASSUME IInv, NEW l \in Launchers, UpdateProcThreadAttribute(l) PROVE IInv'
<1>1. /\ launch[l].pc = "update"
      /\ Goto(l, "create") \/ Return(l, "error")
      /\ UNCHANGED <<system, list, children, dial, handle, modeVars>>
  BY DEF UpdateProcThreadAttribute, socketVars
<1>2. TypeOK'
  <2>1. TypeOK
    BY DEF IInv
  <2>2. launch' \in LaunchTypes
    BY <1>1, <2>1, LaunchMoves DEF Goto, Return
  <2> QED BY <1>1, <2>1, <2>2, LaunchTyped, LaunchUntouchedTyped
<1>3. LaunchInv'
  <2> SUFFICES ASSUME NEW m \in Launchers PROVE LaunchOK(m)'
    BY DEF LaunchInv
  <2>1. LaunchOK(m)
    BY DEF IInv, LaunchInv
  <2>2. \/ launch' = [launch EXCEPT ![l].pc = "create"]
        \/ launch' = [launch EXCEPT ![l].pc = "close", ![l].ret = "error"]
    BY <1>1 DEF Return, Goto
  <2>3. launch \in [Launchers -> [pc : {"idle", "size", "init", "update", "create", "close"},
                                  kind : Kinds,
                                  ret : {"none", "error", "started", "misread"}]]
    BY DEF IInv, TypeOK
  <2>4. CASE m = l
    BY <1>1, <2>1, <2>2, <2>3, <2>4 DEF LaunchOK
  <2>5. CASE m # l
    BY <1>1, <2>1, <2>2, <2>3, <2>5 DEF LaunchOK
  <2> QED BY <2>4, <2>5
<1>4. DialInv' /\ ModeInv'
  BY <1>1, LaunchStep
<1>5. ChildrenInv'
  BY <1>1, ChildrenUntouched DEF IInv
<1> QED BY <1>2, <1>3, <1>4, <1>5 DEF IInv

LEMMA DeleteKeeps ==
  ASSUME IInv, NEW l \in Launchers, DeleteProcThreadAttributeList(l) PROVE IInv'
<1>1. /\ launch[l].pc = "close" /\ launch' = [launch EXCEPT ![l] = Resting]
      /\ list' = [list EXCEPT ![l] = None] /\ handle' = [handle EXCEPT ![l] = "closed"]
      /\ UNCHANGED <<system, children, dial, modeVars>>
  BY DEF DeleteProcThreadAttributeList, socketVars
<1>2. TypeOK'
  BY <1>1 DEF IInv, TypeOK, modeVars, Resting, Kinds
<1>3. LaunchInv'
  <2> SUFFICES ASSUME NEW m \in Launchers PROVE LaunchOK(m)'
    BY DEF LaunchInv
  <2>1. LaunchOK(m)
    BY DEF IInv, LaunchInv
  <2> QED BY <1>1, <2>1, ConstantTypes DEF IInv, TypeOK, LaunchOK, Resting, Lists
<1>4. DialInv' /\ ModeInv'
  BY <1>1, LaunchStep
<1>5. ChildrenInv'
  BY <1>1, ChildrenUntouched DEF IInv
<1> QED BY <1>2, <1>3, <1>4, <1>5 DEF IInv

\* What is handed on is never misread, as the list is made up exactly where
\* the system has none.
LEMMA PassedUnderstood ==
  ASSUME IInv, NEW l \in Launchers, launch[l].pc = "create",
         ~ (~ system.lists /\ launch[l].kind = "missing")
  PROVE  ~ Misreads(Passed(l))
<1>1. LaunchOK(l) /\ launch[l].kind \in Kinds
  BY DEF IInv, TypeOK, LaunchInv
<1> QED BY <1>1 DEF LaunchOK, Kinds, Misreads, Passed, Given

\* A child that is started gets what the properties promise it.
LEMMA StartedChildOK ==
  ASSUME IInv, NEW l \in Launchers, launch[l].pc = "create"
  PROVE  ChildOK(Child(l, Passed(l)))
<1> DEFINE c == Child(l, Passed(l))
<1>1. LaunchOK(l) /\ launch[l].kind \in Kinds /\ l \in DOMAIN handle /\ l \notin Dialers
  BY ConstantTypes DEF IInv, TypeOK, LaunchInv
<1>2. l \in Inheritable
  BY <1>1 DEF LaunchOK, Inheritable
<1>3. c.handles \in {{l}, Inheritable} /\ c.by = l /\ c.kind = launch[l].kind
  BY DEF Child
<1>4. system.lists /\ launch[l].kind = "listed" => c.handles = {l}
  <2> SUFFICES ASSUME system.lists, launch[l].kind = "listed" PROVE c.handles = {l}
    OBVIOUS
  <2>1. list[l] = "real"
    BY <1>1, ConstantTypes DEF IInv, TypeOK, LaunchOK, Lists
  <2>2. Passed(l).flag /\ Passed(l).list = "real"
    BY <2>1 DEF Passed, Given
  <2> QED BY <2>2 DEF Child
<1>5. /\ Inheritable \cap Asked \subseteq Exposed
      /\ system.noInherit => Inheritable \cap Asked = {}
  BY DEF IInv, DialInv, DialOK, Inheritable, Asked
<1>6. c.exposed = Exposed /\ c.asked = Asked /\ l \notin Asked
  BY <1>1 DEF Child, Asked
<1>7. c.mode # "wrong"
  <2>1. Asking = {} /\ ~ raced => mode = meant
    BY DEF IInv, ModeInv
  <2>2. mode = meant \/ raced \/ \E a \in Askers : ask[a] # None
    BY <2>1 DEF Asking
  <2> QED BY <2>2 DEF Child
<1> HIDE DEF c
<1>8. ChildOK(c)
  BY <1>1, <1>2, <1>3, <1>4, <1>5, <1>6, <1>7 DEF ChildOK
<1> QED BY <1>8 DEF c

LEMMA CreateKeeps == ASSUME IInv, NEW l \in Launchers, CreateProcessW(l) PROVE IInv'
<1>1. /\ launch[l].pc = "create"
      /\ UNCHANGED <<system, list, dial, handle, modeVars>>
  BY DEF CreateProcessW, socketVars
<1>2. PICK ret \in {"error", "started"} :
        launch' = [launch EXCEPT ![l].pc = "close", ![l].ret = ret]
  BY PassedUnderstood DEF CreateProcessW, Return
<1>3. UNCHANGED children \/ children' = children \cup {Child(l, Passed(l))}
  BY DEF CreateProcessW
<1>4. TypeOK'
  <2>1. TypeOK /\ ret \in {"none", "error", "started", "misread"}
    BY <1>2 DEF IInv
  <2>2. launch' \in LaunchTypes
    BY <1>2, <2>1, LaunchMoves
  <2> QED BY <1>1, <2>1, <2>2, LaunchTyped, LaunchUntouchedTyped
<1>5. LaunchInv'
  <2> SUFFICES ASSUME NEW m \in Launchers PROVE LaunchOK(m)'
    BY DEF LaunchInv
  <2>1. LaunchOK(m)
    BY DEF IInv, LaunchInv
  <2>2. CASE m = l
    BY <1>1, <1>2, <2>1, <2>2 DEF IInv, TypeOK, LaunchOK
  <2>3. CASE m # l
    BY <1>1, <1>2, <2>1, <2>3 DEF IInv, TypeOK, LaunchOK
  <2> QED BY <2>2, <2>3
<1>6. DialInv' /\ ModeInv'
  BY <1>1, LaunchStep
<1>7. ChildrenInv'
  <2> SUFFICES ASSUME NEW c \in children' PROVE ChildOK(c)'
    BY DEF ChildrenInv
  <2>1. ChildOK(c)
    BY <1>1, <1>3, StartedChildOK DEF IInv, ChildrenInv
  <2> QED BY <1>1, <2>1 DEF ChildOK
<1> QED BY <1>4, <1>5, <1>6, <1>7 DEF IInv

----------------------------------------------------------------------------
(* Sockets. *)

\* A step of one socket has to be looked at for that socket only.
LEMMA DialStep ==
  ASSUME IInv, NEW d \in Dialers,
         NEW x \in [pc : {"idle", "retry", "again", "hide", "open"},
                    flag : BOOLEAN, hidden : BOOLEAN],
         NEW h \in {"closed", "private", "inherit"},
         dial' = [dial EXCEPT ![d] = x], handle' = [handle EXCEPT ![d] = h],
         UNCHANGED <<system, processVars, modeVars>>,
         h = "inherit" /\ x.flag => x.pc = "hide" \/ (x.pc = "open" /\ ~ x.hidden),
         system.noInherit => x.pc \notin {"retry", "hide"} /\ (x.flag => h # "inherit")
  PROVE  IInv'
<1>1. TypeOK'
  BY DEF IInv, TypeOK, processVars, modeVars
<1>2. LaunchInv'
  <2>1. \A l \in Launchers : handle'[l] = handle[l]
    BY ConstantTypes DEF IInv, TypeOK
  <2> QED BY <2>1, LaunchesUntouched DEF IInv, processVars
<1>3. DialInv'
  <2> SUFFICES ASSUME NEW e \in Dialers PROVE DialOK(e)'
    BY DEF DialInv
  <2>1. DialOK(e)
    BY DEF IInv, DialInv
  <2>2. system' = system
    OBVIOUS
  <2>3. CASE e = d
    <3>1. dial'[e] = x /\ handle'[e] = h
      BY <2>3 DEF IInv, TypeOK
    <3>2. handle'[e] = "inherit" /\ dial'[e].flag => e \in Exposed'
      BY <3>1 DEF Exposed, Asked
    <3> QED BY <2>2, <3>1, <3>2 DEF DialOK, Asked
  <2>4. CASE e # d
    <3>1. dial'[e] = dial[e] /\ handle'[e] = handle[e]
      BY <2>4 DEF IInv, TypeOK
    <3> QED BY <2>1, <2>2, <3>1 DEF DialOK, Exposed, Asked
  <2> QED BY <2>3, <2>4
<1>4. ModeInv' /\ ChildrenInv'
  BY ModesUntouched, ChildrenUntouched DEF IInv, processVars
<1> QED BY <1>1, <1>2, <1>3, <1>4 DEF IInv

LEMMA WSASocketWKeeps == ASSUME IInv, NEW d \in Dialers, WSASocketW(d) PROVE IInv'
<1>1. PICK flag \in BOOLEAN, valid \in BOOLEAN, r \in {"enobufs", "einval", "socket"} :
        /\ r \in Answers(flag, valid)
        /\ CASE r = "socket" -> Dialled(d, "open", flag, flag)
             [] flag /\ r = "einval" ->
                  Dialled(d, IF valid THEN "retry" ELSE "again", TRUE, FALSE)
             [] OTHER -> Failed(d)
        /\ handle' = [handle EXCEPT ![d] = IF r # "socket" THEN "closed"
                                           ELSE IF flag THEN "private" ELSE "inherit"]
  BY DEF WSASocketW
<1>2. UNCHANGED <<system, processVars, modeVars>>
  BY DEF WSASocketW
<1>3. CASE r = "socket"
  BY <1>1, <1>2, <1>3, DialStep DEF Dialled
<1>4. CASE flag /\ r = "einval"
  <2>1. system.noInherit => ~ valid
    BY <1>1, <1>4 DEF Answers
  <2> QED BY <1>1, <1>2, <1>4, <2>1, DialStep DEF Dialled
<1>5. CASE r # "socket" /\ ~ (flag /\ r = "einval")
  BY <1>1, <1>2, <1>5, DialStep DEF Failed, Undialed
<1> QED BY <1>3, <1>4, <1>5

LEMMA RetryKeeps == ASSUME IInv, NEW d \in Dialers, Retry(d) PROVE IInv'
<1>1. PICK r \in Answers(FALSE, dial[d].pc = "retry") :
        /\ IF r = "socket" THEN Dialled(d, "hide", TRUE, FALSE) ELSE Failed(d)
        /\ handle' = [handle EXCEPT ![d] = IF r = "socket" THEN "inherit" ELSE "closed"]
  BY DEF Retry
<1>2. UNCHANGED <<system, processVars, modeVars>>
  BY DEF Retry
<1>3. CASE r = "socket"
  <2>1. ~ system.noInherit
    BY <1>1, <1>3 DEF Answers, IInv, DialInv, DialOK
  <2> QED BY <1>1, <1>2, <1>3, <2>1, DialStep DEF Dialled
<1>4. CASE r # "socket"
  BY <1>1, <1>2, <1>4, DialStep DEF Failed, Undialed
<1> QED BY <1>3, <1>4

LEMMA HideKeeps == ASSUME IInv, NEW d \in Dialers, Hide(d) PROVE IInv'
<1>1. PICK done \in BOOLEAN :
        /\ Dialled(d, "open", TRUE, done)
        /\ handle' = [handle EXCEPT ![d] = IF done THEN "private" ELSE "inherit"]
  BY DEF Hide
<1>2. dial[d].pc = "hide" /\ UNCHANGED <<system, processVars, modeVars>>
  BY DEF Hide
<1>3. ~ system.noInherit
  BY <1>2 DEF IInv, DialInv, DialOK
<1> QED BY <1>1, <1>2, <1>3, DialStep DEF Dialled

LEMMA CloseKeeps == ASSUME IInv, NEW d \in Dialers, CloseSocket(d) PROVE IInv'
BY DialStep DEF CloseSocket, Undialed

----------------------------------------------------------------------------
(* The error mode. *)

\* A step of the error mode leaves the rest of the invariant as it is.
LEMMA ModeStep ==
  ASSUME IInv, UNCHANGED <<system, processVars, socketVars, handle>>,
         mode' \in Modes, meant' \in Modes, raced' \in BOOLEAN,
         ask' \in [Askers -> Modes \cup {None}], ModeInv'
  PROVE  IInv'
<1>1. TypeOK'
  BY DEF IInv, TypeOK, processVars, socketVars
<1>2. LaunchInv' /\ DialInv' /\ ChildrenInv'
  BY LaunchesUntouched, SocketsUntouched, ChildrenUntouched DEF IInv, processVars, socketVars
<1> QED BY <1>1, <1>2 DEF IInv

LEMMA GetErrorModeKeeps == ASSUME IInv, NEW a \in Askers, GetErrorMode(a) PROVE IInv'
<1>1. /\ ask[a] = None /\ ask' = [ask EXCEPT ![a] = mode] /\ mode' = 0
      /\ raced' = (raced \/ Asking # {}) /\ meant' = meant
      /\ UNCHANGED <<system, processVars, socketVars, handle>>
  BY DEF GetErrorMode
<1>2. ask' \in [Askers -> Modes \cup {None}] /\ mode \in Modes
  BY <1>1 DEF IInv, TypeOK
<1>3. ModeInv'
  <2> SUFFICES ASSUME ~ raced' PROVE /\ Asking' = {} => mode' = meant'
                                     /\ \A b \in Asking' : Asking' = {b} /\ ask'[b] = meant'
    BY DEF ModeInv
  <2>1. ~ raced /\ Asking = {}
    BY <1>1
  <2>2. mode = meant
    BY <2>1 DEF IInv, ModeInv
  <2>3. ask'[a] = mode /\ \A b \in Askers \ {a} : ask'[b] = None
    BY <1>1, <2>1 DEF IInv, TypeOK, Asking
  <2>4. Asking' = {a}
    BY <1>2, <2>3, ConstantTypes DEF Asking
  <2> QED BY <1>1, <2>2, <2>3, <2>4
<1>4. raced' \in BOOLEAN
  BY <1>1
<1> QED BY <1>1, <1>2, <1>3, <1>4, ModeStep, ConstantTypes DEF IInv, TypeOK

LEMMA PutBackKeeps == ASSUME IInv, NEW a \in Askers, PutBack(a) PROVE IInv'
<1>1. /\ ask[a] # None /\ mode' = ask[a] /\ ask' = [ask EXCEPT ![a] = None]
      /\ UNCHANGED <<system, processVars, socketVars, handle, meant, raced>>
  BY DEF PutBack
<1>2. ask' \in [Askers -> Modes \cup {None}] /\ mode' \in Modes
  BY <1>1 DEF IInv, TypeOK
<1>3. ModeInv'
  <2> SUFFICES ASSUME ~ raced' PROVE /\ Asking' = {} => mode' = meant'
                                     /\ \A b \in Asking' : Asking' = {b} /\ ask'[b] = meant'
    BY DEF ModeInv
  <2>1. Asking = {a} /\ ask[a] = meant
    BY <1>1 DEF IInv, ModeInv, Asking
  <2>2. Asking' = {}
    BY <1>1, <2>1 DEF IInv, TypeOK, Asking
  <2> QED BY <1>1, <2>1, <2>2
<1> QED BY <1>1, <1>2, <1>3, ModeStep DEF IInv, TypeOK

LEMMA SetErrorModeKeeps == ASSUME IInv, SetErrorMode PROVE IInv'
<1>1. /\ mode' \in Modes /\ meant' = mode' /\ raced' = (Asking # {})
      /\ UNCHANGED <<system, processVars, socketVars, handle, ask>>
  BY DEF SetErrorMode
<1>2. ModeInv'
  BY <1>1 DEF ModeInv, Asking
<1>3. raced' \in BOOLEAN
  BY <1>1
<1> QED BY <1>1, <1>2, <1>3, ModeStep DEF IInv, TypeOK

----------------------------------------------------------------------------
LEMMA StepKeeps == IInv /\ [Next]_vars => IInv'
<1> SUFFICES ASSUME IInv, [Next]_vars PROVE IInv'
  OBVIOUS
<1>1. ASSUME NEW l \in Launchers, Launch(l) PROVE IInv'
  BY <1>1, BeginKeeps, QuerySizeKeeps, InitializeKeeps, UpdateKeeps, CreateKeeps, DeleteKeeps
  DEF Launch
<1>2. ASSUME NEW d \in Dialers, Dial(d) PROVE IInv'
  BY <1>2, WSASocketWKeeps, RetryKeeps, HideKeeps, CloseKeeps DEF Dial
<1>3. ASSUME NEW a \in Askers, GetErrorMode(a) \/ PutBack(a) PROVE IInv'
  BY <1>3, GetErrorModeKeeps, PutBackKeeps
<1>4. CASE SetErrorMode
  BY <1>4, SetErrorModeKeeps
<1>5. CASE UNCHANGED vars
  <2>1. TypeOK' /\ ModeInv'
    BY <1>5, ModesUntouched DEF IInv, TypeOK, vars, processVars, socketVars, modeVars
  <2>2. LaunchInv' /\ DialInv' /\ ChildrenInv'
    BY <1>5, LaunchesUntouched, SocketsUntouched, ChildrenUntouched
    DEF IInv, vars, processVars, socketVars
  <2> QED BY <2>1, <2>2 DEF IInv
<1> QED BY <1>1, <1>2, <1>3, <1>4, <1>5 DEF Next

THEOREM Invariant == Spec => []IInv
BY InitEstablishes, StepKeeps, PTL DEF Spec

\* The type invariant, for any threads, modes and systems.
THEOREM ChildTypeCorrect == Spec => []TypeOK
<1>1. IInv => TypeOK
  BY DEF IInv
<1> QED BY <1>1, Invariant, PTL

\* The list functions and CreateProcessW agree, in every order of calls, on which
\* systems a list is made up.
THEOREM NeverMisreadAlways == Spec => []NeverMisread
<1>1. IInv => NeverMisread
  BY DEF IInv, LaunchInv, LaunchOK, NeverMisread
<1> QED BY <1>1, Invariant, PTL

\* Any number of launches and sockets may be under way when a child is started.
THEOREM ChildHandlesAlways == Spec => []ChildHandles
<1>1. IInv => ChildHandles
  BY DEF IInv, ChildrenInv, ChildOK, ChildHandles
<1> QED BY <1>1, Invariant, PTL

\* A child gets a socket that was asked for as not inheritable only between the retry
\* and the hiding, or where the hiding failed, and neither happens on a system that
\* knows the flag.  Sockets opened without the flag are not its subject.
THEOREM SocketsPrivateAlways == Spec => []SocketsPrivate
<1>1. IInv => SocketsPrivate
  BY DEF IInv, ChildrenInv, ChildOK, SocketsPrivate
<1> QED BY <1>1, Invariant, PTL

\* Without a race GetErrorMode changes the mode for nobody.
THEOREM ModeKeptAlways == Spec => []ModeKept
<1>1. IInv => ModeKept
  BY DEF IInv, ModeInv, ChildrenInv, ChildOK, ModeKept
<1> QED BY <1>1, Invariant, PTL
===============================================================================
