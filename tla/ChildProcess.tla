----------------------------- MODULE ChildProcess -----------------------------
(***************************************************************************)
(* What the children of a program inherit, when it starts them, opens      *)
(* sockets and asks for its error mode on several threads at once: the     *)
(* shim's attribute list functions, CreateProcessW, WSASocketW and         *)
(* GetErrorMode over what each Windows offers.  On a system without        *)
(* attribute lists the shim makes one up, which no CreateProcessW may see. *)
(***************************************************************************)
EXTENDS Integers, FiniteSets

CONSTANTS Launchers,   \* threads in syscall.StartProcess or CreateProcess
          Dialers,     \* threads that create a socket
          Askers,      \* threads that call GetErrorMode
          Modes,       \* error modes of a process
          Systems,     \* [lists, noInherit : BOOLEAN]: what a Windows knows
          MaxChildren, \* bound of the model
          None

\* How CreateProcessW is called: syscall.StartProcess passes STARTUPINFOEX with
\* a list, an older caller a plain STARTUPINFO, a careless one nothing.
Kinds == {"listed", "plain", "missing"}

\* What the list in the caller's memory is.
Lists == {"real", "made-up"}

VARIABLES
  system,     \* the Windows the process runs on
  launch,     \* [Launchers -> the launch that is running]
  list,       \* [Launchers -> the caller's attribute list, or None]
  dial,       \* [Dialers -> the call of WSASocketW that is running]
  handle,     \* the handle each thread opens: "closed", "private", "inherit"
  mode,       \* the error mode of the process
  meant,      \* the mode the program has set last
  ask,        \* [Askers -> the mode GetErrorMode is about to put back, or None]
  raced,      \* the mode was changed between the two halves of a GetErrorMode
  children

processVars == <<launch, list, children>>
socketVars == dial
modeVars == <<mode, meant, ask, raced>>
vars == <<system, processVars, socketVars, handle, modeVars>>

Resting == [pc |-> "idle", kind |-> "plain", ret |-> "none"]
Undialed == [pc |-> "idle", flag |-> FALSE, hidden |-> FALSE]

Init == /\ system \in Systems
        /\ launch = [l \in Launchers |-> Resting]
        /\ list = [l \in Launchers |-> None]
        /\ dial = [d \in Dialers |-> Undialed]
        /\ handle = [x \in Launchers \cup Dialers |-> "closed"]
        /\ mode \in Modes /\ meant = mode
        /\ ask = [a \in Askers |-> None] /\ raced = FALSE
        /\ children = {}

----------------------------------------------------------------------------
(* Starting a child. *)

Goto(l, pc) == launch' = [launch EXCEPT ![l].pc = pc]

Return(l, ret) == launch' = [launch EXCEPT ![l].pc = "close", ![l].ret = ret]

\* The handle for the child is duplicated, inheritable.
Begin(l) ==
  /\ launch[l].pc = "idle" /\ Cardinality(children) < MaxChildren
  /\ \E kind \in Kinds :
       launch' = [launch EXCEPT ![l] =
                    [pc |-> IF kind = "listed" THEN "size" ELSE "create",
                     kind |-> kind, ret |-> "none"]]
  /\ handle' = [handle EXCEPT ![l] = "inherit"]
  /\ UNCHANGED <<system, list, children, socketVars, modeVars>>

\* The first of two calls: FALSE, ERROR_INSUFFICIENT_BUFFER, and a size.
QuerySize(l) ==
  /\ launch[l].pc = "size"
  /\ Goto(l, "init")
  /\ UNCHANGED <<system, list, children, socketVars, handle, modeVars>>

\* Mutated form: always makes the list up, as an earlier version did.
InitializedAlwaysMadeUp == {"made-up"}

Initialized == IF system.lists THEN {"real", None} ELSE {"made-up"}

InitializeProcThreadAttributeList(l) ==
  /\ launch[l].pc = "init"
  /\ \E x \in Initialized :
       /\ list' = [list EXCEPT ![l] = x]
       /\ IF x = None THEN Return(l, "error") ELSE Goto(l, "update")
  /\ UNCHANGED <<system, children, socketVars, handle, modeVars>>

UpdateProcThreadAttribute(l) ==
  /\ launch[l].pc = "update"
  /\ \/ Goto(l, "create")
     \/ system.lists /\ Return(l, "error")
  /\ UNCHANGED <<system, list, children, socketVars, handle, modeVars>>

\* The arguments as the caller gives them.
Given(l) ==
  [flag |-> launch[l].kind # "plain",
   startup |-> CASE launch[l].kind = "listed" -> "ex"
                 [] launch[l].kind = "plain" -> "plain"
                 [] launch[l].kind = "missing" -> None,
   list |-> list[l]]

\* As polyCreateProcessW hands them on.
Passed(l) ==
  IF ~ system.lists /\ Given(l).flag
  THEN [flag |-> FALSE, startup |-> "plain", list |-> None]
  ELSE Given(l)

\* What a CreateProcessW does not take for what it is: it parses a list that
\* was made up, or does not know the structure it gets.
Misreads(args) ==
  IF system.lists THEN args.flag /\ args.list = "made-up"
  ELSE args.flag \/ args.startup = "ex"

Inheritable == {x \in DOMAIN handle : handle[x] = "inherit"}

\* Sockets that were asked for as not inheritable.
Asked == {d \in Dialers : dial[d].flag}

\* Those of them that are still to be hidden, or whose hiding failed.
Exposed ==
  {d \in Asked : dial[d].pc = "hide" \/ (dial[d].pc = "open" /\ ~ dial[d].hidden)}

Child(l, args) ==
  [by |-> l, kind |-> launch[l].kind,
   handles |-> IF args.flag /\ args.list = "real" THEN {l} ELSE Inheritable,
   asked |-> Asked, exposed |-> Exposed,
   mode |-> IF mode = meant THEN "meant"
            ELSE IF raced \/ \E a \in Askers : ask[a] # None THEN "raced" ELSE "wrong"]

\* Mutated form: after a failure the call is repeated without the flag.
CreateProcessRetried(l) ==
  /\ launch[l].pc = "create" /\ launch[l].kind # "missing"
  /\ \E args \in {Passed(l), [Passed(l) EXCEPT !.flag = FALSE]} :
       /\ children' = children \cup {Child(l, args)}
       /\ Return(l, "started")
  /\ UNCHANGED <<system, list, socketVars, handle, modeVars>>

\* polyCreateProcessW: the flag without a STARTUPINFO is an error where it would
\* have to be copied; otherwise one call of the system's function, which may
\* fail for reasons of its own.
CreateProcessW(l) ==
  /\ launch[l].pc = "create"
  /\ IF ~ system.lists /\ launch[l].kind = "missing"
     THEN Return(l, "error") /\ UNCHANGED children
     ELSE IF Misreads(Passed(l)) THEN Return(l, "misread") /\ UNCHANGED children
     ELSE \/ Return(l, "error") /\ UNCHANGED children
          \/ /\ launch[l].kind # "missing"
             /\ Return(l, "started")
             /\ children' = children \cup {Child(l, Passed(l))}
  /\ UNCHANGED <<system, list, socketVars, handle, modeVars>>

\* The deferred calls of StartProcess, on every way out.
DeleteProcThreadAttributeList(l) ==
  /\ launch[l].pc = "close"
  /\ launch' = [launch EXCEPT ![l] = Resting]
  /\ list' = [list EXCEPT ![l] = None]
  /\ handle' = [handle EXCEPT ![l] = "closed"]
  /\ UNCHANGED <<system, children, socketVars, modeVars>>

----------------------------------------------------------------------------
(* polyWSASocketW. *)

\* The answers of the system's own function: it refuses arguments it does not
\* know, the flag among them, and may have no sockets left.
Answers(flag, valid) ==
  {"enobufs", IF valid /\ (flag => system.noInherit) THEN "socket" ELSE "einval"}

Dialled(d, pc, flag, hidden) ==
  dial' = [dial EXCEPT ![d] = [pc |-> pc, flag |-> flag, hidden |-> hidden]]

Failed(d) == dial' = [dial EXCEPT ![d] = Undialed]

\* The flag is refused like an argument that really is invalid: "again" is the
\* retry of a call that has one.
WSASocketW(d) ==
  /\ dial[d].pc = "idle"
  /\ \E flag, valid \in BOOLEAN, r \in {"enobufs", "einval", "socket"} :
       /\ r \in Answers(flag, valid)
       /\ CASE r = "socket" -> Dialled(d, "open", flag, flag)
            [] flag /\ r = "einval" ->
                 Dialled(d, IF valid THEN "retry" ELSE "again", TRUE, FALSE)
            [] OTHER -> Failed(d)
       /\ handle' = [handle EXCEPT ![d] = IF r # "socket" THEN "closed"
                                          ELSE IF flag THEN "private" ELSE "inherit"]
  /\ UNCHANGED <<system, processVars, modeVars>>

\* The same call without the flag.
Retry(d) ==
  /\ dial[d].pc \in {"retry", "again"}
  /\ \E r \in Answers(FALSE, dial[d].pc = "retry") :
       /\ IF r = "socket" THEN Dialled(d, "hide", TRUE, FALSE) ELSE Failed(d)
       /\ handle' = [handle EXCEPT ![d] = IF r = "socket" THEN "inherit" ELSE "closed"]
  /\ UNCHANGED <<system, processVars, modeVars>>

\* Mutated form: the socket is returned as it is.
HideForgotten(d) ==
  /\ dial[d].pc = "hide"
  /\ Dialled(d, "open", TRUE, TRUE)
  /\ UNCHANGED <<system, processVars, handle, modeVars>>

\* SetHandleInformation, whose result is not looked at.
Hide(d) ==
  /\ dial[d].pc = "hide"
  /\ \E done \in BOOLEAN :
       /\ Dialled(d, "open", TRUE, done)
       /\ handle' = [handle EXCEPT ![d] = IF done THEN "private" ELSE "inherit"]
  /\ UNCHANGED <<system, processVars, modeVars>>

CloseSocket(d) ==
  /\ dial[d].pc = "open"
  /\ dial' = [dial EXCEPT ![d] = Undialed]
  /\ handle' = [handle EXCEPT ![d] = "closed"]
  /\ UNCHANGED <<system, processVars, modeVars>>

----------------------------------------------------------------------------
(* xp_GetErrorMode: SetErrorMode(0), which returns the mode, and SetErrorMode *)
(* of what it returned.                                                       *)

Asking == {a \in Askers : ask[a] # None}

GetErrorMode(a) ==
  /\ ask[a] = None
  /\ ask' = [ask EXCEPT ![a] = mode]
  /\ mode' = 0
  /\ raced' = (raced \/ Asking # {})
  /\ UNCHANGED <<system, processVars, socketVars, handle, meant>>

\* Mutated form: the mode is not put back.
NotPutBack(a) ==
  /\ ask[a] # None
  /\ ask' = [ask EXCEPT ![a] = None]
  /\ UNCHANGED <<system, processVars, socketVars, handle, mode, meant, raced>>

PutBack(a) ==
  /\ ask[a] # None
  /\ mode' = ask[a]
  /\ ask' = [ask EXCEPT ![a] = None]
  /\ UNCHANGED <<system, processVars, socketVars, handle, meant, raced>>

\* The program sets a mode.
SetErrorMode ==
  /\ \E m \in Modes : mode' = m /\ meant' = m
  /\ raced' = (Asking # {})
  /\ UNCHANGED <<system, processVars, socketVars, handle, ask>>

----------------------------------------------------------------------------
Launch(l) == \/ Begin(l) \/ QuerySize(l) \/ InitializeProcThreadAttributeList(l)
             \/ UpdateProcThreadAttribute(l) \/ CreateProcessW(l)
             \/ DeleteProcThreadAttributeList(l)

Dial(d) == WSASocketW(d) \/ Retry(d) \/ Hide(d) \/ CloseSocket(d)

Next == \/ \E l \in Launchers : Launch(l)
        \/ \E d \in Dialers : Dial(d)
        \/ \E a \in Askers : GetErrorMode(a) \/ PutBack(a)
        \/ SetErrorMode

Spec == Init /\ [][Next]_vars

ASSUME ConstantTypes ==
  /\ Systems \subseteq [lists : BOOLEAN, noInherit : BOOLEAN]
  /\ Launchers \cap Dialers = {}
  /\ Modes \subseteq Nat /\ 0 \in Modes
  /\ None \notin Modes /\ None \notin Lists
  /\ MaxChildren \in Nat

----------------------------------------------------------------------------
(* Properties. *)

TypeOK ==
  /\ system \in Systems
  /\ launch \in [Launchers -> [pc : {"idle", "size", "init", "update", "create", "close"},
                               kind : Kinds,
                               ret : {"none", "error", "started", "misread"}]]
  /\ list \in [Launchers -> Lists \cup {None}]
  /\ dial \in [Dialers -> [pc : {"idle", "retry", "again", "hide", "open"},
                           flag : BOOLEAN, hidden : BOOLEAN]]
  /\ handle \in [Launchers \cup Dialers -> {"closed", "private", "inherit"}]
  /\ mode \in Modes /\ meant \in Modes /\ ask \in [Askers -> Modes \cup {None}]
  /\ raced \in BOOLEAN

\* No CreateProcessW is handed what it would misread: a list that was made up
\* goes to none that parses lists, and a STARTUPINFOEX to none that does not know
\* it.  The three list functions and CreateProcessW decide this one by one.
NeverMisread == \A l \in Launchers : launch[l].ret # "misread"

\* A child has the handle it was started with, and where the system knows lists
\* none of another's: not the pipe of a child started at the same moment, not a
\* socket on its way to being hidden.
ChildHandles ==
  \A c \in children :
    /\ c.by \in c.handles
    /\ system.lists /\ c.kind = "listed" => c.handles = {c.by}

\* A socket that was asked for as not inheritable is in no child, in two cases
\* excepted, both on a system that does not know the flag: the child was started
\* in the moment before the socket was hidden, or hiding it had failed, of which
\* nobody is told.  A socket asked for without the flag is inheritable, as asked.
SocketsPrivate ==
  \A c \in children :
    /\ c.handles \cap c.asked \subseteq c.exposed
    /\ system.noInherit => c.handles \cap c.asked = {}

\* Asking for the error mode changes it for nobody, also not for a child, but
\* while somebody asks, and after a change that fell into that moment.
ModeKept ==
  /\ Asking = {} /\ ~ raced => mode = meant
  /\ \A c \in children : c.mode # "wrong"
=============================================================================
