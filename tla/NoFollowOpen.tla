----------------------------- MODULE NoFollowOpen -----------------------------
(***************************************************************************)
(* polyNtCreateFile: opening a name relative to a directory without        *)
(* following reparse points, on a kernel that rejects OBJ_DONT_REPARSE.    *)
(* A single component is opened again, the reparse point itself if it is   *)
(* one, and what was opened is looked at before the handle is given out.   *)
(* Another process renames entries and turns directories into junctions    *)
(* and back between any two steps.                                         *)
(***************************************************************************)
EXTENDS Integers, Sequences

CONSTANTS Names, Parent,   \* Parent is ".."
          Inside, Outside, \* objects inside the directory and elsewhere
          Below,           \* what a longer path leads to inside
          Target,          \* where every reparse point leads
          NoObject, NoHandle

ASSUME PlacesAssumption == /\ Parent \notin Names
                           /\ Below \in Inside /\ Target \in Outside
                           /\ Inside \cap Outside = {}
                           /\ {NoObject, NoHandle} \cap (Inside \cup Outside) = {}

Objects == Inside \cup Outside

\* A name with a '\', '/', ':' or NUL in it is a path of two components.
Paths == [1 .. 1 -> Names \cup {Parent}] \cup [1 .. 2 -> Names]

\* openReparse: the caller's own FILE_OPEN_REPARSE_POINT; sync: opened for
\* synchronous I/O; open: disposition FILE_OPEN.
Requests == [path : Paths, dontReparse : BOOLEAN, openReparse : BOOLEAN,
             sync : BOOLEAN, open : BOOLEAN]

VARIABLES modern,      \* the kernel knows OBJ_DONT_REPARSE
          entry,       \* the directory's entries
          links,       \* the objects that are reparse points now
          pc, req, status,
          result,      \* the caller's handle variable
          opened,      \* the handles that are open, named by their objects
          plain,       \* result was no reparse point at some time since opened
          quiet        \* nobody changed the directory during the call

fs == <<entry, links>>
vars == <<modern, entry, links, pc, req, status, result, opened, plain, quiet>>

Init == /\ modern \in BOOLEAN
        /\ entry \in [Names -> Inside \cup {NoObject}]
        /\ links \in SUBSET Inside
        /\ pc = "idle" /\ status = "none"
        /\ req \in {r \in Requests : r.path \in [1 .. 1 -> {Parent}]}
        /\ result = NoHandle /\ opened = {}
        /\ plain = FALSE /\ quiet = TRUE

----------------------------------------------------------------------------
(* The kernel. *)

Final(o, follow) == IF o \in links /\ follow THEN Target ELSE o

\* The object a path names; intermediate reparse points are always followed.
Walk(path, follow) ==
    IF path[1] = Parent THEN Target
    ELSE IF entry[path[1]] = NoObject THEN NoObject
    ELSE IF Len(path) = 1 THEN Final(entry[path[1]], follow)
    ELSE IF entry[path[1]] \in links THEN Target
    ELSE Final(Below, follow)

\* A reparse point the kernel would have to follow; one at the end of the path it
\* does not follow for a caller that opens the reparse point itself.
MeetsLink(path, openReparse) ==
    /\ path[1] # Parent
    /\ \/ entry[path[1]] \in links /\ (Len(path) > 1 \/ ~ openReparse)
       \/ /\ Len(path) > 1 /\ entry[path[1]] # NoObject
          /\ Below \in links /\ ~ openReparse

Answer(o) == IF o = NoObject THEN [status |-> "missing", object |-> NoHandle]
             ELSE [status |-> "ok", object |-> o]
Error(s) == [status |-> s, object |-> NoHandle]

\* What a kernel that knows the flag answers.
Native(path, dontReparse, openReparse) ==
    IF dontReparse /\ MeetsLink(path, openReparse) THEN Error("reparse")
    ELSE Answer(Walk(path, ~ openReparse))

\* Any open may also be denied, for its rights or its sharing.
NtCreateFile(path, dontReparse, openReparse) ==
    {Error("denied"),
     IF dontReparse /\ ~ modern THEN Error("invalid")
     ELSE Native(path, dontReparse, openReparse)}

\* A handle the kernel gives out is open and in the caller's variable.
GiveOut(a) == /\ status' = a.status
              /\ IF a.status = "ok"
                 THEN /\ result' = a.object /\ opened' = opened \cup {a.object}
                      /\ plain' = (a.object \notin links)
                 ELSE UNCHANGED <<result, opened, plain>>

\* Another process renames, removes or creates an entry, or turns a
\* directory into a junction or back.
Rename(n, o) == /\ entry' = [entry EXCEPT ![n] = o]
                /\ quiet' = FALSE
                /\ UNCHANGED <<modern, links, pc, req, status, result, opened, plain>>

Convert(o) == /\ links' = IF o \in links THEN links \ {o} ELSE links \cup {o}
              /\ plain' = (plain \/ (o = result /\ o \in links))
              /\ quiet' = FALSE
              /\ UNCHANGED <<modern, entry, pc, req, status, result, opened>>

----------------------------------------------------------------------------
(* The polyfill. *)

\* The caller closes what it got and opens something else.
Ask(r) == /\ pc \in {"idle", "done"}
          /\ pc' = "first" /\ req' = r
          /\ result' = NoHandle /\ opened' = opened \ {result}
          /\ status' = "none" /\ plain' = FALSE /\ quiet' = TRUE
          /\ UNCHANGED <<modern, fs>>

\* Mutated form: a longer path is opened again, too.
RetryablePath(r) == r.dontReparse /\ r.open /\ r.sync /\ r.path[1] # Parent
Retryable(r) == /\ r.dontReparse /\ r.open /\ r.sync
                /\ Len(r.path) = 1 /\ r.path[1] # Parent

First == /\ pc = "first"
         /\ \E a \in NtCreateFile(req.path, req.dontReparse, req.openReparse) :
               /\ GiveOut(a)
               /\ pc' = IF a.status = "invalid" /\ Retryable(req) THEN "retry" ELSE "done"
         /\ UNCHANGED <<modern, fs, req, quiet>>

\* Mutated form: FILE_OPEN_REPARSE_POINT is not added to the caller's options.
RetryFollowing == NtCreateFile(req.path, FALSE, req.openReparse)
RetryOpen == NtCreateFile(req.path, FALSE, TRUE)

\* Mutated form: only the error that caused the retry is taken for one.
FailedAgain(s) == s = "invalid"
Failed(s) == s # "ok"

Retry == /\ pc = "retry"
         /\ \E a \in RetryOpen :
               /\ GiveOut(a)
               /\ pc' = IF Failed(a.status) THEN "done" ELSE "check"
         /\ UNCHANGED <<modern, fs, req, quiet>>

\* Mutated form: a handle that cannot be looked at is given out.
VerdictTrusting(o, readable) == IF readable /\ o \in links THEN "reparse" ELSE "ok"
\* What the opened object turns out to be.
Verdict(o, readable) == IF ~ readable THEN "denied"
                        ELSE IF o \in links THEN "reparse" ELSE "ok"

Check == /\ pc = "check"
         /\ \E readable \in BOOLEAN :
               /\ status' = Verdict(result, readable)
               /\ pc' = IF status' = "ok" THEN "done" ELSE "close"
         /\ UNCHANGED <<modern, fs, req, result, opened, plain, quiet>>

\* Mutated form: the handle is cleared and not closed.
ForgetHandle == result' = NoHandle /\ UNCHANGED opened
DropHandle == opened' = opened \ {result} /\ result' = NoHandle

Close == /\ pc = "close"
         /\ DropHandle
         /\ pc' = "done"
         /\ UNCHANGED <<modern, fs, req, status, plain, quiet>>

Next == \/ \E n \in Names, o \in Inside \cup {NoObject} : Rename(n, o)
        \/ \E o \in Inside : Convert(o)
        \/ \E r \in Requests : Ask(r)
        \/ First \/ Retry \/ Check \/ Close

Spec == Init /\ [][Next]_vars

----------------------------------------------------------------------------
(* Properties. *)

TypeOK == /\ modern \in BOOLEAN /\ plain \in BOOLEAN /\ quiet \in BOOLEAN
          /\ entry \in [Names -> Inside \cup {NoObject}]
          /\ links \in SUBSET Inside
          /\ pc \in {"idle", "first", "retry", "check", "close", "done"}
          /\ req \in Requests
          /\ status \in {"none", "ok", "missing", "invalid", "denied", "reparse"}
          /\ result \in Objects \cup {NoHandle}
          /\ opened \in SUBSET Objects
          /\ pc \in {"check", "close"} => result \in opened

\* A handle was given to a caller that asked not to follow reparse points.
\* (A new kernel's opinion of ".." is its own.)
GaveOut == /\ pc = "done" /\ status = "ok" /\ req.dontReparse
           /\ modern => req.path[1] # Parent

\* However the directory changes meanwhile, such a caller never holds a handle
\* to something outside it.
Contained == GaveOut => result \in Inside

\* And what it holds was an ordinary object at some time during the call, on an
\* old kernel in any case; a new one gives out the reparse point at the end of the
\* path to a caller that has asked to open that.
LinkRefused == GaveOut => plain \/ (modern /\ req.openReparse)

\* A call leaves behind exactly the handle it reports: a refused one has
\* closed its handle, and has not left a number the caller would close again.
HandlesAccounted ==
    pc = "done" => IF status = "ok" THEN opened = {result} ELSE opened = {} /\ result = NoHandle

\* The caller means to open a reparse point, and names one.
WantsLink(r) == r.openReparse /\ entry[r.path[1]] \in links

\* In a directory nobody changes, an old kernel with the polyfill answers what
\* a new one does, whatever a single component names; unless it is denied, and
\* with one difference: a caller that passes FILE_OPEN_REPARSE_POINT itself and
\* names a reparse point gets it from a new kernel, and from the polyfill the
\* refusal it gives for every reparse point.
AnswersAsNative ==
    pc = "done" /\ quiet /\ Retryable(req) /\ status # "denied"
    => [status |-> status, object |-> result] =
         IF ~ modern /\ WantsLink(req) THEN Error("reparse")
         ELSE Native(req.path, req.dontReparse, req.openReparse)
=============================================================================
