----------------------------- MODULE OverlappedIo -----------------------------
(***************************************************************************)
(* The file information calls on top of ntdll: a directory query on a      *)
(* handle opened for overlapped I/O may answer STATUS_PENDING, and finish  *)
(* then waits on the file handle itself.  The kernel clears that event     *)
(* when an I/O on the handle starts and sets it when one completes,        *)
(* whosever it is.  A lister reads a directory the way package os does, a  *)
(* querier gets or sets attributes and asks for the volume, a watcher has  *)
(* I/O of its own.                                                         *)
(***************************************************************************)
EXTENDS Integers, Sequences, SequencesExt

CONSTANTS Listers, Queriers, Watchers,
          Handles, handle,    \* thread -> the handle it works on
          Sizes,              \* entries a directory may have
          Batch               \* entries a query returns at most

Threads == Listers \cup Queriers \cup Watchers

ASSUME ThreadAssumption == /\ handle \in [Threads -> Handles]
                           /\ Sizes \subseteq Nat /\ Batch \in Nat \ {0}
ASSUME OneRole == /\ Listers \cap Queriers = {} /\ Listers \cap Watchers = {}
                  /\ Queriers \cap Watchers = {}
ASSUME OneLister == \* package os lists a directory with its file locked
    \A s, t \in Listers : handle[s] = handle[t] => s = t

VARIABLES size,       \* the directories' entries, which do not change
          signalled,  \* the file objects' events
          cursor,     \* entries the kernel has returned; -1 before the first
          pending,    \* threads whose I/O the kernel still works on
          pc, class,
          status,     \* what the NT call returned
          iosb,       \* the polyfill's status block, "zero" until written
          batch,      \* entries in the caller's buffer
          err,        \* the thread's last error
          seen, listed,
          asked, got  \* the volume information asked for and handed over

\* GetVolumeInformationByHandleW makes at most two queries: for the serial number
\* and label, and for the flags, the component limit and the file system's name.
Parts == {"volume", "attributes"}

volume == <<asked, got>>
kernel == <<size, signalled, cursor, pending>>
vars == <<size, signalled, cursor, pending, pc, class, status, iosb, batch, err, seen, listed, volume>>

Init == /\ size \in [Handles -> Sizes]
        /\ signalled = [h \in Handles |-> FALSE]
        /\ cursor = [h \in Handles |-> -1]
        /\ pending = {}
        /\ pc = [t \in Threads |-> "idle"]
        /\ class = [t \in Threads |-> "none"]
        /\ status = [t \in Threads |-> "none"]
        /\ iosb = [t \in Threads |-> "zero"]
        /\ batch = [t \in Threads |-> <<>>]
        /\ err = [t \in Threads |-> "none"]
        /\ seen = [t \in Listers |-> <<>>]
        /\ listed = [t \in Listers |-> "no"]
        /\ asked = [t \in Queriers |-> {}] /\ got = [t \in Queriers |-> {}]

----------------------------------------------------------------------------
(* The callers. *)

Enter(t, c) == /\ pc[t] = "idle"
               /\ pc' = [pc EXCEPT ![t] = "issue"]
               /\ class' = [class EXCEPT ![t] = c]
               /\ UNCHANGED <<kernel, status, iosb, batch, err>>

\* os reads with the restarting class first and the plain one from then on.
StartListing(t) == /\ Enter(t, "restart")
                   /\ listed[t] # "reading"
                   /\ seen' = [seen EXCEPT ![t] = <<>>]
                   /\ listed' = [listed EXCEPT ![t] = "reading"]
                   /\ UNCHANGED volume

GoOnListing(t) == /\ Enter(t, "next")
                  /\ listed[t] = "reading"
                  /\ UNCHANGED <<seen, listed, volume>>

\* "query" is any class with a counterpart in ntdll, to get or to set.
Ask(t, c) == Enter(t, c) /\ UNCHANGED <<seen, listed, volume>>

AskVolume(t) == /\ Enter(t, "volume")
                /\ \E ps \in SUBSET Parts : asked' = [asked EXCEPT ![t] = ps]
                /\ UNCHANGED <<seen, listed, got>>

----------------------------------------------------------------------------
(* ntdll and the kernel. *)

Known == {"restart", "next", "query"}

\* Mutated form: the restarting class is passed on as the plain one.
NeverRestarts(c) == FALSE
Restarts(c) == c = "restart"

\* What a directory query finds, and where it leaves the handle.
Position(t) == IF Restarts(class[t]) THEN -1 ELSE cursor[handle[t]]

Found(t) == LET p == IF Position(t) < 0 THEN 0 ELSE Position(t)
                n == size[handle[t]] - p
            IN  [i \in 1 .. (IF n < Batch THEN n ELSE Batch) |-> p + i]

DirectoryStatus(t) ==
    IF Found(t) # <<>> THEN "success"
    ELSE IF Position(t) < 0 THEN "no such file" ELSE "no more files"

\* The kernel has done t's I/O, well or with an error.
Finish(t, s) ==
    LET directory == class[t] \in {"restart", "next"} IN
    /\ iosb' = [iosb EXCEPT ![t] = s]
    /\ batch' = [batch EXCEPT ![t] = IF directory /\ s = "success" THEN Found(t) ELSE <<>>]
    /\ cursor' = IF ~ directory \/ s = "failed" THEN cursor
                 ELSE [cursor EXCEPT ![handle[t]] =
                         (IF Position(t) < 0 THEN 0 ELSE Position(t)) + Len(Found(t))]

Outcome(t) == {"failed", IF class[t] \in {"restart", "next"} THEN DirectoryStatus(t)
                         ELSE "success"}

\* A call that is turned down before any I/O starts.
Rejected(t) == /\ status' = [status EXCEPT ![t] = "failed"]
               /\ UNCHANGED <<kernel, iosb, batch>>

\* An attribute query waits inside the kernel, on an event of its own.
AtOnce(t) == \E s \in Outcome(t) :
                /\ Finish(t, s)
                /\ status' = [status EXCEPT ![t] = s]
                /\ signalled' = IF class[t] = "query" THEN signalled
                                ELSE [signalled EXCEPT ![handle[t]] = TRUE]
                /\ UNCHANGED <<size, pending>>

Later(t) == /\ class[t] # "query"
            /\ status' = [status EXCEPT ![t] = "pending"]
            /\ signalled' = [signalled EXCEPT ![handle[t]] = FALSE]
            /\ pending' = pending \cup {t}
            /\ UNCHANGED <<size, cursor, iosb, batch>>

Complete(t) == /\ t \in pending
               /\ \E s \in Outcome(t) : Finish(t, s)
               /\ pending' = pending \ {t}
               /\ signalled' = [signalled EXCEPT ![handle[t]] = TRUE]
               /\ UNCHANGED <<size, pc, class, status, err, seen, listed, volume>>

----------------------------------------------------------------------------
(* The polyfill. *)

Unknown(t) == /\ pc[t] = "issue" /\ class[t] = "unknown"
              /\ err' = [err EXCEPT ![t] = "invalid parameter"]
              /\ pc' = [pc EXCEPT ![t] = "return"]
              /\ UNCHANGED <<kernel, class, status, iosb, batch, seen, listed, volume>>

Issue(t) == /\ pc[t] = "issue" /\ class[t] \in Known \cup {"watch"}
            /\ Rejected(t) \/ AtOnce(t) \/ Later(t)
            /\ pc' = [pc EXCEPT ![t] = IF class[t] = "watch" THEN "watching" ELSE "finish"]
            /\ UNCHANGED <<class, err, seen, listed, volume>>

Remaining(t) == asked[t] \ got[t]

\* STATUS_BUFFER_OVERFLOW cuts a name and leaves the rest valid.
VolumeOk(s) == s \in {"success", "overflow"}

\* The kernel waits for these queries itself.
QueryVolume(t) ==
    /\ pc[t] = "issue" /\ class[t] = "volume" /\ Remaining(t) # {}
    /\ LET part == IF "volume" \in Remaining(t) THEN "volume" ELSE "attributes"
       IN  \E s \in {"success", "overflow", "failed"} :
              /\ status' = [status EXCEPT ![t] = s]
              /\ IF VolumeOk(s) THEN got' = [got EXCEPT ![t] = @ \cup {part}] /\ UNCHANGED pc
                 ELSE pc' = [pc EXCEPT ![t] = "finish"] /\ UNCHANGED got
    /\ UNCHANGED <<kernel, class, iosb, batch, err, seen, listed, asked>>

VolumeDone(t) == /\ pc[t] = "issue" /\ class[t] = "volume" /\ Remaining(t) = {}
                 /\ pc' = [pc EXCEPT ![t] = "return"]
                 /\ UNCHANGED <<kernel, class, status, iosb, batch, err, seen, listed, volume>>

\* Mutated forms: finish never waits; finish always waits.
NeverWaits(s) == FALSE
AlwaysWaits(s) == TRUE
Waits(s) == s = "pending"

Wait(t) == /\ pc[t] = "finish" /\ Waits(status[t])
           /\ signalled[handle[t]]
           /\ status' = [status EXCEPT ![t] = iosb[t]]
           /\ pc' = [pc EXCEPT ![t] = "convert"]
           /\ UNCHANGED <<kernel, class, iosb, batch, err, seen, listed, volume>>

NoWait(t) == /\ pc[t] = "finish" /\ ~ Waits(status[t])
             /\ pc' = [pc EXCEPT ![t] = "convert"]
             /\ UNCHANGED <<kernel, class, status, iosb, batch, err, seen, listed, volume>>

\* Mutated form: only severities below a warning count as success.
SucceededLoosely(s) == s \notin {"failed", "no such file"}
\* A status block nobody has written holds STATUS_SUCCESS; so does, by its
\* sign, STATUS_PENDING.
Succeeded(s) == s \in {"success", "zero", "pending"}

DosError(s) == CASE s = "no more files" -> "no more files"
                 [] s = "no such file" -> "file not found"
                 [] OTHER -> "other"

Convert(t) == /\ pc[t] = "convert"
              /\ err' = [err EXCEPT ![t] = IF Succeeded(status[t]) THEN "none"
                                           ELSE DosError(status[t])]
              /\ pc' = [pc EXCEPT ![t] = "return"]
              /\ UNCHANGED <<kernel, class, status, iosb, batch, seen, listed, volume>>

\* A call's variables are gone with its stack frame.
Leave(t) == /\ pc' = [pc EXCEPT ![t] = "idle"]
            /\ class' = [class EXCEPT ![t] = "none"]
            /\ status' = [status EXCEPT ![t] = "none"]
            /\ iosb' = [iosb EXCEPT ![t] = "zero"]
            /\ batch' = [batch EXCEPT ![t] = <<>>]
            /\ err' = [err EXCEPT ![t] = "none"]
            /\ UNCHANGED kernel

\* The caller looks at what it got; os ends a listing on either error.
Return(t) == /\ pc[t] = "return"
             /\ Leave(t)
             /\ IF t \in Listers
                THEN /\ seen' = [seen EXCEPT ![t] = @ \o batch[t]]
                     /\ listed' = [listed EXCEPT ![t] =
                           CASE err[t] = "none" -> "reading"
                             [] err[t] \in {"no more files", "file not found"} -> "all"
                             [] OTHER -> "failed"]
                ELSE UNCHANGED <<seen, listed>>
             /\ IF t \in Queriers
                THEN /\ asked' = [asked EXCEPT ![t] = {}]
                     /\ got' = [got EXCEPT ![t] = {}]
                ELSE UNCHANGED volume

\* The watcher comes back when its own I/O is done, by an event of its own.
Watched(t) == /\ pc[t] = "watching" /\ t \notin pending
              /\ Leave(t)
              /\ UNCHANGED <<seen, listed, volume>>

Step(t) == \/ Unknown(t) \/ Issue(t) \/ QueryVolume(t) \/ VolumeDone(t)
           \/ Wait(t) \/ NoWait(t) \/ Convert(t) \/ Return(t)

Next == \/ \E t \in Listers : StartListing(t) \/ GoOnListing(t)
        \/ \E t \in Queriers : \E c \in {"query", "unknown"} : Ask(t, c)
        \/ \E t \in Queriers : AskVolume(t)
        \/ \E t \in Watchers : Ask(t, "watch") \/ Watched(t)
        \/ \E t \in Threads : Step(t) \/ Complete(t)

Spec == Init /\ [][Next]_vars

\* Threads run and the file system answers; a watch may last for ever.
FairSpec == Spec /\ \A t \in Listers \cup Queriers : WF_vars(Step(t)) /\ WF_vars(Complete(t))

----------------------------------------------------------------------------
(* Properties. *)

TypeOK ==
  /\ size \in [Handles -> Sizes]
  /\ signalled \in [Handles -> BOOLEAN]
  /\ \A h \in Handles : cursor[h] \in -1 .. size[h]
  /\ pending \subseteq Threads
  /\ pc \in [Threads -> {"idle", "issue", "finish", "convert", "return", "watching"}]
  /\ \A t \in Threads : pc[t] = "convert" => status[t] # "pending"
  /\ err \in [Threads -> {"none", "no more files", "file not found", "other",
                          "invalid parameter"}]
  /\ \A t \in Queriers : got[t] \subseteq asked[t] /\ asked[t] \subseteq Parts
  /\ listed \in [Listers -> {"no", "reading", "all", "failed"}]

\* The status block and the buffer lie on the stack of the caller and are the
\* kernel's until the I/O is done: finish never returns before that.
NothingPendingBehind == \A t \in Listers \cup Queriers : t \in pending => pc[t] = "finish"

\* A listing is the directory's entries in order; what a reader takes for all
\* of them is all of them, and an error in between never looks like the end.
ListingRight ==
  \A t \in Listers :
     listed[t] # "no" =>
       LET all == [i \in 1 .. size[handle[t]] |-> i]
       IN  IsPrefix(seen[t], all) /\ (listed[t] = "all" => seen[t] = all)

\* A success means there is something to read: entries of the directory, or all
\* that was asked of the volume, though the second query may fail after the first.
SuccessHasData ==
  /\ \A t \in Listers : pc[t] = "return" /\ err[t] = "none" => batch[t] # <<>>
  /\ \A t \in Queriers :
        pc[t] = "return" /\ class[t] = "volume" /\ err[t] = "none" => got[t] = asked[t]

\* Every query comes back.
EveryQueryReturns == \A t \in Listers \cup Queriers : pc[t] = "finish" ~> pc[t] = "idle"
=============================================================================
