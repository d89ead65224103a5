--------------------------- MODULE CompletionPort ----------------------------
(***************************************************************************)
(* xp_GetQueuedCompletionStatusEx: the Ex form built from the plain        *)
(* GetQueuedCompletionStatus, which takes one packet per call and returns  *)
(* FALSE both when it took none and when it took the packet of a failed    *)
(* I/O.  The steps of a call are separate, so that other threads run       *)
(* between any two of them.                                                *)
(***************************************************************************)
EXTENDS Integers, Sequences

CONSTANTS Threads, Packets, Room, Timed,
          Failed,    \* packets of an I/O that failed
          Wakeups,   \* packets posted without an OVERLAPPED: netpollBreak
          NoPacket

VARIABLES queue, posted, closed,
          pc,        \* where a thread is in the polyfill
          scratch,   \* what the plain call stored in key, bytes, overlapped
          plain,     \* what the plain call returned
          err,       \* the thread's last error
          res,       \* what the polyfill returned and wrote to entries
          got

vars == <<queue, posted, closed, pc, scratch, plain, err, res, got>>

ASSUME PortAssumption == /\ Room \in [Threads -> Nat]
                         /\ Failed \subseteq Packets /\ Wakeups \subseteq Packets
                         /\ Failed \cap Wakeups = {}
                         /\ NoPacket \notin Packets

NoResult == [ok |-> FALSE, entries |-> <<>>]

Init == /\ queue = <<>> /\ posted = {} /\ closed = FALSE
        /\ pc = [t \in Threads |-> "idle"]
        /\ scratch = [t \in Threads |-> NoPacket]
        /\ plain = [t \in Threads |-> FALSE]
        /\ err = [t \in Threads |-> "none"]
        /\ res = [t \in Threads |-> NoResult]
        /\ got = {}

----------------------------------------------------------------------------
(* The port. *)

Post(p) == /\ ~ closed /\ p \notin posted
           /\ posted' = posted \cup {p}
           /\ queue' = Append(queue, p)
           /\ UNCHANGED <<closed, pc, scratch, plain, err, res, got>>

Close == /\ ~ closed
         /\ closed' = TRUE /\ queue' = <<>>
         /\ UNCHANGED <<posted, pc, scratch, plain, err, res, got>>

----------------------------------------------------------------------------
(* The polyfill. *)

Enter(t) == /\ pc[t] = "idle"
            /\ pc' = [pc EXCEPT ![t] = "entered"]
            /\ UNCHANGED <<queue, posted, closed, scratch, plain, err, res, got>>

\* Mutated form: no room for an entry is not noticed.
CallPlainUnchecked(t) ==
  /\ pc[t] = "entered"
  /\ scratch' = [scratch EXCEPT ![t] = NoPacket]
  /\ pc' = [pc EXCEPT ![t] = "plain"]
  /\ UNCHANGED <<queue, posted, closed, plain, err, res, got>>

\* There is room for an entry: clear the overlapped pointer, call the plain form.
CallPlain(t) == /\ pc[t] = "entered" /\ Room[t] # 0
                /\ scratch' = [scratch EXCEPT ![t] = NoPacket]
                /\ pc' = [pc EXCEPT ![t] = "plain"]
                /\ UNCHANGED <<queue, posted, closed, plain, err, res, got>>

\* gqe_fail: FALSE, and whatever last error the thread had before.
NoRoom(t) == /\ pc[t] = "entered" /\ Room[t] = 0
             /\ res' = [res EXCEPT ![t] = NoResult]
             /\ pc' = [pc EXCEPT ![t] = "returned"]
             /\ UNCHANGED <<queue, posted, closed, scratch, plain, err, got>>

\* The plain call takes the packet at the head; TRUE unless its I/O failed, in
\* which case the last error is that of the I/O.
PlainTakes(t) == /\ pc[t] = "plain" /\ queue # <<>>
                 /\ scratch' = [scratch EXCEPT ![t] = Head(queue)]
                 /\ queue' = Tail(queue)
                 /\ plain' = [plain EXCEPT ![t] = Head(queue) \notin Failed]
                 /\ err' = [err EXCEPT ![t] = IF Head(queue) \in Failed THEN "io" ELSE @]
                 /\ pc' = [pc EXCEPT ![t] = "back"]
                 /\ UNCHANGED <<posted, closed, res, got>>

\* FALSE and a null overlapped pointer: nothing was taken.
PlainTakesNone(t) == /\ pc[t] = "plain"
                     /\ \/ /\ queue = <<>> /\ t \in Timed
                           /\ err' = [err EXCEPT ![t] = "timeout"]
                        \/ /\ closed
                           /\ err' = [err EXCEPT ![t] = "closed"]
                     /\ plain' = [plain EXCEPT ![t] = FALSE]
                     /\ pc' = [pc EXCEPT ![t] = "back"]
                     /\ UNCHANGED <<queue, posted, closed, scratch, res, got>>

\* What the polyfill makes of it: a FALSE that comes with an OVERLAPPED was a
\* dequeue, and so is a TRUE without one.
\* Mutated forms: the returned BOOL decides alone, or the OVERLAPPED does.
TookByReturn(t) == plain[t]

TookByOverlapped(t) == scratch[t] \in Packets \ Wakeups

Took(t) == plain[t] \/ scratch[t] \in Packets \ Wakeups

Outcome(t) == IF Took(t) THEN [ok |-> TRUE, entries |-> <<scratch[t]>>] ELSE NoResult

\* gqe_fill, or gqe_unwind
Return(t) == /\ pc[t] = "back"
             /\ res' = [res EXCEPT ![t] = Outcome(t)]
             /\ pc' = [pc EXCEPT ![t] = "returned"]
             /\ UNCHANGED <<queue, posted, closed, scratch, plain, err, got>>

\* netpoll handles the entries if the call returned TRUE, and polls again.  The
\* last error stays the thread's, unless another call sets it meanwhile.
Take(t) == /\ pc[t] = "returned"
           /\ got' = got \cup {res[t].entries[i] : i \in DOMAIN res[t].entries}
           /\ res' = [res EXCEPT ![t] = NoResult]
           /\ \E e \in {err[t], "other"} : err' = [err EXCEPT ![t] = e]
           /\ pc' = [pc EXCEPT ![t] = "idle"]
           /\ UNCHANGED <<queue, posted, closed, scratch, plain>>

Step(t) == \/ Enter(t) \/ CallPlain(t) \/ NoRoom(t) \/ PlainTakes(t)
           \/ PlainTakesNone(t) \/ Return(t) \/ Take(t)

Next == (\E p \in Packets : Post(p)) \/ Close \/ \E t \in Threads : Step(t)

Spec == Init /\ [][Next]_vars

\* The scheduler of the runtime never stops polling the network.
FairSpec == Spec /\ \A t \in Threads : WF_vars(Step(t))

----------------------------------------------------------------------------
(* The refinement mapping: a call is over for the abstract port as soon as *)
(* the plain call is, and what it will return is then already determined.  *)

View(t) ==
  LET r == IF pc[t] = "back" THEN Outcome(t) ELSE res[t]
  IN  [st |-> IF pc[t] = "idle" THEN "idle"
              ELSE IF pc[t] \in {"back", "returned"} THEN "returned" ELSE "waiting",
       ok |-> r.ok, entries |-> r.entries, err |-> err[t]]

AbstractCall == [t \in Threads |-> View(t)]

Abstract == INSTANCE CompletionQueue WITH call <- AbstractCall

----------------------------------------------------------------------------
(* Properties. *)

TypeOK == /\ queue \in Seq(Packets) /\ posted \subseteq Packets /\ closed \in BOOLEAN
          /\ pc \in [Threads -> {"idle", "entered", "plain", "back", "returned"}]
          /\ scratch \in [Threads -> Packets \cup {NoPacket}]
          /\ plain \in [Threads -> BOOLEAN]
          /\ err \in [Threads -> Abstract!Errors]
          /\ res \in [Threads -> [ok : BOOLEAN, entries : {<<>>} \cup {<<p>> : p \in Packets}]]
          /\ got \subseteq Packets

\* The emulation keeps every promise of the Ex form: order, room, nothing taken
\* by a call that returns FALSE, and, for a call with room, the last error that
\* belongs to the outcome.  A call without room returns FALSE and leaves the last
\* error alone, so that its caller may read an earlier call's WAIT_TIMEOUT; the
\* abstract port promises no more, and the runtime never makes such a call.
ImplementsEx == Abstract!Spec

InPort == {queue[i] : i \in DOMAIN queue}
InCall(t) == IF pc[t] = "back" THEN {scratch[t]} \ {NoPacket}
             ELSE {res[t].entries[i] : i \in DOMAIN res[t].entries}

\* At any moment a posted packet is in one place: in the port, in the hands of
\* one call, or with the caller.  None vanishes in between and none is handed
\* out twice, however the calls of several threads interleave.
PacketsAccounted ==
  /\ ~ closed => posted = InPort \cup got \cup UNION {InCall(t) : t \in Threads}
  /\ \A i, j \in DOMAIN queue : i # j => queue[i] # queue[j]
  /\ got \cap InPort = {}
  /\ \A t \in Threads : InCall(t) \cap (got \cup InPort) = {}
  /\ \A t, u \in Threads : t # u => InCall(t) \cap InCall(u) = {}

\* While some thread polls with room for an entry, whatever is posted reaches a
\* caller: completions of failed I/O and the wakeups of netpollBreak included.
EveryPacketArrives ==
  \A p \in Packets : p \in posted ~> p \in got \/ closed
=============================================================================
