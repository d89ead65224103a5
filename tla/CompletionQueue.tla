--------------------------- MODULE CompletionQueue ---------------------------
(***************************************************************************)
(* What a caller of GetQueuedCompletionStatusEx may rely on, whoever       *)
(* implements it: packets leave the port in order, each of them once, a    *)
(* call that returns FALSE has taken none, no call returns more entries    *)
(* than it has room for, and the last error tells a timeout from a closed  *)
(* port.  A call without room for an entry tells nothing: the last error   *)
(* stays what it was.  The Go runtime's netpoll is the caller.             *)
(***************************************************************************)
EXTENDS Integers, Sequences

CONSTANTS Threads,   \* threads that poll the port
          Packets,   \* completion packets, each posted at most once
          Room,      \* [Threads -> Nat]: the length of a thread's entry array
          Timed      \* the threads that poll with a finite timeout

VARIABLES queue,     \* packets in the port
          posted,    \* packets ever posted
          closed,    \* the port's handle has been closed
          call,      \* the call each thread is in
          got        \* packets the callers have been handed

vars == <<queue, posted, closed, call, got>>

\* The last error belongs to the thread and outlives the call.
Errors == {"none", "timeout", "closed", "io", "other"}

Idle(err) == [st |-> "idle", ok |-> FALSE, entries |-> <<>>, err |-> err]
Waiting(err) == [st |-> "waiting", ok |-> FALSE, entries |-> <<>>, err |-> err]
Returned(ok, entries, err) ==
  [st |-> "returned", ok |-> ok, entries |-> entries, err |-> err]

Init == /\ queue = <<>> /\ posted = {} /\ closed = FALSE
        /\ call = [t \in Threads |-> Idle("none")]
        /\ got = {}

\* An I/O completes or fails, or the runtime wakes its poller up.
Post(p) == /\ ~ closed /\ p \notin posted
           /\ posted' = posted \cup {p}
           /\ queue' = Append(queue, p)
           /\ UNCHANGED <<closed, call, got>>

Close == /\ ~ closed
         /\ closed' = TRUE /\ queue' = <<>>
         /\ UNCHANGED <<posted, call, got>>

Enter(t) == /\ call[t].st = "idle"
            /\ call' = [call EXCEPT ![t] = Waiting(call[t].err)]
            /\ UNCHANGED <<queue, posted, closed, got>>

\* One to Room[t] packets, in the order they were posted.  The last error of a
\* call that returns TRUE says nothing.
Dequeue(t) == /\ call[t].st = "waiting"
              /\ \E k \in 1 .. Room[t], err \in Errors :
                   /\ k <= Len(queue)
                   /\ call' = [call EXCEPT ![t] = Returned(TRUE, SubSeq(queue, 1, k), err)]
                   /\ queue' = SubSeq(queue, k + 1, Len(queue))
              /\ UNCHANGED <<posted, closed, got>>

TimeOut(t) == /\ call[t].st = "waiting" /\ t \in Timed
              /\ queue = <<>>
              /\ call' = [call EXCEPT ![t] = Returned(FALSE, <<>>, "timeout")]
              /\ UNCHANGED <<queue, posted, closed, got>>

Refuse(t) == /\ call[t].st = "waiting"
             /\ \/ closed /\ call' = [call EXCEPT ![t] = Returned(FALSE, <<>>, "closed")]
                \/ /\ Room[t] = 0
                   /\ call' = [call EXCEPT ![t] = Returned(FALSE, <<>>, call[t].err)]
             /\ UNCHANGED <<queue, posted, closed, got>>

\* The caller handles the entries and will call again; what it does until then
\* may set another last error.
Take(t) == /\ call[t].st = "returned"
           /\ got' = got \cup {call[t].entries[i] : i \in DOMAIN call[t].entries}
           /\ \E err \in Errors : call' = [call EXCEPT ![t] = Idle(err)]
           /\ UNCHANGED <<queue, posted, closed>>

Next == \/ \E p \in Packets : Post(p)
        \/ Close
        \/ \E t \in Threads : Enter(t) \/ Dequeue(t) \/ TimeOut(t) \/ Refuse(t) \/ Take(t)

Spec == Init /\ [][Next]_vars
=============================================================================
