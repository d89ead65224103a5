-------------------------- MODULE MCCompletionPort ---------------------------
(***************************************************************************)
(* Instance of CompletionPort: a poller without a timeout, one with, and a *)
(* caller whose entry array is empty; packets of all three kinds.          *)
(***************************************************************************)
EXTENDS CompletionPort

CONSTANTS blocking, timed, roomless, done, failed, wakeup

MCThreads == {blocking, timed, roomless}
MCPackets == {done, failed, wakeup}
MCRoom == [t \in MCThreads |-> IF t = roomless THEN 0 ELSE 2]
=============================================================================
