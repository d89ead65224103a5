-------------------------- MODULE OverlappedIoProofs --------------------------
(***************************************************************************)
(* The safety properties of OverlappedIo for any number of threads,        *)
(* handles and entries, where no I/O of the program's own is left pending  *)
(* on a handle that a directory is read from.                              *)
(***************************************************************************)
EXTENDS OverlappedIo, SequenceTheorems, TLAPS

\* The condition, which finish in the shim silently relies on.
NotShared == \A l \in Listers, w \in Watchers : handle[l] # handle[w]

----------------------------------------------------------------------------
(* The inductive invariant. *)

Upto(k) == [i \in 1 .. k |-> i]
Behind(k, m) == [i \in 1 .. m |-> k + i]

Statuses == {"none", "zero", "success", "overflow", "failed", "no such file",
             "no more files", "pending"}

Shapes ==
  /\ size \in [Handles -> Sizes] /\ signalled \in [Handles -> BOOLEAN]
  /\ cursor \in [Handles -> Int] /\ pending \subseteq Threads
  /\ pc \in [Threads -> {"idle", "issue", "finish", "convert", "return", "watching"}]
  /\ class \in [Threads -> {"none", "restart", "next", "query", "unknown", "volume", "watch"}]
  /\ status \in [Threads -> Statuses] /\ iosb \in [Threads -> Statuses]
  /\ batch \in [Threads -> Seq(Nat)]
  /\ err \in [Threads -> {"none", "no more files", "file not found", "other",
                          "invalid parameter"}]
  /\ seen \in [Listers -> Seq(Nat)]
  /\ listed \in [Listers -> {"no", "reading", "all", "failed"}]
  /\ asked \in [Queriers -> SUBSET Parts] /\ got \in [Queriers -> SUBSET Parts]

CursorInv == \A h \in Handles : cursor[h] \in -1 .. size[h]

\* The kernel clears the event when an I/O starts; only its own end sets it.
PendingUnsignalled == \A t \in Listers : t \in pending => ~ signalled[handle[t]]

\* Where the next query of a lister begins.
Ready(t) == IF class[t] = "restart" THEN seen[t] = <<>>
            ELSE cursor[handle[t]] = Len(seen[t])

\* What a query that ended with status s has left in the caller's buffer.
Done(t, s) ==
  /\ s \in {"success", "failed", "no such file", "no more files"}
  /\ IF s = "success"
     THEN /\ cursor[handle[t]] > Len(seen[t])
          /\ batch[t] = Behind(Len(seen[t]), cursor[handle[t]] - Len(seen[t]))
     ELSE batch[t] = <<>>
  /\ s \in {"no such file", "no more files"} => Len(seen[t]) = size[handle[t]]

\* The same once the status has become an error code.
Returned(t) ==
  /\ IF err[t] = "none"
     THEN /\ cursor[handle[t]] > Len(seen[t])
          /\ batch[t] = Behind(Len(seen[t]), cursor[handle[t]] - Len(seen[t]))
     ELSE batch[t] = <<>>
  /\ err[t] \in {"no more files", "file not found"} => Len(seen[t]) = size[handle[t]]

SeenOK(t) == /\ seen[t] = Upto(Len(seen[t])) /\ Len(seen[t]) <= size[handle[t]]
             /\ listed[t] = "all" => Len(seen[t]) = size[handle[t]]

StageOK(t) ==
  /\ pc[t] = "idle" => /\ batch[t] = <<>> /\ err[t] = "none" /\ t \notin pending
                       /\ listed[t] = "reading" => cursor[handle[t]] = Len(seen[t])
  /\ pc[t] # "idle" => listed[t] = "reading" /\ class[t] \in {"restart", "next"}
  /\ pc[t] = "issue" => Ready(t) /\ batch[t] = <<>> /\ t \notin pending
  /\ t \in pending => pc[t] = "finish" /\ status[t] = "pending" /\ Ready(t)
  /\ pc[t] = "finish" /\ t \notin pending =>
       Done(t, IF status[t] = "pending" THEN iosb[t] ELSE status[t])
  /\ pc[t] = "convert" => Done(t, status[t])
  /\ pc[t] = "return" => Returned(t)

ListerOK(t) == pc[t] # "watching" /\ SeenOK(t) /\ StageOK(t)

\* A query for attributes never pends, and one for the volume waits in the kernel.
QuerierOK(t) ==
  /\ t \notin pending /\ status[t] # "pending" /\ got[t] \subseteq asked[t]
  /\ pc[t] = "idle" => got[t] = {}
  /\ class[t] \in {"none", "query", "unknown", "volume"}
  /\ class[t] = "volume" /\ pc[t] \in {"finish", "convert"} => status[t] = "failed"
  /\ class[t] = "volume" /\ pc[t] = "return" /\ err[t] = "none" => got[t] = asked[t]

WatcherOK(t) == /\ pc[t] \in {"idle", "issue", "watching"}
                /\ class[t] = IF pc[t] = "idle" THEN "none" ELSE "watch"

ThreadsInv == /\ \A t \in Listers : ListerOK(t)
              /\ \A t \in Queriers : QuerierOK(t)
              /\ \A t \in Watchers : WatcherOK(t)

IInv == Shapes /\ CursorInv /\ PendingUnsignalled /\ ThreadsInv
----------------------------------------------------------------------------
(* Sequences of entries. *)

LEMMA BehindLen ==
  ASSUME NEW k \in Nat, NEW m \in Nat
  PROVE  Behind(k, m) \in Seq(Nat) /\ Len(Behind(k, m)) = m
BY DEF Behind

LEMMA UptoLen ==
  ASSUME NEW k \in Nat PROVE Upto(k) \in Seq(Nat) /\ Len(Upto(k)) = k
BY DEF Upto

\* What comes next behind the first entries makes more first entries.
LEMMA UptoBehind ==
  ASSUME NEW k \in Nat, NEW m \in Nat
  PROVE  Upto(k) \o Behind(k, m) = Upto(k + m)
<1> DEFINE all == Upto(k) \o Behind(k, m)
<1>1. all \in Seq(Nat) /\ Len(all) = k + m
  BY BehindLen, UptoLen
<1>2. \A i \in 1 .. k + m : all[i] = Upto(k + m)[i]
  BY BehindLen, UptoLen DEF Upto, Behind
<1> HIDE DEF all
<1>3. Upto(k + m) \in Seq(Nat) /\ Len(Upto(k + m)) = k + m
  BY UptoLen
<1>4. all = Upto(k + m)
  BY <1>1, <1>2, <1>3, SeqEqual
<1> QED BY <1>4 DEF all

LEMMA UptoPrefix ==
  ASSUME NEW k \in Nat, NEW n \in Nat, k <= n
  PROVE  IsPrefix(Upto(k), Upto(n))
<1>1. Len(Upto(k)) = k /\ Len(Upto(n)) = n
  BY UptoLen
<1>2. SubSeq(Upto(k), 1, k) = SubSeq(Upto(n), 1, k)
  BY <1>1, UptoLen DEF Upto
<1> QED BY <1>1, <1>2 DEF IsPrefix

----------------------------------------------------------------------------
(* What one thread does, the others do not see. *)

Alone(t) ==
  /\ size' = size
  /\ \A u \in Threads \ {t} :
       /\ pc'[u] = pc[u] /\ class'[u] = class[u] /\ status'[u] = status[u]
       /\ iosb'[u] = iosb[u] /\ batch'[u] = batch[u] /\ err'[u] = err[u]
       /\ u \in pending' <=> u \in pending
  /\ \A u \in Listers \ {t} : /\ seen'[u] = seen[u] /\ listed'[u] = listed[u]
                              /\ cursor'[handle[u]] = cursor[handle[u]]
  /\ \A u \in Queriers \ {t} : asked'[u] = asked[u] /\ got'[u] = got[u]

\* What a lister's part of the invariant depends on.
LEMMA ListerFrame ==
  ASSUME NEW u \in Listers, ListerOK(u), size' = size,
         pc'[u] = pc[u], class'[u] = class[u], status'[u] = status[u],
         iosb'[u] = iosb[u], batch'[u] = batch[u], err'[u] = err[u],
         u \in pending' <=> u \in pending, seen'[u] = seen[u], listed'[u] = listed[u],
         cursor'[handle[u]] = cursor[handle[u]]
  PROVE  ListerOK(u)'
<1>1. SeenOK(u) /\ StageOK(u) /\ pc[u] # "watching"
  BY DEF ListerOK
<1>2. SeenOK(u)'
  BY <1>1 DEF SeenOK
<1>3. Ready(u) => Ready(u)'
  BY DEF Ready
<1>4. Returned(u) => Returned(u)'
  BY DEF Returned
<1>5. Done(u, status[u]) => Done(u, status[u])'
  BY DEF Done
<1>6. Done(u, iosb[u]) => Done(u, iosb[u])'
  BY DEF Done
<1>7. StageOK(u)'
  <2>1. pc[u] = "finish" /\ u \notin pending =>
          Done(u, IF status[u] = "pending" THEN iosb[u] ELSE status[u])'
    <3>1. CASE status[u] = "pending"
      BY <1>1, <1>6, <3>1 DEF StageOK
    <3>2. CASE status[u] # "pending"
      BY <1>1, <1>5, <3>2 DEF StageOK
    <3> QED BY <3>1, <3>2
  <2> QED BY <1>1, <1>3, <1>4, <1>5, <2>1 DEF StageOK
<1> QED BY <1>1, <1>2, <1>7 DEF ListerOK

LEMMA OthersKept ==
  ASSUME ThreadsInv, NEW t \in Threads, Alone(t),
         t \in Listers => ListerOK(t)', t \in Queriers => QuerierOK(t)',
         t \in Watchers => WatcherOK(t)'
  PROVE  ThreadsInv'
<1>1. ASSUME NEW u \in Listers, u # t PROVE ListerOK(u)'
  <2>1. u \in Threads \ {t}
    BY <1>1 DEF Threads
  <2>2. ListerOK(u)
    BY DEF ThreadsInv
  <2> QED BY <1>1, <2>1, <2>2, ListerFrame DEF Alone
<1>2. ASSUME NEW u \in Queriers, u # t PROVE QuerierOK(u)'
  <2>1. u \in Threads \ {t}
    BY <1>2 DEF Threads
  <2>2. QuerierOK(u)
    BY DEF ThreadsInv
  <2> QED BY <1>2, <2>1, <2>2 DEF Alone, QuerierOK
<1>3. ASSUME NEW u \in Watchers, u # t PROVE WatcherOK(u)'
  <2>1. u \in Threads \ {t}
    BY <1>3 DEF Threads
  <2>2. WatcherOK(u)
    BY DEF ThreadsInv
  <2> QED BY <1>3, <2>1, <2>2 DEF Alone, WatcherOK
<1> QED BY <1>1, <1>2, <1>3 DEF ThreadsInv

\* Steps outside the kernel.
LEMMA KernelUntouched ==
  ASSUME IInv, UNCHANGED kernel
  PROVE  CursorInv' /\ PendingUnsignalled'
BY DEF IInv, kernel, CursorInv, PendingUnsignalled

LEMMA Roles ==
  /\ Listers \subseteq Threads /\ Queriers \subseteq Threads /\ Watchers \subseteq Threads
  /\ \A t \in Listers : t \notin Queriers /\ t \notin Watchers
  /\ \A t \in Queriers : t \notin Watchers
  /\ \A t \in Threads : t \in Listers \/ t \in Queriers \/ t \in Watchers
BY OneRole DEF Threads

----------------------------------------------------------------------------
(* The callers' steps. *)

LEMMA EnterAlone ==
  ASSUME IInv, NEW t \in Threads, NEW c, Enter(t, c),
         \A u \in Listers \ {t} : seen'[u] = seen[u] /\ listed'[u] = listed[u],
         \A u \in Queriers \ {t} : asked'[u] = asked[u] /\ got'[u] = got[u]
  PROVE  Alone(t)
BY DEF IInv, Shapes, Enter, Alone, kernel

LEMMA StartListingKeeps ==
  ASSUME IInv, NEW t \in Listers, StartListing(t) PROVE IInv'
<1>1. /\ pc[t] = "idle" /\ pc' = [pc EXCEPT ![t] = "issue"]
      /\ class' = [class EXCEPT ![t] = "restart"]
      /\ seen' = [seen EXCEPT ![t] = <<>>] /\ listed' = [listed EXCEPT ![t] = "reading"]
      /\ UNCHANGED <<kernel, status, iosb, batch, err, volume>>
  BY DEF StartListing, Enter
<1>2. t \in Threads /\ ListerOK(t)
  BY Roles DEF IInv, ThreadsInv
<1>3. Shapes'
  <2>1. <<>> \in Seq(Nat)
    BY EmptySeq
  <2> QED BY <1>1, <2>1 DEF IInv, Shapes, kernel, volume
<1>4. Alone(t)
  BY <1>1, <1>2 DEF IInv, Shapes, Alone, kernel, volume
<1>5. ListerOK(t)'
  <2>1. pc'[t] = "issue" /\ class'[t] = "restart" /\ listed'[t] = "reading" /\ seen'[t] = <<>>
    BY <1>1, <1>2 DEF IInv, Shapes
  <2>2. t \notin pending' /\ batch'[t] = <<>>
    BY <1>1, <1>2 DEF ListerOK, StageOK, kernel
  <2>3. SeenOK(t)'
    <3>1. <<>> = Upto(0) /\ Len(<<>>) = 0
      BY UptoLen, EmptySeq
    <3>2. size'[handle[t]] \in Nat
      BY <1>1, <1>2, ThreadAssumption DEF IInv, Shapes, kernel
    <3> QED BY <2>1, <3>1, <3>2 DEF SeenOK
  <2>4. StageOK(t)'
    BY <2>1, <2>2 DEF StageOK, Ready
  <2> QED BY <2>1, <2>3, <2>4 DEF ListerOK
<1> QED BY <1>1, <1>2, <1>3, <1>4, <1>5, OthersKept, KernelUntouched, Roles DEF IInv

LEMMA GoOnListingKeeps ==
  ASSUME IInv, NEW t \in Listers, GoOnListing(t) PROVE IInv'
<1>1. /\ pc[t] = "idle" /\ listed[t] = "reading" /\ pc' = [pc EXCEPT ![t] = "issue"]
      /\ class' = [class EXCEPT ![t] = "next"]
      /\ UNCHANGED <<kernel, status, iosb, batch, err, seen, listed, volume>>
  BY DEF GoOnListing, Enter
<1>2. t \in Threads /\ ListerOK(t)
  BY Roles DEF IInv, ThreadsInv
<1>3. Shapes'
  BY <1>1 DEF IInv, Shapes, kernel, volume
<1>4. Alone(t)
  BY <1>1, <1>2 DEF IInv, Shapes, Alone, kernel, volume
<1>5. ListerOK(t)'
  <2>1. pc'[t] = "issue" /\ class'[t] = "next" /\ UNCHANGED <<size, cursor, pending>>
    BY <1>1, <1>2 DEF IInv, Shapes, kernel
  <2> QED BY <1>1, <1>2, <2>1 DEF ListerOK, SeenOK, StageOK, Ready
<1> QED BY <1>1, <1>2, <1>3, <1>4, <1>5, OthersKept, KernelUntouched, Roles DEF IInv

LEMMA AskKeeps ==
  ASSUME IInv, NEW t \in Queriers, NEW c \in {"query", "unknown"}, Ask(t, c) PROVE IInv'
<1>1. /\ pc[t] = "idle" /\ pc' = [pc EXCEPT ![t] = "issue"]
      /\ class' = [class EXCEPT ![t] = c]
      /\ UNCHANGED <<kernel, status, iosb, batch, err, seen, listed, volume>>
  BY DEF Ask, Enter
<1>2. t \in Threads /\ QuerierOK(t)
  BY Roles DEF IInv, ThreadsInv
<1>3. Shapes'
  BY <1>1 DEF IInv, Shapes, kernel, volume
<1>4. Alone(t)
  BY <1>1, <1>2 DEF IInv, Shapes, Alone, kernel, volume
<1>5. QuerierOK(t)'
  BY <1>1, <1>2 DEF IInv, Shapes, QuerierOK, kernel, volume
<1> QED BY <1>1, <1>2, <1>3, <1>4, <1>5, OthersKept, KernelUntouched, Roles DEF IInv

LEMMA AskVolumeKeeps ==
  ASSUME IInv, NEW t \in Queriers, AskVolume(t) PROVE IInv'
<1>1. /\ pc[t] = "idle" /\ pc' = [pc EXCEPT ![t] = "issue"]
      /\ class' = [class EXCEPT ![t] = "volume"]
      /\ UNCHANGED <<kernel, status, iosb, batch, err, seen, listed, got>>
  BY DEF AskVolume, Enter
<1>2. PICK ps \in SUBSET Parts : asked' = [asked EXCEPT ![t] = ps]
  BY DEF AskVolume
<1>3. t \in Threads /\ QuerierOK(t)
  BY Roles DEF IInv, ThreadsInv
<1>4. Shapes'
  BY <1>1, <1>2 DEF IInv, Shapes, kernel
<1>5. Alone(t)
  BY <1>1, <1>2, <1>3 DEF IInv, Shapes, Alone, kernel
<1>6. QuerierOK(t)'
  BY <1>1, <1>2, <1>3 DEF IInv, Shapes, QuerierOK, kernel
<1> QED BY <1>1, <1>3, <1>4, <1>5, <1>6, OthersKept, KernelUntouched, Roles DEF IInv

LEMMA WatchKeeps ==
  ASSUME IInv, NEW t \in Watchers, Ask(t, "watch") PROVE IInv'
<1>1. /\ pc[t] = "idle" /\ pc' = [pc EXCEPT ![t] = "issue"]
      /\ class' = [class EXCEPT ![t] = "watch"]
      /\ UNCHANGED <<kernel, status, iosb, batch, err, seen, listed, volume>>
  BY DEF Ask, Enter
<1>2. t \in Threads
  BY Roles
<1>3. Shapes'
  BY <1>1 DEF IInv, Shapes, kernel, volume
<1>4. Alone(t)
  BY <1>1, <1>2 DEF IInv, Shapes, Alone, kernel, volume
<1>5. WatcherOK(t)'
  BY <1>1, <1>2 DEF IInv, Shapes, WatcherOK
<1> QED BY <1>1, <1>2, <1>3, <1>4, <1>5, OthersKept, KernelUntouched, Roles DEF IInv

----------------------------------------------------------------------------
(* The polyfill's steps. *)

\* A call that is over leaves nothing in its thread's variables.
LEMMA LeaveShapes ==
  ASSUME IInv, NEW t \in Threads, Leave(t),
         seen' \in [Listers -> Seq(Nat)],
         listed' \in [Listers -> {"no", "reading", "all", "failed"}],
         asked' \in [Queriers -> SUBSET Parts], got' \in [Queriers -> SUBSET Parts]
  PROVE  Shapes'
<1>1. <<>> \in Seq(Nat)
  BY EmptySeq
<1> QED BY <1>1 DEF IInv, Shapes, Leave, kernel, Statuses

LEMMA LeaveFields ==
  ASSUME IInv, NEW t \in Threads, Leave(t)
  PROVE  /\ pc'[t] = "idle" /\ class'[t] = "none" /\ status'[t] = "none"
         /\ batch'[t] = <<>> /\ err'[t] = "none"
         /\ \A u \in Threads \ {t} :
              /\ pc'[u] = pc[u] /\ class'[u] = class[u] /\ status'[u] = status[u]
              /\ iosb'[u] = iosb[u] /\ batch'[u] = batch[u] /\ err'[u] = err[u]
         /\ UNCHANGED <<size, signalled, cursor, pending>>
BY DEF IInv, Shapes, Leave, kernel

LEMMA WatchedKeeps ==
  ASSUME IInv, NEW t \in Watchers, Watched(t) PROVE IInv'
<1>1. t \in Threads /\ Leave(t) /\ UNCHANGED <<seen, listed, asked, got>>
  BY Roles DEF Watched, volume
<1>2. Shapes'
  BY <1>1, LeaveShapes DEF IInv, Shapes
<1>3. Alone(t)
  BY <1>1, LeaveFields DEF Alone
<1>4. WatcherOK(t)'
  BY <1>1, LeaveFields DEF WatcherOK
<1>5. UNCHANGED kernel
  BY <1>1 DEF Leave
<1> QED BY <1>1, <1>2, <1>3, <1>4, <1>5, OthersKept, KernelUntouched, Roles DEF IInv

\* Which threads are in the polyfill at all.
LEMMA Callers ==
  ASSUME IInv, NEW t \in Threads
  PROVE  /\ pc[t] \in {"finish", "convert", "return"} => t \in Listers \/ t \in Queriers
         /\ class[t] \in {"unknown", "volume"} /\ pc[t] # "idle" => t \in Queriers
         /\ pc[t] = "finish" /\ status[t] = "pending" => t \in Listers
<1>1. t \in Listers \/ t \in Queriers \/ t \in Watchers
  BY Roles
<1>2. CASE t \in Listers
  BY <1>2 DEF IInv, ThreadsInv, ListerOK, StageOK
<1>3. CASE t \in Queriers
  BY <1>3 DEF IInv, ThreadsInv, QuerierOK
<1>4. CASE t \in Watchers
  BY <1>4 DEF IInv, ThreadsInv, WatcherOK
<1> QED BY <1>1, <1>2, <1>3, <1>4

LEMMA UnknownKeeps == ASSUME IInv, NEW t \in Threads, Unknown(t) PROVE IInv'
<1>1. /\ pc[t] = "issue" /\ class[t] = "unknown"
      /\ pc' = [pc EXCEPT ![t] = "return"]
      /\ err' = [err EXCEPT ![t] = "invalid parameter"]
      /\ UNCHANGED <<kernel, class, status, iosb, batch, seen, listed, volume>>
  BY DEF Unknown
<1>2. t \in Queriers /\ QuerierOK(t)
  BY <1>1, Callers DEF IInv, ThreadsInv
<1>3. Shapes'
  BY <1>1 DEF IInv, Shapes, kernel, volume
<1>4. Alone(t)
  BY <1>1 DEF IInv, Shapes, Alone, kernel, volume
<1>5. QuerierOK(t)'
  BY <1>1, <1>2 DEF IInv, Shapes, QuerierOK, kernel, volume
<1> QED BY <1>1, <1>2, <1>3, <1>4, <1>5, OthersKept, KernelUntouched, Roles DEF IInv

LEMMA QueryVolumeKeeps == ASSUME IInv, NEW t \in Threads, QueryVolume(t) PROVE IInv'
<1>1. /\ pc[t] = "issue" /\ class[t] = "volume" /\ Remaining(t) # {}
      /\ UNCHANGED <<kernel, class, iosb, batch, err, seen, listed, asked>>
  BY DEF QueryVolume
<1>2. PICK part \in Remaining(t), s \in {"success", "overflow", "failed"} :
        /\ status' = [status EXCEPT ![t] = s]
        /\ IF s # "failed" THEN got' = [got EXCEPT ![t] = @ \cup {part}] /\ UNCHANGED pc
           ELSE pc' = [pc EXCEPT ![t] = "finish"] /\ UNCHANGED got
  <2>1. t \in Queriers
    BY <1>1, Callers
  <2>2. Remaining(t) \subseteq Parts
    BY <2>1 DEF Remaining, IInv, Shapes
  <2>3. (IF "volume" \in Remaining(t) THEN "volume" ELSE "attributes") \in Remaining(t)
    BY <1>1, <2>2 DEF Parts
  <2>4. \A s \in {"success", "overflow", "failed"} : VolumeOk(s) <=> s # "failed"
    BY DEF VolumeOk
  <2> QED BY <2>3, <2>4 DEF QueryVolume
<1>3. t \in Queriers /\ QuerierOK(t)
  BY <1>1, Callers DEF IInv, ThreadsInv
<1>4. part \in Parts /\ part \in asked[t]
  BY <1>3 DEF Remaining, IInv, Shapes
<1>5. Shapes'
  <2>1. status' \in [Threads -> Statuses]
    BY <1>2 DEF IInv, Shapes, Statuses
  <2>2. pc' \in [Threads -> {"idle", "issue", "finish", "convert", "return", "watching"}]
    BY <1>2 DEF IInv, Shapes
  <2>3. got' \in [Queriers -> SUBSET Parts]
    <3>1. got \in [Queriers -> SUBSET Parts]
      BY DEF IInv, Shapes
    <3>2. got[t] \cup {part} \in SUBSET Parts
      BY <1>3, <1>4, <3>1
    <3>3. [got EXCEPT ![t] = @ \cup {part}] \in [Queriers -> SUBSET Parts]
      BY <1>3, <3>1, <3>2
    <3> QED BY <1>2, <3>1, <3>3
  <2> QED BY <1>1, <2>1, <2>2, <2>3 DEF IInv, Shapes, kernel
<1>6. Alone(t)
  <2>1. \A u \in Threads \ {t} : pc'[u] = pc[u] /\ status'[u] = status[u]
    BY <1>2 DEF IInv, Shapes
  <2>2. \A u \in Queriers \ {t} : got'[u] = got[u]
    BY <1>2 DEF IInv, Shapes
  <2> QED BY <1>1, <2>1, <2>2 DEF Alone, kernel
<1>7. QuerierOK(t)'
  <2>1. status'[t] = s /\ class'[t] = "volume" /\ err'[t] = err[t] /\ t \notin pending'
    BY <1>1, <1>2, <1>3 DEF IInv, Shapes, kernel, QuerierOK
  <2>2. got'[t] \subseteq asked'[t]
    <3>1. got'[t] \subseteq got[t] \cup {part}
      BY <1>2, <1>3 DEF IInv, Shapes
    <3> QED BY <1>1, <1>3, <1>4, <3>1 DEF QuerierOK
  <2>3. CASE s = "failed"
    <3>1. pc'[t] = "finish"
      BY <1>2, <2>3 DEF IInv, Shapes
    <3> QED BY <2>1, <2>2, <2>3, <3>1 DEF QuerierOK
  <2>4. CASE s # "failed"
    <3>1. pc'[t] = "issue"
      BY <1>1, <1>2, <2>4
    <3> QED BY <2>1, <2>2, <2>4, <3>1 DEF QuerierOK
  <2> QED BY <2>3, <2>4
<1> QED BY <1>1, <1>3, <1>5, <1>6, <1>7, OthersKept, KernelUntouched, Roles DEF IInv

LEMMA VolumeDoneKeeps == ASSUME IInv, NEW t \in Threads, VolumeDone(t) PROVE IInv'
<1>1. /\ pc[t] = "issue" /\ class[t] = "volume" /\ Remaining(t) = {}
      /\ pc' = [pc EXCEPT ![t] = "return"]
      /\ UNCHANGED <<kernel, class, status, iosb, batch, err, seen, listed, volume>>
  BY DEF VolumeDone
<1>2. t \in Queriers /\ QuerierOK(t)
  BY <1>1, Callers DEF IInv, ThreadsInv
<1>3. Shapes'
  BY <1>1 DEF IInv, Shapes, kernel, volume
<1>4. Alone(t)
  BY <1>1 DEF IInv, Shapes, Alone, kernel, volume
<1>5. QuerierOK(t)'
  <2>1. got[t] = asked[t]
    BY <1>1, <1>2 DEF Remaining, QuerierOK
  <2> QED BY <1>1, <1>2, <2>1 DEF IInv, Shapes, QuerierOK, kernel, volume
<1> QED BY <1>1, <1>2, <1>3, <1>4, <1>5, OthersKept, KernelUntouched, Roles DEF IInv

\* finish waits for a query that pends, and then it is done.
LEMMA WaitKeeps == ASSUME IInv, NEW t \in Threads, Wait(t) PROVE IInv'
<1>1. /\ pc[t] = "finish" /\ status[t] = "pending" /\ signalled[handle[t]]
      /\ status' = [status EXCEPT ![t] = iosb[t]]
      /\ pc' = [pc EXCEPT ![t] = "convert"]
      /\ UNCHANGED <<kernel, class, iosb, batch, err, seen, listed, volume>>
  BY DEF Wait, Waits
<1>2. t \in Listers /\ ListerOK(t)
  BY <1>1, Callers DEF IInv, ThreadsInv
<1>3. t \notin pending
  BY <1>1, <1>2 DEF IInv, PendingUnsignalled
<1>4. Shapes'
  BY <1>1 DEF IInv, Shapes, kernel, volume
<1>5. Alone(t)
  BY <1>1 DEF IInv, Shapes, Alone, kernel, volume
<1>6. ListerOK(t)'
  <2>1. pc'[t] = "convert" /\ status'[t] = iosb[t] /\ UNCHANGED <<size, cursor, pending>>
    BY <1>1 DEF IInv, Shapes, kernel
  <2>2. Done(t, iosb[t])
    BY <1>1, <1>2, <1>3 DEF ListerOK, StageOK
  <2>3. Done(t, status[t])'
    BY <1>1, <2>1, <2>2 DEF Done
  <2> QED BY <1>1, <1>2, <1>3, <2>1, <2>3 DEF ListerOK, SeenOK, StageOK
<1> QED BY <1>1, <1>2, <1>4, <1>5, <1>6, OthersKept, KernelUntouched, Roles DEF IInv

LEMMA NoWaitKeeps == ASSUME IInv, NEW t \in Threads, NoWait(t) PROVE IInv'
<1>1. /\ pc[t] = "finish" /\ status[t] # "pending"
      /\ pc' = [pc EXCEPT ![t] = "convert"]
      /\ UNCHANGED <<kernel, class, status, iosb, batch, err, seen, listed, volume>>
  BY DEF NoWait, Waits
<1>2. Shapes'
  BY <1>1 DEF IInv, Shapes, kernel, volume
<1>3. Alone(t)
  BY <1>1 DEF IInv, Shapes, Alone, kernel, volume
<1>4. pc'[t] = "convert" /\ UNCHANGED <<size, cursor, pending, asked, got>>
  BY <1>1 DEF IInv, Shapes, kernel, volume
<1>5. ASSUME t \in Listers PROVE ListerOK(t)'
  <2>1. ListerOK(t)
    BY <1>5 DEF IInv, ThreadsInv
  <2>2. t \notin pending /\ Done(t, status[t])
    BY <1>1, <2>1 DEF ListerOK, StageOK
  <2>3. Done(t, status[t])'
    BY <1>1, <1>4, <2>2 DEF Done
  <2> QED BY <1>1, <1>4, <2>1, <2>2, <2>3 DEF ListerOK, SeenOK, StageOK
<1>6. ASSUME t \in Queriers PROVE QuerierOK(t)'
  <2>1. QuerierOK(t)
    BY <1>6 DEF IInv, ThreadsInv
  <2> QED BY <1>1, <1>4, <2>1 DEF QuerierOK
<1>7. t \notin Watchers
  BY <1>1, Callers, Roles
<1> QED BY <1>1, <1>2, <1>3, <1>5, <1>6, <1>7, OthersKept, KernelUntouched DEF IInv

LEMMA ConvertKeeps == ASSUME IInv, NEW t \in Threads, Convert(t) PROVE IInv'
<1> DEFINE e == IF Succeeded(status[t]) THEN "none" ELSE DosError(status[t])
<1>1. /\ pc[t] = "convert"
      /\ err' = [err EXCEPT ![t] = e]
      /\ pc' = [pc EXCEPT ![t] = "return"]
      /\ UNCHANGED <<kernel, class, status, iosb, batch, seen, listed, volume>>
  BY DEF Convert
<1>2. e \in {"none", "no more files", "file not found", "other"}
  BY DEF DosError
<1>3. /\ status[t] = "success" => e = "none"
      /\ status[t] = "failed" => e = "other"
      /\ status[t] = "no such file" => e = "file not found"
      /\ status[t] = "no more files" => e = "no more files"
  BY DEF DosError, Succeeded
<1> HIDE DEF e
<1>4. Shapes'
  BY <1>1, <1>2 DEF IInv, Shapes, kernel, volume
<1>5. Alone(t)
  BY <1>1 DEF IInv, Shapes, Alone, kernel, volume
<1>6. pc'[t] = "return" /\ err'[t] = e /\ UNCHANGED <<size, cursor, pending, asked, got>>
  BY <1>1 DEF IInv, Shapes, kernel, volume
<1>7. ASSUME t \in Listers PROVE ListerOK(t)'
  <2>1. ListerOK(t)
    BY <1>7 DEF IInv, ThreadsInv
  <2>2. t \notin pending /\ Done(t, status[t])
    BY <1>1, <2>1 DEF ListerOK, StageOK
  <2>3. Returned(t)'
    BY <1>1, <1>3, <1>6, <2>2 DEF Done, Returned
  <2> QED BY <1>1, <1>6, <2>1, <2>2, <2>3 DEF ListerOK, SeenOK, StageOK
<1>8. ASSUME t \in Queriers PROVE QuerierOK(t)'
  <2>1. QuerierOK(t)
    BY <1>8 DEF IInv, ThreadsInv
  <2> QED BY <1>1, <1>3, <1>6, <2>1 DEF QuerierOK
<1>9. t \notin Watchers
  BY <1>1, Callers, Roles
<1> QED BY <1>1, <1>4, <1>5, <1>7, <1>8, <1>9, OthersKept, KernelUntouched DEF IInv

\* The reader goes on where it was, or stops with all of the directory.
LEMMA ListerReturns ==
  ASSUME IInv, NEW t \in Listers, Return(t)
  PROVE  /\ seen' \in [Listers -> Seq(Nat)]
         /\ listed' \in [Listers -> {"no", "reading", "all", "failed"}]
         /\ \A u \in Listers \ {t} : seen'[u] = seen[u] /\ listed'[u] = listed[u]
         /\ ListerOK(t)'
<1>1. /\ pc[t] = "return" /\ Leave(t)
      /\ seen' = [seen EXCEPT ![t] = @ \o batch[t]]
      /\ listed' = [listed EXCEPT ![t] =
                      CASE err[t] = "none" -> "reading"
                        [] err[t] \in {"no more files", "file not found"} -> "all"
                        [] OTHER -> "failed"]
  BY DEF Return
<1>2. t \in Threads /\ ListerOK(t) /\ Shapes /\ CursorInv
  BY Roles DEF IInv, ThreadsInv
<1>3. /\ seen[t] \in Seq(Nat) /\ batch[t] \in Seq(Nat) /\ seen[t] \o batch[t] \in Seq(Nat)
      /\ handle[t] \in Handles
  <2>1. seen[t] \in Seq(Nat) /\ batch[t] \in Seq(Nat)
    BY <1>2 DEF Shapes
  <2>2. handle[t] \in Handles
    BY <1>2, ThreadAssumption
  <2> QED BY <2>1, <2>2, ConcatProperties
<1>4. seen' \in [Listers -> Seq(Nat)]
  BY <1>1, <1>2, <1>3 DEF Shapes
<1>5. listed' \in [Listers -> {"no", "reading", "all", "failed"}]
  BY <1>1, <1>2 DEF Shapes
<1>6. \A u \in Listers \ {t} : seen'[u] = seen[u] /\ listed'[u] = listed[u]
  BY <1>1, <1>2 DEF Shapes
<1>7. seen'[t] = seen[t] \o batch[t]
  BY <1>1, <1>2 DEF Shapes
<1>8. /\ err[t] = "none" => listed'[t] = "reading"
      /\ err[t] \in {"no more files", "file not found"} => listed'[t] = "all"
      /\ err[t] \notin {"none", "no more files", "file not found"} => listed'[t] = "failed"
  BY <1>1, <1>2 DEF Shapes
<1>9. t \notin pending /\ Returned(t) /\ SeenOK(t)
  BY <1>1, <1>2 DEF ListerOK, StageOK
<1>10. /\ pc'[t] = "idle" /\ batch'[t] = <<>> /\ err'[t] = "none"
       /\ UNCHANGED <<size, cursor, pending>>
  BY <1>1, <1>2, LeaveFields
<1> DEFINE k == Len(seen[t])
           c == cursor[handle[t]]
<1>11. k \in Nat /\ c \in Int /\ c <= size[handle[t]] /\ size[handle[t]] \in Nat
  <2>1. size[handle[t]] \in Nat /\ c \in Int
    BY <1>2, <1>3, ThreadAssumption DEF Shapes
  <2>2. c \in -1 .. size[handle[t]]
    BY <1>2, <1>3 DEF CursorInv
  <2>3. k \in Nat
    BY <1>3, LenProperties
  <2> QED BY <2>1, <2>2, <2>3
<1>12. CASE err[t] = "none"
  <2>1. c > k /\ batch[t] = Behind(k, c - k) /\ seen[t] = Upto(k)
    BY <1>9, <1>12 DEF Returned, SeenOK
  <2> HIDE DEF k, c
  <2>2. seen'[t] = Upto(k + (c - k)) /\ k + (c - k) = c /\ c \in Nat
    <3>1. c \in Nat /\ c - k \in Nat /\ k + (c - k) = c
      BY <1>11, <2>1
    <3>2. seen'[t] = Upto(k) \o Behind(k, c - k)
      BY <1>7, <2>1
    <3>3. Upto(k) \o Behind(k, c - k) = Upto(k + (c - k))
      BY <1>11, <3>1, UptoBehind
    <3> QED BY <3>1, <3>2, <3>3
  <2>3. seen'[t] = Upto(c) /\ Len(seen'[t]) = c
    BY <2>2, UptoLen
  <2> QED BY <1>4, <1>5, <1>6, <1>8, <1>9, <1>10, <1>11, <1>12, <2>3
          DEF ListerOK, SeenOK, StageOK, c
<1>13. CASE err[t] # "none"
  <2>1. batch[t] = <<>>
    BY <1>9, <1>13 DEF Returned
  <2>2. seen'[t] = seen[t]
    BY <1>3, <1>7, <2>1, ConcatEmptySeq
  <2>3. err[t] \in {"no more files", "file not found"} => k = size[handle[t]]
    BY <1>9 DEF Returned
  <2>4. SeenOK(t)'
    BY <1>8, <1>9, <1>10, <1>13, <2>2, <2>3 DEF SeenOK
  <2>5. listed'[t] # "reading"
    BY <1>8, <1>13
  <2> QED BY <1>4, <1>5, <1>6, <1>9, <1>10, <2>4, <2>5 DEF ListerOK, StageOK
<1> QED BY <1>12, <1>13

LEMMA ReturnKeeps == ASSUME IInv, NEW t \in Threads, Return(t) PROVE IInv'
<1>1. pc[t] = "return" /\ Leave(t) /\ UNCHANGED kernel
  BY DEF Return, Leave
<1>2. /\ t \notin Listers => UNCHANGED <<seen, listed>>
      /\ t \notin Queriers => UNCHANGED <<asked, got>>
      /\ t \in Queriers => /\ asked' = [asked EXCEPT ![t] = {}]
                           /\ got' = [got EXCEPT ![t] = {}]
  BY DEF Return, volume
<1>3. /\ seen' \in [Listers -> Seq(Nat)]
      /\ listed' \in [Listers -> {"no", "reading", "all", "failed"}]
      /\ \A u \in Listers \ {t} : seen'[u] = seen[u] /\ listed'[u] = listed[u]
      /\ t \in Listers => ListerOK(t)'
  BY <1>2, ListerReturns DEF IInv, Shapes
<1>4. /\ asked' \in [Queriers -> SUBSET Parts] /\ got' \in [Queriers -> SUBSET Parts]
      /\ \A u \in Queriers \ {t} : asked'[u] = asked[u] /\ got'[u] = got[u]
      /\ t \in Queriers => asked'[t] = {} /\ got'[t] = {}
  BY <1>2 DEF IInv, Shapes
<1>5. Shapes'
  BY <1>1, <1>3, <1>4, LeaveShapes
<1>6. Alone(t)
  BY <1>1, <1>3, <1>4, LeaveFields DEF Alone
<1>7. t \in Queriers => QuerierOK(t)'
  <2>1. t \in Queriers => t \notin pending
    BY DEF IInv, ThreadsInv, QuerierOK
  <2> QED BY <1>1, <1>4, <2>1, LeaveFields DEF QuerierOK
<1>8. t \notin Watchers
  BY <1>1, Callers, Roles
<1> QED BY <1>1, <1>3, <1>5, <1>6, <1>7, <1>8, OthersKept, KernelUntouched DEF IInv

----------------------------------------------------------------------------
(* The kernel's steps. *)

\* A query that starts where the reader is finds the entries that follow, and none
\* only at the end of the directory.
LEMMA FoundEntries ==
  ASSUME IInv, NEW t \in Listers, class[t] \in {"restart", "next"}, Ready(t)
  PROVE  /\ (IF Position(t) < 0 THEN 0 ELSE Position(t)) = Len(seen[t])
         /\ \E m \in Nat : /\ Found(t) = Behind(Len(seen[t]), m)
                           /\ Len(seen[t]) + m <= size[handle[t]]
                           /\ m = 0 => Len(seen[t]) = size[handle[t]]
<1> DEFINE k == Len(seen[t])
           n == size[handle[t]]
           p == IF Position(t) < 0 THEN 0 ELSE Position(t)
           m == IF n - p < Batch THEN n - p ELSE Batch
<1>1. /\ t \in Threads /\ handle[t] \in Handles /\ k \in Nat /\ n \in Nat
      /\ cursor[handle[t]] \in -1 .. n /\ k <= n
  <2>1. t \in Threads /\ handle[t] \in Handles
    BY Roles, ThreadAssumption
  <2>2. seen[t] \in Seq(Nat) /\ n \in Nat
    BY <2>1, ThreadAssumption DEF IInv, Shapes
  <2>3. k \in Nat
    BY <2>2, LenProperties
  <2>4. cursor[handle[t]] \in -1 .. n /\ k <= n
    BY <2>1 DEF IInv, CursorInv, ThreadsInv, ListerOK, SeenOK
  <2> QED BY <2>1, <2>2, <2>3, <2>4
<1>2. p = k
  <2>1. CASE class[t] = "restart"
    <3>1. Position(t) = -1
      BY <2>1 DEF Position, Restarts
    <3>2. k = 0
      BY <2>1, EmptySeq DEF Ready
    <3> QED BY <3>1, <3>2
  <2>2. CASE class[t] # "restart"
    <3>1. Position(t) = k
      BY <2>2 DEF Position, Restarts, Ready
    <3> QED BY <1>1, <3>1
  <2> QED BY <2>1, <2>2
<1>3. Found(t) = [i \in 1 .. m |-> p + i]
  BY DEF Found
<1> HIDE DEF p, k, n
<1>4. m \in Nat /\ k + m <= n /\ (m = 0 => k = n)
  BY <1>1, <1>2, ThreadAssumption
<1>5. Found(t) = Behind(k, m)
  BY <1>2, <1>3 DEF Behind
<1> HIDE DEF m
<1>6. \E j \in Nat : Found(t) = Behind(k, j) /\ k + j <= n /\ (j = 0 => k = n)
  BY <1>4, <1>5
<1> QED BY <1>2, <1>6 DEF p, k, n

\* What an ended directory query leaves, whether it ended at once or later.
LEMMA DirectoryDone ==
  ASSUME IInv, NEW t \in Listers, class[t] \in {"restart", "next"}, Ready(t),
         NEW s \in Outcome(t), Finish(t, s), UNCHANGED <<size, seen>>
  PROVE  /\ s \in {"success", "failed", "no such file", "no more files"}
         /\ iosb' = [iosb EXCEPT ![t] = s] /\ batch' \in [Threads -> Seq(Nat)]
         /\ cursor' \in [Handles -> Int] /\ CursorInv' /\ Done(t, s)'
         /\ \A u \in Threads \ {t} : batch'[u] = batch[u]
         /\ \A u \in Listers \ {t} : cursor'[handle[u]] = cursor[handle[u]]
<1> DEFINE k == Len(seen[t])
           n == size[handle[t]]
           h == handle[t]
<1>1. PICK m \in Nat : Found(t) = Behind(k, m) /\ k + m <= n /\ (m = 0 => k = n)
  BY FoundEntries
<1>2. /\ t \in Threads /\ h \in Handles /\ k \in Nat /\ n \in Nat /\ k <= n
      /\ Shapes /\ CursorInv
  <2>1. t \in Threads /\ h \in Handles
    BY Roles, ThreadAssumption
  <2>2. seen[t] \in Seq(Nat) /\ n \in Nat
    BY <2>1, ThreadAssumption DEF IInv, Shapes
  <2>3. k \in Nat
    BY <2>2, LenProperties
  <2> QED BY <2>1, <2>2, <2>3 DEF IInv, ThreadsInv, ListerOK, SeenOK
<1>3. Found(t) \in Seq(Nat) /\ Len(Found(t)) = m /\ <<>> \in Seq(Nat)
  BY <1>1, <1>2, BehindLen, EmptySeq
<1>4. Found(t) # <<>> => m > 0
  BY <1>3, EmptySeq
<1>5. Found(t) = <<>> => m = 0
  BY <1>3, EmptySeq
<1>6. /\ iosb' = [iosb EXCEPT ![t] = s]
      /\ batch' = [batch EXCEPT ![t] = IF s = "success" THEN Found(t) ELSE <<>>]
      /\ cursor' = IF s = "failed" THEN cursor
                   ELSE [cursor EXCEPT ![h] =
                           (IF Position(t) < 0 THEN 0 ELSE Position(t)) + Len(Found(t))]
  BY DEF Finish
<1>7. s = "failed" \/ s = DirectoryStatus(t)
  BY DEF Outcome
<1>8. cursor' = IF s = "failed" THEN cursor ELSE [cursor EXCEPT ![h] = k + m]
  BY <1>3, <1>6, FoundEntries
<1>9. /\ s \in {"success", "failed", "no such file", "no more files"}
      /\ s = "success" => m > 0
      /\ s \in {"no such file", "no more files"} => m = 0
  BY <1>4, <1>5, <1>7 DEF DirectoryStatus
<1> HIDE DEF k, n
<1>10. batch' \in [Threads -> Seq(Nat)] /\ \A u \in Threads \ {t} : batch'[u] = batch[u]
  BY <1>2, <1>3, <1>6 DEF Shapes
<1>11. cursor' \in [Handles -> Int]
  <2>1. k + m \in Int
    BY <1>1, <1>2
  <2> QED BY <1>2, <1>8, <2>1 DEF Shapes
<1>12. CursorInv'
  <2> SUFFICES ASSUME NEW g \in Handles PROVE cursor'[g] \in -1 .. size[g]
    BY DEF CursorInv
  <2>1. CASE g = h /\ s # "failed"
    <3>1. cursor'[g] = k + m
      BY <1>2, <1>8, <2>1 DEF Shapes
    <3> QED BY <1>1, <1>2, <2>1, <3>1 DEF n
  <2>2. CASE g # h \/ s = "failed"
    BY <1>2, <1>8, <2>2 DEF Shapes, CursorInv
  <2> QED BY <2>1, <2>2
<1>13. Done(t, s)'
  <2>1. batch'[t] = IF s = "success" THEN Behind(k, m) ELSE <<>>
    BY <1>1, <1>2, <1>6 DEF Shapes
  <2>2. s # "failed" => cursor'[h] = k + m
    BY <1>2, <1>8 DEF Shapes
  <2>3. k + m - k = m
    BY <1>2
  <2>4. s = "success" => cursor'[h] > k /\ cursor'[h] - k = m
    BY <1>2, <1>9, <2>2, <2>3
  <2>5. seen'[t] = seen[t] /\ size'[h] = size[h]
    OBVIOUS
  <2> QED BY <1>1, <1>9, <2>1, <2>4, <2>5 DEF Done, k, n
<1>14. \A u \in Listers \ {t} : cursor'[handle[u]] = cursor[handle[u]]
  <2> SUFFICES ASSUME NEW u \in Listers \ {t} PROVE cursor'[handle[u]] = cursor[handle[u]]
    OBVIOUS
  <2>1. handle[u] # h /\ handle[u] \in Handles
    BY OneLister, Roles, ThreadAssumption
  <2> QED BY <1>2, <1>8, <2>1 DEF Shapes
<1> QED BY <1>6, <1>9, <1>10, <1>11, <1>12, <1>13, <1>14

\* The end of any other I/O.
LEMMA OtherDone ==
  ASSUME IInv, NEW t \in Threads, class[t] \notin {"restart", "next"},
         NEW s \in Outcome(t), Finish(t, s), UNCHANGED size
  PROVE  /\ s \in {"success", "failed"} /\ iosb' = [iosb EXCEPT ![t] = s]
         /\ batch' \in [Threads -> Seq(Nat)] /\ batch'[t] = <<>>
         /\ \A u \in Threads \ {t} : batch'[u] = batch[u]
         /\ UNCHANGED cursor /\ CursorInv'
<1>1. /\ iosb' = [iosb EXCEPT ![t] = s] /\ batch' = [batch EXCEPT ![t] = <<>>]
      /\ UNCHANGED cursor
  BY DEF Finish
<1>2. s \in {"success", "failed"}
  BY DEF Outcome
<1>3. <<>> \in Seq(Nat)
  BY EmptySeq
<1> QED BY <1>1, <1>2, <1>3 DEF IInv, Shapes, CursorInv

\* Which class an I/O has, and where it may be under way.
LEMMA Issued ==
  ASSUME IInv, NEW t \in Threads, pc[t] = "issue", class[t] \in Known \cup {"watch"}
  PROVE  /\ t \notin pending \/ t \in Watchers
         /\ t \in Listers => class[t] \in {"restart", "next"} /\ Ready(t)
         /\ t \in Queriers => class[t] = "query"
         /\ t \in Watchers => class[t] = "watch"
<1>1. CASE t \in Listers
  BY <1>1, Roles DEF IInv, ThreadsInv, ListerOK, StageOK
<1>2. CASE t \in Queriers
  BY <1>2, Roles DEF IInv, ThreadsInv, QuerierOK, Known
<1>3. CASE t \in Watchers
  BY <1>3, Roles DEF IInv, ThreadsInv, WatcherOK
<1> QED BY <1>1, <1>2, <1>3, Roles

LEMMA Pending ==
  ASSUME IInv, NEW t \in Threads, t \in pending
  PROVE  /\ t \notin Queriers
         /\ t \in Listers => /\ class[t] \in {"restart", "next"} /\ Ready(t)
                             /\ pc[t] = "finish" /\ status[t] = "pending"
         /\ t \in Watchers => class[t] \notin {"restart", "next"}
<1>1. CASE t \in Listers
  BY <1>1, Roles DEF IInv, ThreadsInv, ListerOK, StageOK
<1>2. CASE t \in Queriers
  BY <1>2 DEF IInv, ThreadsInv, QuerierOK
<1>3. CASE t \in Watchers
  BY <1>3, Roles DEF IInv, ThreadsInv, WatcherOK
<1> QED BY <1>1, <1>2, <1>3, Roles

\* The end of one thread's I/O sets no event that a lister waits on: its own I/O is
\* the only one of its handle that the event tells of.
LEMMA OwnEventOnly ==
  ASSUME NotShared, IInv, NEW t \in Threads, t \notin Queriers,
         signalled' = [signalled EXCEPT ![handle[t]] = TRUE],
         pending' \subseteq pending, t \in Listers => t \notin pending'
  PROVE  PendingUnsignalled'
<1> SUFFICES ASSUME NEW u \in Listers, u \in pending' PROVE ~ signalled'[handle[u]]
  BY DEF PendingUnsignalled
<1>1. ~ signalled[handle[u]]
  BY DEF IInv, PendingUnsignalled
<1>2. handle[u] # handle[t]
  BY OneLister, Roles DEF NotShared
<1>3. signalled'[handle[u]] = signalled[handle[u]]
  BY <1>2, ThreadAssumption, Roles DEF IInv, Shapes
<1> QED BY <1>1, <1>3

LEMMA IssueKeeps == ASSUME NotShared, IInv, NEW t \in Threads, Issue(t) PROVE IInv'
<1> DEFINE next == IF class[t] = "watch" THEN "watching" ELSE "finish"
<1>1. /\ pc[t] = "issue" /\ class[t] \in Known \cup {"watch"}
      /\ pc' = [pc EXCEPT ![t] = next]
      /\ UNCHANGED <<class, err, seen, listed, asked, got>>
  BY DEF Issue, volume
<1>2. /\ t \notin pending \/ t \in Watchers
      /\ t \in Listers => class[t] \in {"restart", "next"} /\ Ready(t) /\ ListerOK(t)
      /\ t \in Queriers => class[t] = "query" /\ QuerierOK(t)
      /\ t \in Watchers => class[t] = "watch" /\ WatcherOK(t)
  BY <1>1, Issued DEF IInv, ThreadsInv
<1>3. /\ pc'[t] = next
      /\ pc' \in [Threads -> {"idle", "issue", "finish", "convert", "return", "watching"}]
      /\ \A u \in Threads \ {t} : pc'[u] = pc[u]
  BY <1>1 DEF IInv, Shapes
<1>4. /\ t \in Listers \cup Queriers => next = "finish"
      /\ t \in Watchers => next = "watching"
  BY <1>2
<1> HIDE DEF next
<1>5. t \in Watchers => WatcherOK(t)'
  BY <1>1, <1>2, <1>3, <1>4 DEF WatcherOK
<1>6. handle[t] \in Handles
  BY ThreadAssumption
<1>7. CASE Rejected(t)
  <2>1. /\ status' = [status EXCEPT ![t] = "failed"]
        /\ UNCHANGED <<size, signalled, cursor, pending, iosb, batch>>
    BY <1>7 DEF Rejected, kernel
  <2>2. Shapes'
    BY <1>1, <1>3, <2>1 DEF IInv, Shapes, Statuses
  <2>3. Alone(t)
    BY <1>1, <1>3, <2>1 DEF IInv, Shapes, Alone
  <2>4. status'[t] = "failed"
    BY <2>1 DEF IInv, Shapes
  <2>5. t \in Listers => ListerOK(t)'
    BY <1>1, <1>2, <1>3, <1>4, <2>1, <2>4, Roles
    DEF ListerOK, SeenOK, StageOK, Done
  <2>6. t \in Queriers => QuerierOK(t)'
    BY <1>1, <1>2, <1>3, <1>4, <2>1, <2>4 DEF QuerierOK
  <2>7. UNCHANGED kernel
    BY <2>1 DEF kernel
  <2> QED BY <1>5, <2>2, <2>3, <2>5, <2>6, <2>7, OthersKept, KernelUntouched DEF IInv
<1>8. CASE AtOnce(t)
  <2>1. PICK s \in Outcome(t) :
          /\ Finish(t, s) /\ status' = [status EXCEPT ![t] = s]
          /\ signalled' = IF class[t] = "query" THEN signalled
                          ELSE [signalled EXCEPT ![handle[t]] = TRUE]
          /\ UNCHANGED <<size, pending>>
    BY <1>8 DEF AtOnce
  <2>2. /\ s \in {"success", "failed", "no such file", "no more files"}
        /\ iosb' = [iosb EXCEPT ![t] = s]
        /\ batch' \in [Threads -> Seq(Nat)] /\ cursor' \in [Handles -> Int] /\ CursorInv'
        /\ \A u \in Threads \ {t} : batch'[u] = batch[u]
        /\ \A u \in Listers \ {t} : cursor'[handle[u]] = cursor[handle[u]]
        /\ t \in Listers => Done(t, s)'
    <3>1. CASE t \in Listers
      BY <1>1, <1>2, <2>1, <3>1, DirectoryDone
    <3>2. CASE t \notin Listers
      <4>1. class[t] \notin {"restart", "next"}
        BY <1>2, <3>2, Roles
      <4> QED BY <2>1, <3>2, <4>1, OtherDone DEF IInv, Shapes
    <3> QED BY <3>1, <3>2
  <2>3. signalled' \in [Handles -> BOOLEAN]
    BY <1>6, <2>1 DEF IInv, Shapes
  <2>4. status' \in [Threads -> Statuses] /\ iosb' \in [Threads -> Statuses]
    BY <2>1, <2>2 DEF IInv, Shapes, Statuses
  <2>5. Shapes'
    BY <1>1, <1>3, <2>1, <2>2, <2>3, <2>4 DEF IInv, Shapes
  <2>6. \A u \in Threads \ {t} : status'[u] = status[u] /\ iosb'[u] = iosb[u]
    BY <2>1, <2>2 DEF IInv, Shapes
  <2>7. Alone(t)
    BY <1>1, <1>3, <2>1, <2>2, <2>6 DEF Alone
  <2>8. status'[t] = s
    BY <2>1 DEF IInv, Shapes
  <2>9. t \in Listers => ListerOK(t)'
    <3> SUFFICES ASSUME t \in Listers PROVE ListerOK(t)'
      OBVIOUS
    <3>1. pc'[t] = "finish" /\ t \notin pending' /\ s # "pending" /\ Done(t, s)'
      BY <1>2, <1>3, <1>4, <2>1, <2>2, Roles
    <3>2. Done(t, IF status[t] = "pending" THEN iosb[t] ELSE status[t])'
      BY <2>8, <3>1
    <3>3. SeenOK(t)' /\ listed'[t] = "reading" /\ class'[t] \in {"restart", "next"}
      BY <1>1, <1>2, <2>1 DEF ListerOK, StageOK, SeenOK
    <3> QED BY <3>1, <3>2, <3>3 DEF ListerOK, StageOK
  <2>10. t \in Queriers => QuerierOK(t)'
    BY <1>1, <1>2, <1>3, <1>4, <2>1, <2>2, <2>8 DEF QuerierOK
  <2>11. PendingUnsignalled'
    <3>1. CASE t \in Queriers
      BY <1>2, <2>1, <3>1 DEF IInv, PendingUnsignalled
    <3>2. CASE t \notin Queriers
      <4>1. class[t] # "query"
        BY <1>2, <3>2, Roles
      <4>2. t \in Listers => t \notin pending'
        BY <1>2, <2>1, Roles
      <4> QED BY <2>1, <3>2, <4>1, <4>2, OwnEventOnly
    <3> QED BY <3>1, <3>2
  <2> QED BY <1>5, <2>2, <2>5, <2>7, <2>9, <2>10, <2>11, OthersKept DEF IInv
<1>9. CASE Later(t)
  <2>1. /\ class[t] # "query" /\ status' = [status EXCEPT ![t] = "pending"]
        /\ signalled' = [signalled EXCEPT ![handle[t]] = FALSE]
        /\ pending' = pending \cup {t}
        /\ UNCHANGED <<size, cursor, iosb, batch>>
    BY <1>9 DEF Later
  <2>2. Shapes'
    BY <1>1, <1>3, <1>6, <2>1 DEF IInv, Shapes, Statuses
  <2>3. Alone(t)
    BY <1>1, <1>3, <2>1 DEF IInv, Shapes, Alone
  <2>4. t \notin Queriers /\ status'[t] = "pending"
    BY <1>2, <2>1 DEF IInv, Shapes
  <2>5. t \in Listers => ListerOK(t)'
    BY <1>1, <1>2, <1>3, <1>4, <2>1, <2>4 DEF ListerOK, SeenOK, StageOK, Ready
  <2>6. PendingUnsignalled'
    <3> SUFFICES ASSUME NEW u \in Listers, u \in pending' PROVE ~ signalled'[handle[u]]
      BY DEF PendingUnsignalled
    <3>1. handle[u] \in Handles
      BY Roles, ThreadAssumption
    <3>2. CASE handle[u] = handle[t]
      BY <1>6, <2>1, <3>2 DEF IInv, Shapes
    <3>3. CASE handle[u] # handle[t]
      BY <2>1, <3>1, <3>3 DEF IInv, Shapes, PendingUnsignalled
    <3> QED BY <3>2, <3>3
  <2>7. CursorInv'
    BY <2>1 DEF IInv, CursorInv
  <2> QED BY <1>5, <2>2, <2>3, <2>4, <2>5, <2>6, <2>7, OthersKept DEF IInv
<1> QED BY <1>7, <1>8, <1>9 DEF Issue

LEMMA CompleteKeeps == ASSUME NotShared, IInv, NEW t \in Threads, Complete(t) PROVE IInv'
<1>1. /\ t \in pending /\ pending' = pending \ {t}
      /\ signalled' = [signalled EXCEPT ![handle[t]] = TRUE]
      /\ UNCHANGED <<size, pc, class, status, err, seen, listed, asked, got>>
  BY DEF Complete, volume
<1>2. PICK s \in Outcome(t) : Finish(t, s)
  BY DEF Complete
<1>3. /\ t \notin Queriers
      /\ t \in Listers => /\ class[t] \in {"restart", "next"} /\ Ready(t) /\ ListerOK(t)
                          /\ pc[t] = "finish" /\ status[t] = "pending"
      /\ t \in Watchers => class[t] \notin {"restart", "next"} /\ WatcherOK(t)
  BY <1>1, Pending DEF IInv, ThreadsInv
<1>4. /\ s \in {"success", "failed", "no such file", "no more files"}
      /\ iosb' = [iosb EXCEPT ![t] = s]
      /\ batch' \in [Threads -> Seq(Nat)] /\ cursor' \in [Handles -> Int] /\ CursorInv'
      /\ \A u \in Threads \ {t} : batch'[u] = batch[u]
      /\ \A u \in Listers \ {t} : cursor'[handle[u]] = cursor[handle[u]]
      /\ t \in Listers => Done(t, s)'
  <2>1. CASE t \in Listers
    BY <1>1, <1>2, <1>3, <2>1, DirectoryDone
  <2>2. CASE t \notin Listers
    <3>1. class[t] \notin {"restart", "next"}
      BY <1>3, <2>2, Roles
    <3> QED BY <1>1, <1>2, <2>2, <3>1, OtherDone DEF IInv, Shapes
  <2> QED BY <2>1, <2>2
<1>5. Shapes'
  <2>1. signalled' \in [Handles -> BOOLEAN]
    BY <1>1, ThreadAssumption DEF IInv, Shapes
  <2>2. iosb' \in [Threads -> Statuses]
    BY <1>4 DEF IInv, Shapes, Statuses
  <2> QED BY <1>1, <1>4, <2>1, <2>2 DEF IInv, Shapes
<1>6. iosb'[t] = s /\ \A u \in Threads \ {t} : iosb'[u] = iosb[u]
  BY <1>4 DEF IInv, Shapes
<1>7. Alone(t)
  BY <1>1, <1>4, <1>6 DEF Alone
<1>8. t \in Listers => ListerOK(t)'
  <2> SUFFICES ASSUME t \in Listers PROVE ListerOK(t)'
    OBVIOUS
  <2>1. Done(t, IF status[t] = "pending" THEN iosb[t] ELSE status[t])'
    BY <1>1, <1>3, <1>4, <1>6
  <2>2. SeenOK(t)' /\ t \notin pending'
    BY <1>1, <1>3 DEF ListerOK, SeenOK
  <2> QED BY <1>1, <1>3, <2>1, <2>2 DEF ListerOK, StageOK
<1>9. t \in Watchers => WatcherOK(t)'
  BY <1>1, <1>3 DEF WatcherOK
<1>10. PendingUnsignalled'
  BY <1>1, <1>3, OwnEventOnly
<1> QED BY <1>3, <1>4, <1>5, <1>7, <1>8, <1>9, <1>10, OthersKept DEF IInv

----------------------------------------------------------------------------
(* The theorems. *)

LEMMA InitEstablishes == Init => IInv
<1> SUFFICES ASSUME Init PROVE IInv
  OBVIOUS
<1>1. <<>> \in Seq(Nat) /\ Len(<<>>) = 0 /\ <<>> = Upto(0)
  BY EmptySeq, UptoLen
<1>2. Shapes
  BY <1>1 DEF Init, Shapes, Statuses
<1>3. CursorInv
  <2> SUFFICES ASSUME NEW h \in Handles PROVE cursor[h] \in -1 .. size[h]
    BY DEF CursorInv
  <2>1. size[h] \in Nat
    BY ThreadAssumption DEF Init
  <2>2. cursor[h] = -1
    BY DEF Init
  <2> QED BY <2>1, <2>2
<1>4. PendingUnsignalled
  BY DEF Init, PendingUnsignalled
<1>5. ASSUME NEW t \in Listers PROVE ListerOK(t)
  <2>1. t \in Threads /\ handle[t] \in Handles
    BY Roles, ThreadAssumption
  <2>2. size[handle[t]] \in Nat
    BY <2>1, ThreadAssumption DEF Init
  <2>3. /\ pc[t] = "idle" /\ batch[t] = <<>> /\ err[t] = "none" /\ t \notin pending
        /\ listed[t] = "no" /\ seen[t] = <<>>
    BY <2>1 DEF Init
  <2> QED BY <1>1, <2>2, <2>3 DEF ListerOK, SeenOK, StageOK
<1>6. ASSUME NEW t \in Queriers PROVE QuerierOK(t)
  BY Roles DEF Init, QuerierOK
<1>7. ASSUME NEW t \in Watchers PROVE WatcherOK(t)
  BY Roles DEF Init, WatcherOK
<1> QED BY <1>2, <1>3, <1>4, <1>5, <1>6, <1>7 DEF IInv, ThreadsInv

LEMMA NextKeeps == ASSUME NotShared, IInv, [Next]_vars PROVE IInv'
<1>1. CASE \E t \in Listers : StartListing(t) \/ GoOnListing(t)
  BY <1>1, StartListingKeeps, GoOnListingKeeps
<1>2. CASE \E t \in Queriers : (\E c \in {"query", "unknown"} : Ask(t, c)) \/ AskVolume(t)
  BY <1>2, AskKeeps, AskVolumeKeeps
<1>3. CASE \E t \in Watchers : Ask(t, "watch") \/ Watched(t)
  BY <1>3, WatchKeeps, WatchedKeeps
<1>4. CASE \E t \in Threads : Step(t) \/ Complete(t)
  BY <1>4, UnknownKeeps, IssueKeeps, QueryVolumeKeeps, VolumeDoneKeeps, WaitKeeps,
     NoWaitKeeps, ConvertKeeps, ReturnKeeps, CompleteKeeps DEF Step
<1>5. CASE UNCHANGED vars
  <2>1. Shapes'
    BY <1>5 DEF vars, volume, IInv, Shapes
  <2>2. CursorInv' /\ PendingUnsignalled'
    BY <1>5, KernelUntouched DEF vars, kernel
  <2>3. ThreadsInv'
    <3>1. ASSUME NEW t \in Listers PROVE ListerOK(t)'
      BY <1>5, ListerFrame DEF vars, IInv, ThreadsInv
    <3>2. ASSUME NEW t \in Queriers PROVE QuerierOK(t)'
      BY <1>5 DEF vars, volume, IInv, ThreadsInv, QuerierOK
    <3>3. ASSUME NEW t \in Watchers PROVE WatcherOK(t)'
      BY <1>5 DEF vars, IInv, ThreadsInv, WatcherOK
    <3> QED BY <3>1, <3>2, <3>3 DEF ThreadsInv
  <2> QED BY <2>1, <2>2, <2>3 DEF IInv
<1> QED BY <1>1, <1>2, <1>3, <1>4, <1>5 DEF Next

LEMMA Inductive == ASSUME NotShared PROVE Spec => []IInv
<1>1. IInv /\ [Next]_vars => IInv'
  BY NextKeeps
<1> QED BY <1>1, InitEstablishes, PTL DEF Spec

\* Also the handles' positions, the threads' program counters and what finish
\* converts are of the kinds the code knows.
THEOREM OverlappedTypes == ASSUME NotShared PROVE Spec => []TypeOK
<1>1. IInv => TypeOK
  <2> SUFFICES ASSUME IInv PROVE TypeOK
    OBVIOUS
  <2>1. ASSUME NEW t \in Threads, pc[t] = "convert" PROVE status[t] # "pending"
    <3>1. CASE t \in Listers
      BY <2>1, <3>1 DEF IInv, ThreadsInv, ListerOK, StageOK, Done
    <3>2. CASE t \in Queriers
      BY <3>2 DEF IInv, ThreadsInv, QuerierOK
    <3> QED BY <2>1, <3>1, <3>2, Callers
  <2>2. \A t \in Queriers : got[t] \subseteq asked[t] /\ asked[t] \subseteq Parts
    BY DEF IInv, Shapes, ThreadsInv, QuerierOK
  <2> QED BY <2>1, <2>2 DEF IInv, Shapes, CursorInv, TypeOK
<1> QED BY <1>1, Inductive, PTL

\* shim finish: however many threads list, query and watch, no call returns while
\* the kernel may still write to its status block or its buffer, if no I/O of the
\* program's own is left pending on a handle that is listed.
THEOREM NothingLeftPending == ASSUME NotShared PROVE Spec => []NothingPendingBehind
<1>1. IInv => NothingPendingBehind
  BY DEF IInv, ThreadsInv, ListerOK, StageOK, QuerierOK, NothingPendingBehind
<1> QED BY <1>1, Inductive, PTL

\* The same: for directories of any size and queries of any length, a reader has
\* the first entries in order, and all of them when it is told there are no more.
THEOREM ListingsRight == ASSUME NotShared PROVE Spec => []ListingRight
<1>1. IInv => ListingRight
  <2> SUFFICES ASSUME IInv, NEW t \in Listers
               PROVE  /\ IsPrefix(seen[t], Upto(size[handle[t]]))
                      /\ listed[t] = "all" => seen[t] = Upto(size[handle[t]])
    BY DEF ListingRight, Upto
  <2>1. SeenOK(t)
    BY DEF IInv, ThreadsInv, ListerOK
  <2>2. Len(seen[t]) \in Nat /\ size[handle[t]] \in Nat
    <3>1. seen[t] \in Seq(Nat) /\ size[handle[t]] \in Nat
      BY ThreadAssumption, Roles DEF IInv, Shapes
    <3> QED BY <3>1, LenProperties
  <2>3. IsPrefix(Upto(Len(seen[t])), Upto(size[handle[t]]))
    BY <2>1, <2>2, UptoPrefix DEF SeenOK
  <2> QED BY <2>1, <2>3 DEF SeenOK
<1> QED BY <1>1, Inductive, PTL

\* The same: a call that reports success has an entry to show, or all the parts
\* of the volume information that were asked for.
THEOREM SuccessesHaveData == ASSUME NotShared PROVE Spec => []SuccessHasData
<1>1. IInv => SuccessHasData
  <2> SUFFICES ASSUME IInv PROVE SuccessHasData
    OBVIOUS
  <2>1. ASSUME NEW t \in Listers, pc[t] = "return", err[t] = "none"
        PROVE  batch[t] # <<>>
    <3> DEFINE k == Len(seen[t])
               c == cursor[handle[t]]
    <3>1. Returned(t)
      BY <2>1 DEF IInv, ThreadsInv, ListerOK, StageOK
    <3>2. seen[t] \in Seq(Nat) /\ c \in Int
      <4>1. handle[t] \in Handles
        BY ThreadAssumption, Roles
      <4> QED BY <4>1 DEF IInv, Shapes
    <3>3. k \in Nat
      BY <3>2, LenProperties
    <3>4. c > k /\ batch[t] = Behind(k, c - k)
      BY <2>1, <3>1 DEF Returned
    <3> HIDE DEF k, c
    <3>5. Len(batch[t]) = c - k /\ c - k > 0
      <4>1. c - k \in Nat /\ c - k > 0
        BY <3>2, <3>3, <3>4
      <4>2. Len(Behind(k, c - k)) = c - k
        BY <3>3, <4>1, BehindLen
      <4> QED BY <3>4, <4>1, <4>2
    <3> QED BY <3>5, EmptySeq
  <2>2. ASSUME NEW t \in Queriers, pc[t] = "return", class[t] = "volume", err[t] = "none"
        PROVE  got[t] = asked[t]
    BY <2>2 DEF IInv, ThreadsInv, QuerierOK
  <2> QED BY <2>1, <2>2 DEF SuccessHasData
<1> QED BY <1>1, Inductive, PTL
===============================================================================
