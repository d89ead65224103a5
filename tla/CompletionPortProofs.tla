------------------------ MODULE CompletionPortProofs -------------------------
(***************************************************************************)
(* The polyfill implements the Ex form for any number of threads, packets  *)
(* and entry array sizes, and no packet is lost or handed out twice.       *)
(***************************************************************************)
EXTENDS CompletionPort, SequenceTheorems, TLAPS

Results == [ok : BOOLEAN, entries : {<<>>} \cup {<<p>> : p \in Packets}]

\* What a thread's registers say about the call it is in: the plain form has
\* left a packet exactly if it took one, and a result exists only on return.
CallInv(t) ==
  /\ pc[t] \in {"idle", "entered", "plain", "back"} => res[t] = NoResult
  /\ pc[t] \in {"plain", "back"} => Room[t] # 0
  /\ pc[t] = "plain" => scratch[t] = NoPacket
  /\ pc[t] = "back" => \/ scratch[t] = NoPacket /\ ~ plain[t]
                       \/ scratch[t] \in Packets /\ plain[t]
                       \/ scratch[t] \in Failed /\ ~ plain[t]

Inv == TypeOK /\ \A t \in Threads : CallInv(t)

\* The two ways to tell a dequeue together are right.
LEMMA OutcomeRight ==
  ASSUME Inv, NEW t \in Threads, pc[t] = "back"
  PROVE  Outcome(t) = IF scratch[t] \in Packets
                      THEN [ok |-> TRUE, entries |-> <<scratch[t]>>] ELSE NoResult
<1>1. CallInv(t) /\ scratch[t] \in Packets \cup {NoPacket}
  BY DEF Inv, TypeOK
<1>2. Took(t) <=> scratch[t] \in Packets
  BY <1>1, PortAssumption DEF CallInv, Took
<1> QED
  BY <1>2 DEF Outcome

LEMMA HeadAndTail ==
  ASSUME NEW s \in Seq(Packets), s # <<>>
  PROVE  /\ Head(s) \in Packets /\ Tail(s) \in Seq(Packets) /\ Len(s) \in Nat \ {0}
         /\ SubSeq(s, 1, 1) = <<Head(s)>>
         /\ SubSeq(s, 2, Len(s)) = Tail(s)
<1>1. Len(s) \in Nat \ {0} /\ Head(s) \in Packets /\ Tail(s) \in Seq(Packets)
  OBVIOUS
<1>2. SubSeq(s, 1, 1) = <<Head(s)>>
  <2> DEFINE q == SubSeq(s, 1, 1)
  <2>1. q \in Seq(Packets) /\ Len(q) = 1 /\ q[1] = s[1]
    <3>1. \A i \in 1 .. 1 : s[i] \in Packets
      BY <1>1
    <3> QED BY <3>1, SubSeqProperties
  <2>2. Head(s) = s[1]
    OBVIOUS
  <2> HIDE DEF q
  <2>3. q = <<q[1]>>
    BY <2>1
  <2> QED BY <2>1, <2>2, <2>3 DEF q
<1>3. SubSeq(s, 2, Len(s)) = Tail(s)
  BY <1>1, TailIsSubSeq
<1> QED BY <1>1, <1>2, <1>3

----------------------------------------------------------------------------
LEMMA InitInv == Init => Inv
<1> SUFFICES ASSUME Init PROVE Inv
  OBVIOUS
<1>1. NoResult \in [ok : BOOLEAN, entries : {<<>>} \cup {<<p>> : p \in Packets}]
  BY DEF NoResult
<1>2. queue \in Seq(Packets)
  BY DEF Init
<1>3. TypeOK
  BY <1>1, <1>2 DEF Init, TypeOK, Abstract!Errors
<1> QED
  BY <1>3 DEF Init, Inv, CallInv

LEMMA NextInv == Inv /\ [Next]_vars => Inv'
<1> SUFFICES ASSUME Inv, [Next]_vars PROVE Inv'
  OBVIOUS
<1> USE DEF Inv
<1>1. ASSUME NEW p \in Packets, Post(p) PROVE Inv'
  BY <1>1 DEF Post, TypeOK, CallInv
<1>2. CASE Close
  BY <1>2 DEF Close, TypeOK, CallInv
<1>3. ASSUME NEW t \in Threads, Enter(t) PROVE Inv'
  BY <1>3 DEF Enter, TypeOK, CallInv
<1>4. ASSUME NEW t \in Threads, CallPlain(t) PROVE Inv'
  BY <1>4 DEF CallPlain, TypeOK, CallInv
<1>5. ASSUME NEW t \in Threads, NoRoom(t) PROVE Inv'
  BY <1>5 DEF NoRoom, TypeOK, CallInv, NoResult
<1>6. ASSUME NEW t \in Threads, PlainTakes(t) PROVE Inv'
  <2>1. Head(queue) \in Packets /\ Tail(queue) \in Seq(Packets)
    BY <1>6, HeadAndTail DEF PlainTakes, TypeOK
  <2> QED
    BY <1>6, <2>1 DEF PlainTakes, TypeOK, CallInv, Abstract!Errors
<1>7. ASSUME NEW t \in Threads, PlainTakesNone(t) PROVE Inv'
  BY <1>7 DEF PlainTakesNone, TypeOK, CallInv, Abstract!Errors
<1>8. ASSUME NEW t \in Threads, Return(t) PROVE Inv'
  <2>1. Outcome(t) \in Results
    <3>1. Outcome(t) = IF scratch[t] \in Packets
                       THEN [ok |-> TRUE, entries |-> <<scratch[t]>>] ELSE NoResult
      BY <1>8, OutcomeRight DEF Return
    <3>2. NoResult \in Results
      BY DEF NoResult, Results
    <3>3. \A p \in Packets : [ok |-> TRUE, entries |-> <<p>>] \in Results
      BY DEF Results
    <3> QED BY <3>1, <3>2, <3>3
  <2> QED
    BY <1>8, <2>1 DEF Return, TypeOK, CallInv, Results
<1>9. ASSUME NEW t \in Threads, Take(t) PROVE Inv'
  <2>1. res[t] \in Results
    BY DEF TypeOK, Results
  <2>2. {res[t].entries[i] : i \in DOMAIN res[t].entries} \subseteq Packets
    BY <2>1 DEF Results
  <2> QED
    BY <1>9, <2>2 DEF Take, TypeOK, CallInv, NoResult, Abstract!Errors
<1>10. CASE UNCHANGED vars
  BY <1>10 DEF vars, TypeOK, CallInv
<1> QED
  BY <1>1, <1>2, <1>3, <1>4, <1>5, <1>6, <1>7, <1>8, <1>9, <1>10 DEF Next, Step

\* The type invariant, and with it the meaning of the registers.
THEOREM PortTypeCorrect == Spec => []TypeOK
<1>1. Inv => TypeOK
  BY DEF Inv
<1> QED BY InitInv, NextInv, <1>1, PTL DEF Spec

----------------------------------------------------------------------------
(* The refinement. *)

LEMMA InitRefines == Init => Abstract!Init
<1> SUFFICES ASSUME Init PROVE Abstract!Init
  OBVIOUS
<1>1. \A t \in Threads : View(t) = Abstract!Idle("none")
  BY DEF Init, View, NoResult, Abstract!Idle
<1>2. AbstractCall = [t \in Threads |-> Abstract!Idle("none")]
  BY <1>1 DEF AbstractCall
<1> QED
  BY <1>2 DEF Init, Abstract!Init

\* A step that changes the view of one thread only changes that thread's call.
LEMMA OneView ==
  ASSUME NEW t \in Threads, NEW v, View(t)' = v,
         \A u \in Threads \ {t} : View(u)' = View(u)
  PROVE  AbstractCall' = [AbstractCall EXCEPT ![t] = v]
BY DEF AbstractCall

LEMMA SameViews ==
  ASSUME \A u \in Threads : View(u)' = View(u)
  PROVE  AbstractCall' = AbstractCall
BY DEF AbstractCall

\* Threads whose registers a step leaves alone look the same to the caller.
LEMMA ViewKept ==
  ASSUME NEW u \in Threads, pc'[u] = pc[u], res'[u] = res[u], err'[u] = err[u],
         scratch'[u] = scratch[u], plain'[u] = plain[u]
  PROVE  View(u)' = View(u)
BY DEF View, Outcome, Took

LEMMA ViewState ==
  ASSUME NEW t \in Threads
  PROVE  /\ AbstractCall[t] = View(t)
         /\ pc[t] = "idle" => AbstractCall[t].st = "idle"
         /\ pc[t] \in {"entered", "plain"} => AbstractCall[t].st = "waiting"
         /\ AbstractCall[t].err = err[t]
<1>1. AbstractCall[t] = View(t)
  BY DEF AbstractCall
<1>2. View(t).st = IF pc[t] = "idle" THEN "idle"
                   ELSE IF pc[t] \in {"back", "returned"} THEN "returned" ELSE "waiting"
  BY DEF View
<1>3. View(t).err = err[t]
  BY DEF View
<1> QED
  BY <1>1, <1>2, <1>3

\* What a call that is over returns, and what it looks like before.
LEMMA ViewFacts ==
  ASSUME Inv, NEW t \in Threads
  PROVE  /\ AbstractCall[t] = View(t)
         /\ pc[t] = "idle" => View(t) = Abstract!Idle(err[t])
         /\ pc[t] \in {"entered", "plain"} => View(t) = Abstract!Waiting(err[t])
         /\ pc[t] = "back" /\ scratch[t] \in Packets =>
              View(t) = Abstract!Returned(TRUE, <<scratch[t]>>, err[t])
         /\ pc[t] = "back" /\ scratch[t] \notin Packets =>
              View(t) = Abstract!Returned(FALSE, <<>>, err[t])
         /\ pc[t] = "returned" =>
              View(t) = Abstract!Returned(res[t].ok, res[t].entries, err[t])
<1>1. CallInv(t)
  BY DEF Inv
<1>2. pc[t] = "back" =>
        Outcome(t) = IF scratch[t] \in Packets
                     THEN [ok |-> TRUE, entries |-> <<scratch[t]>>] ELSE NoResult
  BY OutcomeRight
<1>3. AbstractCall[t] = View(t)
  BY DEF AbstractCall
<1>4. pc[t] = "idle" => View(t) = Abstract!Idle(err[t])
  <2> SUFFICES ASSUME pc[t] = "idle" PROVE View(t) = Abstract!Idle(err[t])
    OBVIOUS
  <2>1. res[t].ok = FALSE /\ res[t].entries = <<>>
    BY <1>1 DEF CallInv, NoResult
  <2> QED BY <2>1 DEF View, Abstract!Idle
<1>5. pc[t] \in {"entered", "plain"} => View(t) = Abstract!Waiting(err[t])
  <2> SUFFICES ASSUME pc[t] \in {"entered", "plain"} PROVE View(t) = Abstract!Waiting(err[t])
    OBVIOUS
  <2>1. res[t].ok = FALSE /\ res[t].entries = <<>>
    BY <1>1 DEF CallInv, NoResult
  <2> QED BY <2>1 DEF View, Abstract!Waiting
<1>6. pc[t] = "back" /\ scratch[t] \in Packets =>
              View(t) = Abstract!Returned(TRUE, <<scratch[t]>>, err[t])
  <2> SUFFICES ASSUME pc[t] = "back", scratch[t] \in Packets
               PROVE  View(t) = Abstract!Returned(TRUE, <<scratch[t]>>, err[t])
    OBVIOUS
  <2>1. Outcome(t).ok = TRUE /\ Outcome(t).entries = <<scratch[t]>>
    BY <1>2
  <2> QED BY <2>1 DEF View, Abstract!Returned
<1>7. pc[t] = "back" /\ scratch[t] \notin Packets =>
              View(t) = Abstract!Returned(FALSE, <<>>, err[t])
  <2> SUFFICES ASSUME pc[t] = "back", scratch[t] \notin Packets
               PROVE  View(t) = Abstract!Returned(FALSE, <<>>, err[t])
    OBVIOUS
  <2>1. Outcome(t).ok = FALSE /\ Outcome(t).entries = <<>>
    BY <1>2 DEF NoResult
  <2> QED BY <2>1 DEF View, Abstract!Returned
<1>8. pc[t] = "returned" =>
              View(t) = Abstract!Returned(res[t].ok, res[t].entries, err[t])
  <2> SUFFICES ASSUME pc[t] = "returned"
               PROVE  View(t) = Abstract!Returned(res[t].ok, res[t].entries, err[t])
    OBVIOUS
  <2> QED BY DEF View, Abstract!Returned
<1> QED
  BY <1>3, <1>4, <1>5, <1>6, <1>7, <1>8

LEMMA StepRefines == Inv /\ Inv' /\ [Next]_vars => [Abstract!Next]_Abstract!vars
<1> SUFFICES ASSUME Inv, Inv', [Next]_vars PROVE [Abstract!Next]_Abstract!vars
  OBVIOUS
<1>0. TypeOK /\ TypeOK'
  BY DEF Inv
<1>1. ASSUME NEW p \in Packets, Post(p) PROVE Abstract!Next
  <2>1. AbstractCall' = AbstractCall
    BY <1>1, ViewKept, SameViews DEF Post
  <2>2. Abstract!Post(p)
    BY <1>1, <2>1 DEF Post, Abstract!Post
  <2> QED BY <2>2 DEF Abstract!Next
<1>2. CASE Close
  <2>1. AbstractCall' = AbstractCall
    BY <1>2, ViewKept, SameViews DEF Close
  <2>2. Abstract!Close
    BY <1>2, <2>1 DEF Close, Abstract!Close
  <2> QED BY <2>2 DEF Abstract!Next
<1>3. ASSUME NEW t \in Threads, Enter(t) PROVE Abstract!Next
  <2>1. pc[t] = "idle" /\ pc'[t] = "entered"
    BY <1>0, <1>3 DEF Enter, TypeOK
  <2>2. \A u \in Threads \ {t} : View(u)' = View(u)
    BY <1>0, <1>3, ViewKept DEF Enter, TypeOK
  <2>3. View(t)' = Abstract!Waiting(err[t])
    <3>1. res'[t] = NoResult /\ err'[t] = err[t]
      BY <1>3, <2>1 DEF Inv, CallInv, Enter
    <3>2. res'[t].ok = FALSE /\ res'[t].entries = <<>>
      BY <3>1 DEF NoResult
    <3> QED BY <2>1, <3>1, <3>2 DEF View, Abstract!Waiting
  <2>4. AbstractCall' = [AbstractCall EXCEPT ![t] = Abstract!Waiting(err[t])]
    BY <2>2, <2>3, OneView
  <2>5. AbstractCall[t].st = "idle" /\ AbstractCall[t].err = err[t]
    BY <2>1, ViewState
  <2>6. Abstract!Enter(t)
    BY <1>3, <2>4, <2>5 DEF Enter, Abstract!Enter
  <2> QED BY <2>6 DEF Abstract!Next
<1>4. ASSUME NEW t \in Threads, CallPlain(t) PROVE UNCHANGED Abstract!vars
  <2>1. pc[t] = "entered" /\ pc'[t] = "plain"
    BY <1>0, <1>4 DEF CallPlain, TypeOK
  <2>2. \A u \in Threads \ {t} : View(u)' = View(u)
    BY <1>0, <1>4, ViewKept DEF CallPlain, TypeOK
  <2>3. View(t)' = View(t)
    BY <1>4, <2>1 DEF CallPlain, View
  <2>4. AbstractCall' = AbstractCall
    BY <2>2, <2>3, SameViews
  <2> QED BY <1>4, <2>4 DEF CallPlain, Abstract!vars
<1>5. ASSUME NEW t \in Threads, NoRoom(t) PROVE Abstract!Next
  <2>1. /\ pc[t] = "entered" /\ pc'[t] = "returned" /\ Room[t] = 0
        /\ res'[t] = NoResult /\ err'[t] = err[t]
    BY <1>0, <1>5 DEF NoRoom, TypeOK
  <2>2. \A u \in Threads \ {t} : View(u)' = View(u)
    BY <1>0, <1>5, ViewKept DEF NoRoom, TypeOK
  <2>3. View(t)' = Abstract!Returned(FALSE, <<>>, err[t])
    BY <2>1 DEF View, NoResult, Abstract!Returned
  <2>4. AbstractCall' = [AbstractCall EXCEPT ![t] = Abstract!Returned(FALSE, <<>>, err[t])]
    BY <2>2, <2>3, OneView
  <2>5. AbstractCall[t].st = "waiting" /\ AbstractCall[t].err = err[t]
    BY <2>1, ViewState
  <2>6. Abstract!Refuse(t)
    BY <1>5, <2>1, <2>4, <2>5 DEF NoRoom, Abstract!Refuse
  <2> QED BY <2>6 DEF Abstract!Next
<1>6. ASSUME NEW t \in Threads, PlainTakes(t) PROVE Abstract!Next
  <2>1. /\ pc[t] = "plain" /\ pc'[t] = "back" /\ queue # <<>>
        /\ scratch'[t] = Head(queue) /\ err'[t] \in Abstract!Errors
        /\ queue' = Tail(queue) /\ queue \in Seq(Packets)
    BY <1>0, <1>6 DEF PlainTakes, TypeOK
  <2>2. \A u \in Threads \ {t} : View(u)' = View(u)
    BY <1>0, <1>6, ViewKept DEF PlainTakes, TypeOK
  <2>3. /\ Head(queue) \in Packets /\ Len(queue) \in Nat \ {0}
        /\ SubSeq(queue, 1, 1) = <<Head(queue)>>
        /\ SubSeq(queue, 2, Len(queue)) = Tail(queue)
    BY <2>1, HeadAndTail
  <2>4. (View(t) = Abstract!Returned(TRUE, <<scratch[t]>>, err[t]))'
    <3>1. (Outcome(t) = [ok |-> TRUE, entries |-> <<scratch[t]>>])'
      <4>1. scratch'[t] \in Packets
        BY <2>1, <2>3
      <4>2. (pc[t] = "back" /\ CallInv(t))'
        BY <2>1 DEF Inv
      <4>3. Took(t)'
        BY <4>1, <4>2, PortAssumption DEF CallInv, Took
      <4> QED BY <4>3 DEF Outcome
    <3> QED BY <2>1, <3>1 DEF View, Abstract!Returned
  <2>5. View(t)' = Abstract!Returned(TRUE, SubSeq(queue, 1, 1), err'[t])
    BY <2>1, <2>3, <2>4 DEF Abstract!Returned
  <2>6. AbstractCall' = [AbstractCall EXCEPT ![t] =
                           Abstract!Returned(TRUE, SubSeq(queue, 1, 1), err'[t])]
    BY <2>2, <2>5, OneView
  <2>7. AbstractCall[t].st = "waiting"
    BY <2>1, ViewState
  <2>8. 1 \in 1 .. Room[t] /\ 1 <= Len(queue)
    <3>1. Room[t] \in Nat /\ Room[t] # 0
      BY <2>1, PortAssumption DEF Inv, CallInv
    <3> QED BY <2>3, <3>1
  <2>9. queue' = SubSeq(queue, 1 + 1, Len(queue))
    BY <2>1, <2>3
  <2>10. Abstract!Dequeue(t)
    <3>1. UNCHANGED <<posted, closed, got>>
      BY <1>6 DEF PlainTakes
    <3> QED
      BY <2>1, <2>6, <2>7, <2>8, <2>9, <3>1 DEF Abstract!Dequeue
  <2> QED BY <2>10 DEF Abstract!Next
<1>7. ASSUME NEW t \in Threads, PlainTakesNone(t) PROVE Abstract!Next
  <2>1. /\ pc[t] = "plain" /\ pc'[t] = "back" /\ scratch'[t] = NoPacket
        /\ UNCHANGED <<queue, posted, closed, got>>
        /\ \/ queue = <<>> /\ t \in Timed /\ err'[t] = "timeout"
           \/ closed /\ err'[t] = "closed"
    BY <1>0, <1>7 DEF PlainTakesNone, TypeOK, Inv, CallInv
  <2>2. \A u \in Threads \ {t} : View(u)' = View(u)
    BY <1>0, <1>7, ViewKept DEF PlainTakesNone, TypeOK
  <2>3. View(t)' = Abstract!Returned(FALSE, <<>>, err'[t])
    <3>1. (Outcome(t) = NoResult)'
      <4>1. (pc[t] = "back" /\ CallInv(t))'
        BY <2>1 DEF Inv
      <4>2. ~ Took(t)'
        BY <2>1, <4>1, PortAssumption DEF CallInv, Took
      <4> QED BY <4>2 DEF Outcome, NoResult
    <3> QED BY <2>1, <3>1 DEF View, NoResult, Abstract!Returned
  <2>4. AbstractCall' = [AbstractCall EXCEPT ![t] = Abstract!Returned(FALSE, <<>>, err'[t])]
    BY <2>2, <2>3, OneView
  <2>5. AbstractCall[t].st = "waiting"
    BY <2>1, ViewState
  <2>6. Abstract!TimeOut(t) \/ Abstract!Refuse(t)
    BY <2>1, <2>4, <2>5 DEF Abstract!TimeOut, Abstract!Refuse
  <2> QED BY <2>6 DEF Abstract!Next
<1>8. ASSUME NEW t \in Threads, Return(t) PROVE UNCHANGED Abstract!vars
  <2>1. pc[t] = "back" /\ pc'[t] = "returned" /\ res'[t] = Outcome(t) /\ err'[t] = err[t]
    BY <1>0, <1>8 DEF Return, TypeOK
  <2>2. \A u \in Threads \ {t} : View(u)' = View(u)
    BY <1>0, <1>8, ViewKept DEF Return, TypeOK
  <2>3. View(t)' = View(t)
    BY <2>1 DEF View
  <2>4. AbstractCall' = AbstractCall
    BY <2>2, <2>3, SameViews
  <2> QED BY <1>8, <2>4 DEF Return, Abstract!vars
<1>9. ASSUME NEW t \in Threads, Take(t) PROVE Abstract!Next
  <2>1. /\ pc[t] = "returned" /\ pc'[t] = "idle"
        /\ res'[t] = NoResult /\ err'[t] \in Abstract!Errors
        /\ got' = got \cup {res[t].entries[i] : i \in DOMAIN res[t].entries}
        /\ UNCHANGED <<queue, posted, closed>>
    BY <1>0, <1>9 DEF Take, TypeOK
  <2>2. \A u \in Threads \ {t} : View(u)' = View(u)
    BY <1>0, <1>9, ViewKept DEF Take, TypeOK
  <2>3. View(t)' = Abstract!Idle(err'[t])
    BY <2>1 DEF View, NoResult, Abstract!Idle
  <2>4. AbstractCall' = [AbstractCall EXCEPT ![t] = Abstract!Idle(err'[t])]
    BY <2>2, <2>3, OneView
  <2>5. AbstractCall[t].st = "returned" /\ AbstractCall[t].entries = res[t].entries
    BY <2>1, ViewFacts DEF Abstract!Returned
  <2>6. Abstract!Take(t)
    BY <2>1, <2>4, <2>5 DEF Abstract!Take
  <2> QED BY <2>6 DEF Abstract!Next
<1>10. CASE UNCHANGED vars
  <2>1. AbstractCall' = AbstractCall
    BY <1>10, ViewKept, SameViews DEF vars
  <2> QED BY <1>10, <2>1 DEF vars, Abstract!vars
<1> QED
  BY <1>1, <1>2, <1>3, <1>4, <1>5, <1>6, <1>7, <1>8, <1>9, <1>10 DEF Next, Step

\* The polyfill implements GetQueuedCompletionStatusEx: whatever a caller sees of
\* it, it could have seen of the real function.
THEOREM PortImplementsEx == Spec => ImplementsEx
<1>1. Spec => []Inv
  BY InitInv, NextInv, PTL DEF Spec
<1>2. Spec => Abstract!Init /\ [][Abstract!Next]_Abstract!vars
  BY <1>1, InitRefines, StepRefines, PTL DEF Spec
<1> QED
  BY <1>2 DEF ImplementsEx, Abstract!Spec

----------------------------------------------------------------------------
(* Every packet is in one place. *)

In(s) == {s[i] : i \in DOMAIN s}
Distinct(s) == \A i, j \in DOMAIN s : i # j => s[i] # s[j]

LEMMA Appended ==
  ASSUME NEW s \in Seq(Packets), NEW p \in Packets, p \notin In(s), Distinct(s)
  PROVE  In(Append(s, p)) = In(s) \cup {p} /\ Distinct(Append(s, p))
<1> DEFINE a == Append(s, p)
<1>0. /\ a \in Seq(Packets) /\ Len(a) = Len(s) + 1 /\ a[Len(s) + 1] = p
      /\ \A i \in 1 .. Len(s) : a[i] = s[i]
  BY AppendProperties
<1>1. /\ Len(s) \in Nat /\ DOMAIN s = 1 .. Len(s) /\ DOMAIN a = 1 .. Len(s) + 1
      /\ \A i \in 1 .. Len(s) : a[i] = s[i]
      /\ a[Len(s) + 1] = p
  <2> HIDE DEF a
  <2>1. Len(s) \in Nat /\ DOMAIN s = 1 .. Len(s)
    OBVIOUS
  <2>2. DOMAIN a = 1 .. Len(a)
    BY <1>0
  <2> QED BY <1>0, <2>1, <2>2
<1> HIDE DEF a
<1>2. \A i \in 1 .. Len(s) : s[i] # p
  BY <1>1 DEF In
<1>3. In(a) = In(s) \cup {p}
  BY <1>1 DEF In
<1>4. Distinct(a)
  BY <1>1, <1>2 DEF Distinct
<1> QED BY <1>3, <1>4 DEF a

LEMMA Taken ==
  ASSUME NEW s \in Seq(Packets), s # <<>>, Distinct(s)
  PROVE  /\ In(s) = In(Tail(s)) \cup {Head(s)} /\ Head(s) \notin In(Tail(s))
         /\ Distinct(Tail(s))
<1> DEFINE r == Tail(s)
<1>1. /\ Len(s) \in Nat \ {0} /\ DOMAIN s = 1 .. Len(s) /\ DOMAIN r = 1 .. Len(s) - 1
      /\ \A i \in 1 .. Len(s) - 1 : r[i] = s[i + 1]
      /\ Head(s) = s[1]
  OBVIOUS
<1> HIDE DEF r
<1>2. \A i \in 2 .. Len(s) : i - 1 \in DOMAIN r /\ r[i - 1] = s[i] /\ s[i] # s[1]
  BY <1>1 DEF Distinct
<1>3. In(s) = In(r) \cup {s[1]}
  <2>1. ASSUME NEW x \in In(s) PROVE x \in In(r) \cup {s[1]}
    <3>1. PICK i \in 1 .. Len(s) : x = s[i]
      BY <1>1 DEF In
    <3>2. i = 1 \/ i \in 2 .. Len(s)
      BY <1>1, <3>1
    <3> QED BY <1>2, <3>1, <3>2 DEF In
  <2>2. ASSUME NEW x \in In(r) PROVE x \in In(s)
    <3>1. PICK i \in 1 .. Len(s) - 1 : x = s[i + 1]
      BY <1>1 DEF In
    <3> QED BY <1>1, <3>1 DEF In
  <2>3. s[1] \in In(s)
    BY <1>1 DEF In
  <2> QED BY <2>1, <2>2, <2>3
<1>4. s[1] \notin In(r)
  BY <1>1, <1>2 DEF In
<1>5. Distinct(r)
  BY <1>1 DEF Distinct
<1> QED BY <1>1, <1>3, <1>4, <1>5 DEF r

\* What a call has in its hands at each of its steps.
LEMMA Hands ==
  ASSUME Inv, NEW t \in Threads
  PROVE  /\ pc[t] \in {"idle", "entered", "plain"} => InCall(t) = {}
         /\ pc[t] = "back" => InCall(t) = {scratch[t]} \cap Packets
         /\ pc[t] = "returned" => InCall(t) = In(res[t].entries)
         /\ InCall(t) \subseteq Packets
<1>1. CallInv(t) /\ scratch[t] \in Packets \cup {NoPacket} /\ res[t] \in Results
  BY DEF Inv, TypeOK, Results
<1>2. pc[t] \in {"idle", "entered", "plain"} => InCall(t) = {}
  BY <1>1 DEF CallInv, InCall, NoResult
<1>3. pc[t] = "back" => InCall(t) = {scratch[t]} \cap Packets
  BY <1>1, PortAssumption DEF InCall
<1>4. pc[t] = "returned" => InCall(t) = In(res[t].entries)
  BY DEF InCall, In
<1>5. In(res[t].entries) \subseteq Packets
  BY <1>1 DEF Results, In
<1>6. pc[t] \in {"idle", "entered", "plain", "back", "returned"}
  BY DEF Inv, TypeOK
<1> QED BY <1>2, <1>3, <1>4, <1>5, <1>6

\* The same for the state after a step.
LEMMA HandsAfter ==
  ASSUME Inv', NEW t \in Threads
  PROVE  /\ pc'[t] \in {"idle", "entered", "plain"} => InCall(t)' = {}
         /\ pc'[t] = "back" => InCall(t)' = {scratch'[t]} \cap Packets
         /\ pc'[t] = "returned" => InCall(t)' = In(res'[t].entries)
<1>1. CallInv(t)' /\ scratch'[t] \in Packets \cup {NoPacket}
  BY DEF Inv, TypeOK
<1> QED BY <1>1, PortAssumption DEF CallInv, InCall, In, NoResult

\* The first conjunct of PacketsAccounted, packet by packet.
Somewhere(x) == x \in InPort \/ x \in got \/ \E t \in Threads : x \in InCall(t)

LEMMA SomewhereNow ==
  ASSUME PacketsAccounted, ~ closed PROVE \A x : x \in posted <=> Somewhere(x)
<1>1. posted = InPort \cup got \cup UNION {InCall(t) : t \in Threads}
  BY DEF PacketsAccounted
<1> DEFINE H == UNION {InCall(t) : t \in Threads}
<1>2. \A x : x \in H <=> \E t \in Threads : x \in InCall(t)
  OBVIOUS
<1>3. posted = InPort \cup got \cup H
  BY <1>1
<1> HIDE DEF H
<1> QED BY <1>2, <1>3 DEF Somewhere

LEMMA SomewhereThen ==
  ASSUME \A x : x \in posted' <=> Somewhere(x)'
  PROVE  (posted = InPort \cup got \cup UNION {InCall(t) : t \in Threads})'
<1> DEFINE H == UNION {InCall(t) : t \in Threads}
<1>1. \A x : x \in H' <=> \E t \in Threads : x \in InCall(t)'
  OBVIOUS
<1>2. posted' = InPort' \cup got' \cup H'
  <2> HIDE DEF H
  <2> QED BY <1>1 DEF Somewhere
<1> QED BY <1>2

LEMMA HandsKept ==
  ASSUME NEW u \in Threads, pc'[u] = pc[u], scratch'[u] = scratch[u], res'[u] = res[u]
  PROVE  InCall(u)' = InCall(u)
BY DEF InCall

LEMMA AccountedKept ==
  ASSUME PacketsAccounted, \A u \in Threads : InCall(u)' = InCall(u),
         UNCHANGED <<queue, posted, closed, got>>
  PROVE  PacketsAccounted'
BY DEF PacketsAccounted, InPort

LEMMA AccountedStep ==
  ASSUME Inv, Inv', PacketsAccounted, [Next]_vars PROVE PacketsAccounted'
<1>0. TypeOK /\ queue \in Seq(Packets) /\ InPort = In(queue) /\ InPort' = In(queue')
      /\ Distinct(queue)
  BY DEF Inv, TypeOK, InPort, In, PacketsAccounted, Distinct
<1>1. ASSUME NEW p \in Packets, Post(p) PROVE PacketsAccounted'
  <2>1. /\ ~ closed /\ p \notin posted /\ posted' = posted \cup {p}
        /\ queue' = Append(queue, p)
        /\ UNCHANGED <<closed, pc, scratch, res, got>>
    BY <1>1 DEF Post
  <2>2. \A u \in Threads : InCall(u)' = InCall(u)
    BY <2>1, HandsKept
  <2>3. /\ p \notin InPort /\ p \notin got
        /\ \A u \in Threads : p \notin InCall(u)
        /\ \A x : x \in posted <=> Somewhere(x)
    BY <2>1, SomewhereNow DEF Somewhere
  <2>4. InPort' = InPort \cup {p} /\ Distinct(queue')
    BY <1>0, <2>1, <2>3, Appended
  <2>5. (posted = InPort \cup got \cup UNION {InCall(t) : t \in Threads})'
    BY <2>1, <2>2, <2>3, <2>4, SomewhereThen DEF Somewhere
  <2>6. \A t \in Threads : InCall(t)' \cap (got' \cup InPort') = {}
    BY <2>1, <2>2, <2>3, <2>4 DEF PacketsAccounted
  <2>7. got' \cap InPort' = {}
    BY <2>1, <2>3, <2>4 DEF PacketsAccounted
  <2> QED BY <2>2, <2>4, <2>5, <2>6, <2>7 DEF PacketsAccounted, Distinct
<1>2. CASE Close
  <2>1. closed' /\ queue' = <<>> /\ UNCHANGED <<pc, scratch, res, got>>
    BY <1>2 DEF Close
  <2>2. \A u \in Threads : InCall(u)' = InCall(u)
    BY <2>1, HandsKept
  <2>3. InPort' = {}
    BY <1>0, <2>1 DEF In
  <2> QED BY <2>1, <2>2, <2>3 DEF PacketsAccounted
<1>3. ASSUME NEW t \in Threads, Enter(t) \/ CallPlain(t) \/ NoRoom(t) \/ PlainTakesNone(t)
      PROVE  PacketsAccounted'
  <2>1. UNCHANGED <<queue, posted, closed, got>>
    BY <1>3 DEF Enter, CallPlain, NoRoom, PlainTakesNone
  <2>2. ASSUME NEW u \in Threads \ {t} PROVE InCall(u)' = InCall(u)
    BY <1>0, <1>3, <2>2, HandsKept DEF Enter, CallPlain, NoRoom, PlainTakesNone, TypeOK
  <2>3. pc[t] \in {"idle", "entered", "plain"}
    BY <1>3 DEF Enter, CallPlain, NoRoom, PlainTakesNone
  <2>4. InCall(t) = {}
    BY <2>3, Hands
  <2>5. InCall(t)' = {}
    <3>1. CASE Enter(t) \/ CallPlain(t)
      BY <1>0, <3>1, HandsAfter DEF Enter, CallPlain, TypeOK
    <3>2. CASE NoRoom(t)
      <4>1. pc'[t] = "returned" /\ res'[t] = NoResult
        BY <1>0, <3>2 DEF NoRoom, TypeOK
      <4>2. In(res'[t].entries) = {}
        BY <4>1 DEF NoResult, In
      <4> QED BY <4>1, <4>2, HandsAfter
    <3>3. CASE PlainTakesNone(t)
      <4>1. pc'[t] = "back" /\ scratch'[t] = scratch[t] /\ scratch[t] = NoPacket
        BY <1>0, <3>3 DEF PlainTakesNone, TypeOK, Inv, CallInv
      <4> QED BY <4>1, HandsAfter, PortAssumption
    <3> QED BY <1>3, <3>1, <3>2, <3>3
  <2> QED BY <2>1, <2>2, <2>4, <2>5, AccountedKept
<1>4. ASSUME NEW t \in Threads, PlainTakes(t) PROVE PacketsAccounted'
  <2>1. /\ queue # <<>> /\ queue' = Tail(queue) /\ UNCHANGED <<posted, closed, got>>
        /\ pc[t] = "plain" /\ pc'[t] = "back" /\ scratch'[t] = Head(queue)
    BY <1>0, <1>4 DEF PlainTakes, TypeOK
  <2>2. ASSUME NEW u \in Threads \ {t} PROVE InCall(u)' = InCall(u)
    BY <1>0, <1>4, <2>2, HandsKept DEF PlainTakes, TypeOK
  <2>3. Head(queue) \in Packets
    BY <1>0, <2>1, HeadAndTail
  <2>4. InCall(t) = {} /\ InCall(t)' = {Head(queue)}
    BY <2>1, <2>3, Hands, HandsAfter
  <2>5. /\ InPort = InPort' \cup {Head(queue)} /\ Head(queue) \notin InPort'
        /\ Distinct(queue')
    BY <1>0, <2>1, Taken
  <2>6. ASSUME ~ closed'
        PROVE  (posted = InPort \cup got \cup UNION {InCall(u) : u \in Threads})'
    <3>1. \A x : x \in posted' <=> Somewhere(x)
      BY <2>1, <2>6, SomewhereNow
    <3>2. \A x : Somewhere(x) <=> Somewhere(x)'
      BY <2>1, <2>2, <2>4, <2>5 DEF Somewhere
    <3> QED BY <3>1, <3>2, SomewhereThen
  <2>7. got' \cap InPort' = {}
    BY <2>1, <2>5 DEF PacketsAccounted
  <2>8. \A u \in Threads : InCall(u)' \cap (got' \cup InPort') = {}
    BY <2>1, <2>2, <2>4, <2>5 DEF PacketsAccounted
  <2>9. \A u, v \in Threads : u # v => InCall(u)' \cap InCall(v)' = {}
    BY <2>2, <2>4, <2>5 DEF PacketsAccounted
  <2> QED BY <2>5, <2>6, <2>7, <2>8, <2>9 DEF PacketsAccounted, Distinct
<1>5. ASSUME NEW t \in Threads, Return(t) PROVE PacketsAccounted'
  <2>1. /\ UNCHANGED <<queue, posted, closed, got>>
        /\ pc[t] = "back" /\ pc'[t] = "returned" /\ res'[t] = Outcome(t)
    BY <1>0, <1>5 DEF Return, TypeOK
  <2>2. ASSUME NEW u \in Threads \ {t} PROVE InCall(u)' = InCall(u)
    BY <1>0, <1>5, <2>2, HandsKept DEF Return, TypeOK
  <2>3. In(Outcome(t).entries) = {scratch[t]} \cap Packets
    <3>1. Outcome(t) = IF scratch[t] \in Packets
                       THEN [ok |-> TRUE, entries |-> <<scratch[t]>>] ELSE NoResult
      BY <2>1, OutcomeRight
    <3> QED BY <3>1 DEF NoResult, In
  <2>4. InCall(t)' = InCall(t)
    BY <2>1, <2>3, Hands, HandsAfter
  <2> QED BY <2>1, <2>2, <2>4, AccountedKept
<1>6. ASSUME NEW t \in Threads, Take(t) PROVE PacketsAccounted'
  <2>1. /\ UNCHANGED <<queue, posted, closed>>
        /\ pc[t] = "returned" /\ pc'[t] = "idle"
        /\ got' = got \cup {res[t].entries[i] : i \in DOMAIN res[t].entries}
    BY <1>0, <1>6 DEF Take, TypeOK
  <2>2. ASSUME NEW u \in Threads \ {t} PROVE InCall(u)' = InCall(u)
    BY <1>0, <1>6, <2>2, HandsKept DEF Take, TypeOK
  <2>3. got' = got \cup InCall(t) /\ InCall(t)' = {}
    BY <2>1, Hands, HandsAfter DEF In
  <2>4. ASSUME ~ closed'
        PROVE  (posted = InPort \cup got \cup UNION {InCall(u) : u \in Threads})'
    <3>1. \A x : x \in posted' <=> Somewhere(x)
      BY <2>1, <2>4, SomewhereNow
    <3>2. \A x : Somewhere(x) <=> Somewhere(x)'
      BY <2>1, <2>2, <2>3 DEF Somewhere, InPort
    <3> QED BY <3>1, <3>2, SomewhereThen
  <2>5. got' \cap InPort' = {} /\ Distinct(queue')
    BY <1>0, <2>1, <2>3 DEF PacketsAccounted, InPort
  <2>6. \A u \in Threads : InCall(u)' \cap (got' \cup InPort') = {}
    BY <2>1, <2>2, <2>3 DEF PacketsAccounted, InPort
  <2>7. \A u, v \in Threads : u # v => InCall(u)' \cap InCall(v)' = {}
    BY <2>2, <2>3 DEF PacketsAccounted
  <2> QED BY <2>4, <2>5, <2>6, <2>7 DEF PacketsAccounted, Distinct
<1>7. CASE UNCHANGED vars
  <2>1. \A u \in Threads : InCall(u)' = InCall(u)
    BY <1>7, HandsKept DEF vars
  <2> QED BY <1>7, <2>1, AccountedKept DEF vars
<1> QED
  BY <1>1, <1>2, <1>3, <1>4, <1>5, <1>6, <1>7 DEF Next, Step

\* No packet is lost and none handed out twice, for any number of threads that poll
\* the port at the same time.
THEOREM PacketsAccountedAlways == Spec => []PacketsAccounted
<1>1. Init => PacketsAccounted
  <2> SUFFICES ASSUME Init PROVE PacketsAccounted
    OBVIOUS
  <2>1. \A t \in Threads : InCall(t) = {}
    BY InitInv, Hands DEF Init
  <2>2. InPort = {} /\ got = {} /\ posted = {} /\ queue = <<>>
    BY DEF Init, InPort
  <2> QED BY <2>1, <2>2 DEF PacketsAccounted
<1>2. Init => Inv /\ PacketsAccounted
  BY <1>1, InitInv
<1>3. (Inv /\ PacketsAccounted) /\ [Next]_vars => (Inv /\ PacketsAccounted)'
  BY NextInv, AccountedStep
<1> QED BY <1>2, <1>3, PTL DEF Spec
=============================================================================
