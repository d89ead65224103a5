-------------------------- MODULE NoFollowOpenProofs --------------------------
(***************************************************************************)
(* The properties of NoFollowOpen for directories of any size and any      *)
(* interference by another process.                                        *)
(***************************************************************************)
EXTENDS NoFollowOpen, TLAPS

Nothing == result = NoHandle /\ opened = {}

\* What was opened again is the entry of a name, itself and not what it leads to;
\* and either it is a reparse point still, or it has been seen not to be one.
Again ==
  /\ ~ modern /\ Retryable(req)
  /\ result \in Inside /\ opened = {result}
  /\ plain \/ result \in links
  /\ quiet => result = entry[req.path[1]]

\* What holds at each step of a call.
StepInv ==
  /\ pc \in {"idle", "first"} => Nothing
  /\ pc = "retry" => Nothing /\ ~ modern /\ Retryable(req)
  /\ pc = "check" => Again
  /\ pc = "close" => /\ Again /\ status \in {"reparse", "denied"}
                     /\ quiet /\ status = "reparse" => result \in links

IInv == /\ TypeOK /\ StepInv
        /\ Contained /\ LinkRefused /\ HandlesAccounted /\ AnswersAsNative

----------------------------------------------------------------------------
(* Paths and what they name. *)

LEMMA PathForms ==
  ASSUME NEW r \in Requests
  PROVE  /\ Len(r.path) \in {1, 2}
         /\ r.path[1] \in Names \cup {Parent}
         /\ Len(r.path) = 2 => r.path[1] \in Names
<1>1. r.path \in Paths
  BY DEF Requests
<1>2. CASE r.path \in [1 .. 1 -> Names \cup {Parent}]
  BY <1>2
<1>3. CASE r.path \in [1 .. 2 -> Names]
  BY <1>3
<1> QED BY <1>1, <1>2, <1>3 DEF Paths

\* Where no reparse point is met a path stays inside, and ends at a reparse point
\* only if that is what the caller opens.
LEMMA WalkInside ==
  ASSUME TypeOK, NEW r \in Requests, r.path[1] # Parent,
         ~ MeetsLink(r.path, r.openReparse),
         Walk(r.path, ~ r.openReparse) # NoObject
  PROVE  /\ Walk(r.path, ~ r.openReparse) \in Inside
         /\ Walk(r.path, ~ r.openReparse) \in links => r.openReparse
<1>1. Len(r.path) \in {1, 2} /\ r.path[1] \in Names
  BY PathForms
<1>2. entry[r.path[1]] \in Inside
  BY <1>1 DEF TypeOK, Walk
<1>3. CASE Len(r.path) = 1
  <2>1. entry[r.path[1]] \in links => r.openReparse
    BY <1>3 DEF MeetsLink
  <2> QED BY <1>2, <1>3, <2>1 DEF Walk, Final
<1>4. CASE Len(r.path) = 2
  <2>1. entry[r.path[1]] \notin links /\ Below \in Inside
        /\ (Below \in links => r.openReparse)
    BY <1>2, <1>4, PlacesAssumption DEF MeetsLink
  <2> QED BY <1>2, <1>4, <2>1 DEF Walk, Final
<1> QED BY <1>1, <1>3, <1>4

LEMMA WalkTyped ==
  ASSUME TypeOK, NEW r \in Requests, NEW follow \in BOOLEAN
  PROVE  Walk(r.path, follow) \in Objects \cup {NoObject}
<1>1. Len(r.path) \in {1, 2} /\ r.path[1] \in Names \cup {Parent}
  BY PathForms
<1> QED BY <1>1, PlacesAssumption DEF TypeOK, Walk, Final, Objects

\* A single component that is not followed is its entry, and the kernel that knows
\* the flag answers with it or refuses it for what it is.
LEMMA SingleComponent ==
  ASSUME TypeOK, NEW r \in Requests, Retryable(r)
  PROVE  /\ r.path[1] \in Names
         /\ Walk(r.path, FALSE) = entry[r.path[1]]
         /\ (IF WantsLink(r) THEN Error("reparse")
             ELSE Native(r.path, r.dontReparse, r.openReparse)) =
              IF entry[r.path[1]] \in links THEN Error("reparse") ELSE Answer(entry[r.path[1]])
<1>1. r.path[1] \in Names /\ Len(r.path) = 1 /\ r.dontReparse
  BY PathForms DEF Retryable
<1>2. r.path[1] # Parent /\ NoObject \notin links
  BY <1>1, PlacesAssumption DEF TypeOK
<1>3. MeetsLink(r.path, r.openReparse) <=> entry[r.path[1]] \in links /\ ~ r.openReparse
  BY <1>1, <1>2 DEF MeetsLink
<1>4. entry[r.path[1]] \notin links => Walk(r.path, ~ r.openReparse) = entry[r.path[1]]
  BY <1>1, <1>2 DEF Walk, Final
<1>5. Walk(r.path, FALSE) = entry[r.path[1]]
  BY <1>1, <1>2 DEF Walk, Final
<1> QED BY <1>1, <1>3, <1>4, <1>5 DEF Native, WantsLink

\* The kernel's answers to the first call, one by one.
LEMMA FirstAnswers ==
  ASSUME NEW r \in Requests, NEW a \in NtCreateFile(r.path, r.dontReparse, r.openReparse)
  PROVE  \/ a = Error("denied")
         \/ r.dontReparse /\ ~ modern /\ a = Error("invalid")
         \/ /\ r.dontReparse => modern
            /\ a = Native(r.path, r.dontReparse, r.openReparse)
BY DEF NtCreateFile

LEMMA RetryAnswers ==
  ASSUME NEW a \in RetryOpen
  PROVE  a = Error("denied") \/ a = Answer(Walk(req.path, FALSE))
<1>1. Native(req.path, FALSE, TRUE) = Answer(Walk(req.path, FALSE))
  BY DEF Native
<1> QED BY <1>1 DEF RetryOpen, NtCreateFile

\* What an answer's status can be.
LEMMA Statuses ==
  /\ Error("denied").status = "denied" /\ Error("invalid").status = "invalid"
  /\ Error("reparse").status = "reparse"
  /\ \A o : Answer(o).status \in {"ok", "missing"}
  /\ \A path, flag, open :
       Native(path, flag, open) \in {Error("reparse"), Answer(Walk(path, ~ open))}
BY DEF Error, Answer, Native

LEMMA FirstTyped ==
  ASSUME TypeOK, NEW r \in Requests,
         NEW a \in NtCreateFile(r.path, r.dontReparse, r.openReparse)
  PROVE  /\ a.status \in {"ok", "missing", "invalid", "denied", "reparse"}
         /\ a.status = "ok" => a.object \in Objects
<1>1. Walk(r.path, ~ r.openReparse) \in Objects \cup {NoObject}
  BY WalkTyped DEF Requests
<1>2. CASE \E s \in {"denied", "invalid", "reparse"} : a = Error(s)
  BY <1>2 DEF Error
<1>3. CASE a = Answer(Walk(r.path, ~ r.openReparse))
  BY <1>1, <1>3 DEF Answer
<1>4. Native(r.path, r.dontReparse, r.openReparse) \in
        {Error("reparse"), Answer(Walk(r.path, ~ r.openReparse))}
  BY DEF Native
<1> QED BY <1>2, <1>3, <1>4, FirstAnswers

\* What AnswersAsNative expects of a request.
Expected(r) == IF ~ modern /\ WantsLink(r) THEN Error("reparse")
               ELSE Native(r.path, r.dontReparse, r.openReparse)

LEMMA ExpectedKept ==
  ASSUME UNCHANGED <<modern, entry, links, req>> PROVE Expected(req)' = Expected(req)
BY DEF Expected, WantsLink, Native, MeetsLink, Walk, Final, Answer, Error

----------------------------------------------------------------------------
(* The steps of another process. *)

LEMMA RenameKeeps ==
  ASSUME IInv, NEW n \in Names, NEW o \in Inside \cup {NoObject}, Rename(n, o) PROVE IInv'
<1>1. /\ entry' = [entry EXCEPT ![n] = o] /\ quiet' = FALSE
      /\ UNCHANGED <<modern, links, pc, req, status, result, opened, plain>>
  BY DEF Rename
<1>2. TypeOK'
  BY <1>1 DEF IInv, TypeOK
<1>3. StepInv'
  BY <1>1 DEF IInv, StepInv, Again, Nothing
<1>4. (Contained /\ LinkRefused /\ HandlesAccounted /\ AnswersAsNative)'
  BY <1>1 DEF IInv, Contained, LinkRefused, HandlesAccounted, AnswersAsNative, GaveOut
<1> QED BY <1>2, <1>3, <1>4 DEF IInv

LEMMA ConvertKeeps == ASSUME IInv, NEW o \in Inside, Convert(o) PROVE IInv'
<1>1. /\ links' = IF o \in links THEN links \ {o} ELSE links \cup {o}
      /\ plain' = (plain \/ (o = result /\ o \in links))
      /\ quiet' = FALSE
      /\ UNCHANGED <<modern, entry, pc, req, status, result, opened>>
  BY DEF Convert
<1>2. TypeOK'
  BY <1>1 DEF IInv, TypeOK
<1>3. StepInv'
  BY <1>1 DEF IInv, StepInv, Again, Nothing
<1>4. (Contained /\ LinkRefused /\ HandlesAccounted /\ AnswersAsNative)'
  BY <1>1 DEF IInv, Contained, LinkRefused, HandlesAccounted, AnswersAsNative, GaveOut
<1> QED BY <1>2, <1>3, <1>4 DEF IInv

----------------------------------------------------------------------------
(* The steps of the call. *)

LEMMA AskKeeps == ASSUME IInv, NEW r \in Requests, Ask(r) PROVE IInv'
<1>1. /\ pc \in {"idle", "done"} /\ pc' = "first" /\ req' = r
      /\ result' = NoHandle /\ opened' = opened \ {result}
      /\ status' = "none" /\ plain' = FALSE /\ quiet' = TRUE
      /\ UNCHANGED <<modern, entry, links>>
  BY DEF Ask, fs
<1>2. opened' = {}
  BY <1>1 DEF IInv, StepInv, Nothing, HandlesAccounted
<1>3. TypeOK'
  BY <1>1, <1>2 DEF IInv, TypeOK
<1>4. StepInv'
  BY <1>1, <1>2 DEF StepInv, Nothing
<1>5. (Contained /\ LinkRefused /\ HandlesAccounted /\ AnswersAsNative)'
  BY <1>1 DEF Contained, LinkRefused, HandlesAccounted, AnswersAsNative, GaveOut
<1> QED BY <1>3, <1>4, <1>5 DEF IInv

LEMMA FirstKeeps == ASSUME IInv, First PROVE IInv'
<1>1. PICK a \in NtCreateFile(req.path, req.dontReparse, req.openReparse) :
        /\ GiveOut(a)
        /\ pc' = IF a.status = "invalid" /\ Retryable(req) THEN "retry" ELSE "done"
  BY DEF First
<1>2. /\ TypeOK /\ Nothing /\ req \in Requests /\ req.dontReparse \in BOOLEAN
      /\ UNCHANGED <<modern, entry, links, req, quiet>>
  BY DEF First, IInv, StepInv, TypeOK, fs, Requests
<1>3. /\ a.status \in {"ok", "missing", "invalid", "denied", "reparse"}
      /\ a.status = "ok" => a.object \in Objects
  BY <1>2, FirstTyped
<1>4. /\ status' = a.status
      /\ IF a.status = "ok"
         THEN result' = a.object /\ opened' = {a.object} /\ plain' = (a.object \notin links)
         ELSE result' = NoHandle /\ opened' = {} /\ plain' = plain
  BY <1>1, <1>2 DEF GiveOut, Nothing
<1>5. \/ a = Error("denied")
      \/ req.dontReparse /\ ~ modern /\ a = Error("invalid")
      \/ /\ req.dontReparse => modern
         /\ a = Native(req.path, req.dontReparse, req.openReparse)
  BY <1>1, <1>2, FirstAnswers
<1>6. TypeOK'
  BY <1>1, <1>2, <1>3, <1>4 DEF TypeOK
<1>7. StepInv'
  <2>1. a.status = "invalid" => ~ modern
    BY <1>5, Statuses
  <2> QED BY <1>1, <1>2, <1>4, <2>1 DEF StepInv, Nothing
<1>8. (Contained /\ LinkRefused)'
  <2> SUFFICES ASSUME GaveOut'
               PROVE  (result \in Inside /\ (plain \/ (modern /\ req.openReparse)))'
    BY DEF Contained, LinkRefused
  <2>1. /\ a.status = "ok" /\ req.dontReparse
        /\ modern => req.path[1] # Parent
    BY <1>2, <1>4 DEF GaveOut
  <2>2. modern /\ a = Native(req.path, req.dontReparse, req.openReparse)
    BY <1>5, <2>1, Statuses
  <2>3. /\ ~ MeetsLink(req.path, req.openReparse)
        /\ a.object = Walk(req.path, ~ req.openReparse) /\ a.object # NoObject
    BY <2>1, <2>2 DEF Native, Error, Answer
  <2>4. a.object \in Inside /\ (a.object \in links => req.openReparse)
    BY <1>2, <2>1, <2>2, <2>3, WalkInside
  <2> QED BY <1>2, <1>4, <2>1, <2>2, <2>4
<1>9. HandlesAccounted'
  BY <1>4 DEF HandlesAccounted
<1>10. AnswersAsNative'
  <2> SUFFICES ASSUME pc' = "done", Retryable(req), status' # "denied"
               PROVE  [status |-> status', object |-> result'] = Expected(req)
    BY <1>2, ExpectedKept DEF AnswersAsNative, Retryable, Expected
  <2>1. modern /\ a = Native(req.path, req.dontReparse, req.openReparse)
    <3>1. req.dontReparse
      BY DEF Retryable
    <3>2. a.status \notin {"denied", "invalid"}
      BY <1>1, <1>4
    <3> QED BY <1>5, <3>1, <3>2, Statuses
  <2>2. a = Expected(req)
    BY <2>1 DEF Expected
  <2>3. a = [status |-> a.status, object |-> IF a.status = "ok" THEN a.object ELSE NoHandle]
    BY <2>1 DEF Native, Answer, Error
  <2> QED BY <1>4, <2>2, <2>3
<1> QED BY <1>6, <1>7, <1>8, <1>9, <1>10 DEF IInv

LEMMA RetryKeeps == ASSUME IInv, Retry PROVE IInv'
<1>1. PICK a \in RetryOpen : /\ GiveOut(a)
                             /\ pc' = IF Failed(a.status) THEN "done" ELSE "check"
  BY DEF Retry
<1>2. /\ TypeOK /\ Nothing /\ ~ modern /\ Retryable(req) /\ req \in Requests
      /\ UNCHANGED <<modern, entry, links, req, quiet>>
  BY DEF Retry, IInv, StepInv, TypeOK, fs
<1>3. /\ req.path[1] \in Names /\ entry[req.path[1]] \in Inside \cup {NoObject}
      /\ Walk(req.path, FALSE) = entry[req.path[1]]
      /\ Expected(req) =
           IF entry[req.path[1]] \in links THEN Error("reparse") ELSE Answer(entry[req.path[1]])
  BY <1>2, SingleComponent DEF TypeOK, Expected
<1>4. a = Error("denied") \/ a = Answer(entry[req.path[1]])
  BY <1>1, <1>3, RetryAnswers
<1>5. Retryable(req)'
  BY <1>2 DEF Retryable
<1>6. CASE a.status = "ok"
  <2>1. a.object = entry[req.path[1]] /\ entry[req.path[1]] \in Inside
    BY <1>3, <1>4, <1>6 DEF Error, Answer
  <2>2. /\ status' = "ok" /\ pc' = "check"
        /\ result' = entry[req.path[1]] /\ opened' = {result'}
        /\ plain' = (result' \notin links)
    BY <1>1, <1>2, <1>6, <2>1 DEF GiveOut, Nothing, Failed
  <2>3. plain' \/ result' \in links
    BY <2>2
  <2>4. TypeOK'
    BY <1>2, <2>1, <2>2 DEF TypeOK, Objects
  <2>5. StepInv'
    BY <1>2, <1>5, <2>1, <2>2, <2>3 DEF StepInv, Again
  <2> QED BY <2>2, <2>4, <2>5
          DEF IInv, Contained, LinkRefused, HandlesAccounted, AnswersAsNative, GaveOut
<1>7. CASE a.status # "ok"
  <2>1. /\ pc' = "done" /\ status' = a.status /\ a.status \in {"denied", "missing"}
        /\ UNCHANGED <<result, opened, plain>>
    BY <1>1, <1>4, <1>7, Statuses DEF GiveOut, Failed
  <2>2. TypeOK' /\ StepInv'
    BY <1>2, <2>1 DEF TypeOK, StepInv
  <2>3. (Contained /\ LinkRefused /\ HandlesAccounted)'
    BY <1>2, <2>1 DEF Contained, LinkRefused, HandlesAccounted, GaveOut, Nothing
  <2>4. AnswersAsNative'
    <3> SUFFICES ASSUME status' = "missing"
                 PROVE  ([status |-> status, object |-> result] = Expected(req))'
      BY <2>1 DEF AnswersAsNative, Expected
    <3>1. entry[req.path[1]] = NoObject /\ entry[req.path[1]] \notin links
      BY <1>2, <1>4, <2>1, PlacesAssumption DEF TypeOK, Error, Answer
    <3>2. Expected(req) = [status |-> "missing", object |-> NoHandle]
      BY <1>3, <3>1 DEF Answer
    <3>3. Expected(req)' = Expected(req)
      BY <1>2, ExpectedKept
    <3> QED BY <1>2, <2>1, <3>2, <3>3 DEF Nothing
  <2> QED BY <2>2, <2>3, <2>4 DEF IInv
<1> QED BY <1>6, <1>7

LEMMA CheckKeeps == ASSUME IInv, Check PROVE IInv'
<1>1. PICK readable \in BOOLEAN : /\ status' = Verdict(result, readable)
                                  /\ pc' = IF status' = "ok" THEN "done" ELSE "close"
  BY DEF Check
<1>2. /\ TypeOK /\ Again /\ req \in Requests
      /\ UNCHANGED <<modern, entry, links, req, result, opened, plain, quiet>>
  BY DEF Check, IInv, StepInv, TypeOK, fs
<1>3. /\ status' \in {"ok", "reparse", "denied"}
      /\ status' = "reparse" => result \in links
      /\ status' = "ok" => result \notin links
  BY <1>1 DEF Verdict
<1>4. Again' /\ result \in opened
  BY <1>2 DEF Again, Retryable
<1>5. TypeOK'
  BY <1>1, <1>2, <1>3, <1>4 DEF TypeOK
<1>6. StepInv'
  BY <1>1, <1>2, <1>3, <1>4 DEF StepInv
<1>7. (Contained /\ LinkRefused /\ HandlesAccounted)'
  BY <1>1, <1>2, <1>3 DEF Contained, LinkRefused, HandlesAccounted, GaveOut, Again
<1>8. AnswersAsNative'
  <2> SUFFICES ASSUME status' = "ok", quiet
               PROVE  ([status |-> status, object |-> result] = Expected(req))'
    BY <1>1, <1>2 DEF AnswersAsNative, Expected
  <2>1. result = entry[req.path[1]] /\ result \notin links /\ result # NoObject
    BY <1>2, <1>3, PlacesAssumption DEF Again
  <2>2. Expected(req) = [status |-> "ok", object |-> result]
    BY <1>2, <2>1, SingleComponent DEF Again, Answer, Expected
  <2>3. Expected(req)' = Expected(req)
    BY <1>2, ExpectedKept
  <2> QED BY <1>2, <2>2, <2>3
<1> QED BY <1>5, <1>6, <1>7, <1>8 DEF IInv

LEMMA CloseKeeps == ASSUME IInv, Close PROVE IInv'
<1>1. /\ pc' = "done" /\ opened' = opened \ {result} /\ result' = NoHandle
      /\ UNCHANGED <<modern, entry, links, req, status, plain, quiet>>
  BY DEF Close, DropHandle, fs
<1>2. /\ TypeOK /\ Again /\ req \in Requests
      /\ status \in {"reparse", "denied"}
      /\ quiet /\ status = "reparse" => result \in links
  BY DEF Close, IInv, StepInv, TypeOK
<1>3. opened' = {}
  BY <1>1, <1>2 DEF Again
<1>4. TypeOK' /\ StepInv'
  BY <1>1, <1>2, <1>3 DEF TypeOK, StepInv
<1>5. (Contained /\ LinkRefused /\ HandlesAccounted)'
  BY <1>1, <1>2, <1>3 DEF Contained, LinkRefused, HandlesAccounted, GaveOut
<1>6. AnswersAsNative'
  <2> SUFFICES ASSUME status = "reparse", quiet
               PROVE  ([status |-> status, object |-> result] = Expected(req))'
    BY <1>1, <1>2 DEF AnswersAsNative, Expected
  <2>1. entry[req.path[1]] \in links
    BY <1>2 DEF Again
  <2>2. Expected(req) = [status |-> "reparse", object |-> NoHandle]
    BY <1>2, <2>1, SingleComponent DEF Again, Error, Expected
  <2>3. Expected(req)' = Expected(req)
    BY <1>1, ExpectedKept
  <2> QED BY <1>1, <2>2, <2>3
<1> QED BY <1>4, <1>5, <1>6 DEF IInv

----------------------------------------------------------------------------

LEMMA InitEstablishes == Init => IInv
<1> SUFFICES ASSUME Init PROVE IInv
  OBVIOUS
<1>1. TypeOK
  BY DEF Init, TypeOK, Objects
<1>2. StepInv
  BY DEF Init, StepInv, Nothing
<1> QED BY <1>1, <1>2
        DEF Init, IInv, Contained, LinkRefused, HandlesAccounted, AnswersAsNative, GaveOut

LEMMA StutterKeeps == ASSUME IInv, UNCHANGED vars PROVE IInv'
<1>1. UNCHANGED <<modern, entry, links, pc, req, status, result, opened, plain, quiet>>
  BY DEF vars
<1>2. TypeOK' /\ StepInv'
  BY <1>1 DEF IInv, TypeOK, StepInv, Nothing, Again, Retryable
<1>3. (Contained /\ LinkRefused /\ HandlesAccounted)'
  BY <1>1 DEF IInv, Contained, LinkRefused, HandlesAccounted, GaveOut
<1>4. Expected(req)' = Expected(req)
  BY <1>1, ExpectedKept
<1>5. AnswersAsNative'
  BY <1>1, <1>4 DEF IInv, AnswersAsNative, Retryable, Expected
<1> QED BY <1>2, <1>3, <1>5 DEF IInv

\* However the other process's renames and conversions fall between the steps of a
\* call, IInv holds throughout.
THEOREM Invariant == Spec => []IInv
<1>1. IInv /\ [Next]_vars => IInv'
  BY RenameKeeps, ConvertKeeps, AskKeeps, FirstKeeps, RetryKeeps, CheckKeeps, CloseKeeps,
     StutterKeeps DEF Next
<1> QED BY InitEstablishes, <1>1, PTL DEF Spec

\* Every state of polyNtCreateFile's call is well typed, and the handle it still has
\* to look at or to close is open.
THEOREM OpenTypeCorrect == Spec => []TypeOK
BY Invariant, PTL DEF IInv

\* An open that must not follow reparse points never gives out a handle to something
\* outside the directory, whoever swaps entries meanwhile.
THEOREM ContainedAlways == Spec => []Contained
BY Invariant, PTL DEF IInv

\* What such an open gives out on an old kernel was no reparse point at some time
\* since it was opened; nor on a new one, unless the caller opens reparse points.
THEOREM LinkRefusedAlways == Spec => []LinkRefused
BY Invariant, PTL DEF IInv

\* Every call leaves open exactly the handle it reports, on each of its paths.
THEOREM HandlesAccountedAlways == Spec => []HandlesAccounted
BY Invariant, PTL DEF IInv

\* In a quiet directory the polyfill's answer for a single component is the one a
\* kernel that knows OBJ_DONT_REPARSE gives, but for the reparse point that a caller
\* with FILE_OPEN_REPARSE_POINT names: the polyfill refuses it and that kernel opens it.
THEOREM AnswersAsNativeAlways == Spec => []AnswersAsNative
BY Invariant, PTL DEF IInv
=============================================================================
