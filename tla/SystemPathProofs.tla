--------------------------- MODULE SystemPathProofs ---------------------------
(* The stack frame of xp_LoadLibraryExW stays intact, and what is opened is *)
(* what was asked for, for every buffer size, directory and name.           *)
EXTENDS SystemPath, TLAPS

Base(d) == IF d[Len(d)] = Backslash THEN Len(d) ELSE Len(d) + 1

\* The directory and its backslash are in the buffer.
DirStored == /\ \A i \in 1 .. Len(dir) : frame[i - 1] = dir[i]
             /\ frame[Base(dir) - 1] = Backslash

\* The part of the name that has been copied.
Copied == /\ name \in Names /\ Accepted(dir)
          /\ start = Base(dir) /\ di = start + si /\ si < Len(name)
          /\ \A i \in 1 .. si : frame[start + i - 1] = name[i] /\ name[i] \notin Separators

WholePath == name \in Names /\ ~ IsPath(name) /\ Holds(frame, dir, name)
MayBeBare == name = NoName \/ System32 \notin flags \/ IsPath(name)

Stage == /\ pc = "query" => name \in Names
         /\ pc = "copy" => DirStored /\ Copied
         /\ pc = "whole" => WholePath
         /\ pc = "bare" => MayBeBare
         /\ pc # "done" => opened = Nothing
         /\ pc = "done" /\ opened.how = "whole" => WholePath
         /\ pc = "done" /\ opened.how = "bare" => MayBeBare

IInv == TypeOK /\ FrameIntact /\ Stage

(* What the assumptions say of one directory and one name. *)
LEMMA DirFacts ==
    ASSUME NEW d \in Dirs
    PROVE  /\ d \in Seq(Units \ {Nul}) /\ Len(d) \in Nat \ {0}
           /\ \A i \in 1 .. Len(d) : d[i] \in Units
           /\ Base(d) \in Nat \ {0} /\ Base(d) - 1 \in {Len(d) - 1, Len(d)}
  <1>1. d \in Seq(Units \ {Nul}) /\ Len(d) > 0
    BY NameAssumption
  <1>2. Len(d) \in Nat \ {0} /\ \A i \in 1 .. Len(d) : d[i] \in Units
    BY <1>1
  <1>3. QED
    BY <1>1, <1>2 DEF Base

LEMMA NameFacts ==
    ASSUME NEW n \in Names
    PROVE  /\ n \in Seq(Units) /\ Len(n) \in Nat \ {0} /\ n # NoName
           /\ \A i \in 1 .. Len(n) : n[i] \in Units /\ (n[i] = Nul <=> i = Len(n))
  <1>1. Terminated(n) /\ n # NoName
    BY NameAssumption
  <1>2. n \in Seq(Units) /\ Len(n) > 0
    BY <1>1 DEF Terminated
  <1>3. QED
    BY <1>1, <1>2 DEF Terminated

LEMMA NothingIs == Nothing.how = "nothing" /\ Nothing.flags = {}
  BY DEF Nothing

LEMMA InitHolds == Init => IInv
  <1> SUFFICES ASSUME Init PROVE IInv
    OBVIOUS
  <1>2. Cap \in Nat /\ Nul \in Units
    BY SizeAssumption, UnitAssumption
  <1>3. opened = Nothing
    BY DEF Init
  <1>4. opened \in [how : {"nothing", "sentinel", "refused", "whole", "bare"},
                    flags : SUBSET OtherFlags]
    BY <1>3 DEF Nothing
  <1>5. TypeOK
    BY <1>2, <1>4 DEF Init, TypeOK
  <1>6. FrameIntact
    BY <1>2 DEF Init, FrameIntact
  <1>7. Stage
    BY <1>3 DEF Init, Stage
  <1>8. QED
    BY <1>5, <1>6, <1>7 DEF IInv

----------------------------------------------------------------------------
(* The steps. *)

Outcomes == [how : {"nothing", "sentinel", "refused", "whole", "bare"},
             flags : SUBSET OtherFlags]

LEMMA CallStep == ASSUME IInv, Call PROVE IInv'
  <1>1. Nothing \in Outcomes
    BY DEF Nothing, Outcomes
  <1>2. TypeOK'
    BY <1>1 DEF IInv, TypeOK, Call, Outcomes
  <1>3. FrameIntact'
    BY DEF IInv, FrameIntact, Call
  <1>4. Stage'
    BY NothingIs DEF Call, Stage
  <1>5. QED
    BY <1>2, <1>3, <1>4 DEF IInv

LEMMA MatchStep == ASSUME IInv, Match PROVE IInv'
  <1>1. CASE IsMissing(name) /\ opened' = [how |-> "sentinel", flags |-> {}] /\ pc' = "done"
    <2>1. opened' \in Outcomes /\ opened'.how = "sentinel"
      BY <1>1 DEF Outcomes
    <2>2. TypeOK'
      BY <1>1, <2>1 DEF IInv, TypeOK, Match, Outcomes
    <2>3. Stage'
      BY <1>1, <2>1 DEF Stage
    <2>4. QED
      BY <2>2, <2>3 DEF IInv, FrameIntact, Match
  <1>2. CASE /\ pc' = IF name # NoName /\ System32 \in flags THEN "query" ELSE "bare"
             /\ opened' = opened
    <2>1. TypeOK'
      BY <1>2 DEF IInv, TypeOK, Match
    <2>2. opened = Nothing /\ name \in Names \cup {NoName}
      BY DEF IInv, Stage, TypeOK, Match
    <2>3. Stage'
      BY <1>2, <2>2 DEF Match, Stage, MayBeBare
    <2>4. QED
      BY <2>1, <2>3 DEF IInv, FrameIntact, Match
  <1>3. QED
    BY <1>1, <1>2 DEF Match

\* A call that is refused has nothing to show.
LEMMA RefuseStage == ASSUME Refuse PROVE Stage' /\ opened' \in Outcomes
  <1>1. pc' = "done" /\ opened'.how = "refused" /\ opened' \in Outcomes
    BY DEF Refuse, Outcomes
  <1>2. QED
    BY <1>1 DEF Stage

LEMMA QueryFailsStep == ASSUME IInv, QueryFails PROVE IInv'
  <1>1. Stage' /\ opened' \in Outcomes
    BY RefuseStage DEF QueryFails
  <1>2. TypeOK'
    BY <1>1 DEF IInv, TypeOK, QueryFails, Refuse, Outcomes
  <1>3. QED
    BY <1>1, <1>2 DEF IInv, FrameIntact, QueryFails

LEMMA CopyTooLongStep == ASSUME IInv, CopyTooLong PROVE IInv'
  <1>1. Stage' /\ opened' \in Outcomes
    BY RefuseStage DEF CopyTooLong
  <1>2. TypeOK'
    BY <1>1 DEF IInv, TypeOK, CopyTooLong, Refuse, Outcomes
  <1>3. QED
    BY <1>1, <1>2 DEF IInv, FrameIntact, CopyTooLong

\* A directory that has room in the buffer is stored inside it.
LEMMA StoredIs ==
    ASSUME TypeOK, FrameIntact, NEW d \in Dirs, Len(d) < Cap
    PROVE  /\ Stored(d, frame) \in [0 .. Cap -> Units \cup {Saved}]
           /\ Stored(d, frame)[Cap] = Saved
           /\ \A i \in 1 .. Len(d) : Stored(d, frame)[i - 1] = d[i]
  <1>1. /\ Len(d) \in Nat \ {0} /\ \A i \in 1 .. Len(d) : d[i] \in Units
        /\ Cap \in Nat /\ Nul \in Units
    BY DirFacts, SizeAssumption, UnitAssumption
  <1>2. frame \in [0 .. Cap -> Units \cup {Saved}] /\ frame[Cap] = Saved
    BY DEF TypeOK, FrameIntact
  <1>3. Stored(d, frame) = [i \in 0 .. Cap |-> IF i < Len(d) THEN d[i + 1]
                                               ELSE IF i = Len(d) THEN Nul ELSE frame[i]]
    BY <1>2 DEF Stored
  <1>4. \A i \in 0 .. Cap : i < Len(d) => d[i + 1] \in Units
    BY <1>1
  <1>5. QED
    BY <1>1, <1>2, <1>3, <1>4

LEMMA QueryTooLongStep == ASSUME IInv, QueryTooLong PROVE IInv'
  <1>1. Stage' /\ opened' \in Outcomes
    BY RefuseStage DEF QueryTooLong
  <1>2. frame' \in [0 .. Cap -> Units \cup {Saved}] /\ frame'[Cap] = Saved
    BY StoredIs DEF IInv, TypeOK, FrameIntact, QueryTooLong
  <1>3. TypeOK'
    BY <1>1, <1>2 DEF IInv, TypeOK, QueryTooLong, Refuse, Outcomes
  <1>4. QED
    BY <1>1, <1>2, <1>3 DEF IInv, FrameIntact

LEMMA QueryStep == ASSUME IInv, Query PROVE IInv'
  <1> DEFINE whole == Stored(dir, frame)
  <1>1. /\ dir \in Dirs /\ Len(dir) < MaxPath /\ MaxPath < Cap
        /\ Cap \in Nat /\ MaxPath \in Nat /\ Len(dir) \in Nat \ {0}
        /\ Backslash \in Units
    BY DirFacts, SizeAssumption, UnitAssumption DEF Query, Accepted, IInv, TypeOK
  <1>2. /\ whole \in [0 .. Cap -> Units \cup {Saved}] /\ whole[Cap] = Saved
        /\ \A i \in 1 .. Len(dir) : whole[i - 1] = dir[i]
    BY <1>1, StoredIs DEF IInv
  <1> HIDE DEF whole
  <1>3. /\ frame' \in [0 .. Cap -> Units \cup {Saved}] /\ frame'[Cap] = Saved
        /\ start' = Base(dir)
        /\ \A i \in 1 .. Len(dir) : frame'[i - 1] = dir[i]
        /\ frame'[Base(dir) - 1] = Backslash
    <2>1. CASE EndsInBackslash(dir)
      <3>1. start' = Len(dir) /\ frame' = whole /\ Base(dir) = Len(dir)
        BY <2>1 DEF Query, EndsInBackslash, Base, whole
      <3>2. whole[Len(dir) - 1] = Backslash
        BY <1>1, <1>2, <2>1 DEF EndsInBackslash
      <3>3. QED
        BY <1>1, <1>2, <3>1, <3>2
    <2>2. CASE ~ EndsInBackslash(dir)
      <3>1. /\ start' = Len(dir) + 1 /\ Base(dir) = Len(dir) + 1
            /\ frame' = [whole EXCEPT ![Len(dir)] = Backslash]
        BY <2>2 DEF Query, EndsInBackslash, Base, whole
      <3>2. Len(dir) \in 0 .. Cap /\ Len(dir) # Cap /\ Len(dir) + 1 - 1 = Len(dir)
        BY <1>1
      <3>3. \A i \in 1 .. Len(dir) : i - 1 \in 0 .. Cap /\ i - 1 # Len(dir)
        BY <1>1
      <3>4. /\ frame' \in [0 .. Cap -> Units \cup {Saved}]
            /\ frame'[Len(dir)] = Backslash
            /\ \A j \in 0 .. Cap : j # Len(dir) => frame'[j] = whole[j]
        BY <1>1, <1>2, <3>1, <3>2
      <3>5. frame'[Cap] = Saved
        <4>1. Cap \in 0 .. Cap /\ Cap # Len(dir)
          BY <1>1
        <4>2. frame'[Cap] = whole[Cap]
          BY <3>4, <4>1
        <4>3. QED
          BY <1>2, <4>2
      <3>6. \A i \in 1 .. Len(dir) : frame'[i - 1] = dir[i]
        BY <1>2, <3>3, <3>4
      <3>7. frame'[Base(dir) - 1] = Backslash
        <4>1. Base(dir) - 1 = Len(dir)
          BY <3>1, <3>2
        <4>2. QED
          BY <3>4, <4>1
      <3>8. QED
        BY <3>1, <3>4, <3>5, <3>6, <3>7
    <2>3. QED
      BY <2>1, <2>2
  <1>4. /\ pc' = "copy" /\ si' = 0 /\ di' = start'
        /\ dir' = dir /\ name' = name /\ flags' = flags /\ opened' = opened
    BY DEF Query
  <1>5. start' \in 0 .. Cap
    BY <1>1, <1>3 DEF Base
  <1>6. TypeOK'
    BY <1>3, <1>4, <1>5 DEF IInv, TypeOK
  <1>7. name \in Names /\ opened = Nothing
    BY DEF IInv, Stage, Query
  <1>8. DirStored'
    BY <1>3, <1>4 DEF DirStored, Base
  <1>9. Copied'
    <2>1. Len(name) \in Nat \ {0} /\ start' \in Nat
      BY <1>5, <1>7, NameFacts
    <2>2. Accepted(dir)' /\ start' = Base(dir)'
      BY <1>3, <1>4 DEF Query, Accepted, Base
    <2>3. QED
      BY <1>4, <1>7, <2>1, <2>2 DEF Copied
  <1>10. Stage'
    BY <1>4, <1>7, <1>8, <1>9 DEF Stage
  <1>11. QED
    BY <1>3, <1>6, <1>10 DEF IInv, FrameIntact

LEMMA CopyIsPathStep == ASSUME IInv, CopyIsPath PROVE IInv'
  <1>1. opened = Nothing /\ Copied
    BY DEF IInv, Stage, CopyIsPath
  <1>2. IsPath(name)
    <2>1. name \in Names /\ si < Len(name) /\ si \in Nat /\ name[si + 1] \in Separators
      BY <1>1 DEF Copied, IInv, TypeOK, CopyIsPath, Separates
    <2>2. Len(name) \in Nat
      BY <2>1, NameFacts
    <2>3. si + 1 \in 1 .. Len(name)
      BY <2>1, <2>2
    <2>4. QED
      BY <2>1, <2>3 DEF IsPath
  <1>3. TypeOK'
    BY DEF IInv, TypeOK, CopyIsPath
  <1>4. Stage'
    BY <1>1, <1>2 DEF Stage, CopyIsPath, MayBeBare, IsPath
  <1>5. QED
    BY <1>3, <1>4 DEF IInv, FrameIntact, CopyIsPath

LEMMA CopyUnitStep == ASSUME IInv, CopyUnit PROVE IInv'
  <1>1. opened = Nothing /\ Copied /\ DirStored /\ TypeOK /\ frame[Cap] = Saved
    BY DEF IInv, Stage, CopyUnit, FrameIntact
  <1>2. /\ name \in Names /\ dir \in Dirs /\ si \in Nat /\ si < Len(name)
        /\ start = Base(dir) /\ di = start + si /\ Accepted(dir)
    BY <1>1 DEF Copied, TypeOK
  <1>3. /\ Len(name) \in Nat \ {0} /\ name # NoName
        /\ \A i \in 1 .. Len(name) : name[i] \in Units /\ (name[i] = Nul <=> i = Len(name))
    BY <1>2, NameFacts
  <1>4. /\ Len(dir) \in Nat \ {0} /\ Base(dir) \in Nat \ {0}
        /\ Base(dir) - 1 \in {Len(dir) - 1, Len(dir)}
    BY <1>2, DirFacts
  <1>5. Cap \in Nat /\ di < Cap /\ di \in Nat /\ di \in 0 .. Cap /\ di # Cap
    BY <1>1, SizeAssumption DEF CopyUnit, Room, TypeOK
  <1>6. si + 1 \in 1 .. Len(name) /\ name[si + 1] \in Units /\ name[si + 1] \notin Separators
    BY <1>2, <1>3 DEF CopyUnit, Separates
  <1>7. frame' = [frame EXCEPT ![di] = name[si + 1]]
    BY DEF CopyUnit
  <1>8. frame \in [0 .. Cap -> Units \cup {Saved}]
    BY <1>1 DEF TypeOK
  <1>9. /\ frame' \in [0 .. Cap -> Units \cup {Saved}] /\ frame'[Cap] = Saved
        /\ frame'[di] = name[si + 1]
        /\ \A j \in 0 .. Cap : j # di => frame'[j] = frame[j]
    BY <1>1, <1>5, <1>6, <1>7, <1>8
  <1>10. /\ di' = di + 1 /\ si' = si + 1 /\ dir' = dir /\ name' = name
         /\ start' = start /\ flags' = flags /\ opened' = opened
         /\ pc' = IF name[si + 1] = Nul THEN "whole" ELSE "copy"
    BY DEF CopyUnit
  <1>11. TypeOK'
    <2>1. di + 1 \in 0 .. Cap /\ si + 1 \in Nat
      BY <1>2, <1>5
    <2>2. QED
      BY <1>1, <1>9, <1>10, <2>1 DEF TypeOK
  <1>12. DirStored'
    <2>1. \A i \in 1 .. Len(dir) : i - 1 \in 0 .. Cap /\ i - 1 # di
      BY <1>2, <1>4, <1>5
    <2>2. Base(dir) - 1 \in 0 .. Cap /\ Base(dir) - 1 # di
      BY <1>2, <1>4, <1>5
    <2>3. (\A i \in 1 .. Len(dir) : frame[i - 1] = dir[i]) /\ frame[Base(dir) - 1] = Backslash
      BY <1>1 DEF DirStored
    <2>4. (\A i \in 1 .. Len(dir) : frame'[i - 1] = dir[i]) /\ frame'[Base(dir) - 1] = Backslash
      BY <1>9, <2>1, <2>2, <2>3
    <2>5. QED
      BY <1>10, <2>4 DEF DirStored, Base
  <1>13. \A i \in 1 .. si + 1 : frame'[start + i - 1] = name[i] /\ name[i] \notin Separators
    <2>1. TAKE i \in 1 .. si + 1
    <2>2. CASE i = si + 1
      <3>1. start + i - 1 = di
        BY <1>2, <1>4, <2>2
      <3>2. QED
        BY <1>6, <1>9, <2>2, <3>1
    <2>3. CASE i # si + 1
      <3>1. /\ i \in 1 .. si
            /\ start + i - 1 \in 0 .. Cap /\ start + i - 1 # di
        BY <1>2, <1>4, <1>5, <2>3
      <3>2. QED
        BY <1>1, <1>9, <3>1 DEF Copied
    <2>4. QED
      BY <2>2, <2>3
  <1>14. CASE name[si + 1] = Nul
    <2>1. pc' = "whole" /\ Len(name) = si + 1
      BY <1>3, <1>6, <1>10, <1>14
    <2>2. ~ IsPath(name)
      BY <1>13, <2>1 DEF IsPath
    <2>3. Base(dir) + Len(name) <= Cap
      BY <1>2, <1>4, <1>5, <2>1
    <2>4. Holds(frame', dir, name)
      <3>1. /\ \A i \in 1 .. Len(dir) : frame'[i - 1] = dir[i]
            /\ frame'[Base(dir) - 1] = Backslash
        BY <1>10, <1>12 DEF DirStored, Base
      <3>2. \A i \in 1 .. Len(name) : frame'[Base(dir) + i - 1] = name[i]
        BY <1>2, <1>13, <2>1
      <3>3. QED
        BY <2>3, <3>1, <3>2 DEF Holds, Base
    <2>5. WholePath'
      BY <1>2, <1>10, <2>2, <2>4 DEF WholePath, IsPath, Holds
    <2>6. Stage'
      BY <1>1, <1>10, <2>1, <2>5 DEF Stage
    <2>7. QED
      BY <1>9, <1>11, <2>6 DEF IInv, FrameIntact
  <1>15. CASE name[si + 1] # Nul
    <2>1. pc' = "copy"
      BY <1>10, <1>15
    <2>2. si + 1 < Len(name)
      BY <1>2, <1>3, <1>6, <1>15
    <2>3. di + 1 = start + (si + 1)
      BY <1>2, <1>4
    <2>4. Copied'
      BY <1>2, <1>10, <1>13, <2>2, <2>3 DEF Copied, Base, Accepted
    <2>5. Stage'
      BY <1>1, <1>10, <1>12, <2>1, <2>4 DEF Stage
    <2>6. QED
      BY <1>9, <1>11, <2>5 DEF IInv, FrameIntact
  <1>16. QED
    BY <1>14, <1>15

LEMMA CallRealStep == ASSUME IInv, CallReal PROVE IInv'
  <1>1. opened' = [how |-> pc, flags |-> XpFlags(flags)] /\ pc \in {"whole", "bare"}
    BY DEF CallReal
  <1>2. XpFlags(flags) \in SUBSET OtherFlags
    BY DEF IInv, TypeOK, XpFlags
  <1>3. opened' \in Outcomes /\ opened'.how = pc
    BY <1>1, <1>2 DEF Outcomes
  <1>4. TypeOK'
    BY <1>3 DEF IInv, TypeOK, CallReal, Outcomes
  <1>5. /\ dir' = dir /\ name' = name /\ flags' = flags /\ frame' = frame /\ pc' = "done"
        /\ (pc = "whole" => WholePath) /\ (pc = "bare" => MayBeBare)
    BY DEF IInv, Stage, CallReal
  <1>6. (WholePath => WholePath') /\ (MayBeBare => MayBeBare')
    BY <1>5 DEF WholePath, MayBeBare, IsPath, Holds
  <1>7. Stage'
    BY <1>3, <1>5, <1>6 DEF Stage
  <1>8. QED
    BY <1>4, <1>5, <1>7 DEF IInv, FrameIntact

LEMMA NextHolds == IInv /\ [Next]_vars => IInv'
  <1>1. ASSUME IInv, UNCHANGED vars PROVE IInv'
    BY <1>1 DEF vars, IInv, TypeOK, FrameIntact, Stage, DirStored, Copied, WholePath,
                MayBeBare, IsPath, Holds, Base, Accepted
  <1>2. QED
    BY <1>1, CallStep, MatchStep, QueryFailsStep, QueryTooLongStep, QueryStep,
       CopyTooLongStep, CopyIsPathStep, CopyUnitStep, CallRealStep DEF Next

LEMMA Invariant == Spec => []IInv
  BY InitHolds, NextHolds, PTL DEF Spec

----------------------------------------------------------------------------
(* The theorems. *)

\* The type invariant: indices stay inside the buffer and the real function
\* sees none of the search flags.
THEOREM PathTypeCorrect == Spec => []TypeOK
  BY Invariant, PTL DEF IInv

\* The polyfill never writes behind its buffer.
THEOREM FrameAlwaysIntact == Spec => []FrameIntact
  BY Invariant, PTL DEF IInv

\* What is wanted from the system directory is opened there or not at all.
THEOREM SystemOnlyAlways == Spec => []SystemOnly
  <1>1. IInv => SystemOnly
    <2>1. SUFFICES ASSUME IInv, opened.how \in {"whole", "bare"}, name # NoName,
                          System32 \in flags, ~ IsPath(name)
                   PROVE  opened.how = "whole" /\ Holds(frame, dir, name)
      BY DEF SystemOnly
    <2>2. pc = "done"
      BY <2>1, NothingIs DEF IInv, Stage
    <2>3. QED
      BY <2>1, <2>2 DEF IInv, Stage, MayBeBare, WholePath
  <1>2. QED
    BY <1>1, Invariant, PTL

\* A name that is a path reaches the system unchanged.
THEOREM PathsAsGivenAlways == Spec => []PathsAsGiven
  <1>1. IInv => PathsAsGiven
    <2>1. SUFFICES ASSUME IInv, opened.how = "whole" PROVE name # NoName /\ ~ IsPath(name)
      BY DEF PathsAsGiven
    <2>2. pc = "done"
      BY <2>1, NothingIs DEF IInv, Stage
    <2>3. QED
      BY <2>1, <2>2, NameFacts DEF IInv, Stage, WholePath
  <1>2. QED
    BY <1>1, Invariant, PTL

----------------------------------------------------------------------------
(* Which names are answered with the sentinel. *)

Listed(n) == n # NoName /\ [i \in DOMAIN n |-> Fold[n[i]]] \in MissingDlls

LEMMA SameEnd == \A j, k \in Nat : 1 .. j = 1 .. k => j = k
  <1> SUFFICES ASSUME NEW j \in Nat, NEW k \in Nat, 1 .. j = 1 .. k PROVE j = k
    OBVIOUS
  <1>1. ~ j < k
    <2> SUFFICES ASSUME j < k PROVE FALSE
      OBVIOUS
    <2>1. k \in 1 .. k /\ k \notin 1 .. j
      OBVIOUS
    <2> QED BY <2>1
  <1>2. ~ k < j
    <2> SUFFICES ASSUME k < j PROVE FALSE
      OBVIOUS
    <2>1. j \in 1 .. j /\ j \notin 1 .. k
      OBVIOUS
    <2> QED BY <2>1
  <1> QED BY <1>1, <1>2

\* Comparing lengths and units one by one finds just the names that are in the list
\* when they are written in lower case.
LEMMA MatchesListed == ASSUME NEW n \in Names \cup {NoName} PROVE IsMissing(n) <=> Listed(n)
  <1>1. CASE n = NoName
    BY <1>1 DEF IsMissing, Listed
  <1>2. CASE n \in Names
    <2> DEFINE lower == [i \in DOMAIN n |-> Fold[n[i]]]
    <2>1. n \in Seq(Units) /\ n # NoName
      BY <1>2, NameFacts
    <2>2. DOMAIN n = 1 .. Len(n) /\ Len(n) \in Nat
      BY <2>1
    <2>3. ASSUME NEW m \in MissingDlls PROVE SameDll(n, m) <=> m = lower
      <3>1. m \in Seq(Units)
        BY MissingAssumption
      <3>2. Len(m) \in Nat /\ DOMAIN m = 1 .. Len(m) /\ m = [i \in DOMAIN m |-> m[i]]
        BY <3>1
      <3>3. ASSUME SameDll(n, m) PROVE m = lower
        <4>1. DOMAIN m = DOMAIN n /\ \A i \in DOMAIN n : lower[i] = m[i]
          BY <2>2, <3>2, <3>3 DEF SameDll
        <4> QED BY <3>2, <4>1
      <3>4. ASSUME m = lower PROVE SameDll(n, m)
        <4>1. DOMAIN m = DOMAIN n /\ \A i \in DOMAIN n : m[i] = Fold[n[i]]
          BY <3>4
        <4>2. Len(m) = Len(n)
          <5>1. 1 .. Len(m) = 1 .. Len(n)
            BY <2>2, <3>2, <4>1
          <5>2. Len(m) \in Nat /\ Len(n) \in Nat
            BY <2>2, <3>2
          <5> QED BY <5>1, <5>2, SameEnd
        <4> QED BY <2>2, <4>1, <4>2 DEF SameDll
      <3> QED BY <3>3, <3>4
    <2>4. IsMissing(n) <=> \E m \in MissingDlls : m = lower
      BY <2>1, <2>3 DEF IsMissing
    <2>5. (\E m \in MissingDlls : m = lower) <=> lower \in MissingDlls
      OBVIOUS
    <2> QED BY <2>1, <2>4, <2>5 DEF Listed
  <1> QED BY <1>1, <1>2

\* Once the name has been looked up in the list, the way the call takes shows what
\* came of it.
Answered == /\ pc \in {"query", "copy", "whole", "bare"} => ~ IsMissing(name)
            /\ pc = "done" => (opened.how = "sentinel" <=> IsMissing(name))

LEMMA AnsweredStep == Answered /\ [Next]_vars => Answered'
  <1> SUFFICES ASSUME Answered, [Next]_vars PROVE Answered'
    OBVIOUS
  <1>1. CASE Call
    BY <1>1 DEF Call, Answered
  <1>2. CASE Match
    <2>1. name' = name /\ IsMissing(name)' = IsMissing(name)
      BY <1>2 DEF Match, IsMissing
    <2>2. CASE IsMissing(name)
      BY <1>2, <2>1, <2>2 DEF Match, Answered
    <2>3. CASE ~ IsMissing(name)
      BY <1>2, <2>1, <2>3 DEF Match, Answered
    <2> QED BY <2>2, <2>3
  <1>3. CASE QueryFails \/ QueryTooLong \/ CopyTooLong
    <2>1. /\ pc \in {"query", "copy"} /\ name' = name
          /\ pc' = "done" /\ opened'.how = "refused"
      BY <1>3 DEF QueryFails, QueryTooLong, CopyTooLong, Refuse
    <2>2. ~ IsMissing(name) /\ IsMissing(name)' = IsMissing(name)
      BY <2>1 DEF Answered, IsMissing
    <2> QED BY <2>1, <2>2 DEF Answered
  <1>4. CASE Query \/ CopyIsPath \/ CopyUnit
    <2>1. /\ pc \in {"query", "copy"} /\ name' = name
          /\ pc' \in {"copy", "whole", "bare"}
      BY <1>4 DEF Query, CopyIsPath, CopyUnit
    <2>2. ~ IsMissing(name) /\ IsMissing(name)' = IsMissing(name)
      BY <2>1 DEF Answered, IsMissing
    <2> QED BY <2>1, <2>2 DEF Answered
  <1>5. CASE CallReal
    <2>1. /\ pc \in {"whole", "bare"} /\ name' = name
          /\ pc' = "done" /\ opened'.how = pc
      BY <1>5 DEF CallReal
    <2>2. ~ IsMissing(name) /\ IsMissing(name)' = IsMissing(name)
      BY <2>1 DEF Answered, IsMissing
    <2> QED BY <2>1, <2>2 DEF Answered
  <1>6. CASE UNCHANGED vars
    BY <1>6 DEF vars, Answered, IsMissing
  <1> QED BY <1>1, <1>2, <1>3, <1>4, <1>5, <1>6 DEF Next

\* The sentinel is the answer for the DLLs the target lacks, in any spelling, and for
\* no other name.
THEOREM MissingAnsweredAlways == Spec => []MissingAnswered
  <1>1. Init => Answered
    BY DEF Init, Answered
  <1>2. IInv /\ Answered => MissingAnswered
    <2> SUFFICES ASSUME IInv, Answered, pc = "done"
                 PROVE  opened.how = "sentinel" <=> Listed(name)
      BY DEF MissingAnswered, Listed
    <2>1. name \in Names \cup {NoName}
      BY DEF IInv, TypeOK
    <2> QED BY <2>1, MatchesListed DEF Answered
  <1> QED BY <1>1, <1>2, AnsweredStep, Invariant, PTL DEF Spec
===============================================================================
