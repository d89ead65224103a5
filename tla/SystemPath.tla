------------------------------ MODULE SystemPath ------------------------------
(***************************************************************************)
(* xp_LoadLibraryExW on a system that rejects the LOAD_LIBRARY_SEARCH_*    *)
(* flags.  A library asked for in the system directory is opened by its    *)
(* whole path, put together in a buffer on the stack: the directory, a     *)
(* backslash unless it ends in one, and the name, copied unit by unit      *)
(* until its NUL.  Behind the buffer lie the saved registers and the       *)
(* return address.                                                         *)
(***************************************************************************)
EXTENDS Integers, Sequences

CONSTANTS Units,       \* UTF-16 code units, of which
          Nul, Backslash,
          Separators,  \* '\', '/' and ':' make a name a path of its own
          Fold,        \* unit -> the unit in lower case
          Names,       \* what the program asks for; NoName is a null pointer
          NoName,
          MissingDlls, \* go2xp_missing_dlls, in lower case
          Dirs,        \* where the system directory may be, without the NUL
          Cap,         \* units in the buffer: 264
          MaxPath,     \* 260
          Saved,       \* what lies behind the buffer
          SearchFlags, System32, OtherFlags

Terminated(s) == /\ s \in Seq(Units) /\ Len(s) > 0
                 /\ \A i \in 1 .. Len(s) : s[i] = Nul <=> i = Len(s)

ASSUME SizeAssumption == Cap \in Nat /\ MaxPath \in Nat /\ MaxPath < Cap
ASSUME UnitAssumption == /\ Nul \in Units /\ Backslash \in Separators
                         /\ Separators \subseteq Units \ {Nul}
                         /\ Fold \in [Units -> Units]
                         /\ Saved \notin Units
ASSUME NameAssumption == /\ \A n \in Names : Terminated(n)
                         /\ NoName \notin Names
                         /\ Dirs \subseteq Seq(Units \ {Nul})
                         /\ \A d \in Dirs : Len(d) > 0
ASSUME MissingAssumption == MissingDlls \subseteq Seq(Units)
ASSUME FlagAssumption == System32 \in SearchFlags
                         /\ SearchFlags \cap OtherFlags = {}

VARIABLES dir,     \* the system directory of this machine
          pc, name, flags,
          frame,   \* the buffer, and in cell Cap what lies behind it
          start,   \* where the name begins in the buffer
          di, si,  \* cells written so far; units of the name copied so far
          opened   \* how the call ended

vars == <<dir, pc, name, flags, frame, start, di, si, opened>>

Nothing == [how |-> "nothing", flags |-> {}]

Init == /\ dir \in Dirs
        /\ pc = "idle" /\ name = NoName /\ flags = {}
        /\ frame = [i \in 0 .. Cap |-> IF i = Cap THEN Saved ELSE Nul]
        /\ start = 0 /\ di = 0 /\ si = 0
        /\ opened = Nothing

----------------------------------------------------------------------------

Call == /\ pc \in {"idle", "done"}
        /\ name' \in Names \cup {NoName}
        /\ flags' \in SUBSET (SearchFlags \cup OtherFlags)
        /\ pc' = "match"
        /\ opened' = Nothing
        /\ UNCHANGED <<dir, frame, start, di, si>>

\* Mutated form: the name is compared as it is spelled.
SameSpelling(n, missing) == n = missing
\* A name matches when it has the same units in lower case.
SameDll(n, missing) == /\ Len(n) = Len(missing)
                       /\ \A i \in 1 .. Len(n) : Fold[n[i]] = missing[i]

IsMissing(n) == n # NoName /\ \E missing \in MissingDlls : SameDll(n, missing)

Match == /\ pc = "match"
         /\ \/ /\ IsMissing(name)
               /\ opened' = [how |-> "sentinel", flags |-> {}]
               /\ pc' = "done"
            \/ /\ ~ IsMissing(name)
               /\ pc' = IF name # NoName /\ System32 \in flags THEN "query" ELSE "bare"
               /\ UNCHANGED opened
         /\ UNCHANGED <<dir, name, flags, frame, start, di, si>>

\* Mutated form: without room for the path, the bare name is tried.
FallBack == pc' = "bare" /\ UNCHANGED opened
Refuse == pc' = "done" /\ opened' = [how |-> "refused", flags |-> {}]

\* GetSystemDirectoryW fails with an error of its own, finds its answer too
\* long for the buffer and says so, or stores the directory and a NUL.
Stored(d, f) == [i \in DOMAIN f |-> IF i < Len(d) THEN d[i + 1]
                                    ELSE IF i = Len(d) THEN Nul ELSE f[i]]

EndsInBackslash(d) == d[Len(d)] = Backslash
Accepted(d) == Len(d) < MaxPath

QueryFails == /\ pc = "query"
              /\ Refuse
              /\ UNCHANGED <<dir, name, flags, frame, start, di, si>>

QueryTooLong == /\ pc = "query" /\ ~ Accepted(dir)
                /\ frame' = IF Len(dir) < Cap THEN Stored(dir, frame) ELSE frame
                /\ Refuse
                /\ UNCHANGED <<dir, name, flags, start, di, si>>

Query == /\ pc = "query" /\ Accepted(dir)
         /\ LET whole == Stored(dir, frame)
            IN  IF EndsInBackslash(dir)
                THEN start' = Len(dir) /\ frame' = whole
                ELSE /\ start' = Len(dir) + 1
                     /\ frame' = [whole EXCEPT ![Len(dir)] = Backslash]
         /\ di' = start' /\ si' = 0
         /\ pc' = "copy"
         /\ UNCHANGED <<dir, name, flags, opened>>

\* Mutated form: the end of the buffer is noticed one unit late.
RoomLate(i) == i <= Cap
Room(i) == i < Cap

CopyTooLong == /\ pc = "copy" /\ ~ Room(di)
               /\ Refuse
               /\ UNCHANGED <<dir, name, flags, frame, start, di, si>>

\* Mutated form: a slash is taken for a part of a name.
SeparatesBackslash(u) == u = Backslash
Separates(u) == u \in Separators

\* The name is a path: the caller's own string is used.
CopyIsPath == /\ pc = "copy" /\ Room(di) /\ Separates(name[si + 1])
              /\ pc' = "bare"
              /\ UNCHANGED <<dir, name, flags, frame, start, di, si, opened>>

CopyUnit == /\ pc = "copy" /\ Room(di) /\ ~ Separates(name[si + 1])
            /\ frame' = [frame EXCEPT ![di] = name[si + 1]]
            /\ di' = di + 1 /\ si' = si + 1
            /\ pc' = IF name[si + 1] = Nul THEN "whole" ELSE "copy"
            /\ UNCHANGED <<dir, name, flags, start, opened>>

\* 0xFFFFE0FF
XpFlags(f) == f \ SearchFlags

\* The real LoadLibraryExW, which gets none of the search flags; whether it
\* finds the library does not matter here.
CallReal == /\ pc \in {"whole", "bare"}
            /\ opened' = [how |-> pc, flags |-> XpFlags(flags)]
            /\ pc' = "done"
            /\ UNCHANGED <<dir, name, flags, frame, start, di, si>>

Next == \/ Call \/ Match \/ QueryFails \/ QueryTooLong \/ Query
        \/ CopyTooLong \/ CopyIsPath \/ CopyUnit \/ CallReal

Spec == Init /\ [][Next]_vars

----------------------------------------------------------------------------
(* Properties. *)

TypeOK == /\ dir \in Dirs
          /\ pc \in {"idle", "match", "query", "copy", "whole", "bare", "done"}
          /\ name \in Names \cup {NoName}
          /\ flags \in SUBSET (SearchFlags \cup OtherFlags)
          /\ frame \in [0 .. Cap -> Units \cup {Saved}]
          /\ start \in 0 .. Cap /\ di \in 0 .. Cap /\ si \in Nat
          /\ opened \in [how : {"nothing", "sentinel", "refused", "whole", "bare"},
                         flags : SUBSET OtherFlags]

\* No system directory and no name, however long, makes the polyfill write
\* behind its buffer, where the caller's registers and the way back are.
FrameIntact == frame[Cap] = Saved

IsPath(n) == \E i \in 1 .. Len(n) : n[i] \in Separators

\* What the buffer must hold: directory, backslash, name and NUL.
Holds(f, d, n) ==
    LET b == IF d[Len(d)] = Backslash THEN Len(d) ELSE Len(d) + 1
    IN  /\ b + Len(n) <= Cap
        /\ \A i \in 1 .. Len(d) : f[i - 1] = d[i]
        /\ f[b - 1] = Backslash
        /\ \A i \in 1 .. Len(n) : f[b + i - 1] = n[i]

\* A library the program wants from the system directory is never looked for
\* anywhere else: the real function gets its whole path there, complete and
\* terminated, or is not called.
SystemOnly ==
    opened.how \in {"whole", "bare"} /\ name # NoName /\ System32 \in flags /\ ~ IsPath(name)
    => opened.how = "whole" /\ Holds(frame, dir, name)

\* A name that says where the library is goes to the system as it is, if it goes
\* there: no directory is ever put in front of one.
PathsAsGiven == opened.how = "whole" => name # NoName /\ ~ IsPath(name)

\* A DLL the target lacks is never looked for on the disk, and the sentinel
\* stands for no other.
MissingAnswered ==
    pc = "done" => (opened.how = "sentinel" <=>
                    /\ name # NoName
                    /\ [i \in DOMAIN name |-> Fold[name[i]]] \in MissingDlls)
=============================================================================
