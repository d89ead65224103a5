----------------------------- MODULE AuditedHooks -----------------------------
(***************************************************************************)
(* `go2xp audit' and the running program: audit compares the names that a  *)
(* binary may look up with a list of what the target's kernel32 exports,   *)
(* with the shim's table and with what the profile accepts.  What it says  *)
(* of a binary that never ran is put beside what the hooks of ShimHooks    *)
(* answer when it runs on the target the list describes.                   *)
(***************************************************************************)
EXTENDS ShimHooks

CONSTANTS
  Variable,      \* [Procs -> what stands behind "proc" in the LazyProc's variable]
  OtherSymbols,  \* what stands behind ".proc" in symbols that are no LazyProcs
  Capitalised,   \* the suffixes that begin with a capital letter
  Kernel32,      \* the one DLL the lists cover
  ExportLists,   \* [Systems -> [names it lists -> {"no", "xp", ...}]]
  Pending,       \* [Systems -> the names its profile accepts as missing]
  Advapi32OnXP   \* names that XP has in advapi32 only, where Go looks for them

\* LazyProcs: what stands behind ".proc" in the symbols, where it begins with a
\* capital letter; nothing in a binary that was linked with -s.
Symbols(stripped) == IF stripped THEN {} ELSE {Variable[p] : p \in Procs} \cup OtherSymbols

LazyProcs(stripped) == Symbols(stripped) \cap Capitalised

\* loadExports: a name the list marks "no" is one the target lacks.
\* Mutated form: every name on the list counts as exported.
PresentIfListed(s, n) == n \in DOMAIN ExportLists[s]

Present(s, n) == ExportLists[s][n] # "no"

Known(s, n) == n \in DOMAIN ExportLists[s]

\* A name the list does not have may live in another DLL, or be the program's own
\* alias, and is passed over.
Absent(s, stripped) ==
  {n \in LazyProcs(stripped) : Known(s, n) /\ ~ Present(s, n) /\ n \notin Advapi32OnXP}

\* Any entry of the table covers its name, whatever DLL it was meant for.
Uncovered(s, stripped) ==
  {n \in Absent(s, stripped) : n \notin TableNames /\ n \notin Pending[s]}

AuditPasses(s, stripped) == LazyProcs(stripped) # {} /\ Uncovered(s, stripped) = {}

\* The lists say what the target exports.
ASSUME ListsAssumption ==
  /\ DOMAIN Variable = Procs
  /\ Kernel32 \in Dlls \ MissingDlls
  /\ \A s \in Systems :
       /\ DOMAIN ExportLists[s] \subseteq Names
       /\ \A n \in DOMAIN ExportLists[s] :
            (ExportLists[s][n] # "no") <=> <<Kernel32, n>> \in s.exports

----------------------------------------------------------------------------
\* By convention a LazyProc's variable is called proc<Function>.
Conventional(p) == Variable[p] = p[2] /\ p[2] \in Capitalised

\* A binary that audit accepts for a target finds, when it runs there, every
\* function of kernel32 that the list knows, in the system or in the table, in
\* every mode and however early it looks; but for those the profile accepts, and
\* for functions whose LazyProc has another name than theirs: of such an alias
\* audit sees the variable's name only (reference-review.md:52).
AuditSound ==
  \A stripped \in BOOLEAN : AuditPasses(system, stripped) =>
    \A t \in Threads :
      \A p \in {q \in Procs : q[1] = Kernel32 /\ Known(system, q[2]) /\ Conventional(q)} :
        thr[t].want = p /\ thr[t].ret = "noproc" =>
          p[2] \in Pending[system] \cup Advapi32OnXP
=============================================================================
