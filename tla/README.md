# A verification development for go2xp

go2xp makes executables built by a current Go toolchain run on Windows versions
Go no longer supports. It has two halves:

* a **patcher** (`cmd/go2xp`, `internal/patch`, `internal/pe`) that rewrites the
  import table of a PE file so that functions the target lacks are replaced by
  polyfills linked into the program, and a `verify` command that checks the result;
* a **shim** (`shim/`), the package with those polyfills and two hooks,
  `LoadLibraryExW` and `GetProcAddress`, which run inside the patched program,
  the early ones before the Go runtime exists.

This directory models both halves in TLA+, checks the models with TLC on small
instances and proves most of what is checked with TLAPS for all values of the
constants. All line numbers below refer to files under `src/`.

## Inventory

| component | state | operations | hard behaviour | what makes it correct |
|---|---|---|---|---|
| `go2xp patch` (`patch.go`, `pe/patch.go`) | the file on disk, the parsed image, the buffer being rewritten | open, second read, drop and redirect imports, rebuild the table, add a section, write | killed while writing; patching a patched file for another target; refusal half way through the rewriting | what it writes can be loaded and calls what the program means; it never undoes an earlier run |
| `go2xp audit` (`audit.go`, `pe/lazy.go`) | none | compares a binary's names with a target's exports, the shim's table and what the profile accepts | says of a program that never ran what its hooks will find | no function is missing at run time that nobody announced |
| `go2xp verify` (`verify.go`) | none | one predicate over a file and a profile | decides separately what `patch` decided | accepts only files the target can load and run; accepts what `patch` made |
| PE reader (`pe.go`) | none | imports, table scan, exports | look-alikes of the table's magic; sections whose order, memory size and file size differ; files cut short | reads back what the rewriting meant, finds the table and only the table |
| PE writer (`pe/patch.go`) | section headers and bytes | `AddSection`, `SetDataDir`, versions | limits of the header padding, two alignments, sections larger in memory than in the file, the forecast `plannedSectionRVA` | the image stays loadable and nothing is overwritten |
| import hooks and `init` (`shim_windows_386.s`, `.go`) | `forcePolyfills`, the `cb*` variables, what LazyDLL and LazyProc keep | look up a module, a name; install a callback | goroutines of earlier packages run while `init` stores callbacks; addresses found early are kept for ever | a native function is not displaced without one of three reasons (override, forced mode, a DLL on the list of missing ones), overrides are always wrapped, the sentinel never reaches the system |
| `LoadLibraryExW` path buffer | 264 code units on the stack | match, query, copy, call | every length limit | the frame stays intact; a system library is opened in the system directory or not at all |
| completion port (`GetQueuedCompletionStatusEx`) | the port's queue, registers of every poller | one dequeue per call | several pollers, failed I/O, wakeups, closing | behaves as the Ex function for a caller with room for an entry; no packet lost |
| file information (`poly_windows_386.go`) | a status block per call, the file object's event | list, get, set, query the volume in two parts, wait, convert | other I/O on the same handle, requests that fail before they start | listings complete; no return while the kernel still writes |
| `NtCreateFile` without `OBJ_DONT_REPARSE` | the caller's handle variable | open, open again, look, refuse | another process changes the directory meanwhile; the look fails | nothing outside the directory is ever handed out; handles balance |
| child processes and sockets | attribute lists, inheritance flags | the list trio, `CreateProcessW`, `WSASocketW` | a socket is inheritable for a moment; real and made-up lists; several launches at once | no list reaches a system that misreads it; children inherit what they were meant to |
| error mode (`xp_GetErrorMode`) | the mode of the process | set to 0, put back | another thread between the two calls | the mode is changed for nobody |
| other small polyfills, listings, profiles, scripts | little or none | see PROJECT.json | | partly or not modelled |

How they interact: `patch` and `verify` read the table `GO2XPTBL` the shim carries
(dll, function, polyfill address, own slot) and the profile of the target. `patch`
writes polyfill addresses into import slots and removes those slots from the
import table; the shim's own slots are left alone, because the hooks and
polyfills reach the real functions through them. In the running program every
lazily resolved call goes `LazyDLL.Load` -> `LoadLibraryExW` hook, then
`LazyProc.Find` -> `GetProcAddress` hook, then through the address that was found.
The runtime's network poller calls the completion port emulation from whichever
thread polls; package `os` calls the file functions.

## Modules

| module | models | depends on |
|---|---|---|
| `ImportTable` | descriptors, slots, `rebuildImports` | |
| `Patcher` | `patch` and `verify` over a disk | `ImportTable` |
| `SectionLayout` | `AddSection`, `plannedSectionRVA`, repeated patches | |
| `PatchedFile` | the words of the file: the two readers of `internal/pe`, redirection, `rebuildImports` | `SectionLayout`, which it implements, and `ImportTable` |
| `ShimHooks` | the hooks, `init`, LazyDLL and LazyProc | |
| `AuditedHooks` | `audit`'s verdict beside what the hooks then answer | `ShimHooks` |
| `SystemPath` | `xp_LoadLibraryExW` in detail | |
| `CompletionQueue` | abstract: what `GetQueuedCompletionStatusEx` promises | |
| `CompletionPort` | the polyfill; implements `CompletionQueue` | `CompletionQueue` |
| `OverlappedIo` | `finish`, directory listings | |
| `NoFollowOpen` | `polyNtCreateFile` | |
| `ChildProcess` | attribute lists, `CreateProcessW`, `WSASocketW`, `GetErrorMode` | |
| `MC...` | instances of these for TLC | |
| `...Proofs` | theorems and their proofs | the module of that name; `SectionLayoutProofs` is also about `PatchedFile`, `ShimHooksProofs` about `AuditedHooks` |

Operators named `... Mutated form` in a comment are plausible mistakes in the
definition that follows them. They are in no specification; each is used to show
that a property would notice the mistake.

### ImportTable and Patcher

An import table is a *set* of descriptors (dll, first slot, names), since nothing
depends on their order in the file; slots are numbered in words of the import
address table. `RebuildImports` is stated declaratively: what survives of a
descriptor is cut into maximal runs of consecutive slots, one new descriptor each.
An image is a record of what the two commands and the loader look at. `code` says
which function the program's instructions call through each slot, which is what
"correct" is measured against; it is never read by `patch` or `verify`.

The actions follow `Patch` (patch.go 83-186): `Invoke`, `Open` (profile, parse,
refusal of a file without the shim), `ReadRaw` (the second read of the path),
`Rewrite` (all of the work on the buffer, with header fields, redirected slots,
import table and new section), `Refuse` (each of the early returns, also that for a
slot to redirect that lies in no section: `unmapped`), `WriteBegin` and
`WriteEnd` (`os.WriteFile` truncates first), `Exit` (return, or killed anywhere).
`Build` puts a fresh image anywhere. A file whose writing was cut off is `Torn`
and accepted by nobody. That is what `PatchedFile!TornRefused` shows, on words: a
prefix that lacks anything but padding at its end is refused by `Open`, and one
that lacks padding alone reads like the whole file and is not `Torn`. `Loads` and `CallsRight` model
the target's loader and processor.

### SectionLayout

Addresses and file offsets are numbers of units; `owner` says for every byte of
the file whether it belongs to the headers, a section, padding or an overlay. One
patch is `Plan` (the forecast used for the RVAs in the new table), `AddSection` or
its refusal `NoRoom`, and `Write`; then the next patch starts from the result.

`secs` is the sequence of section headers, `importDir` the data directory's entry.

### PatchedFile

One unit of `SectionLayout` becomes one word with a content: a number, a text and
the NUL behind it, an ordinal, the table's magic, or code. `Off`, `U32`, `CStr`,
`ReadImports` and `ReadTable` are the readers of pe.go on the first `n` words of
the file, with their different treatment of what cannot be read (a file without an
import directory has no imports to walk); `FileOff`,
`Pieces`, `BuildSection` are those of the rewriting side, written from
`internal/patch` and not from the readers. Each action is an action of
`SectionLayout` with what it does to the words, so that the layout's invariants
hold here by refinement (`FileImplementsLayout`). `image` carries what the file
stands for as sets, by `ImportTable!RebuildImports`: `ImportsReadBack` says that
the words and the sets agree, which is what `Patcher` rests on.

### ShimHooks

`Route` is the decision at the top of `xp_GetProcAddress` (lines 592-650): who is
asked first and who after a miss. `Module` is the answer of the `LoadLibraryExW`
hook. A thread loads, finds and calls in separate steps, and what it found is kept
in `handle` and `proc`. `LastError` is the thread's last error after a lookup: the
hook sets 127 itself only where a miss ends in the table (694-699); a miss that ends in
the system, as after a table-first look in the forced mode (681-692), keeps what the
system set, and a lookup that asks no system and finds the name leaves it alone.
`InstallNext` stores one callback (shim_windows_386.go
140-165), `InitReturn` sets the forced mode last. A trampoline called before its
callback is there answers 0 (`early`).

### AuditedHooks

`Symbols` and `LazyProcs` follow `pe/lazy.go`: what stands behind `.proc` in the
symbols and begins with a capital letter, which is the *variable's* name and by
convention the function's; a stripped binary has no symbols. `Absent`, `Uncovered`
and `AuditPasses` follow `auditCmd` (audit.go 34-97), with its refusal of a binary in
which it finds no LazyProc; the list of exports, the accepted names and the names XP
has elsewhere are constants.
`AuditSound` puts the verdict beside the answers of a running `ShimHooks`.
`ListsAssumption` says that a list describes its target; names a list does not
know are passed over by the command and by the property, and so are LazyProcs whose
variable is not called after the function they look up (`Conventional`): audit takes
such an alias for a name of its own (audit.go 80). The instance has one alias, one
symbol that is no LazyProc and one ordinal.

### SystemPath

Cell `Cap` of `frame` stands for what lies behind the buffer: saved registers and
the return address. `Query` is the system directory with its backslash,
`CopyUnit` one turn of the copy loop with its check, `Refuse` the path through
`llx_too_long`. A call may follow another on the same stack, whose contents it then
finds.

### CompletionQueue and CompletionPort

The plain `GetQueuedCompletionStatus` returns FALSE both for "nothing" and for "a
packet of an I/O that failed", and the two are told apart by the OVERLAPPED it
leaves; a wakeup has none and returns TRUE. `CallPlain`, the system's steps
`PlainTakes` and `PlainTakesNone`, and `Return` are separate, so other pollers run
in between. A call without room for an entry returns FALSE at once and sets no last
error (`NoRoom`; `gqe_fail`, 727-729 and 769-776): what its caller reads may be left
over from an earlier call, so `CompletionQueue` promises a last error that belongs to the
outcome only for calls with room. Between two calls a thread's last error may become
anything. `CompletionPort!ImplementsEx` instantiates `CompletionQueue` with a
mapping from where a poller is to what the abstract call has done.

### ChildProcess

A launch does what `syscall.StartProcess` does: ask for the size of a list, make
one, update it, create the process, delete the list. `Initialized` is the choice
between the system's list and a made-up one, `Passed` what `polyCreateProcessW`
makes of its arguments. `WSASocketW`, `Retry` and `Hide` are the three steps of a
socket on a system that does not know the flag, `GetErrorMode` and `PutBack` the
two of the error mode. Every system call may fail; that of `SetHandleInformation`
is ignored by the code, and the socket then stays inheritable. `Asked` are the sockets
opened with WSA_FLAG_NO_HANDLE_INHERIT, `Exposed` those of them that a child can
inherit all the same; a socket opened without the flag is inheritable, as asked.

### OverlappedIo

The file object's event is cleared when an I/O starts and set when one completes,
whosever it is; an attribute query waits inside the kernel on an event of its own.
A lister does what `os.File.ReadDir` does, a querier gets or sets attributes or asks
for the volume, which takes one or two queries of which the second may fail. The assumption `OneLister` is package
os's lock around a listing.

### NoFollowOpen

`Walk` is the kernel's resolution of one or two components. A name with a
separator or a stream is a path of two components; what matters of it is that
something in the middle may be followed. The directory's entries and the
reparse attribute of the objects change between any two steps. A request may carry
FILE_OPEN_REPARSE_POINT itself (`openReparse`), which the polyfill passes through
(319) and which its second try sets in any case (340). `plain` records
that what the caller holds has been an ordinary object since it was opened, and
`quiet` that nobody interfered.

## What the runs check

| run | instance | shows |
|---|---|---|
| `patcher` | two files, three profiles (XP, Windows 7, a broken one), four kinds of shim table, room for 0 to 2 sections, an image with a slot outside all sections, and a program built for Windows 7 that `verify` accepts as it is | `VerifySound`: whatever `verify` accepts loads and calls the right functions; `PatchVerifies`; `OwnSlotsSurvive`; `AcceptedIsPatchable`; `RedirectsKept` across patches for different targets |
| `dll_spelling` (violation) | descriptors that spell the DLL in capitals | see findings |
| `patched_file` | a program of three descriptors, one without lookup table and one with an ordinal, in two layouts and two paddings; four look-alikes of the table in the code or one behind the end; a program without imports; four targets; until the padding is used up | `ImportsReadBack`, `TableFound`, `TornRefused`, `MemoryKept`; the image stays loadable, section bytes and headers stay, a section's bytes are never written over |
| `overlay` (violation) | six layouts, with an overlay or without | see findings |
| `shim_hooks` | two goroutines, three Windows versions, forced or not, `init` racing | the sentinel is contained (`SentinelContained`); no false miss (`NoFalseMiss`); a native function gives way only to an override, in the forced mode, or in a DLL on the list of missing ones (`NativePreferred`); overrides are wrapped (`OverridesWrapped`); what `audit` passes is found (`AuditSound`) |
| `early_trampoline` (violation) | as above | see findings |
| `system_path` | a buffer of 8, a limit of 4, names and directories up to 9 units | the frame is intact; `SystemOnly`; `PathsAsGiven`; `MissingAnswered` |
| `completion_port` | a blocking, a timed and a roomless poller; a success, a failure and a wakeup; closing | the refinement; every packet is in exactly one place; every packet arrives |
| `overlapped_io` | a lister and a querier on one handle, a watcher on another, directories of 0, 1 and 3 entries, two per query; every choice of volume information | `NothingPendingBehind`, `ListingRight`, `SuccessHasData`, and that every query returns |
| `shared_handle` (violation) | the watcher on the lister's handle | see findings |
| `no_follow_open` | two names, three objects inside, one outside; old and new kernel | `Contained`, `LinkRefused`, `HandlesAccounted`; `AnswersAsNative`, with the one difference that a caller which asks for the reparse point itself gets it from a new kernel and STATUS_REPARSE_POINT_ENCOUNTERED from the polyfill (351-354) |
| `child_process` | two launching threads, one with sockets, two that ask for the error mode; an XP and two later systems | `NeverMisread`, `ChildHandles`, `ModeKept`; `SocketsPrivate`: a socket asked for as not inheritable is in a child only if that was started before the socket was hidden or after hiding had failed, and in none where the system knows the flag |

### Bounds, and why they are enough

* `patcher`: five names in one descriptor let dropped slots fall at the start, in
  the middle and at the end of a run and leave runs of one and two; two files allow
  in-place and separate output; room 2 allows two patches in a row and the refusal
  of a third. Histories are not bounded otherwise.
* `patched_file`: alignments of 4 and 2 words; sections larger in memory than in
  the file and the reverse, and one whose order in the file is not that in memory.
  The length of the history is bounded by the header padding, as in the program,
  and every output is cut at every word. In no file does a place before the table
  parse as one, so `TableFound` says nothing of two good ones.
* `shim_hooks`: one early, two late (one an override), one stub and one unknown
  name, and an ordinal: every class of name the hook tells apart, on each kind of
  system. Two threads are enough for any of them to hold an address the other found.
* `system_path`: the distance between `MaxPath` and `Cap` is that of the code
  (260 and 264), so a path can end in front of, at and behind both. The proof
  covers the actual sizes.
* `completion_port`: each kind of packet and of poller once; each packet is posted
  once. The proof covers any number.
* `overlapped_io`: a directory that needs one, two or no batches.
* `child_process`: `MaxChildren` bounds the starts, and the two launches may still
  overlap at every step, because both can begin before either has a child. Two
  askers show the race, which the code does not exclude and the property names.
* `no_follow_open`: two names, so that one is renamed over the other's object.

The type invariants of `Patcher`, `ShimHooks`, `CompletionPort`, `SystemPath`,
`SectionLayout` and `ChildProcess` are proved for all values of the constants and
therefore in no run.

`CHECK_DEADLOCK FALSE` is set where a program ends: in `patched_file` and `overlay` a
refused patch is the end.

### Fairness

Only two runs assume any. In `completion_port` each polling thread keeps taking
its steps: the runtime's scheduler calls `netpoll` again and again, and a thread
inside the polyfill runs on. Nothing is assumed of whoever posts or closes. In
`overlapped_io` the threads run and the file system answers a directory query;
a watcher's I/O may last for ever, and nobody has to start a listing.

## What is proved

Proof modules and their main theorems (all listed in PROJECT.json):

* **`PatcherProofs`**: first `RebuildKeepsImports`, about the operator of
  `ImportTable`: for any table and any set of dropped slots the rebuilt table has
  exactly the imports whose slots were not dropped, each with its slot. It rests
  on lemmas about maximal runs (every kept position lies in exactly one run). Then
  `TypeCorrect`, `PatchVerifiesAlways`, `VerifySoundAlways`
  (which assumes `SpellingAgrees`: the finding `dll_spelling` is the case it excludes),
  `OwnSlotsSurviveAlways`, `AcceptedIsPatchableAlways`, `RedirectsKeptAlways`. The
  inductive invariant says of every file on disk that it is `Sound` (each slot
  the program calls is either still imported under its own name or holds a
  polyfill of that name, and once a slot holds one DYNAMIC_BASE is off) and of the
  running patch what its two reads hold at each step. `VerifySound` alone is not
  inductive: it says nothing of a file `verify` rejects, which a later patch may
  turn into one it accepts.
* **`SectionLayoutProofs`**: `LayoutTypeCorrect`, `ImageLoadableAlways`,
  `SectionsIntactAlways`, `ImportsWherePlannedAlways`, `NothingOverwrittenAlways`,
  for all alignments. The invariant relates `sizeOfImage` and the file's length to
  the greatest end over all sections; the existence of that greatest end is a
  lemma of its own. `FileImplementsLayout` shows that `PatchedFile` implements
  `SectionLayout` (initial states and steps map under the identity), from which
  `FileSectionsIntact` and `FileImportsWherePlanned` follow for the files of words.
  Then, of the words, from the invariant `ContentInv`:
  * `MemoryKeptAlways`. Its part `FileInv` says that every slot of the imports, and
    every slot redirected last, is a word of a section that belongs to that section
    alone, and that the latter hold what they were given. From it follow that no two
    addresses share a byte that is written (`OwnedAlone`), that the patcher's
    `FileOff` and the loader agree on where a slot is (`Located`), and that
    `AddSection` writes behind or in front of all of them (`GrownWords`);
    `rebuildImports` invents no slot (`RebuiltSlots`).
  * `ImportsReadBackAlways`. `WrittenInv` says that the file contains, where the
    directory points, an import table (`ImportsWritten`) of what it stands for, and
    that the section about to be added is `BuildSection` of what it will stand for.
    `Built` shows that the section's five parts, of lengths that depend on the data,
    refer to each other by the right addresses; `FlattenLaid` says where the members
    of a concatenation lie, and is proved with the least counterexample, since the
    library's induction is out of reach. `AddedPut` shows that `AddSection` puts the
    section where its addresses expect it, `ReadWritten` that the readers' walks take
    an import table apart into what was written.
  * `TableFoundAlways`. `TableInv` says where the table is, that its words and those of
    its names are `Settled` (they have an owner and are no slots), and what settled
    words tell each look-alike before it from it. No step writes to a settled word
    or writes a magic (`PlanKeeps`, `AddedKeeps`), so a table stays what is read
    (`TableKept`, `TableReadBack`).
  * `TornRefusedAlways`: the three results above, for a file cut to its first n
    words. The lemmas about the readers are therefore stated for any prefix
    (`Cut`, `Left`, `Seen`). The invariant gains `AddedInv`: after `AddSection` the
    new section stands whole in the file and nobody owns what is behind it. If the
    cut is inside the section, a word of it is missing that the readers' walks need
    (`RestRefused`): the section ends with a name that a lookup table or a
    descriptor refers to (`LastNamed` of `Built`), and the name needs its NUL. If it
    is behind the section, only padding is gone and the walks and the search for the
    table read what they read before (`RestRead`, `TableLeft`).
    The argument needs a name, and so an import, in the new section: `Open` takes
    words it cannot read for zeros when it walks the descriptors (pe.go 188-189), so
    an output without any import could lose part of its last descriptor and still
    be opened. `OwnInv` is what rules that out: the table names a slot that the
    shim calls itself, which no patch redirects and no rebuilding drops (`RunAround`,
    `SlotsKept`).
* **`ShimHooksProofs`**: type correctness, `SentinelContainedAlways`,
  `NoFalseMissAlways`, `NativePreferredAlways`, `OverridesWrappedAlways`
  and `AuditSoundAlways` for any threads, names, lists and Windows versions. The
  last follows from `NoFalseMiss`: a name that is absent, listed and accepted by
  nobody is in the table, where the hook finds it. The invariant adds that a handle is either
  the sentinel for a missing DLL or the DLL itself, and that `forced` implies
  `initDone`.
* **`SystemPathProofs`**: `PathTypeCorrect`, `FrameAlwaysIntact`,
  `SystemOnlyAlways`, `PathsAsGivenAlways`, `MissingAnsweredAlways` (the comparison
  unit by unit finds the listed names in any spelling, and no others). The invariant is that of the copy loop:
  the directory is in the buffer, `di = start + si`, and the first `si` units of
  the name have been copied and are no separators.
* **`CompletionPortProofs`**: `PortTypeCorrect`, `PacketsAccountedAlways` (inductive
  once the meaning of the registers is known) and `PortImplementsEx`, the
  refinement: initial states map to initial states, each step maps to a step of
  `CompletionQueue` or to none. The invariant says what a poller's registers mean
  at each of its steps.
* **`OverlappedIoProofs`**: `OverlappedTypes`, `NothingLeftPending`, `ListingsRight`
  and `SuccessesHaveData`, for any threads and handles, directories of any size and
  any number of entries per query. They hold under `NotShared`: no watcher has I/O on
  a handle that is listed. That is a hypothesis and not an assumption of the
  module because nothing in the code ensures it; `shared_handle` is the
  counterexample without it. The invariant says of each lister, at each point of a
  call, how the kernel's position in the directory, the entries already read and
  those in the buffer fit together, and that an unfinished I/O of a lister has
  left the file's event cleared, from which `Wait` cannot go on before its own I/O is done.
  It needs `OneLister` (package os locks a file while it is listed) and `OneRole`.
* **`NoFollowOpenProofs`**: `ContainedAlways`, `LinkRefusedAlways`,
  `HandlesAccountedAlways`, `AnswersAsNativeAlways` and the type invariant, for
  directories of any size and any interference. What makes them inductive is
  `Again`: an object that was opened again lies inside, its handle is the only one,
  and either it is a reparse point still or it has been seen not to be one.
* **`ChildProcessProofs`**: `NeverMisreadAlways`, `ChildHandlesAlways`,
  `SocketsPrivateAlways`, `ModeKeptAlways` and the type invariant, for any threads.
  The invariant says that a list is the system's own exactly where the system has
  lists, which sockets can be inheritable at each step, and that without a race
  one thread asks for the mode at most and holds the program's.

The assumptions, each named in the module that declares the constants:
`SlotsAssumption`, `ConstantTypes`, `OriginalsGood` (what the linker guarantees of
a fresh image, and that a shim's own functions exist on every target),
`AlignAssumption`, `ImagesAssumption` (an image the linker made), `TableAssumption`
(what `gen_table.py` guarantees), `SystemsAssumption`, `NullAssumption`,
`SizeAssumption`, `UnitAssumption`, `NameAssumption`, `MissingAssumption`,
`FlagAssumption`, `PortAssumption`, `ListsAssumption` (an export list describes its
target), `FilesAssumption` (a file is one of the images; each import slot is a
word that its section has in the file, as linkers lay out the address table; the
import table and the shim's table are in the file; the table names one of the slots
the shim calls itself (`OwnSlotNamed`: `OWNS` in gen_table.py 24-26, and
shim_windows_386.go 22-34, where a slot survives the linker only if the table refers
to it); and each magic before the shim's
table has a wrong version, or a name in its first record that is no address or
empty, in words no patch writes to: pe.go 89 expects look-alikes and cannot tell two
tables that parse apart), `NamesAssumption` (no name is the model's "no text"),
`ThreadAssumption`, `OneRole`, `OneLister`, `PlacesAssumption` and `ChildProcess`'s
`ConstantTypes`. TLC evaluates every one of them in the runs.

Only model-checked are the liveness properties `EveryPacketArrives` and
`EveryQueryReturns`: liveness under fairness is out of the prover's reach. Every
safety property of the passing runs is a theorem.

## Findings

Each is a violation run whose counterexample is a behaviour of the code.

* `dll_spelling` - `Profile.missing` compares whole DLLs without regard to case but
  looks functions up by the exact spelling (patch.go 48). In an image whose
  descriptors say `KERNEL32.dll` a missing function stays imported and `verify`
  accepts it. Go's own linker spells the names as the profiles do.
* `early_trampoline` - a late polyfill called before `init` has stored its callback
  returns 0 and leaves the last error as it was; the specification (docs/SPEC.md
  213) promises ERROR_CALL_NOT_IMPLEMENTED. For `NtCreateFile` 0 is success.
* `overlay` - `AddSection` says it appends at the end of the file; it puts the
  section behind the last section's data and overwrites an overlay there.
* `shared_handle` - `finish` says it waits out STATUS_PENDING; the wait on the file
  handle ends with any I/O on it, and the call then reports success while the
  kernel still owns its status block and buffer.

## Not modelled, and why

* Single bytes: a word of `PatchedFile` stands for a field or a text. Fields of a
  descriptor that are always 0, the even padding of names, alignment inside the
  section, the checks of debug/pe and UTF-16 conversion are left out.
* The export directory (`exports`) and the printing of `inspect` and `lazy-procs`.
* Polyfills that forward one call with converted arguments: `CreateEventExW`,
  `CreateWaitableTimerExW`, `ProcessPrng`, `RaiseFailFastException`, `GetTickCount64`
  (which wraps after 49.7 days).
* `CancelIoEx`, which becomes `CancelIo`: that call cancels all requests of one thread
  and none of others', so what the program asked for is not promised; it is
  listed as a hazard without a property.
* `CreateProcessAsUserW`: `syscall.StartProcess` calls it for another user's child
  and the shim has no function of that name; also a hazard without a property.
* On a system without attribute lists a child inherits whatever is inheritable;
  `ChildHandles` promises restriction only where the system has lists.
* Sizes near 2^32 in `AddSection`: images are assumed far smaller.
* Another program that writes the input while `patch` runs: the two reads of the
  input (patch.go 87 and 107) then differ. Listed as a hazard without a property.
* Import slots in the part of a section that has no bytes in the file, which
  `FileOff` maps into the next section of the file (pe/patch.go 136). Linkers lay
  none there, and `SlotsOwned` assumes it; also a hazard without a property.
* `bcryptprimitives.dll!ProcessPrng` is emulated also where the system has it, since
  the `LoadLibraryExW` hook answers every listed DLL with the sentinel
  (shim_windows_386.s 478-504), while the comment at 578-583 says that the native
  function always wins. `NativePreferred` names this as its third exception.
* Probes, profile scripts and CI.

## Plan

Done: the core (`ImportTable`, `Patcher`, `SectionLayout`, `ShimHooks`), the
polyfills with state (`CompletionPort`, `SystemPath`, `OverlappedIo`,
`NoFollowOpen`, `ChildProcess` with the error mode), the file's contents
(`PatchedFile`), `audit` (`AuditedHooks`), and proofs of every
safety property. What is left, in order of importance:

1. A composition of `Patcher` and `ShimHooks`: what `verify` accepts for a target,
   run on that target, makes `ShimHooks!TableAssumption` and the hooks' slots true.
2. The requests behind `CancelIoEx`, if a property of the kernel's `CancelIo` can be
   stated that the code relies on.
