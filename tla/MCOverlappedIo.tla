---------------------------- MODULE MCOverlappedIo ----------------------------
(* A lister reads a directory while a querier asks for attributes on the same *)
(* handle, and a watcher has I/O on another.  Shared: the watcher has its I/O *)
(* on the lister's handle.                                                    *)
EXTENDS OverlappedIo

CONSTANTS L, Q, W, listed_dir, other

MCHandle == (L :> listed_dir) @@ (Q :> listed_dir) @@ (W :> other)
MCShared == (L :> listed_dir) @@ (W :> listed_dir)
===============================================================================
