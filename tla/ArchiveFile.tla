----------------------------- MODULE ArchiveFile -----------------------------
(***************************************************************************)
(* The archive as a file shared by processes: fa-prepare (prepare.c), which *)
(* lays it out or dumps it, and an archiver (initialise_disk_writer and    *)
(* close_disk in disk_writer.c), which maps it.  flock keeps them apart    *)
(* (lock_archive in disk.c).                                               *)
(*                                                                         *)
(* Of the contents the model has what has to agree: the size of the file,  *)
(* the size the header asks for, and which preparation header and index    *)
(* come from.  Any step of fa-prepare can fail, and it can be killed.      *)
(***************************************************************************)
EXTENDS Integers

CONSTANTS
    Sizes,           \* sizes of file asked for
    MaxPreparations  \* bound: number of times fa-prepare is run

\* Size 0 is an empty file, 1 one with room for header and index only.
ASSUME FileAssumption ==
    /\ Sizes \subseteq Nat \ {0, 1}
    /\ MaxPreparations \in Nat

None == "none"
NoHeader == [from |-> 0, size |-> 0]

VARIABLES
    file_size, head, index_from,  \* the file; from 0: neither
    locked_by,                    \* who has it locked
    ppc, wanted, preparation,     \* fa-prepare: size given (0 if none), run
    dpc, attached,                \* the archiver's file, and the header mapped
    truncated, torn               \* ghosts: changed while attached; left with
                                  \* a new header and an old index

file == <<file_size, head, index_from>>
prepare == <<ppc, wanted, preparation>>
disk_fd == <<dpc, attached>>
archive == <<file, locked_by, prepare, disk_fd, truncated, torn>>

\* There is no file yet, or one that was never prepared.
InitFile ==
    /\ file_size \in {0} \cup Sizes /\ head = NoHeader /\ index_from = 0
    /\ locked_by = None
    /\ ppc = "idle" /\ wanted = 0 /\ preparation = 0
    /\ dpc = "closed" /\ attached = NoHeader
    /\ truncated = FALSE /\ torn = FALSE

validate_header == head.size > 0 /\ head.size <= file_size

-----------------------------------------------------------------------------
(* fa-prepare. *)

\* open: with a size given the file is truncated, before it is locked.
open_archive(size) ==
    /\ wanted' = size
    /\ IF size > 0
       THEN /\ file_size' = 0 /\ head' = NoHeader /\ index_from' = 0
            /\ truncated' = (dpc = "attached")
            /\ torn' = FALSE
       ELSE UNCHANGED <<file, truncated, torn>>

PrepareOpens ==
    /\ ppc = "idle" /\ preparation < MaxPreparations
    /\ \E size \in {0} \cup Sizes : open_archive(size)
    /\ ppc' = "opened" /\ preparation' = preparation + 1
    /\ UNCHANGED <<locked_by, disk_fd>>

\* flock with LOCK_EX | LOCK_NB.
lock_archive(who) == locked_by = None /\ locked_by' = who

\* Mutant: an archive that is there already is not locked.
PrepareLocksNew ==
    /\ ppc = "opened"
    /\ IF wanted > 0 THEN lock_archive("prepare") ELSE UNCHANGED locked_by
    /\ ppc' = "locked"
    /\ UNCHANGED <<file, wanted, preparation, disk_fd, truncated, torn>>

PrepareLocks ==
    /\ ppc = "opened"
    /\ lock_archive("prepare")
    /\ ppc' = "locked"
    /\ UNCHANGED <<file, wanted, preparation, disk_fd, truncated, torn>>

\* write_new_header: the layout is computed for the size given or the size the
\* file has, and checked; then the header is written, ...
WriteHeader ==
    LET size == IF wanted > 0 THEN wanted ELSE file_size IN
    /\ ppc = "locked"
    /\ size > 1
    /\ head' = [from |-> preparation, size |-> size]
    /\ file_size' = IF file_size = 0 THEN 1 ELSE file_size
    /\ ppc' = "index"
    /\ torn' = TRUE
    /\ UNCHANGED <<index_from, locked_by, wanted, preparation, disk_fd,
                   truncated>>

\* ... and the index, all zeros.
reset_index ==
    /\ ppc = "index"
    /\ index_from' = preparation
    /\ ppc' = "fill"
    /\ torn' = FALSE
    /\ UNCHANGED <<file_size, head, locked_by, wanted, preparation, disk_fd,
                   truncated>>

\* fill_zeros or posix_fallocate; nothing to do for an existing file.
fill_zeros ==
    /\ ppc = "fill"
    /\ file_size' = IF wanted > 0 THEN wanted ELSE file_size
    /\ ppc' = "done"
    /\ UNCHANGED <<head, index_from, locked_by, wanted, preparation, disk_fd,
                   truncated, torn>>

\* close: fa-prepare is done, a step of it failed, or it was killed.
PrepareEnds ==
    /\ ppc # "idle"
    /\ ppc' = "idle"
    /\ locked_by' = IF locked_by = "prepare" THEN None ELSE locked_by
    /\ UNCHANGED <<file, wanted, preparation, disk_fd, truncated, torn>>

\* fa-prepare -H -d: do_dump_index locks the archive too.
DumpIndex ==
    /\ ppc = "idle" /\ preparation < MaxPreparations
    /\ validate_header
    /\ lock_archive("prepare")
    /\ ppc' = "dumping" /\ preparation' = preparation + 1
    /\ UNCHANGED <<file, wanted, disk_fd, truncated, torn>>

PrepareNext ==
    PrepareOpens \/ PrepareLocks \/ WriteHeader \/ reset_index \/ fill_zeros
    \/ PrepareEnds \/ DumpIndex

-----------------------------------------------------------------------------
(* The archiver. *)

rest_of_file == <<file, prepare, truncated, torn>>

\* initialise_disk_writer: open, lock_archive, ...
OpenDisk ==
    /\ dpc = "closed"
    /\ dpc' = "opened"
    /\ UNCHANGED <<rest_of_file, locked_by, attached>>

LockDisk ==
    /\ dpc = "opened"
    /\ lock_archive("archiver")
    /\ dpc' = "locked"
    /\ UNCHANGED <<rest_of_file, attached>>

\* ... and the three areas are mapped once the header has been checked.
MapDisk ==
    /\ dpc = "locked"
    /\ validate_header
    /\ dpc' = "attached"
    /\ attached' = head
    /\ truncated' = FALSE
    /\ UNCHANGED <<file, prepare, torn, locked_by>>

\* close_disk, or the end of the process.
CloseDisk ==
    /\ dpc' = "closed"
    /\ attached' = NoHeader
    /\ locked_by' = IF locked_by = "archiver" THEN None ELSE locked_by
    /\ truncated' = FALSE
    /\ UNCHANGED <<file, prepare, torn>>

-----------------------------------------------------------------------------
(* Properties. *)

FileTypeOK ==
    /\ file_size \in {0, 1} \cup Sizes
    /\ head \in [from : 0 .. MaxPreparations, size : {0} \cup Sizes]
    /\ index_from \in 0 .. MaxPreparations
    /\ locked_by \in {None, "prepare", "archiver"}
    /\ ppc \in {"idle", "opened", "locked", "index", "fill", "done", "dumping"}
    /\ wanted \in {0} \cup Sizes /\ preparation \in 0 .. MaxPreparations
    /\ dpc \in {"closed", "opened", "locked", "attached"}
    /\ attached \in [from : 0 .. MaxPreparations, size : {0} \cup Sizes]
    /\ truncated \in BOOLEAN /\ torn \in BOOLEAN

\* lock_archive "Locks archive for exclusive access": the header an archiver
\* has mapped stays in the file, with a file large enough for it and an index
\* written for it ("necessary for a consistent freshly initialised database").
\* Two windows are left: fa-prepare -s truncates the file before it asks for
\* the lock, and one that ends between header and index leaves an old index
\* under the new header.
MappedIsConsistent ==
    dpc = "attached" /\ ~truncated =>
        /\ head = attached
        /\ attached.size <= file_size
        /\ index_from = attached.from \/ torn

=============================================================================
