------------------------------- MODULE Archiver -------------------------------
(***************************************************************************)
(* The archiver as a process (archiver.c): the order in which main brings  *)
(* its parts up and run_archiver takes them down, with the archive file    *)
(* it shares with fa-prepare and the clients it serves meanwhile.          *)
(*                                                                         *)
(* Any part of the initialisation can fail, and the process can be killed  *)
(* at any time.  What the threads do is in Archive, Decimation and Server; *)
(* here they are there or not, and a block is being written or not, for    *)
(* which the clients wait.                                                 *)
(***************************************************************************)
EXTENDS ArchiveFile, Server

CONSTANT MaxStarts   \* bound: number of times the archiver is started

ASSUME ArchiverAssumption == MaxStarts \in Nat

VARIABLES
    mpc,             \* where the main thread is
    threads,         \* running, besides those of the server
    shutdown_semaphore,
    pid_file,        \* is there one?
    starts,
    abandoned,       \* ghost: the pid file was left by a process that failed
                     \* to start, was killed or could not remove it
    writing_active   \* a block is to be written, or being written

main_thread ==
    <<mpc, threads, shutdown_semaphore, pid_file, starts, abandoned>>
process == <<main_thread, writing_active>>
vars == <<archive, server, process>>

Threads == {"writer", "transform", "sniffer", "decimation"}

Init ==
    /\ InitFile /\ InitServer
    /\ mpc = "down" /\ threads = {} /\ shutdown_semaphore = FALSE
    /\ pid_file = FALSE /\ starts = 0 /\ abandoned = FALSE
    /\ writing_active = FALSE

main_goto(pc) == mpc' = pc
rest_of_main ==
    <<shutdown_semaphore, pid_file, starts, abandoned, writing_active>>

-----------------------------------------------------------------------------
(* main. *)

\* initialise_disk_writer: open, lock, map.
StartArchiver ==
    /\ mpc = "down" /\ starts < MaxStarts
    /\ OpenDisk
    /\ main_goto("disk") /\ starts' = starts + 1
    /\ shutdown_semaphore' = FALSE
    /\ UNCHANGED <<server, threads, pid_file, abandoned, writing_active>>

initialise_disk_writer ==
    /\ mpc = "disk"
    /\ \/ LockDisk /\ UNCHANGED mpc
       \/ MapDisk /\ main_goto("daemonise")
    /\ UNCHANGED <<server, threads, rest_of_main>>

\* O_EXCL: there must be no pid file yet.
maybe_daemonise ==
    /\ mpc = "daemonise"
    /\ ~pid_file
    /\ pid_file' = TRUE
    /\ main_goto("start")
    /\ UNCHANGED <<archive, server, threads, shutdown_semaphore, starts,
                   abandoned, writing_active>>

\* start_disk_writer, start_sniffer, start_decimation, in this order.
StartOrder == <<"writer", "transform", "sniffer", "decimation">>

start_thread ==
    /\ mpc = "start"
    /\ \E i \in DOMAIN StartOrder :
        /\ threads = {StartOrder[k] : k \in 1 .. i - 1}
        /\ threads' = threads \cup {StartOrder[i]}
    /\ UNCHANGED <<archive, server, mpc, rest_of_main>>

main_starts_server ==
    /\ mpc = "start" /\ threads = Threads
    /\ start_server
    /\ main_goto("serving")
    /\ UNCHANGED <<archive, threads, rest_of_main>>

\* The thread that reads commands, in interactive mode; run_archiver.
run_archiver ==
    /\ mpc = "serving"
    /\ main_goto("running")
    /\ UNCHANGED <<archive, server, threads, rest_of_main>>

\* A signal, the end of the input, or DQ.
shutdown_archiver ==
    /\ mpc \in {"start", "serving", "running"} /\ ~shutdown_semaphore
    /\ shutdown_semaphore' = TRUE
    /\ UNCHANGED <<archive, server, mpc, threads, pid_file, starts, abandoned,
                   writing_active>>

\* Mutant: the pid file goes first, with the archive still in use.
wait_for_exitUnlinked ==
    /\ mpc = "running" /\ shutdown_semaphore
    /\ terminate_server
    /\ pid_file' = FALSE
    /\ main_goto("stop_sniffer")
    /\ UNCHANGED <<archive, threads, shutdown_semaphore, starts, abandoned,
                   writing_active>>

wait_for_exit ==
    /\ mpc = "running" /\ shutdown_semaphore
    /\ terminate_server
    /\ main_goto("stop_sniffer")
    /\ UNCHANGED <<archive, threads, rest_of_main>>

terminate_sniffer ==
    /\ mpc = "stop_sniffer"
    /\ threads' = threads \ {"sniffer"}
    /\ main_goto("stop_decimation")
    /\ UNCHANGED <<archive, server, rest_of_main>>

terminate_decimation ==
    /\ mpc = "stop_decimation"
    /\ threads' = threads \ {"decimation"}
    /\ main_goto("stop_disk_writer")
    /\ UNCHANGED <<archive, server, rest_of_main>>

\* Mutant: the writer thread is not joined.
terminate_disk_writerTransform ==
    /\ mpc = "stop_disk_writer"
    /\ threads' = threads \ {"transform"}
    /\ main_goto("close_disk")
    /\ UNCHANGED <<archive, server, rest_of_main>>

\* terminate_disk_writer: both threads are joined, then close_disk.
terminate_disk_writer ==
    /\ mpc = "stop_disk_writer"
    /\ threads' = threads \ {"writer", "transform"}
    /\ main_goto("close_disk")
    /\ UNCHANGED <<archive, server, rest_of_main>>

close_disk ==
    /\ mpc = "close_disk"
    /\ CloseDisk
    /\ main_goto("unlink")
    /\ UNCHANGED <<server, threads, rest_of_main>>

\* The last thing main does before the process, and all its threads, end.  That
\* unlink fails is logged, and the file stays.
unlink_pid_file ==
    /\ mpc = "unlink"
    /\ \/ pid_file' = FALSE /\ UNCHANGED abandoned
       \/ UNCHANGED pid_file /\ abandoned' = TRUE
    /\ main_goto("down")
    /\ EndServer /\ writing_active' = FALSE
    /\ UNCHANGED <<archive, threads, shutdown_semaphore, starts>>

-----------------------------------------------------------------------------
(* What the clients wait for (disk_writer.c). *)

schedule_write ==
    /\ "transform" \in threads /\ ~writing_active
    /\ writing_active' = TRUE
    /\ UNCHANGED <<archive, server, main_thread>>

\* writer_thread is done with a block.  Nothing says that it ever is: after an
\* error, or a shutdown, nobody takes the next one.
write_ends ==
    /\ "writer" \in threads /\ writing_active
    /\ writing_active' = FALSE
    /\ UNCHANGED <<archive, server, main_thread>>

-----------------------------------------------------------------------------
(* Failures. *)

EndProcess ==
    /\ main_goto("down") /\ threads' = {}
    /\ CloseDisk /\ EndServer /\ writing_active' = FALSE
    /\ UNCHANGED <<shutdown_semaphore, pid_file, starts>>

\* main returns 1 as soon as a step fails: a pid file stays, and so the next
\* start fails too.
fail_to_start ==
    /\ mpc \in {"disk", "daemonise", "start", "serving"}
    /\ EndProcess
    /\ abandoned' = (abandoned \/ mpc \in {"start", "serving"})

killed ==
    /\ mpc # "down"
    /\ EndProcess
    /\ abandoned' = pid_file

\* By hand, once the process is gone.
remove_pid_file ==
    /\ mpc = "down" /\ pid_file
    /\ pid_file' = FALSE /\ abandoned' = FALSE
    /\ UNCHANGED <<archive, server, mpc, threads, shutdown_semaphore, starts,
                   writing_active>>

-----------------------------------------------------------------------------
Next ==
    \/ StartArchiver \/ initialise_disk_writer \/ maybe_daemonise
    \/ start_thread \/ main_starts_server \/ run_archiver
    \/ shutdown_archiver \/ wait_for_exit
    \/ terminate_sniffer \/ terminate_decimation \/ terminate_disk_writer
    \/ close_disk \/ unlink_pid_file
    \/ schedule_write \/ write_ends
    \/ fail_to_start \/ killed \/ remove_pid_file
    \/ PrepareNext /\ UNCHANGED <<server, process>>
    \/ ServerNext /\ UNCHANGED <<archive, process>>

Spec == Init /\ [][Next]_vars

\* A client need not send anything, nor connect; the threads are scheduled, and
\* no call they make blocks for longer than the timeouts, but for those that wait
\* for the archive: they have no timeout, nor is a write bound to end.
FairSpec ==
    /\ Spec
    /\ \A c \in Clients :
        WF_vars(/\ NeedsArchive(c) => ~writing_active
                /\ ClientSteps(c)
                /\ UNCHANGED <<archive, process>>)

-----------------------------------------------------------------------------
(* Properties. *)

TypeOK ==
    /\ FileTypeOK /\ ServerTypeOK
    /\ mpc \in {"down", "disk", "daemonise", "start", "serving", "running",
                "stop_sniffer", "stop_decimation", "stop_disk_writer",
                "close_disk", "unlink"}
    /\ threads \subseteq Threads
    /\ {shutdown_semaphore, pid_file, abandoned, writing_active}
            \subseteq BOOLEAN
    /\ starts \in 0 .. MaxStarts

\* terminate_disk_writer joins its threads before close_disk unmaps header,
\* index and decimated data, which they use at every step; they are started
\* once the areas are mapped, and the archive stays locked while they run.
ArchiveOutlivesThreads ==
    threads \cap {"writer", "transform"} # {} =>
        dpc = "attached" /\ locked_by = "archiver"

\* maybe_daemonise: "PID file already exists: is archiver already running?"
\* It is, or could not remove the file, or did not get as far; and from the
\* first thread to the last, and until the archive is closed, the file is there,
\* so that no other archiver starts.
PidFileTellsTheTruth ==
    /\ pid_file /\ ~abandoned =>
        mpc \notin {"down", "disk", "daemonise"}
    /\ mpc \notin {"down", "disk", "daemonise"} => pid_file

\* set_socket_timeout: "so we don't have threads hanging waiting for users to
\* complete sending their commands and to receive their data".  A subscription
\* goes on for as long as the client takes the data; any other thread ends,
\* unless the archiver's own disk holds it up again and again, or for ever:
\* request_read, and a lookup behind schedule_write, return only once a write has
\* ended.
ClientThreadsEnd ==
    \A c \in Clients :
        \/ cpc[c] = "started" ~>
                cpc[c] = "absent" \/ (cpc[c] = "send" /\ command[c] = "S")
        \/ []<>(NeedsArchive(c) /\ writing_active)

=============================================================================
