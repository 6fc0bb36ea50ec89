------------------------------- MODULE Server -------------------------------
(***************************************************************************)
(* The socket server (socket_server.c): a thread that accepts connections, *)
(* and a detached thread for each of them that reads one command, runs it, *)
(* and sends what it has to say, with the stack of error messages of each  *)
(* thread (error.c).                                                       *)
(*                                                                         *)
(* The handlers for subscriptions and reads (process_subscribe, read_data) *)
(* have here what they take and give back, and what they answer; other     *)
(* modules have what they send.                                            *)
(***************************************************************************)
EXTENDS Integers, Sequences

CONSTANTS
    Clients,      \* client threads
    MaxLetters,   \* bound: letters in a C or D command
    MaxData,      \* bound: pieces of data sent to a client
    MaxLost       \* bound: connections for which no thread was created

ASSUME ServerAssumption ==
    /\ MaxLetters \in Nat /\ MaxData \in Nat /\ MaxLost \in Nat

VARIABLES
    accepting,     \* run_server: "no" before it is started or once it is over
    cpc, command,  \* where a client thread is, and the command it runs
    error_stack,   \* of each thread: has an entry a message?  The top first
    held,          \* of each thread: what it must give back
    answer,        \* what has been sent to the client
    left,          \* letters of the command, or data, still to come
    client_list, lost

client == <<cpc, command, error_stack, held, answer, left>>
server == <<accepting, client, client_list, lost>>

Commands == {"C", "D", "R", "S", "?"}

InitServer ==
    /\ accepting = "no"
    /\ cpc = [c \in Clients |-> "absent"]
    /\ command = [c \in Clients |-> "?"]
    /\ error_stack = [c \in Clients |-> <<>>]
    /\ held = [c \in Clients |-> {}]
    /\ answer = [c \in Clients |-> <<>>]
    /\ left = [c \in Clients |-> 0]
    /\ client_list = {} /\ lost = 0

-----------------------------------------------------------------------------
(* error.c. *)

push_error_handling(stack) == <<FALSE>> \o stack
pop_error_handling(stack) == Tail(stack)

\* The first message is kept; without an entry it is only logged.
print_error(stack) == IF stack = <<>> THEN stack ELSE <<TRUE>> \o Tail(stack)

-----------------------------------------------------------------------------
(* Connections. *)

goto(c, pc) == cpc' = [cpc EXCEPT ![c] = pc]
stack(c, s) == error_stack' = [error_stack EXCEPT ![c] = s]
send(c, what) == answer' = [answer EXCEPT ![c] = Append(@, what)]

\* A write that may fail: it is sent, or the error is recorded instead.
write(c, what, s) ==
    \/ send(c, what) /\ stack(c, s)
    \/ UNCHANGED answer /\ stack(c, print_error(s))

\* A cancelled thread may be past accept, with one more connection.
accept(c) ==
    /\ accepting \in {"yes", "cancelled"}
    /\ cpc[c] = "absent"
    /\ accepting' = IF accepting = "yes" THEN "yes" ELSE "no"
    /\ goto(c, "started")
    /\ command' = [command EXCEPT ![c] = "?"]
    /\ answer' = [answer EXCEPT ![c] = <<>>]
    /\ UNCHANGED <<error_stack, held, left, client_list, lost>>

\* pthread_create fails, and the connection is never closed.
accept_without_thread ==
    /\ accepting = "yes" /\ lost < MaxLost
    /\ lost' = lost + 1
    /\ UNCHANGED <<accepting, client, client_list>>

\* accept fails, out of file descriptors for instance, or is cancelled: the
\* thread ends.
accept_fails ==
    /\ accepting # "no"
    /\ accepting' = "no"
    /\ UNCHANGED <<client, client_list, lost>>

\* process_connection, up to push_error_handling.
add_client(c) ==
    /\ cpc[c] = "started"
    /\ client_list' = client_list \cup {c}
    /\ stack(c, push_error_handling(error_stack[c]))
    /\ goto(c, "line")
    /\ UNCHANGED <<accepting, command, held, answer, left, lost>>

\* read_line: a command, ...
read_line(c) ==
    /\ cpc[c] = "line"
    /\ \E cmd \in Commands : command' = [command EXCEPT ![c] = cmd]
    /\ left' = [left EXCEPT ![c] = MaxLetters]
    /\ goto(c, "dispatched")
    /\ UNCHANGED <<accepting, error_stack, held, answer, client_list, lost>>

\* Mutant: a socket without a timeout.
read_line_failsNever(c) == cpc[c] = "none" /\ UNCHANGED server

\* ... or a timeout, the end of the input or of the buffer; pop_client_error.
read_line_fails(c) ==
    /\ cpc[c] = "line"
    /\ write(c, "error",
             pop_error_handling(print_error(error_stack[c])))
    /\ goto(c, "close")
    /\ UNCHANGED <<accepting, command, held, left, client_list, lost>>

-----------------------------------------------------------------------------
(* The handlers. *)

\* process_error, also for D without -X.
process_error(c) ==
    /\ cpc[c] = "dispatched"
    /\ command[c] \in {"?", "D"}
    /\ write(c, "error", error_stack[c])
    /\ goto(c, "pop")
    /\ UNCHANGED <<accepting, command, held, left, client_list, lost>>

\* process_command, process_debug_command: a letter gets a line, or for CI a
\* line per client, unless the write fails.  CATCH_ERROR (CS, DI) pushes an
\* entry, and pops it before it answers.
process_letter(c) ==
    /\ cpc[c] = "dispatched"
    /\ command[c] \in {"C", "D"}
    /\ left[c] > 0
    /\ \/ /\ send(c, "line")
          /\ left' = [left EXCEPT ![c] = @ - 1]
          /\ UNCHANGED <<cpc, error_stack>>
       \/ /\ stack(c, print_error(error_stack[c]))
          /\ goto(c, "pop")
          /\ UNCHANGED <<answer, left>>
    /\ UNCHANGED <<accepting, command, held, client_list, lost>>

process_command_ends(c) ==
    /\ cpc[c] = "dispatched"
    /\ command[c] \in {"C", "D"}
    /\ goto(c, "pop")
    /\ UNCHANGED <<accepting, command, error_stack, held, answer, left,
                   client_list, lost>>

\* process_read and process_subscribe parse the request with an entry of
\* their own on the stack (DO_PARSE has one more, and is done with it).
parse_request(c) ==
    /\ cpc[c] = "dispatched"
    /\ command[c] \in {"R", "S"}
    /\ stack(c, push_error_handling(error_stack[c]))
    /\ goto(c, "parsed")
    /\ UNCHANGED <<accepting, command, held, answer, left, client_list, lost>>

Reported(c) == pop_error_handling(error_stack[c])

\* Mutant: an error is reported with its entry left on the stack.
refuse_requestUnpopped(c) ==
    /\ cpc[c] = "parsed"
    /\ write(c, "error", error_stack[c])
    /\ goto(c, IF held[c] = {} THEN "pop" ELSE "release")
    /\ UNCHANGED <<accepting, command, held, left, client_list, lost>>

\* report_socket_error(false), for a request that could not be parsed or for
\* which there is no data, no buffer or no file.
refuse_request(c) ==
    /\ cpc[c] = "parsed"
    /\ write(c, "error", Reported(c))
    /\ goto(c, IF held[c] = {} THEN "pop" ELSE "release")
    /\ UNCHANGED <<accepting, command, held, left, client_list, lost>>

\* A step of the preparation succeeds: read_data takes the buffers, then opens
\* the archive; process_subscribe opens a reader.
Needed(c) == IF command[c] = "R" THEN <<"buffers", "archive">> ELSE <<"reader">>

take_resource(c) ==
    /\ cpc[c] = "parsed"
    /\ \E i \in DOMAIN Needed(c) :
        /\ held[c] = {Needed(c)[k] : k \in 1 .. i - 1}
        /\ held' = [held EXCEPT ![c] = @ \cup {Needed(c)[i]}]
    /\ UNCHANGED <<accepting, cpc, command, error_stack, answer, left,
                   client_list, lost>>

\* report_socket_error(true).
accept_request(c) ==
    /\ cpc[c] = "parsed"
    /\ held[c] = {Needed(c)[k] : k \in DOMAIN Needed(c)}
    /\ left' = [left EXCEPT ![c] = MaxData]
    /\ \/ send(c, "nul") /\ stack(c, Reported(c)) /\ goto(c, "send")
       \/ /\ UNCHANGED answer
          /\ stack(c, print_error(Reported(c)))
          /\ goto(c, "release")
    /\ UNCHANGED <<accepting, command, held, client_list, lost>>

\* transfer_data, send_subscription: a piece of data, ...
send_data(c) ==
    /\ cpc[c] = "send" /\ left[c] > 0
    /\ send(c, "data")
    /\ left' = [left EXCEPT ![c] = @ - 1]
    /\ UNCHANGED <<accepting, cpc, command, error_stack, held, client_list,
                   lost>>

\* ... until something fails, or a read is complete.
send_ends(c) ==
    /\ cpc[c] = "send"
    /\ \/ stack(c, print_error(error_stack[c]))
       \/ command[c] = "R" /\ left[c] = 0 /\ UNCHANGED error_stack
    /\ goto(c, "release")
    /\ UNCHANGED <<accepting, command, held, answer, left, client_list, lost>>

\* Mutant: a request that is refused keeps its buffers.
releaseIfSent(c) ==
    /\ cpc[c] = "release"
    /\ held' = [held EXCEPT ![c] = IF answer[c] = <<"error">> THEN @ ELSE {}]
    /\ goto(c, "pop")
    /\ UNCHANGED <<accepting, command, error_stack, answer, left, client_list,
                   lost>>

\* The end of read_data and process_subscribe: everything is given back.
release(c) ==
    /\ cpc[c] = "release"
    /\ held' = [held EXCEPT ![c] = {}]
    /\ goto(c, "pop")
    /\ UNCHANGED <<accepting, command, error_stack, answer, left, client_list,
                   lost>>

\* Mutant: what went wrong is sent, whatever has been sent before.
dispatch_endsReported(c) ==
    /\ cpc[c] = "pop"
    /\ stack(c, pop_error_handling(error_stack[c]))
    /\ IF Head(error_stack[c]) THEN send(c, "error") ELSE UNCHANGED answer
    /\ goto(c, "close")
    /\ UNCHANGED <<accepting, command, held, left, client_list, lost>>

\* dispatch_command: what went wrong is logged and not sent.
dispatch_ends(c) ==
    /\ cpc[c] = "pop"
    /\ stack(c, pop_error_handling(error_stack[c]))
    /\ goto(c, "close")
    /\ UNCHANGED <<accepting, command, held, answer, left, client_list, lost>>

\* The socket is uncorked and closed.
close_connection(c) ==
    /\ cpc[c] = "close"
    /\ goto(c, "closed")
    /\ UNCHANGED <<accepting, command, error_stack, held, answer, left,
                   client_list, lost>>

remove_client(c) ==
    /\ cpc[c] = "closed"
    /\ client_list' = client_list \ {c}
    /\ goto(c, "absent")
    /\ UNCHANGED <<accepting, command, error_stack, held, answer, left, lost>>

\* Where a thread may wait for a block to be written: a read looks up its start
\* and its end, and asks leave for the blocks that it reads; a C command looks up
\* the times of the archive.
NeedsArchive(c) ==
    \/ command[c] = "R" /\ cpc[c] \in {"parsed", "send"}
    \/ command[c] = "C" /\ cpc[c] = "dispatched"

\* What a thread does by itself, or within the timeouts of set_socket_timeout:
\* everything but the client sending its command.
ClientSteps(c) ==
    \/ add_client(c) \/ read_line_fails(c)
    \/ process_error(c) \/ process_letter(c) \/ process_command_ends(c)
    \/ parse_request(c) \/ refuse_request(c) \/ take_resource(c)
    \/ accept_request(c) \/ send_data(c) \/ send_ends(c)
    \/ release(c) \/ dispatch_ends(c)
    \/ close_connection(c) \/ remove_client(c)

start_server == accepting' = "yes" /\ UNCHANGED <<client, client_list, lost>>

\* Client threads go on ("We probably need to kill all the client threads").
terminate_server ==
    /\ accepting' = IF accepting = "yes" THEN "cancelled" ELSE accepting
    /\ UNCHANGED <<client, client_list, lost>>

\* The end of the process.
EndServer ==
    /\ accepting' = "no" /\ client_list' = {} /\ lost' = 0
    /\ cpc' = [c \in Clients |-> "absent"]
    /\ command' = [c \in Clients |-> "?"]
    /\ error_stack' = [c \in Clients |-> <<>>]
    /\ held' = [c \in Clients |-> {}]
    /\ answer' = [c \in Clients |-> <<>>]
    /\ left' = [c \in Clients |-> 0]

ServerNext ==
    \/ \E c \in Clients : accept(c) \/ read_line(c) \/ ClientSteps(c)
    \/ accept_without_thread \/ accept_fails

-----------------------------------------------------------------------------
(* Properties. *)

ServerTypeOK ==
    /\ accepting \in {"no", "yes", "cancelled"}
    /\ cpc \in [Clients -> {"absent", "started", "line", "dispatched",
                            "parsed", "send", "release", "pop", "close",
                            "closed"}]
    /\ command \in [Clients -> Commands]
    /\ error_stack \in [Clients -> Seq(BOOLEAN)]
    /\ held \in [Clients -> SUBSET {"buffers", "archive", "reader"}]
    /\ answer \in [Clients -> Seq({"line", "error", "nul", "data"})]
    /\ left \in [Clients -> Nat]
    /\ client_list \subseteq Clients
    /\ lost \in 0 .. MaxLost

\* error.c, push_error_handling and pop_error_handling: whatever fails on the
\* way, a thread ends with the stack it began with, and never pops an empty one;
\* the handlers leave one entry for dispatch_command.
StackIsBalanced ==
    \A c \in Clients :
        Len(error_stack[c]) =
            CASE cpc[c] \in {"absent", "started", "close", "closed"} -> 0
              [] cpc[c] = "parsed" -> 2
              [] OTHER -> 1

\* docs/fa-archiver.rst: a request for data is answered by a null byte and data,
\* or by an error message; dispatch_command: "any further errors" stay in the
\* server.  Nothing that looks like a message is sent into the data, and no
\* data without the null byte.
AnswerIsOneOrTheOther ==
    \A c \in Clients :
        command[c] \in {"R", "S"} /\ answer[c] \notin {<<>>, <<"error">>} =>
            answer[c] = [i \in DOMAIN answer[c] |->
                            IF i = 1 THEN "nul" ELSE "data"]

\* Buffers of the pool, the archive and the reader of a subscription are given
\* back on every path before the connection is closed.
NothingHeldAtEnd ==
    \A c \in Clients :
        cpc[c] \in {"pop", "close", "closed", "absent"} => held[c] = {}

=============================================================================
