------------------------------ MODULE Subscribe ------------------------------
(***************************************************************************)
(* One subscription (subscribe.c): the client is sent the blocks of a      *)
(* stream, beginning with whatever comes next, until there is a gap, the   *)
(* client falls behind, or goes away.                                      *)
(*                                                                         *)
(* As in Decimation the stream belongs to the module that composes it.     *)
(***************************************************************************)
EXTENDS Naturals, Sequences

VARIABLES
    spc,       \* where process_subscribe is
    source,    \* "fa" or "decimated"
    sblock,    \* the block get_read_block returned
    header,    \* the block whose timestamp and id0 were sent ahead
    received   \* the blocks sent to the client

subscription == <<spc, source, sblock, header, received>>

InitSubscription ==
    /\ spc = "idle" /\ source = "fa" /\ sblock = 0 /\ header = 0
    /\ received = <<>>

\* The request is parsed, the reader opened.
process_subscribe(s) ==
    /\ spc = "idle"
    /\ spc' = "get"
    /\ source' = s
    /\ UNCHANGED <<sblock, header, received>>

\* get_read_block has returned a block.  Before the first one is looked at
\* any further the status and the header are sent.
GetBlock(f) ==
    /\ spc = "get"
    /\ sblock' = f
    /\ IF header = 0
       THEN spc' = "header" /\ header' = f
       ELSE spc' = "copy" /\ UNCHANGED header
    /\ UNCHANGED <<source, received>>

\* Mutant: a gap does not end the subscription.
GetNullGoesOn ==
    /\ spc = "get"
    /\ spc' = IF header = 0 THEN "closing" ELSE "get"
    /\ UNCHANGED <<source, sblock, header, received>>

\* It has returned NULL: "No data currently available", or "Gap in subscribed
\* data".
GetNull ==
    /\ spc = "get"
    /\ spc' = "closing"
    /\ UNCHANGED <<source, sblock, header, received>>

\* report_socket_error and send_header; the client may have gone.
send_header ==
    /\ spc = "header"
    /\ spc' \in {"copy", "closing"}
    /\ UNCHANGED <<source, sblock, header, received>>

\* The block has been copied and release_read_block returned true; the copy is
\* sent, unless the client has gone.
SendCopy ==
    /\ spc = "copy"
    /\ \/ spc' = "get" /\ received' = Append(received, sblock)
       \/ spc' = "closing" /\ UNCHANGED received
    /\ sblock' = 0
    /\ UNCHANGED <<source, header>>

\* It returned false: "Write underrun to client".
Underrun ==
    /\ spc = "copy"
    /\ spc' = "closing"
    /\ sblock' = 0
    /\ UNCHANGED <<source, header, received>>

\* The socket is closed too; the same client may come back.
close_reader ==
    /\ spc = "closing"
    /\ spc' = "idle" /\ source' = "fa" /\ sblock' = 0 /\ header' = 0
    /\ received' = <<>>

=============================================================================
