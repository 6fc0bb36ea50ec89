----------------------------- MODULE FrameStream -----------------------------
(***************************************************************************)
(* What the circular buffer promises its readers (src/buffer.h), with no   *)
(* ring, no indexes and no lock.  The writer attempts frames 1, 2, 3, ...; *)
(* a frame is stored, or becomes a gap.  A reader receives stored frames   *)
(* in order, each at most once.  It is told when something is missing: two *)
(* frames delivered without a break in between are consecutive attempts,   *)
(* and a reader opened while frames are being lost is told of that before  *)
(* it receives the first one.                                              *)
(* An ordinary reader that falls behind is cut off (a break, after which   *)
(* frames may be missing); a reserved reader never misses a stored frame.  *)
(***************************************************************************)
EXTENDS Naturals

CONSTANTS Readers, Reserved

VARIABLES
    frame,   \* the frame the writer will attempt next
    stored,  \* the frames that did not become gaps
    open,    \* the readers that are open
    last,    \* last frame delivered to each reader, or stored when it opened
    cont     \* no break since

vars == <<frame, stored, open, last, cont>>

Init ==
    /\ frame = 1
    /\ stored = {}
    /\ open = {}
    /\ last = [r \in Readers |-> 0]
    /\ cont = [r \in Readers |-> FALSE]

Attempt(ok) ==
    /\ frame' = frame + 1
    /\ stored' = IF ok THEN stored \cup {frame} ELSE stored
    /\ UNCHANGED <<open, last, cont>>

Newest(n) == n \in stored \cup {0} /\ \A f \in stored : f <= n

Open(r) ==
    /\ r \notin open
    /\ open' = open \cup {r}
    /\ \E n \in stored \cup {0} :
        Newest(n) /\ last' = [last EXCEPT ![r] = n]
    /\ cont' = [cont EXCEPT ![r] = TRUE]
    /\ UNCHANGED <<frame, stored>>

Close(r) ==
    /\ r \in open
    /\ open' = open \ {r}
    /\ last' = [last EXCEPT ![r] = 0]
    /\ cont' = [cont EXCEPT ![r] = FALSE]
    /\ UNCHANGED <<frame, stored>>

Break(r) ==
    /\ r \in open
    /\ cont' = [cont EXCEPT ![r] = FALSE]
    /\ UNCHANGED <<frame, stored, open, last>>

\* The frames r may be given next.
Deliverable(r, f) ==
    /\ f \in stored
    /\ f > last[r]
    /\ cont[r] => f = last[r] + 1
    /\ r \in Reserved => \A g \in stored : g <= last[r] \/ g >= f

Deliver(r, f) ==
    /\ r \in open
    /\ Deliverable(r, f)
    /\ last' = [last EXCEPT ![r] = f]
    /\ cont' = [cont EXCEPT ![r] = TRUE]
    /\ UNCHANGED <<frame, stored, open>>

Next ==
    \/ \E ok \in BOOLEAN : Attempt(ok)
    \/ \E r \in Readers :
        \/ Open(r)
        \/ Close(r)
        \/ Break(r)
        \/ \E f \in stored : Deliver(r, f)

Spec == Init /\ [][Next]_vars

=============================================================================
