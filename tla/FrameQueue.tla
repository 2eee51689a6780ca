----------------------------- MODULE FrameQueue -----------------------------
(***************************************************************************)
(* What the buffer promises the runner, independent of bytes, of records   *)
(* that are no frames and of how they are read: frames are numbered as     *)
(* they are sent, and arrive in that order.  As long as the connection is  *)
(* up none is lost; with the connection the newest in flight may be; and   *)
(* nothing of one connection is left in flight when the next one begins.   *)
(***************************************************************************)
EXTENDS Naturals, Sequences

VARIABLES
    up,       \* the sender has a connection open
    newest,   \* the number of the last record sent
    flight,   \* frames sent that are neither queued nor lost
    buffer,   \* frames queued
    pulled    \* frames given to the runner

queueVars == <<up, newest, flight, buffer, pulled>>

Empty ==
    /\ up = FALSE /\ newest = 0 /\ flight = {}
    /\ buffer = <<>> /\ pulled = <<>>

Connect ==
    /\ ~up /\ flight = {}
    /\ up' = TRUE
    /\ UNCHANGED <<newest, flight, buffer, pulled>>

\* a record is a frame, or is none and has its number all the same
Send ==
    /\ up
    /\ newest' = newest + 1
    /\ flight' \in {flight, flight \cup {newest'}}
    /\ UNCHANGED <<up, buffer, pulled>>

\* the connection goes with the newest in flight, and a record cut short
Lose ==
    /\ up' = FALSE
    /\ newest' \in {newest, newest + 1}
    /\ flight' \subseteq flight
    /\ \A kept \in flight', lost \in flight \ flight' : kept < lost
    /\ UNCHANGED <<buffer, pulled>>

Deliver ==
    \E oldest \in flight :
        /\ \A frame \in flight : oldest <= frame
        /\ flight' = flight \ {oldest}
        /\ buffer' = Append(buffer, oldest)
        /\ UNCHANGED <<up, newest, pulled>>

Take ==
    /\ buffer # <<>>
    /\ pulled' = Append(pulled, Head(buffer))
    /\ buffer' = Tail(buffer)
    /\ UNCHANGED <<up, newest, flight>>

Drop ==
    /\ buffer' = <<>>
    /\ UNCHANGED <<up, newest, flight, pulled>>

QueueNext == Connect \/ Send \/ Lose \/ Deliver \/ Take \/ Drop

QueueSpec == Empty /\ [][QueueNext]_queueVars
=============================================================================
