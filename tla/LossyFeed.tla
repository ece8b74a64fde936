------------------------------ MODULE LossyFeed ------------------------------
(***************************************************************************)
(* What the event bus promises to its readers, without subscriptions,      *)
(* tasks and sockets: a reader that joins is handed what is sent from then *)
(* on, one event after the other; it loses events only when more than      *)
(* Capacity of them wait for it, and then the oldest ones and no others.   *)
(***************************************************************************)
EXTENDS Naturals, Sequences

CONSTANTS Events, Readers, Capacity

VARIABLES
    feed,    \* every event sent
    reader   \* reader -> whether it listens, and the last event it is done with

Away == [open |-> FALSE, pos |-> 0]

Init == feed = <<>> /\ reader = [r \in Readers |-> Away]

Send ==
    /\ \E e \in Events : feed' = Append(feed, e)
    /\ UNCHANGED reader

Become(r, k) == reader' = [reader EXCEPT ![r] = k] /\ UNCHANGED feed

Join(r) == ~reader[r].open /\ Become(r, [open |-> TRUE, pos |-> Len(feed)])

Deliver(r) ==
    /\ reader[r].open /\ reader[r].pos < Len(feed)
    /\ Become(r, [open |-> TRUE, pos |-> reader[r].pos + 1])

Skip(r) ==
    /\ reader[r].open /\ reader[r].pos + Capacity < Len(feed)
    /\ Become(r, [open |-> TRUE, pos |-> Len(feed) - Capacity])

Leave(r) == reader[r].open /\ Become(r, Away)

Next == Send \/ \E r \in Readers : Join(r) \/ Deliver(r) \/ Skip(r) \/ Leave(r)

Spec == Init /\ [][Next]_<<feed, reader>>
=============================================================================
