--------------------------- MODULE MessageChannel ---------------------------
(***************************************************************************)
(* What a connected pair of Sockets (src/src/common/socket.rs) promises to *)
(* the states that use it: messages are handed over whole, once, and in    *)
(* the order they were accepted within one priority; a more urgent message *)
(* overtakes the waiting ones; only messages of priority MSG_DROP_PRIORITY *)
(* or more are ever thrown away, and then together with everything less    *)
(* urgent.  Bytes, buffers, partial writes and readiness events do not     *)
(* exist at this level.                                                    *)
(***************************************************************************)
EXTENDS Naturals, Sequences

CONSTANTS Priority,           \* the priorities used by the callers
          MSG_DROP_PRIORITY   \* the first priority that may be dropped

VARIABLES accepted,           \* how many messages `write` has been given
          queue,              \* the messages waiting, per priority
          sending,            \* the messages on their way, oldest first
          delivered,          \* the messages the other side has been given
          open                \* the sending side is still in use

vars == <<accepted, queue, sending, delivered, open>>

Init ==
    /\ accepted = 0
    /\ queue = [p \in Priority |-> <<>>]
    /\ sending = <<>>
    /\ delivered = <<>>
    /\ open = TRUE

(* The outcomes of throwing away every waiting message of some priority    *)
(* that may be dropped, and of every less urgent one; or none.             *)
Purged(q) ==
    {q} \cup {[p \in Priority |-> IF p >= k THEN <<>> ELSE q[p]] :
                  k \in {p \in Priority : p >= MSG_DROP_PRIORITY}}

Urgent(q, p) ==
    /\ q[p] # <<>>
    /\ \A other \in Priority : other < p => q[other] = <<>>

(* The next message of the most urgent queue is committed to the wire.     *)
Commit(q) ==
    \E p \in Priority :
        /\ Urgent(q, p)
        /\ queue' = [q EXCEPT ![p] = Tail(@)]
        /\ sending' = Append(sending, Head(q[p]))

(* One call of write: expired queues go, the message given (if any) joins  *)
(* its queue, and the line takes a message if it is free.                  *)
Write ==
    /\ open
    /\ \E q1 \in Purged(queue) :
         \E given \in BOOLEAN, p \in Priority :
            LET q2 == IF given THEN [q1 EXCEPT ![p] = Append(@, accepted + 1)]
                      ELSE q1
            IN  /\ accepted' = IF given THEN accepted + 1 ELSE accepted
                /\ \/ queue' = q2 /\ sending' = sending
                   \/ Commit(q2)
    /\ UNCHANGED <<delivered, open>>

Deliver ==
    /\ sending # <<>>
    /\ delivered' = Append(delivered, Head(sending))
    /\ sending' = Tail(sending)
    /\ UNCHANGED <<accepted, queue, open>>

(* The sending side fails or is shut down: nothing more is committed.      *)
Close ==
    /\ open
    /\ open' = FALSE
    /\ UNCHANGED <<accepted, queue, sending, delivered>>

Next == Write \/ Deliver \/ Close

Spec == Init /\ [][Next]_vars
=============================================================================
