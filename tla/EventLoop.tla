------------------------------ MODULE EventLoop ------------------------------
(***************************************************************************)
(* The event loop's thread (src/src/common/core.rs) and the threads that   *)
(* share a Service (src/src/main/service.rs): who waits for whom.  A call  *)
(* of the Service locks the ConnectionMap, posts a closure and, in         *)
(* get_peer_socket_addr, waits for its answer; the loop runs closures and  *)
(* locks the map in ActiveConnection::terminate, on behalf of disconnect   *)
(* or of the ConfigRefresher; the last thread to let go of the Service     *)
(* ends the loop and joins its thread.                                     *)
(*                                                                         *)
(* std::sync::Mutex is not reentrant: a thread that locks the map twice    *)
(* waits for itself.                                                       *)
(***************************************************************************)
EXTENDS Integers, Sequences

CONSTANTS Caller,      \* the threads that share the Service
          MaxPeers,    \* active connections
          MaxCalls     \* bound: calls of each thread

VARIABLES cm,          \* the thread that has the map locked, or "free"
          loop,        \* where the loop is; left: connections to terminate
          queue,       \* the CoreMessages on their way
          pc, op,      \* where a caller is and which method it is in
          answer,      \* the channel a closure answers on
          calls,
          unrun        \* history: closures posted with success, not yet run

vars == <<cm, loop, queue, pc, op, answer, calls, unrun>>

Op == {"disconnect", "peer_addr"}
Terminator == [op |-> "none"]                \* CoreMessage(None)
Closure(c) == [op |-> op[c], by |-> c]

Init ==
    /\ cm = "free"
    /\ loop = [at |-> "poll", left |-> 0, killed |-> FALSE]
    /\ queue = <<>>
    /\ pc = [c \in Caller |-> "out"]
    /\ op = [c \in Caller |-> "disconnect"]
    /\ answer = [c \in Caller |-> "open"]
    /\ calls = [c \in Caller |-> 0]
    /\ unrun = 0

-----------------------------------------------------------------------------
(* event_loop_impl and the handlers it runs                                *)

(* The loop returns: its receiver is dropped, and with it the closures     *)
(* that have not run and the senders of their answers.                     *)
EndLoop(killed, rest) ==
    /\ loop' = [at |-> "ended", left |-> 0, killed |-> killed]
    /\ queue' = <<>>
    /\ answer' = [c \in Caller |->
                    IF \E i \in 1..Len(rest) : rest[i] = [op |-> "peer_addr", by |-> c]
                    THEN "gone" ELSE answer[c]]
    /\ UNCHANGED unrun

RunMessage ==
    /\ loop.at = "poll"
    /\ queue # <<>>
    /\ LET msg == Head(queue)
       IN  \/ msg = Terminator /\ EndLoop(FALSE, Tail(queue))
           \/ /\ msg.op = "peer_addr"
              /\ answer' = [answer EXCEPT ![msg.by] = "sent"]
              /\ queue' = Tail(queue)
              /\ unrun' = unrun - 1
              /\ UNCHANGED loop
           \/ /\ msg.op = "disconnect"
              /\ \/ loop' = [loop EXCEPT !.at = "terminate", !.left = 1]
                 \/ UNCHANGED loop                \* the state is gone
              /\ queue' = Tail(queue)
              /\ unrun' = unrun - 1
              /\ UNCHANGED answer
    /\ UNCHANGED <<cm, pc, op, calls>>

(* poll.poll fails.                                                        *)
PollFails ==
    /\ loop.at = "poll"
    /\ EndLoop(TRUE, queue)
    /\ UNCHANGED <<cm, pc, op, calls>>

(* ConfigRefresher::timeout with a changed configuration ...               *)
RefreshDue ==
    /\ loop.at = "poll"
    /\ loop' = [loop EXCEPT !.at = "collect"]
    /\ UNCHANGED <<cm, queue, pc, op, answer, calls, unrun>>

(* ... locks the map to collect the peers ...                              *)
Collect ==
    /\ loop.at = "collect"
    /\ cm = "free"
    /\ cm' = "loop"
    /\ \E n \in 0..MaxPeers : loop' = [loop EXCEPT !.at = "collected", !.left = n]
    /\ UNCHANGED <<queue, pc, op, answer, calls, unrun>>

(* A mistaken Collected: the guard lives on while peers are terminated.    *)
CollectedLocked ==
    /\ loop.at = "collected"
    /\ cm' = IF loop.left = 0 THEN "free" ELSE cm
    /\ loop' = [loop EXCEPT !.at = IF loop.left = 0 THEN "poll" ELSE "terminate"]
    /\ UNCHANGED <<queue, pc, op, answer, calls, unrun>>

(* ... lets go of it ...                                                   *)
Collected ==
    /\ loop.at = "collected"
    /\ cm' = "free"
    /\ loop' = [loop EXCEPT !.at = IF loop.left = 0 THEN "poll" ELSE "terminate"]
    /\ UNCHANGED <<queue, pc, op, answer, calls, unrun>>

(* ... and terminates them: ActiveConnection::terminate takes the lock ... *)
Terminate ==
    /\ loop.at = "terminate"
    /\ cm = "free"
    /\ cm' = "loop"
    /\ loop' = [loop EXCEPT !.at = "terminated"]
    /\ UNCHANGED <<queue, pc, op, answer, calls, unrun>>

(* ... and releases it, for each.                                          *)
Terminated ==
    /\ loop.at = "terminated"
    /\ cm' = "free"
    /\ loop' = [loop EXCEPT !.left = @ - 1, !.at = IF loop.left = 1 THEN "poll" ELSE "terminate"]
    /\ UNCHANGED <<queue, pc, op, answer, calls, unrun>>

-----------------------------------------------------------------------------
(* Service's methods                                                       *)

Call(c, o) ==
    /\ pc[c] = "out"
    /\ calls[c] < MaxCalls
    /\ calls' = [calls EXCEPT ![c] = @ + 1]
    /\ pc' = [pc EXCEPT ![c] = "look_up"]
    /\ op' = [op EXCEPT ![c] = o]
    /\ answer' = [answer EXCEPT ![c] = "open"]
    /\ UNCHANGED <<cm, loop, queue, unrun>>

(* The map is locked to look for the token of the active connection ...    *)
LookUp(c) ==
    /\ pc[c] = "look_up"
    /\ cm = "free"
    /\ cm' = c
    /\ pc' = [pc EXCEPT ![c] = "looked_up"]
    /\ UNCHANGED <<loop, queue, op, answer, calls, unrun>>

(* ... and released at the end of the match, before anything is posted.    *)
LookedUp(c) ==
    /\ pc[c] = "looked_up"
    /\ cm' = "free"
    /\ \E found \in BOOLEAN : pc' = [pc EXCEPT ![c] = IF found THEN "post" ELSE "out"]
    /\ UNCHANGED <<loop, queue, op, answer, calls, unrun>>

(* A mistaken Post: the closure that could not be sent is kept.            *)
PostKeepsClosure(c) ==
    /\ pc[c] = "post"
    /\ pc' = [pc EXCEPT ![c] = IF op[c] = "peer_addr" THEN "recv" ELSE "out"]
    /\ IF loop.at = "ended"
       THEN UNCHANGED <<queue, unrun>>
       ELSE queue' = Append(queue, Closure(c)) /\ unrun' = unrun + 1
    /\ UNCHANGED <<cm, loop, op, answer, calls>>

(* Service::post: if the loop is gone the closure is dropped.              *)
Post(c) ==
    /\ pc[c] = "post"
    /\ pc' = [pc EXCEPT ![c] = IF op[c] = "peer_addr" THEN "recv" ELSE "out"]
    /\ IF loop.at = "ended"
       THEN /\ answer' = [answer EXCEPT ![c] = "gone"]
            /\ UNCHANGED <<queue, unrun>>
       ELSE /\ queue' = Append(queue, Closure(c))
            /\ unrun' = unrun + 1
            /\ UNCHANGED answer
    /\ UNCHANGED <<cm, loop, op, calls>>

(* rx.recv() returns: an answer, or an error if the sender is gone.        *)
Return(c) ==
    /\ pc[c] = "recv"
    /\ answer[c] # "open"
    /\ pc' = [pc EXCEPT ![c] = "out"]
    /\ UNCHANGED <<cm, loop, queue, op, answer, calls, unrun>>

(* A mistaken LetGo: the terminator overtakes what is queued.              *)
LetGoAtOnce(c) ==
    /\ pc[c] = "out"
    /\ IF \A other \in Caller \ {c} : pc[other] = "left"
       THEN /\ pc' = [pc EXCEPT ![c] = "join"]
            /\ queue' = IF loop.at = "ended" THEN queue ELSE <<Terminator>> \o queue
       ELSE /\ pc' = [pc EXCEPT ![c] = "left"]
            /\ UNCHANGED queue
    /\ UNCHANGED <<cm, loop, op, answer, calls, unrun>>

(* A thread lets go of the Service; the last one drops it: EventLoop::drop *)
(* sends the terminator, then the joiner waits for the loop's thread.      *)
LetGo(c) ==
    /\ pc[c] = "out"
    /\ IF \A other \in Caller \ {c} : pc[other] = "left"
       THEN /\ pc' = [pc EXCEPT ![c] = "join"]
            /\ queue' = IF loop.at = "ended" THEN queue ELSE Append(queue, Terminator)
       ELSE /\ pc' = [pc EXCEPT ![c] = "left"]
            /\ UNCHANGED queue
    /\ UNCHANGED <<cm, loop, op, answer, calls, unrun>>

Join(c) ==
    /\ pc[c] = "join"
    /\ loop.at = "ended"
    /\ pc' = [pc EXCEPT ![c] = "left"]
    /\ UNCHANGED <<cm, loop, queue, op, answer, calls, unrun>>

LoopStep == Collected \/ Terminated
CallerStep(c) == LookedUp(c) \/ Post(c) \/ Return(c) \/ Join(c)

Next ==
    \/ RunMessage \/ PollFails \/ RefreshDue \/ Collect \/ Terminate \/ LoopStep
    \/ \E c \in Caller : \/ LookUp(c) \/ CallerStep(c) \/ LetGo(c)
                         \/ \E o \in Op : Call(c, o)

(* Every thread that can go on does, a mutex that is free again and again  *)
(* is acquired in the end, and the loop runs a closure that waits even if  *)
(* the refresher's timer is due again and again.                           *)
Fairness ==
    /\ SF_vars(RunMessage) /\ SF_vars(Collect) /\ SF_vars(Terminate) /\ WF_vars(LoopStep)
    /\ \A c \in Caller : SF_vars(LookUp(c)) /\ WF_vars(CallerStep(c))

Spec == Init /\ [][Next]_vars
FairSpec == Spec /\ Fairness

-----------------------------------------------------------------------------
(* Properties                                                              *)

(* Type invariant.                                                         *)
TypeOK ==
    /\ cm \in {"free", "loop"} \cup Caller
    /\ loop \in [at : {"poll", "collect", "collected", "terminate",
                      "terminated", "ended"}, left : 0..MaxPeers,
                 killed : BOOLEAN]
    /\ \A i \in 1..Len(queue) : queue[i] = Terminator \/ queue[i] \in [op : Op, by : Caller]
    /\ pc \in [Caller -> {"out", "look_up", "looked_up", "post", "recv", "join", "left"}]
    /\ op \in [Caller -> Op]
    /\ answer \in [Caller -> {"open", "sent", "gone"}]
    /\ calls \in [Caller -> 0..MaxCalls]
    /\ unrun \in Nat

(* A loop that was ended by the last owner of the Service has run every    *)
(* closure that a call posted with success: nothing that returned Ok is    *)
(* lost unless poll failed.                                                *)
PostedAreRun == loop.at = "ended" /\ ~loop.killed => unrun = 0

(* Every call returns, also if the loop dies with its closure in the       *)
(* queue, after the check and before the post, or while it is terminating  *)
(* connections: no thread waits for a lock or an answer that never comes.  *)
CallsReturn ==
    \A c \in Caller : (pc[c] \in {"look_up", "looked_up", "post", "recv"}) ~> (pc[c] = "out")

(* Dropping the Service ends the loop, whatever is still queued or due.    *)
DropReturns == \A c \in Caller : (pc[c] = "join") ~> (pc[c] = "left")
=============================================================================
