-------------------------- MODULE ServiceController --------------------------
(***************************************************************************)
(* The nydusd service controller (service_controller.rs): on_event called *)
(* by several threads at once, the two mpsc channels to and from the      *)
(* daemon state machine, and the fscache service that the state machine   *)
(* starts and stops through start_services and stop_services.             *)
(*                                                                         *)
(* The state machine (DaemonStateMachineContext) is not in this           *)
(* repository: it is the environment, a thread that takes each event off  *)
(* the request channel in order, accepts it (calling start or disconnect) *)
(* or rejects it, and sends one result back; it may also end, dropping    *)
(* both channels.  Each request and result carries the caller it came    *)
(* from, a tag the channels do not carry, so that properties can name it. *)
(***************************************************************************)
EXTENDS Naturals, Sequences, FiniteSets

CONSTANTS
  Callers,   \* the threads that call on_event
  Events,    \* the events they send
  NoCaller   \* the holder of a free lock

ASSUME ServiceControllerAssumption ==
  /\ Callers # {} /\ IsFiniteSet(Callers) /\ NoCaller \notin Callers
  /\ Events \subseteq {"Start", "Stop"} /\ Events # {}

\* The result recv returns when the state machine dropped its sender.
ChanErr == [from |-> NoCaller, ev |-> "none", val |-> "channel"]

VARIABLES
  reqQ,      \* the request channel: events sent, not yet taken
  resQ,      \* the result channel: results sent, not yet received
  recvLock,  \* who holds the result_receiver mutex
  pc,        \* where each caller is in on_event
  got,       \* the result each caller's on_event returned
  smAlive,   \* the state machine thread runs and holds its channel ends
  enabled,   \* fscache_enabled
  fscache,   \* the fscache handler slot: "some" or "none"
  loops      \* the threads running an fscache run_loop

vars == <<reqQ, resQ, recvLock, pc, got, smAlive, enabled, fscache, loops>>

(***************************************************************************)
(* create_daemon (179-222) with initialize_fscache_service (73-109): the  *)
(* fscache handler is installed and enabled when --fscache is given; then *)
(* the state machine is kicked.  create_daemon's own on_event(Start) is   *)
(* the call of one of the Callers.                                        *)
(***************************************************************************)
Init ==
  /\ reqQ = << >> /\ resQ = << >>
  /\ recvLock = NoCaller
  /\ pc = [c \in Callers |-> "idle"]
  /\ got = [c \in Callers |-> ChanErr]
  /\ smAlive = TRUE
  /\ enabled \in BOOLEAN
  /\ fscache = IF enabled THEN "some" ELSE "none"
  /\ loops = 0

\* on_event's send under the request_sender mutex (166-170): the lock is
\* released as soon as the event is queued.  A dropped receiver fails it.
Send(c, e) ==
  /\ pc[c] = "idle"
  /\ IF smAlive
       THEN reqQ' = Append(reqQ, [from |-> c, ev |-> e]) /\ pc' = [pc EXCEPT ![c] = "sent"]
            /\ UNCHANGED got
       ELSE pc' = [pc EXCEPT ![c] = "done"] /\ got' = [got EXCEPT ![c] = ChanErr]
            /\ UNCHANGED reqQ
  /\ UNCHANGED <<resQ, recvLock, smAlive, enabled, fscache, loops>>

\* on_event takes the result_receiver mutex (171-173).
LockRecv(c) ==
  /\ pc[c] = "sent"
  /\ recvLock = NoCaller
  /\ recvLock' = c
  /\ pc' = [pc EXCEPT ![c] = "waiting"]
  /\ UNCHANGED <<reqQ, resQ, got, smAlive, enabled, fscache, loops>>

\* recv under that mutex, which is released when on_event returns.
RecvKeepsLock(c) ==
  /\ pc[c] = "waiting"
  /\ resQ # << >> \/ ~smAlive
  /\ IF resQ # << >>
       THEN got' = [got EXCEPT ![c] = Head(resQ)] /\ resQ' = Tail(resQ)
       ELSE got' = [got EXCEPT ![c] = ChanErr] /\ UNCHANGED resQ
  /\ pc' = [pc EXCEPT ![c] = "done"]
  /\ UNCHANGED <<reqQ, recvLock, smAlive, enabled, fscache, loops>>

\* recv blocks until a result is queued; once the state machine dropped its
\* sender it returns the queued results and then an error (174-175).
Recv(c) ==
  /\ pc[c] = "waiting"
  /\ resQ # << >> \/ ~smAlive
  /\ IF resQ # << >>
       THEN got' = [got EXCEPT ![c] = Head(resQ)] /\ resQ' = Tail(resQ)
       ELSE got' = [got EXCEPT ![c] = ChanErr] /\ UNCHANGED resQ
  /\ recvLock' = NoCaller
  /\ pc' = [pc EXCEPT ![c] = "done"]
  /\ UNCHANGED <<reqQ, smAlive, enabled, fscache, loops>>

\* start_services (37-56): with fscache enabled and a handler installed, a
\* thread is spawned to run its loop.
StartServices ==
  /\ loops' = IF enabled /\ fscache = "some" THEN loops + 1 ELSE loops
  /\ UNCHANGED fscache

\* stop_services (59-68): the handler is taken out of its slot and stopped.
StopServices ==
  /\ fscache' = IF enabled THEN "none" ELSE fscache
  /\ UNCHANGED loops

\* The state machine with no result sent back for a failed start or
\* disconnect.
HandleNoReplyOnError ==
  /\ smAlive
  /\ reqQ # << >>
  /\ LET m == Head(reqQ) IN
     \/ /\ IF m.ev = "Start" THEN StartServices ELSE StopServices
        /\ resQ' = Append(resQ, [from |-> m.from, ev |-> m.ev, val |-> "ok"])
     \/ /\ UNCHANGED <<resQ, fscache, loops>>
  /\ reqQ' = Tail(reqQ)
  /\ UNCHANGED <<recvLock, pc, got, smAlive, enabled>>

\* The state machine takes the next event; accepted, Start calls start
\* (133-136) and Stop calls disconnect (138-141); it sends one result.
Handle ==
  /\ smAlive
  /\ reqQ # << >>
  /\ LET m == Head(reqQ) IN
     \/ /\ IF m.ev = "Start" THEN StartServices ELSE StopServices
        /\ resQ' = Append(resQ, [from |-> m.from, ev |-> m.ev, val |-> "ok"])
     \/ /\ resQ' = Append(resQ, [from |-> m.from, ev |-> m.ev, val |-> "err"])
        /\ UNCHANGED <<fscache, loops>>
  /\ reqQ' = Tail(reqQ)
  /\ UNCHANGED <<recvLock, pc, got, smAlive, enabled>>

\* The state machine thread ends and drops its ends of both channels: the
\* events it did not take are lost; the results it sent stay queued.
StateMachineExit ==
  /\ smAlive
  /\ smAlive' = FALSE
  /\ reqQ' = << >>
  /\ UNCHANGED <<resQ, recvLock, pc, got, enabled, fscache, loops>>

\* An fscache run_loop returns (stopped, or failed) and its thread wakes the
\* controller (43-50).
LoopExit ==
  /\ loops > 0
  /\ loops' = loops - 1
  /\ UNCHANGED <<reqQ, resQ, recvLock, pc, got, smAlive, enabled, fscache>>

Next ==
  \/ \E c \in Callers, e \in Events : Send(c, e)
  \/ \E c \in Callers : LockRecv(c) \/ Recv(c)
  \/ Handle \/ StateMachineExit \/ LoopExit

\* Every caller thread runs, and the state machine thread runs while it
\* lives; whether it ends, and when a run_loop ends, is not assumed.
Spec ==
  /\ Init /\ [][Next]_vars
  /\ \A c \in Callers : WF_vars(LockRecv(c)) /\ WF_vars(Recv(c))
  /\ WF_vars(Handle)

(***************************************************************************)
(* Properties.                                                            *)
(***************************************************************************)

\* on_event returns the state machine's result for the event its caller
\* sent, not the result of another thread's event.
OwnResult ==
  \A c \in Callers : pc[c] = "done" /\ got[c] # ChanErr => got[c].from = c

\* The callers between send and recv.
Pending == {c \in Callers : pc[c] \in {"sent", "waiting"}}

\* No result is lost, duplicated or left over: while the state machine
\* runs, the events and results in flight are exactly one per caller still
\* in on_event, so a caller's recv is answered and never takes a stray one;
\* once it has exited, the queued results are no more than those callers.
ResultsBalance ==
  /\ smAlive => Len(reqQ) + Len(resQ) = Cardinality(Pending)
  /\ ~smAlive => reqQ = << >> /\ Len(resQ) <= Cardinality(Pending)

\* Every on_event that sent its event returns: a caller blocked in recv
\* holding the receiver mutex is answered or sees the channel close, and
\* then lets the next caller in.
CallsReturn == \A c \in Callers : pc[c] = "sent" ~> pc[c] = "done"
=============================================================================
