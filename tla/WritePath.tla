------------------------------ MODULE WritePath ------------------------------
(***************************************************************************)
(* An operator's write on its way to the PLC: post_write                   *)
(* (server/src/routes.rs), the RwLock of the registry, the bounded channel *)
(* of the device, the write branch of the polling loop                     *)
(* (server/src/protocol.rs), the answer through a oneshot channel, and the *)
(* audit entry (server/src/auth.rs).  One device; an administrator may     *)
(* disconnect or remove it meanwhile.                                      *)
(*                                                                         *)
(* tokio's RwLock serves its waiters in the order they came: a waiting     *)
(* writer holds back the readers behind it.                                *)
(***************************************************************************)
EXTENDS Integers, Sequences, FiniteSets

CONSTANTS
    Writes,       \* the write requests
    Admin,        \* the request that disconnects or removes the device
    ReadOnly,     \* the writes to a register that is not writable
    Capacity,     \* of the channel, 32 in the code
    MayLoseReply, \* may a reply be lost, with an error or without one
    MayHangUp,    \* may the client of a write hang up
    None

ASSUME WritePathAssumption ==
    /\ Admin \notin Writes /\ None \notin Writes \cup {Admin}
    /\ ReadOnly \subseteq Writes
    /\ Capacity \in Nat \ {0}
    /\ MayLoseReply \in BOOLEAN /\ MayHangUp \in BOOLEAN

VARIABLES
    plc,      \* is the PLC reachable
    link,     \* the connection to it: "none", "up", "cut" (a call returns an
              \* error) or "half" (a call does not return: there is no time-out)
    entry,    \* the registry entry: "polled", "stopped" (task aborted), "none"
    lockq,    \* who waits for the lock, in order
    readers,  \* who holds the read lock
    writer,   \* who holds the write lock
    chan,     \* the commands in the device's channel
    poller,   \* the polling task: [pc, cmd, aborted]
    req,      \* req[w]: where the handler of w is
    resp,     \* resp[w]: what the oneshot channel of w holds
    applied,  \* history: the commands the PLC executed, in order
    audit     \* the write_register entries of the audit trail

vars == <<plc, link, entry, lockq, readers, writer, chan, poller, req, resp, applied, audit>>

ReqPcs ==
    {"new", "lock", "send", "await", "audit", "ok", "failed", "gone"}
Over == {"ok", "failed", "gone"}

TypeOK ==
    /\ plc \in BOOLEAN /\ link \in {"none", "up", "cut", "half"}
    /\ entry \in {"polled", "stopped", "none"}
    /\ lockq \in Seq(Writes \cup {Admin})
    /\ readers \subseteq Writes
    /\ writer \in {Admin, None}
    /\ chan \in Seq(Writes) /\ Len(chan) <= Capacity
    /\ poller \in [pc : {"connect", "loop", "read", "write", "reply", "dead"},
                   cmd : Writes \cup {None}, aborted : BOOLEAN]
    /\ req \in [Writes \cup {Admin} -> ReqPcs]
    /\ resp \in [Writes -> {"none", "ok", "err", "dropped"}]
    /\ applied \in Seq(Writes)
    /\ audit \subseteq Writes

Init ==
    /\ plc \in BOOLEAN /\ link = "none"
    /\ entry = "polled"
    /\ lockq = <<>> /\ readers = {} /\ writer = None
    /\ chan = <<>>
    /\ poller = [pc |-> "connect", cmd |-> None, aborted |-> FALSE]
    /\ req = [r \in Writes \cup {Admin} |-> "new"]
    /\ resp = [w \in Writes |-> "none"]
    /\ applied = <<>>
    /\ audit = {}

-----------------------------------------------------------------------------
(* The lock.                                                               *)

\* A request arrives and queues for the lock.
Arrive(r) ==
    /\ req[r] = "new"
    /\ req' = [req EXCEPT ![r] = "lock"]
    /\ lockq' = Append(lockq, r)
    /\ UNCHANGED <<plc, link, entry, readers, writer, chan, poller, resp, applied, audit>>

IsNext(r) == lockq # <<>> /\ Head(lockq) = r

(* post_write.                                                             *)

\* Is the device registered and the register writable?
Accepted(w) == entry # "none" /\ w \notin ReadOnly

\* The read lock is granted and the request examined; a refused one lets the
\* lock go and returns.
Examine(w) ==
    /\ IsNext(w) /\ writer = None
    /\ lockq' = Tail(lockq)
    /\ IF Accepted(w)
         THEN readers' = readers \cup {w} /\ req' = [req EXCEPT ![w] = "send"]
         ELSE readers' = readers /\ req' = [req EXCEPT ![w] = "failed"]
    /\ UNCHANGED <<plc, link, entry, writer, chan, poller, resp, applied, audit>>

\* Wrong: an unbounded channel.
SendUnbounded(w) ==
    /\ req[w] = "send" /\ poller.pc # "dead"
    /\ chan' = Append(chan, w)
    /\ req' = [req EXCEPT ![w] = "await"]
    /\ readers' = readers \ {w}
    /\ UNCHANGED <<plc, link, entry, lockq, writer, poller, resp, applied, audit>>

\* write_tx.send(cmd).await: waits for room with the read lock held, fails if
\* the receiver is gone.  Then the lock is let go.
Send(w) ==
    /\ req[w] = "send"
    /\ \/ /\ poller.pc # "dead" /\ Len(chan) < Capacity
          /\ chan' = Append(chan, w)
          /\ req' = [req EXCEPT ![w] = "await"]
       \/ /\ poller.pc = "dead"
          /\ req' = [req EXCEPT ![w] = "failed"]
          /\ UNCHANGED chan
    /\ readers' = readers \ {w}
    /\ UNCHANGED <<plc, link, entry, lockq, writer, poller, resp, applied, audit>>

\* Wrong: whatever came back counts as a success.
SucceededAny(w) == resp[w] # "none"

Succeeded(w) == resp[w] = "ok"

\* resp_rx.await
Answered(w) ==
    /\ req[w] = "await" /\ resp[w] # "none"
    /\ req' = [req EXCEPT ![w] = IF Succeeded(w) THEN "audit" ELSE "failed"]
    /\ UNCHANGED <<plc, link, entry, lockq, readers, writer, chan, poller, resp, applied, audit>>

\* log_audit, then the response to the client.
LogAudit(w) ==
    /\ req[w] = "audit"
    /\ audit' = audit \cup {w}
    /\ req' = [req EXCEPT ![w] = "ok"]
    /\ UNCHANGED <<plc, link, entry, lockq, readers, writer, chan, poller, resp, applied>>

Without(q, p) == [i \in 1..(Len(q) - 1) |-> q[IF i < p THEN i ELSE i + 1]]

\* The client hangs up: the handler is dropped where it waits; a command that
\* is queued stays queued.
HangUp(w) ==
    /\ MayHangUp
    /\ req[w] \in {"lock", "send", "await", "audit"}
    /\ req' = [req EXCEPT ![w] = "gone"]
    /\ readers' = readers \ {w}
    /\ IF req[w] = "lock"
         THEN \E p \in DOMAIN lockq : lockq[p] = w /\ lockq' = Without(lockq, p)
         ELSE UNCHANGED lockq
    /\ UNCHANGED <<plc, link, entry, writer, chan, poller, resp, applied, audit>>

-----------------------------------------------------------------------------
(* The polling task.  A poll or a write that is under way returns when the *)
(* PLC answers or the connection is found broken, and not otherwise.       *)

\* connect() succeeds; while it fails nobody reads the channel.
Connect ==
    /\ poller.pc = "connect" /\ plc
    /\ poller' = [poller EXCEPT !.pc = "loop"]
    /\ link' = "up"
    /\ UNCHANGED <<plc, entry, lockq, readers, writer, chan, req, resp, applied, audit>>

\* interval.tick(): the registers are asked for.
Tick ==
    /\ poller.pc = "loop"
    /\ poller' = [poller EXCEPT !.pc = "read"]
    /\ UNCHANGED <<plc, link, entry, lockq, readers, writer, chan, req, resp, applied, audit>>

\* They come, or an exception that leaves the connection as it is.
ReadReturns ==
    /\ poller.pc = "read" /\ link = "up"
    /\ poller' = [poller EXCEPT !.pc = "loop"]
    /\ UNCHANGED <<plc, link, entry, lockq, readers, writer, chan, req, resp, applied, audit>>

\* The poll finds the connection broken.
ReadFails ==
    /\ poller.pc = "read" /\ link = "cut"
    /\ poller' = [poller EXCEPT !.pc = "connect"]
    /\ link' = "none"
    /\ UNCHANGED <<plc, entry, lockq, readers, writer, chan, req, resp, applied, audit>>

\* write_rx.recv(): the write request goes out.
Receive ==
    /\ poller.pc = "loop" /\ chan # <<>>
    /\ poller' = [poller EXCEPT !.pc = "write", !.cmd = Head(chan)]
    /\ chan' = Tail(chan)
    /\ UNCHANGED <<plc, link, entry, lockq, readers, writer, req, resp, applied, audit>>

\* The PLC executes the command.
PlcApplies ==
    /\ poller.pc = "write" /\ link = "up"
    /\ applied' = Append(applied, poller.cmd)
    /\ poller' = [poller EXCEPT !.pc = "reply"]
    /\ UNCHANGED <<plc, link, entry, lockq, readers, writer, chan, req, resp, audit>>

\* What the write returns, and where the loop goes on: a connection that is
\* broken is given up.
Respond(answer, pc) ==
    /\ resp' = [resp EXCEPT ![poller.cmd] = answer]
    /\ poller' = [poller EXCEPT !.pc = pc, !.cmd = None]
    /\ link' = IF pc = "connect" THEN "none" ELSE link
    /\ UNCHANGED <<plc, entry, lockq, readers, writer, chan, req, applied, audit>>

\* write_register returns Ok.
WriteOk == poller.pc = "reply" /\ link # "half" /\ Respond("ok", "loop")

\* Wrong: a write whose reply was lost is written again.
WriteErrRetries ==
    \/ poller.pc = "write" /\ link = "up" /\ Respond("err", "loop")
    \/ poller.pc = "write" /\ link = "cut" /\ Respond("err", "connect")
    \/ /\ poller.pc = "reply" /\ MayLoseReply /\ link = "cut"
       /\ poller' = [poller EXCEPT !.pc = "write"]
       /\ link' = "up"
       /\ UNCHANGED <<plc, entry, lockq, readers, writer, chan, req, resp, applied, audit>>

\* It returns an error: the PLC refused (the connection stays), or the
\* connection broke before the command was executed, or before its reply.
WriteErr ==
    \/ poller.pc = "write" /\ link = "up" /\ Respond("err", "loop")
    \/ poller.pc = "write" /\ link = "cut" /\ Respond("err", "connect")
    \/ poller.pc = "reply" /\ MayLoseReply /\ link = "cut" /\ Respond("err", "connect")

(* The PLC and the connection.                                             *)

\* What becomes of the connection when it breaks.
Broken == IF MayLoseReply THEN {"cut", "half"} ELSE {"cut"}

\* A PLC that comes back does not bring back the connection.
PlcGoesOrComes ==
    /\ plc' = ~plc
    /\ IF link = "up" THEN link' \in Broken ELSE UNCHANGED link
    /\ UNCHANGED <<entry, lockq, readers, writer, chan, poller, req, resp, applied, audit>>

\* The connection breaks though the PLC is there, or the operating system
\* gives up on a half-open one.
LinkBreaks ==
    /\ \/ link = "up" /\ link' \in Broken
       \/ link = "half" /\ link' = "cut"
    /\ UNCHANGED <<plc, entry, lockq, readers, writer, chan, poller, req, resp, applied, audit>>

-----------------------------------------------------------------------------
(* remove_device and disconnect_device.                                    *)

\* The write lock is granted.
AdminLocks ==
    /\ IsNext(Admin) /\ readers = {} /\ writer = None
    /\ lockq' = Tail(lockq)
    /\ writer' = Admin
    /\ req' = [req EXCEPT ![Admin] = "send"]
    /\ UNCHANGED <<plc, link, entry, readers, chan, poller, resp, applied, audit>>

\* abort() is called and the lock let go.  The task notices at an await, so
\* it may still finish what it is doing.
AdminStops ==
    /\ req[Admin] = "send"
    /\ \E e \in {"stopped", "none"} : entry' = e
    /\ poller' = [poller EXCEPT !.aborted = TRUE]
    /\ writer' = None
    /\ req' = [req EXCEPT ![Admin] = "ok"]
    /\ UNCHANGED <<plc, link, lockq, readers, chan, resp, applied, audit>>

\* The writes whose oneshot sender is dropped with the task.
Held == {chan[i] : i \in DOMAIN chan} \cup ({poller.cmd} \ {None})

\* Wrong: the senders of the aborted task are kept alive.
DroppedResponsesLost == resp

DroppedResponses == [w \in Writes |-> IF w \in Held THEN "dropped" ELSE resp[w]]

\* The runtime drops the aborted task: its channel goes with it, and so do the
\* senders.  A write that is under way may be on its way to the PLC already, or
\* in a blocking thread of its own (OPC UA), and is not called back.
TaskStops ==
    /\ poller.aborted /\ poller.pc # "dead"
    /\ \E left \in {None} \cup (IF poller.pc = "write" THEN {poller.cmd} ELSE {}) :
         poller' = [poller EXCEPT !.pc = "dead", !.cmd = left]
    /\ link' = "none"
    /\ chan' = <<>>
    /\ resp' = DroppedResponses
    /\ UNCHANGED <<plc, entry, lockq, readers, writer, req, applied, audit>>

\* The PLC executes it, and nobody learns of it.
PlcAppliesLate ==
    /\ poller.pc = "dead" /\ poller.cmd # None /\ plc
    /\ applied' = Append(applied, poller.cmd)
    /\ poller' = [poller EXCEPT !.cmd = None]
    /\ UNCHANGED <<plc, link, entry, lockq, readers, writer, chan, req, resp, audit>>

-----------------------------------------------------------------------------
HandlerStep(w) == Examine(w) \/ Send(w) \/ Answered(w) \/ LogAudit(w)
PollerStep == Connect \/ Tick \/ ReadReturns \/ ReadFails \/ Receive \/ WriteOk \/ WriteErr
PlcStep == PlcAppliesLate \/ PlcGoesOrComes \/ LinkBreaks
AdminStep == AdminLocks \/ AdminStops

Next ==
    \/ \E r \in Writes \cup {Admin} : Arrive(r)
    \/ \E w \in Writes : HandlerStep(w) \/ HangUp(w)
    \/ PollerStep \/ PlcApplies \/ PlcStep \/ TaskStops \/ AdminStep

Spec == Init /\ [][Next]_vars

(* Handlers and the polling task are woken when what they wait for is      *)
(* there, the runtime drops aborted tasks, and a PLC executes or refuses   *)
(* what reaches it.  select! draws lots between a command and a tick that  *)
(* are both ready, so that neither is passed over for ever.                *)
Fairness ==
    /\ \A w \in Writes : WF_vars(HandlerStep(w))
    /\ WF_vars(PollerStep) /\ SF_vars(Receive) /\ WF_vars(PlcApplies)
    /\ WF_vars(TaskStops) /\ WF_vars(AdminStep)
FairSpec == Spec /\ Fairness

-----------------------------------------------------------------------------
(* Properties.                                                             *)

Times(w) == Cardinality({i \in DOMAIN applied : applied[i] = w})

\* A write_register entry of the audit trail is about a command that was
\* executed, once, and to a writable register.
AuditIsTrue == \A w \in audit : w \notin ReadOnly /\ Times(w) = 1

\* If the PLC is reachable for good and the loop does not hang on a half-open
\* connection, every request ends, also those that were queued while the PLC
\* was away, also if connections go on breaking or the device is removed.
AnsweredWhenReachable ==
    <>[](plc /\ link # "half") =>
        \A r \in Writes \cup {Admin} : req[r] = "lock" ~> req[r] \in Over

\* What the PLC has not executed yet, and what the clients were told.
Outgoing == poller.pc \in {"write", "dead"} /\ poller.cmd # None
Pending == IF Outgoing THEN <<poller.cmd>> \o chan ELSE chan
Told == [w \in Writes |-> IF req[w] = "ok" THEN "success"
                          ELSE IF req[w] = "failed" THEN "failure" ELSE "nothing"]

\* Locks, channel, polling task and lost replies together are one queue: the
\* writes are executed in the order in which the channel took them, each at
\* most once, and no client is told of a success that was none.
Queue == INSTANCE WriteQueue WITH queue <- Pending, done <- applied, told <- Told

ImplementsQueue == Queue!Spec

(* What comments say, and the code does not do.                            *)

\* routes.rs:137 "Remove a device - stops polling task", and routes.rs:397
\* "Must drop the read lock before awaiting the response": a remove that was
\* sent gets its lock and ends, also if the PLC stays unreachable.
RemoveEnds == <>[]~plc => (req[Admin] = "lock" ~> req[Admin] = "ok")
=============================================================================
