------------------------------- MODULE Alarms -------------------------------
(***************************************************************************)
(* ISA-18.2 alarm management: the alarms table of server/src/db.rs, the    *)
(* alarm part of the polling loop of server/src/protocol.rs that raises    *)
(* and auto-clears alarms, and the REST handlers of server/src/routes.rs   *)
(* with which operators acknowledge, shelve and list them.                 *)
(*                                                                         *)
(* Every `.await` on the database is a point where the tasks interleave,   *)
(* so a handler that reads a row and then updates it is two actions.  One  *)
(* SQL statement is atomic.  The table is a sequence: the row id           *)
(* (AUTOINCREMENT) is the position.  A crash loses everything but the      *)
(* tables.  An expiry is kept as the minutes that are left until it, so    *)
(* that the clock has no bound.                                            *)
(***************************************************************************)
EXTENDS Integers, Sequences, FiniteSets

CONSTANTS
    Devices,             \* the polled devices, one polling task each
    Users,               \* operators, one request in flight each
    ALARM_THRESHOLDS,    \* protocol.rs: the sequence of monitored registers
    Values,              \* register values the PLC can show
    Durations,           \* duration_minutes of the shelve requests
    MAX_SHELVE_MINUTES,  \* 480 in the code
    None,                \* SQL NULL, Option::None
    DbMayFail,           \* may a database statement return an error
    MaxAlarms            \* bound: rows of the table

Thresholds == [warn_high : Nat \cup {None}, crit_high : Nat \cup {None}]

ASSUME NoneAssumption == None \notin Int /\ None \notin Users /\ None # "set"
ASSUME ThresholdAssumption == ALARM_THRESHOLDS \in Seq(Thresholds)
ASSUME NumberAssumption ==
    /\ Values \subseteq Nat
    /\ Durations \subseteq Nat
    /\ MAX_SHELVE_MINUTES \in Nat
    /\ MaxAlarms \in Nat
    /\ DbMayFail \in BOOLEAN

VARIABLES
    plc,     \* plc[d][k]: what register k of device d shows now
    poll,    \* poll[d]: the polling task of device d
    alarms,  \* the alarms table
    req,     \* req[u]: the request of user u in flight
    audit    \* ids of the alarm_ack entries of the audit trail

vars == <<plc, poll, alarms, req, audit>>

Regs == DOMAIN ALARM_THRESHOLDS
States == {"active", "acknowledged", "cleared", "shelved"}

\* Minutes until an expiry; -1 once it has passed.
MinutesLeft == Nat \cup {-1}

(* The timestamps that nothing compares are kept as None or "set".         *)
(* `hidden` is a history column: has the row ever been in a state that     *)
(* has_active_alarm does not count.                                        *)
Row ==
    [dev : Devices, reg : Regs, priority : {"critical", "high"},
     state : States, acked_by : Users \cup {None},
     shelved_until : MinutesLeft \cup {None}, shelved_by : Users \cup {None},
     cleared_at : {None, "set"}, hidden : BOOLEAN]

PollPcs == {"down", "connect", "wait", "check", "raise", "getid", "clear"}
Poller ==
    [pc : PollPcs, k : Regs \cup {0}, snap : [Regs -> Values \cup {None}], id : Nat]

Request ==
    [pc : {"idle", "update", "audit"}, op : {"alarm_ack", "alarm_shelve"},
     id : Nat, until : MinutesLeft \cup {None}]

TypeOK ==
    /\ plc \in [Devices -> [Regs -> Values]]
    /\ poll \in [Devices -> Poller]
    /\ alarms \in Seq(Row)
    /\ req \in [Users -> Request]
    /\ audit \subseteq Nat

-----------------------------------------------------------------------------
(* The thresholds.                                                         *)

\* val < warn * 0.95, or no warning limit: the value is back in safe range.
InSafeRange(k, v) ==
    LET w == ALARM_THRESHOLDS[k].warn_high
    IN  w = None \/ 100 * v < 95 * w

\* Wrong: strictly above the limit only.
PriorityForStrict(k, v) ==
    IF v > ALARM_THRESHOLDS[k].crit_high THEN "critical" ELSE None

\* The priority of the alarm the value calls for, None if for none.  The
\* warning test is the `else` of `if let Some(crit)`, not of `val >= crit`.
PriorityFor(k, v) ==
    LET th == ALARM_THRESHOLDS[k]
    IN  IF th.crit_high # None
          THEN IF v >= th.crit_high THEN "critical" ELSE None
          ELSE IF th.warn_high # None /\ v >= th.warn_high THEN "high" ELSE None

-----------------------------------------------------------------------------
(* The statements of db.rs on the alarms table.                            *)

Unresolved(row, d, k) ==
    row.dev = d /\ row.reg = k /\ row.state \in {"active", "acknowledged"}

\* Wrong: forgets the acknowledged rows.
has_active_alarmActiveOnly(d, k) ==
    \E i \in DOMAIN alarms : Unresolved(alarms[i], d, k) /\ alarms[i].state = "active"

has_active_alarm(d, k) == \E i \in DOMAIN alarms : Unresolved(alarms[i], d, k)

\* ORDER BY id DESC LIMIT 1, 0 for no row.
get_active_alarm_id(d, k) ==
    IF has_active_alarm(d, k)
      THEN CHOOSE i \in DOMAIN alarms :
             /\ Unresolved(alarms[i], d, k)
             /\ \A j \in DOMAIN alarms : Unresolved(alarms[j], d, k) => j <= i
      ELSE 0

NewRow(d, k, priority) ==
    [dev |-> d, reg |-> k, priority |-> priority, state |-> "active",
     acked_by |-> None, shelved_until |-> None, shelved_by |-> None,
     cleared_at |-> None, hidden |-> FALSE]

AckedRow(row, u) == [row EXCEPT !.state = "acknowledged", !.acked_by = u]

ShelvedRow(row, u, until) ==
    [row EXCEPT !.state = "shelved", !.shelved_until = until,
                !.shelved_by = u, !.hidden = TRUE]

\* Wrong: clears acknowledged rows only.
ClearedRowIfAcked(row) ==
    IF row.state = "acknowledged"
      THEN [row EXCEPT !.state = "cleared", !.cleared_at = "set", !.hidden = TRUE]
      ELSE row

\* WHERE id = ? AND state != 'cleared'
ClearedRow(row) ==
    IF row.state = "cleared"
      THEN row
      ELSE [row EXCEPT !.state = "cleared", !.cleared_at = "set", !.hidden = TRUE]

\* Wrong: leaves shelved_until and shelved_by in place.
UnshelvedRowKeepsColumns(row) ==
    IF row.state = "shelved" /\ row.shelved_until < 0
      THEN [row EXCEPT !.state = "active"] ELSE row

\* unshelve_expired on one row
UnshelvedRow(row) ==
    IF row.state = "shelved" /\ row.shelved_until # None /\ row.shelved_until < 0
      THEN [row EXCEPT !.state = "active", !.shelved_until = None,
                       !.shelved_by = None]
      ELSE row

ShelveUntil(m) == IF m < MAX_SHELVE_MINUTES THEN m ELSE MAX_SHELVE_MINUTES

\* One minute later.
Elapse(t) == IF t = None \/ t < 0 THEN t ELSE t - 1

-----------------------------------------------------------------------------
AgedRow(row) == [row EXCEPT !.shelved_until = Elapse(@)]
AgedRequest(r) == [r EXCEPT !.until = Elapse(@)]

NoRegisters == [k \in Regs |-> None]
NoTask == [pc |-> "down", k |-> 0, snap |-> NoRegisters, id |-> 0]
NoRequest == [pc |-> "idle", op |-> "alarm_ack", id |-> 0, until |-> None]

Init ==
    /\ plc \in [Devices -> [Regs -> Values]]
    /\ poll = [d \in Devices |-> NoTask]
    /\ alarms = <<>>
    /\ req = [u \in Users |-> NoRequest]
    /\ audit = {}

(* The environment: the process value moves, time passes.                  *)
PlcChanges(d, k) ==
    /\ \E v \in Values \ {plc[d][k]} : plc' = [plc EXCEPT ![d][k] = v]
    /\ UNCHANGED <<poll, alarms, req, audit>>

Tick ==
    /\ alarms' = [i \in DOMAIN alarms |-> AgedRow(alarms[i])]
    /\ req' = [u \in Users |-> AgedRequest(req[u])]
    /\ UNCHANGED <<plc, poll, audit>>

-----------------------------------------------------------------------------
(* The polling task.                                                       *)

PollGoto(d, pc) == poll' = [poll EXCEPT ![d].pc = pc]

\* Wrong: one threshold too many.
NextThresholdTooFar(d) ==
    LET p == poll[d]
    IN  poll' = [poll EXCEPT ![d] =
                   IF p.k <= Len(ALARM_THRESHOLDS)
                     THEN [p EXCEPT !.pc = "check", !.k = p.k + 1, !.id = 0]
                     ELSE [NoTask EXCEPT !.pc = "wait"]]

\* Next threshold, or back to waiting for the timer.
NextThreshold(d) ==
    LET p == poll[d]
    IN  poll' = [poll EXCEPT ![d] =
                   IF p.k < Len(ALARM_THRESHOLDS)
                     THEN [p EXCEPT !.pc = "check", !.k = p.k + 1, !.id = 0]
                     ELSE [NoTask EXCEPT !.pc = "wait"]]

\* start_device_polling: a new task begins with the connect loop.
Spawn(d) ==
    /\ poll[d].pc = "down"
    /\ PollGoto(d, "connect")
    /\ UNCHANGED <<plc, alarms, req, audit>>

\* client.connect() succeeds; a failure sleeps and tries again.
Connect(d) ==
    /\ poll[d].pc = "connect"
    /\ PollGoto(d, "wait")
    /\ UNCHANGED <<plc, alarms, req, audit>>

\* A read or write error that dropped the connection leaves the inner loop.
LoseConnection(d) ==
    /\ poll[d].pc = "wait"
    /\ PollGoto(d, "connect")
    /\ UNCHANGED <<plc, alarms, req, audit>>

\* interval.tick(): read all registers, start with the first threshold.
ReadRegisters(d) ==
    /\ poll[d].pc = "wait"
    /\ Regs # {}
    /\ poll' = [poll EXCEPT ![d] =
                  [@ EXCEPT !.pc = "check", !.k = 1, !.snap = plc[d]]]
    /\ UNCHANGED <<plc, alarms, req, audit>>

\* Wrong: clears whenever the value is not critical.
CheckNoHysteresis(d) ==
    LET k == poll[d].k
        v == poll[d].snap[k]
        has == has_active_alarm(d, k)
    IN  /\ poll[d].pc = "check"
        /\ IF has /\ PriorityFor(k, v) = None THEN PollGoto(d, "getid")
           ELSE IF ~has /\ PriorityFor(k, v) # None THEN PollGoto(d, "raise")
           ELSE NextThreshold(d)
        /\ UNCHANGED <<plc, alarms, req, audit>>

\* has_active_alarm (an error counts as "no alarm") and the tests on it.
Check(d) ==
    LET k == poll[d].k
        v == poll[d].snap[k]
    IN  /\ poll[d].pc = "check"
        /\ \E has \in {has_active_alarm(d, k)} \cup
                      (IF DbMayFail THEN {FALSE} ELSE {}) :
             \/ /\ ~has /\ PriorityFor(k, v) # None
                /\ PollGoto(d, "raise")
             \/ /\ has /\ InSafeRange(k, v)
                /\ PollGoto(d, "getid")
             \/ /\ IF has THEN ~InSafeRange(k, v) ELSE PriorityFor(k, v) = None
                /\ NextThreshold(d)
        /\ UNCHANGED <<plc, alarms, req, audit>>

\* raise_alarm: an INSERT that fails is logged and forgotten.  The bound
\* MaxAlarms acts like a full disk.
RaiseAlarm(d) ==
    LET k == poll[d].k
    IN  /\ poll[d].pc = "raise"
        /\ \/ /\ Len(alarms) < MaxAlarms
              /\ alarms' = Append(alarms,
                             NewRow(d, k, PriorityFor(k, poll[d].snap[k])))
           \/ (DbMayFail \/ Len(alarms) = MaxAlarms) /\ UNCHANGED alarms
        /\ NextThreshold(d)
        /\ UNCHANGED <<plc, req, audit>>

GetActiveAlarmId(d) ==
    LET id == get_active_alarm_id(d, poll[d].k)
    IN  /\ poll[d].pc = "getid"
        /\ \/ /\ id # 0
              /\ poll' = [poll EXCEPT ![d] = [@ EXCEPT !.pc = "clear", !.id = id]]
           \/ /\ id = 0 \/ DbMayFail
              /\ NextThreshold(d)
        /\ UNCHANGED <<plc, alarms, req, audit>>

ClearAlarm(d) ==
    /\ poll[d].pc = "clear"
    /\ \/ alarms' = [alarms EXCEPT ![poll[d].id] = ClearedRow(@)]
       \/ DbMayFail /\ UNCHANGED alarms
    /\ NextThreshold(d)
    /\ UNCHANGED <<plc, req, audit>>

\* task.abort() by remove_device or disconnect_device, at any await.
Abort(d) ==
    /\ poll[d].pc # "down"
    /\ poll' = [poll EXCEPT ![d] = NoTask]
    /\ UNCHANGED <<plc, alarms, req, audit>>

-----------------------------------------------------------------------------
(* The REST handlers.  A request that is refused changes nothing.          *)

\* ack_alarm: the SELECT, which must find the row active.
AckSelect(u, i) ==
    /\ req[u].pc = "idle"
    /\ i \in DOMAIN alarms /\ alarms[i].state = "active"
    /\ req' = [req EXCEPT ![u] =
                 [pc |-> "update", op |-> "alarm_ack", id |-> i, until |-> None]]
    /\ UNCHANGED <<plc, poll, alarms, audit>>

\* shelve_alarm: compute the expiry, then the SELECT.
ShelveSelect(u, i, m) ==
    /\ req[u].pc = "idle"
    /\ i \in DOMAIN alarms /\ alarms[i].state # "cleared"
    /\ req' = [req EXCEPT ![u] =
                 [pc |-> "update", op |-> "alarm_shelve", id |-> i,
                  until |-> ShelveUntil(m)]]
    /\ UNCHANGED <<plc, poll, alarms, audit>>

\* The UPDATE ... WHERE id = ?, whatever the state of the row is by now.
AckUpdate(u) ==
    /\ req[u].pc = "update" /\ req[u].op = "alarm_ack"
    /\ alarms' = [alarms EXCEPT ![req[u].id] = AckedRow(@, u)]
    /\ req' = [req EXCEPT ![u].pc = "audit"]
    /\ UNCHANGED <<plc, poll, audit>>

ShelveUpdate(u) ==
    /\ req[u].pc = "update" /\ req[u].op = "alarm_shelve"
    /\ alarms' = [alarms EXCEPT ![req[u].id] = ShelvedRow(@, u, req[u].until)]
    /\ req' = [req EXCEPT ![u].pc = "audit"]
    /\ UNCHANGED <<plc, poll, audit>>

\* log_audit, then the response.  The alarm_shelve entries are not kept.
LogAudit(u) ==
    /\ req[u].pc = "audit"
    /\ audit' = IF req[u].op = "alarm_ack" THEN audit \cup {req[u].id} ELSE audit
    /\ req' = [req EXCEPT ![u] = NoRequest]
    /\ UNCHANGED <<plc, poll, alarms>>

\* The request ends early: the UPDATE or the audit INSERT returns an error,
\* or the client hung up and the server drops the handler's future.
RequestEnds(u) ==
    /\ req[u].pc # "idle"
    /\ req' = [req EXCEPT ![u] = NoRequest]
    /\ UNCHANGED <<plc, poll, alarms, audit>>

\* GET /api/alarms: un-shelve every expired alarm, then list (a read).
ListAlarms ==
    /\ alarms' = [i \in DOMAIN alarms |-> UnshelvedRow(alarms[i])]
    /\ UNCHANGED <<plc, poll, req, audit>>

\* The server stops and comes back: tasks and requests are gone.
Crash ==
    /\ poll' = [d \in Devices |-> NoTask]
    /\ req' = [u \in Users |-> NoRequest]
    /\ UNCHANGED <<plc, alarms, audit>>

-----------------------------------------------------------------------------
PollStep(d) ==
    \/ ReadRegisters(d) \/ Check(d) \/ RaiseAlarm(d)
    \/ GetActiveAlarmId(d) \/ ClearAlarm(d)

Next ==
    \/ Tick
    \/ ListAlarms
    \/ Crash
    \/ \E d \in Devices : \/ \E k \in Regs : PlcChanges(d, k)
                          \/ Spawn(d) \/ Connect(d) \/ LoseConnection(d)
                          \/ PollStep(d) \/ Abort(d)
    \/ \E u \in Users : \/ \E i \in DOMAIN alarms :
                              \/ AckSelect(u, i)
                              \/ \E m \in Durations : ShelveSelect(u, i, m)
                        \/ AckUpdate(u) \/ ShelveUpdate(u)
                        \/ LogAudit(u) \/ RequestEnds(u)

Spec == Init /\ [][Next]_vars

(* A polling task is a tokio task woken by its timer and by the replies it *)
(* waits for; nothing obliges a client to send any request.                *)
Fairness == \A d \in Devices : WF_vars(PollStep(d))
FairSpec == Spec /\ Fairness

-----------------------------------------------------------------------------
(* Properties.                                                             *)

\* The columns of a row agree with its state: an active row carries no
\* shelving, an acknowledged row its signature, a shelved row its author and
\* an expiry within the 8 hours of shelve_alarm, counted from now, a cleared
\* row the time it was cleared.
RowConsistent(row) ==
    /\ row.state = "active" => row.shelved_until = None /\ row.shelved_by = None
    /\ row.state = "acknowledged" => row.acked_by # None
    /\ row.state = "shelved" => /\ row.shelved_until # None /\ row.shelved_by # None
                               /\ row.shelved_until <= MAX_SHELVE_MINUTES
    /\ row.state = "cleared" => row.cleared_at # None
    /\ row.state \in {"shelved", "cleared"} => row.hidden

\* So it is whatever the interleaving of poller, handlers and crashes, and
\* the audit trail agrees with the table: an alarm_ack entry is about an alarm
\* that still carries the signature.
RowsConsistent ==
    /\ \A i \in DOMAIN alarms : RowConsistent(alarms[i])
    /\ \A i \in audit : i \in DOMAIN alarms /\ alarms[i].acked_by # None

\* The check-then-insert of the poller (has_active_alarm, then raise_alarm)
\* is not a transaction, yet it duplicates nothing that it can see: of two
\* unresolved alarms of one point the older one was at some time shelved or
\* cleared, so the check could not count it.  (No database errors: an error
\* of has_active_alarm counts as "no alarm".)
NoDuplicateVisible ==
    ~DbMayFail =>
        \A d \in Devices, k \in Regs : \A i, j \in DOMAIN alarms :
            /\ i < j
            /\ Unresolved(alarms[i], d, k)
            /\ Unresolved(alarms[j], d, k)
            => alarms[i].hidden

\* An alarm is cleared only by the task that polls its own device, while it
\* handles the alarm's register, on a value read in that cycle that is back
\* in the safe range: the row found by get_active_alarm_id is still a row of
\* that point when clear_alarm runs.
Clears(i) == alarms[i].state # "cleared" /\ alarms'[i].state = "cleared"

Justified(i) ==
    LET p == poll[alarms[i].dev]
    IN  p.pc = "clear" /\ p.k = alarms[i].reg /\ InSafeRange(p.k, p.snap[p.k])

ClearJustified == [][\A i \in DOMAIN alarms : Clears(i) => Justified(i)]_vars

PollerUp(d) == poll[d].pc \notin {"down", "connect"}
StaysSafe(d, k) == PollerUp(d) /\ InSafeRange(k, plc[d][k])
StaysCritical(d, k) == PollerUp(d) /\ plc[d][k] >= ALARM_THRESHOLDS[k].crit_high
TableFull == Len(alarms) = MaxAlarms

\* A request is about to update a row that was cleared since its SELECT.
StaleUpdate(d, k) ==
    \E u \in Users :
        /\ req[u].pc = "update"
        /\ alarms[req[u].id].state = "cleared"
        /\ alarms[req[u].id].dev = d /\ alarms[req[u].id].reg = k

\* If a register stays in its safe range while the device is polled, its
\* unresolved alarms are cleared, even several of them (one per cycle), even
\* if expired shelvings add more and operators go on to acknowledge and to
\* shelve: as long as they bring no cleared alarm back.  (clear_alarm takes
\* the newest alarm only; one that comes back before every poll keeps the
\* older ones from being cleared.)
SafeValueClears ==
    \A d \in Devices, k \in Regs :
        <>[](StaysSafe(d, k) /\ ~StaleUpdate(d, k)) => []<>(~has_active_alarm(d, k))

\* If a register stays at or above its critical limit while the device is
\* polled, an unresolved alarm stands for it again and again, whatever the
\* operators do (or the model's table is full).
CriticalValueAlarms ==
    \A d \in Devices, k \in Regs :
        <>[]StaysCritical(d, k) => []<>(has_active_alarm(d, k) \/ TableFull)

\* What the code does not keep: db.rs:364 "Cannot shelve a cleared alarm".
ClearedIsNotShelved ==
    [][\A i \in DOMAIN alarms :
          alarms[i].state = "cleared" => alarms'[i].state # "shelved"]_vars
=============================================================================
