---------------------------- MODULE AlarmsProofs ----------------------------
(***************************************************************************)
(* Proofs about Alarms, for every set of devices and operators and every   *)
(* table of thresholds: what the interleaving of the polling tasks, the    *)
(* handlers and crashes cannot do to the alarms table.                     *)
(***************************************************************************)
EXTENDS Alarms, WellFoundedInduction, TLAPS

(* The invariant.                                                          *)

\* A row of point (d, k).
IsOf(row, d, k) == row.dev = d /\ row.reg = k

\* What a polling task has found out and acts on later: a raise is called for
\* by the values it has read, a clear is justified by them, and the row it is
\* going to clear is one of the point it looks at.
PollerOk(d, p) ==
    /\ p.pc \in {"check", "raise", "getid", "clear"} =>
          p.k \in Regs /\ \A k \in Regs : p.snap[k] \in Values
    /\ p.pc = "raise" => PriorityFor(p.k, p.snap[p.k]) # None
    /\ p.pc \in {"getid", "clear"} => InSafeRange(p.k, p.snap[p.k])
    /\ p.pc = "clear" => p.id \in DOMAIN alarms /\ IsOf(alarms[p.id], d, p.k)

PollPart == \A d \in Devices : PollerOk(d, poll[d])

\* A request that is under way is about a row that exists; the expiry that it
\* has computed is within the cap, and an acknowledgement that is about to be
\* logged is in the table.
RequestOk(r) ==
    /\ r.pc # "idle" => r.id \in DOMAIN alarms
    /\ r.pc = "update" /\ r.op = "alarm_shelve" =>
          r.until # None /\ r.until <= MAX_SHELVE_MINUTES
    /\ r.pc = "audit" /\ r.op = "alarm_ack" => alarms[r.id].acked_by # None

RequestPart == \A u \in Users : RequestOk(req[u])

\* Of two alarms of one point the older one was at some time out of sight of
\* has_active_alarm, and so are all of them when a poller is about to raise.
DuplicatePart ==
    ~DbMayFail =>
        /\ \A i, j \in DOMAIN alarms :
              i < j /\ IsOf(alarms[i], alarms[j].dev, alarms[j].reg) => alarms[i].hidden
        /\ \A d \in Devices : poll[d].pc = "raise" =>
              \A i \in DOMAIN alarms : IsOf(alarms[i], d, poll[d].k) => alarms[i].hidden

AlarmInv ==
    /\ TypeOK /\ PollPart /\ RequestPart
    /\ RowsConsistent
    /\ DuplicatePart

-----------------------------------------------------------------------------
(* The operators.                                                          *)

\* A nonempty set of positions has a last one.
LEMMA LastPosition ==
    ASSUME NEW n \in Nat, NEW S \in SUBSET (1..n), S # {}
    PROVE  \E i \in S : \A j \in S : j <= i
<1> DEFINE Distances == {n - i : i \in S}
           lt == OpToRel(<, Nat)
<1>1. Distances \subseteq Nat /\ Distances # {}
  <2>1. \A i \in S : n - i \in Nat
    OBVIOUS
  <2> QED BY <2>1
<1>2. \E x \in Distances : \A y \in Distances : <<y, x>> \notin lt
  <2> HIDE DEF Distances
  <2>1. IsWellFoundedOn(lt, Nat)
    BY NatLessThanWellFounded
  <2> HIDE DEF lt
  <2> QED BY <1>1, <2>1, WFMin
<1>3. PICK i \in S : \A y \in Distances : <<y, n - i>> \notin lt
  BY <1>2
<1>4. ASSUME NEW j \in S PROVE j <= i
  <2>1. n - j \in Nat /\ n - i \in Nat /\ n - j \in Distances
    OBVIOUS
  <2>2. ~(n - j < n - i)
    BY <1>3, <2>1 DEF OpToRel
  <2> QED BY <2>2
<1> QED BY <1>4

\* get_active_alarm_id returns a row of the point, or 0 if there is none.
LEMMA ActiveId ==
    ASSUME alarms \in Seq(Row), NEW d, NEW k, get_active_alarm_id(d, k) # 0
    PROVE  /\ get_active_alarm_id(d, k) \in DOMAIN alarms
           /\ IsOf(alarms[get_active_alarm_id(d, k)], d, k)
<1> DEFINE S == {i \in DOMAIN alarms : Unresolved(alarms[i], d, k)}
           IsLast(i) == /\ Unresolved(alarms[i], d, k)
                        /\ \A j \in DOMAIN alarms : Unresolved(alarms[j], d, k) => j <= i
<1>1. has_active_alarm(d, k)
  BY DEF get_active_alarm_id
<1>2. Len(alarms) \in Nat /\ S \in SUBSET (1..Len(alarms)) /\ S # {}
  BY <1>1 DEF has_active_alarm
<1>3. \E i \in S : \A j \in S : j <= i
  BY <1>2, LastPosition
<1>4. \E i \in DOMAIN alarms : IsLast(i)
  BY <1>3
<1>5. get_active_alarm_id(d, k) = CHOOSE i \in DOMAIN alarms : IsLast(i)
  BY <1>1 DEF get_active_alarm_id
<1>6. /\ get_active_alarm_id(d, k) \in DOMAIN alarms
      /\ Unresolved(alarms[get_active_alarm_id(d, k)], d, k)
  BY <1>4, <1>5
<1> QED BY <1>6 DEF Unresolved, IsOf

LEMMA PriorityType ==
    ASSUME NEW k, NEW v PROVE PriorityFor(k, v) \in {"critical", "high", None}
BY DEF PriorityFor

\* What no statement takes from a row: its point, its history, its signature.
Follows(row, old) ==
    /\ row.dev = old.dev /\ row.reg = old.reg
    /\ old.hidden => row.hidden
    /\ old.acked_by # None => row.acked_by # None

LEMMA NewRowOk ==
    ASSUME NEW d \in Devices, NEW k \in Regs, NEW priority \in {"critical", "high"}
    PROVE  /\ NewRow(d, k, priority) \in Row /\ RowConsistent(NewRow(d, k, priority))
           /\ IsOf(NewRow(d, k, priority), d, k)
BY DEF NewRow, Row, RowConsistent, States, IsOf

LEMMA AckedRowOk ==
    ASSUME NEW row \in Row, NEW u \in Users
    PROVE  /\ AckedRow(row, u) \in Row /\ RowConsistent(AckedRow(row, u))
           /\ Follows(AckedRow(row, u), row)
           /\ AckedRow(row, u).acked_by # None /\ AckedRow(row, u).state # "cleared"
BY NoneAssumption DEF AckedRow, Row, RowConsistent, States, Follows

LEMMA ShelvedRowOk ==
    ASSUME NEW row \in Row, NEW u \in Users, NEW until \in MinutesLeft,
           until <= MAX_SHELVE_MINUTES
    PROVE  /\ ShelvedRow(row, u, until) \in Row /\ RowConsistent(ShelvedRow(row, u, until))
           /\ Follows(ShelvedRow(row, u, until), row)
           /\ ShelvedRow(row, u, until).state # "cleared"
<1>1. until # None
  BY NoneAssumption DEF MinutesLeft
<1> QED BY <1>1, NoneAssumption DEF ShelvedRow, Row, RowConsistent, States, Follows

LEMMA ClearedRowOk ==
    ASSUME NEW row \in Row, RowConsistent(row)
    PROVE  /\ ClearedRow(row) \in Row /\ RowConsistent(ClearedRow(row))
           /\ Follows(ClearedRow(row), row)
BY NoneAssumption DEF ClearedRow, Row, RowConsistent, States, Follows

LEMMA UnshelvedRowOk ==
    ASSUME NEW row \in Row, RowConsistent(row)
    PROVE  /\ UnshelvedRow(row) \in Row /\ RowConsistent(UnshelvedRow(row))
           /\ Follows(UnshelvedRow(row), row)
           /\ UnshelvedRow(row).state = "cleared" => row.state = "cleared"
BY DEF UnshelvedRow, Row, RowConsistent, States, Follows

LEMMA AgedRowOk ==
    ASSUME NEW row \in Row, RowConsistent(row)
    PROVE  /\ AgedRow(row) \in Row /\ RowConsistent(AgedRow(row))
           /\ Follows(AgedRow(row), row)
           /\ AgedRow(row).state = row.state
<1> DEFINE t == row.shelved_until
           aged == [row EXCEPT !.shelved_until = Elapse(t)]
<1>1. t \in MinutesLeft \cup {None}
  BY DEF Row
<1>2. /\ Elapse(t) \in MinutesLeft \cup {None}
      /\ t = None => Elapse(t) = None
      /\ t # None => Elapse(t) # None /\ Elapse(t) <= t
  BY <1>1, NoneAssumption DEF Elapse, MinutesLeft
<1>3. /\ aged \in Row /\ aged.shelved_until = Elapse(t) /\ aged.state = row.state
      /\ aged.dev = row.dev /\ aged.reg = row.reg /\ aged.hidden = row.hidden
      /\ aged.acked_by = row.acked_by /\ aged.shelved_by = row.shelved_by
      /\ aged.cleared_at = row.cleared_at
  BY <1>2 DEF Row
<1>4. AgedRow(row) = aged
  BY DEF AgedRow
<1> HIDE DEF aged
<1>5. Follows(aged, row)
  BY <1>3 DEF Follows
<1>6. t # None /\ t <= MAX_SHELVE_MINUTES =>
         Elapse(t) # None /\ Elapse(t) <= MAX_SHELVE_MINUTES
  BY <1>1, <1>2, NoneAssumption, NumberAssumption DEF MinutesLeft, Elapse
<1>7. RowConsistent(aged)
  BY <1>2, <1>3, <1>6 DEF RowConsistent
<1> QED BY <1>3, <1>4, <1>5, <1>7

LEMMA AgedRequestOk ==
    ASSUME NEW r \in Request, RequestOk(r)
    PROVE  AgedRequest(r) \in Request /\ RequestOk(AgedRequest(r))
<1> DEFINE t == r.until
           aged == [r EXCEPT !.until = Elapse(t)]
<1>1. t \in MinutesLeft \cup {None}
  BY DEF Request
<1>2. /\ Elapse(t) \in MinutesLeft \cup {None}
      /\ t # None /\ t <= MAX_SHELVE_MINUTES =>
           Elapse(t) # None /\ Elapse(t) <= MAX_SHELVE_MINUTES
  BY <1>1, NoneAssumption, NumberAssumption DEF Elapse, MinutesLeft
<1>3. /\ aged \in Request /\ aged.until = Elapse(t) /\ aged.pc = r.pc
      /\ aged.op = r.op /\ aged.id = r.id
  BY <1>2 DEF Request
<1>4. AgedRequest(r) = aged
  BY DEF AgedRequest
<1> HIDE DEF aged
<1> QED BY <1>2, <1>3, <1>4 DEF RequestOk

\* A row that has_active_alarm does not count has been hidden.
LEMMA OutOfSight ==
    ASSUME NEW row \in Row, RowConsistent(row), NEW d, NEW k, IsOf(row, d, k),
           ~Unresolved(row, d, k)
    PROVE  row.hidden
BY DEF Row, States, RowConsistent, IsOf, Unresolved

-----------------------------------------------------------------------------
(* What a step has to show.                                                *)

LEMMA NoTaskFacts == NoTask \in Poller /\ NoTask.pc = "down"
BY DEF NoTask, Poller, NoRegisters, PollPcs

LEMMA NoRequestFacts == NoRequest \in Request /\ NoRequest.pc = "idle"
BY DEF NoRequest, Request

LEMMA AlarmInit == Init => AlarmInv
<1> SUFFICES ASSUME Init PROVE AlarmInv
  OBVIOUS
<1>1. /\ alarms = <<>> /\ audit = {} /\ plc \in [Devices -> [Regs -> Values]]
      /\ poll = [d \in Devices |-> NoTask] /\ req = [u \in Users |-> NoRequest]
      /\ DOMAIN alarms = {} /\ alarms \in Seq(Row)
  BY DEF Init
<1>2. TypeOK
  BY <1>1, NoTaskFacts, NoRequestFacts DEF TypeOK
<1>3. PollPart /\ RequestPart
  BY <1>1, NoTaskFacts, NoRequestFacts DEF PollPart, PollerOk, RequestPart, RequestOk
<1>4. RowsConsistent /\ DuplicatePart
  BY <1>1, NoTaskFacts DEF RowsConsistent, DuplicatePart
<1> QED BY <1>2, <1>3, <1>4 DEF AlarmInv

\* No row goes, and every row follows itself.
Grows ==
    \A i \in DOMAIN alarms : i \in DOMAIN alarms' /\ Follows(alarms'[i], alarms[i])

LEMMA SameTable == UNCHANGED alarms => Grows
BY DEF Grows, Follows

\* What is left to show of a step.  Who waits keeps what he knows.
LEMMA InvStep ==
    ASSUME AlarmInv, TypeOK', Grows,
           \A d \in Devices : poll'[d] = poll[d] \/ PollerOk(d, poll[d])',
           \A u \in Users : req'[u] = req[u] \/ RequestOk(req[u])',
           RowsConsistent', DuplicatePart'
    PROVE  AlarmInv'
<1>0. PollPart /\ RequestPart
  BY DEF AlarmInv
<1>1. ASSUME NEW d \in Devices, poll'[d] = poll[d] PROVE PollerOk(d, poll[d])'
  <2>1. PollerOk(d, poll[d])
    BY <1>0 DEF PollPart
  <2> QED BY <2>1, <1>1 DEF PollerOk, Grows, Follows, IsOf
<1>2. ASSUME NEW u \in Users, req'[u] = req[u] PROVE RequestOk(req[u])'
  <2>1. RequestOk(req[u])
    BY <1>0 DEF RequestPart
  <2> QED BY <2>1, <1>2 DEF RequestOk, Grows, Follows
<1> QED BY <1>0, <1>1, <1>2 DEF AlarmInv, PollPart, RequestPart

\* Rows that are as they were, and no entry that the table does not back.
LEMMA RowsKept ==
    ASSUME AlarmInv, Grows,
           \A i \in DOMAIN alarms' :
               RowConsistent(alarms[i])' \/ (i \in DOMAIN alarms /\ alarms'[i] = alarms[i]),
           \A i \in audit' :
               i \in audit \/ (i \in DOMAIN alarms' /\ alarms'[i].acked_by # None)
    PROVE  RowsConsistent'
<1>0. RowsConsistent
  BY DEF AlarmInv
<1>1. ASSUME NEW i \in DOMAIN alarms' PROVE RowConsistent(alarms[i])'
  BY <1>0, <1>1 DEF RowsConsistent, RowConsistent
<1>2. ASSUME NEW i \in audit' PROVE i \in DOMAIN alarms' /\ alarms'[i].acked_by # None
  BY <1>0, <1>2 DEF RowsConsistent, Grows, Follows
<1> QED BY <1>1, <1>2 DEF RowsConsistent

\* No new row, and no poller that is newly about to raise.
LEMMA DuplicateKept ==
    ASSUME AlarmInv, Grows, DOMAIN alarms' = DOMAIN alarms,
           \A d \in Devices : poll'[d].pc = "raise" =>
               poll[d].pc = "raise" /\ poll'[d].k = poll[d].k
    PROVE  DuplicatePart'
<1>1. DuplicatePart
  BY DEF AlarmInv
<1> QED BY <1>1 DEF DuplicatePart, Grows, Follows, IsOf

\* A step of the polling task that leaves the table alone.
LEMMA PollerStep ==
    ASSUME AlarmInv, NEW d \in Devices, NEW p \in Poller, poll' = [poll EXCEPT ![d] = p],
           UNCHANGED <<plc, alarms, req, audit>>, PollerOk(d, p),
           p.pc = "raise" /\ ~DbMayFail =>
               \A i \in DOMAIN alarms : IsOf(alarms[i], d, p.k) => alarms[i].hidden
    PROVE  AlarmInv'
<1>0. TypeOK /\ DuplicatePart /\ poll \in [Devices -> Poller]
  BY DEF AlarmInv, TypeOK
<1>1. poll'[d] = p /\ \A e \in Devices : e # d => poll'[e] = poll[e]
  BY <1>0
<1>2. TypeOK'
  BY <1>0 DEF TypeOK
<1>3. Grows
  BY <1>0, SameTable
<1>4. RowsConsistent'
  BY <1>2, <1>3, RowsKept
<1>5. PollerOk(d, poll[d])'
  BY <1>1 DEF PollerOk
<1>6. DuplicatePart'
  BY <1>0, <1>1 DEF DuplicatePart
<1> QED BY <1>1, <1>2, <1>3, <1>4, <1>5, <1>6, InvStep

\* A step of a handler that leaves the table alone.
LEMMA HandlerStep ==
    ASSUME AlarmInv, NEW u \in Users, NEW r \in Request, req' = [req EXCEPT ![u] = r],
           UNCHANGED <<plc, poll, alarms>>, RequestOk(r), audit' \subseteq Nat,
           \A i \in audit' : i \in audit \/ (i \in DOMAIN alarms /\ alarms[i].acked_by # None)
    PROVE  AlarmInv'
<1>0. TypeOK /\ req \in [Users -> Request]
  BY DEF AlarmInv, TypeOK
<1>1. req'[u] = r /\ \A v \in Users : v # u => req'[v] = req[v]
  BY <1>0
<1>2. TypeOK'
  BY <1>0 DEF TypeOK
<1>3. Grows
  BY <1>0, SameTable
<1>4. RowsConsistent'
  BY <1>2, <1>3, RowsKept
<1>5. RequestOk(req[u])'
  BY <1>1 DEF RequestOk
<1>6. DuplicatePart'
  BY <1>3, DuplicateKept
<1> QED BY <1>1, <1>2, <1>3, <1>4, <1>5, <1>6, InvStep

\* An UPDATE of one row.
LEMMA UpdateFacts ==
    ASSUME alarms \in Seq(Row), NEW i \in DOMAIN alarms, NEW row \in Row,
           Follows(row, alarms[i]), RowConsistent(row),
           alarms' = [alarms EXCEPT ![i] = row]
    PROVE  /\ alarms' \in Seq(Row) /\ DOMAIN alarms' = DOMAIN alarms
           /\ alarms'[i] = row /\ \A j \in DOMAIN alarms : j # i => alarms'[j] = alarms[j]
           /\ Grows
           /\ \A j \in DOMAIN alarms' :
                 RowConsistent(alarms[j])' \/ (j \in DOMAIN alarms /\ alarms'[j] = alarms[j])
<1>1. /\ alarms' \in Seq(Row) /\ DOMAIN alarms' = DOMAIN alarms
      /\ alarms'[i] = row /\ \A j \in DOMAIN alarms : j # i => alarms'[j] = alarms[j]
  OBVIOUS
<1>2. Grows
  BY <1>1 DEF Grows, Follows
<1>3. RowConsistent(alarms[i])'
  BY <1>1 DEF RowConsistent
<1> QED BY <1>1, <1>2, <1>3

\* ack_alarm and shelve_alarm update their row, whatever its state is by now.
LEMMA UpdateStep ==
    ASSUME AlarmInv, NEW u \in Users, req[u].pc = "update", NEW row \in Row,
           Follows(row, alarms[req[u].id]), RowConsistent(row),
           req[u].op = "alarm_ack" => row.acked_by # None,
           alarms' = [alarms EXCEPT ![req[u].id] = row],
           req' = [req EXCEPT ![u].pc = "audit"], UNCHANGED <<plc, poll, audit>>
    PROVE  AlarmInv'
<1> DEFINE r == [req[u] EXCEPT !.pc = "audit"]
           i == req[u].id
<1>0. /\ TypeOK /\ RequestPart /\ alarms \in Seq(Row) /\ req \in [Users -> Request]
     
  BY DEF AlarmInv, TypeOK
<1>1. req[u] \in Request /\ i \in DOMAIN alarms
  BY <1>0 DEF RequestPart, RequestOk
<1>2. r \in Request /\ r.pc = "audit" /\ r.op = req[u].op /\ r.id = i
  BY <1>1 DEF Request
<1>3. req' = [req EXCEPT ![u] = r]
  OBVIOUS
<1> HIDE DEF r
<1>4. /\ req' \in [Users -> Request] /\ req'[u] = r
      /\ \A v \in Users : v # u => req'[v] = req[v]
  BY <1>0, <1>2, <1>3
<1>5. /\ alarms' \in Seq(Row) /\ DOMAIN alarms' = DOMAIN alarms
      /\ alarms'[i] = row /\ Grows
      /\ \A j \in DOMAIN alarms' :
            RowConsistent(alarms[j])' \/ (j \in DOMAIN alarms /\ alarms'[j] = alarms[j])
  BY <1>0, <1>1, UpdateFacts
<1> HIDE DEF i
<1>6. TypeOK'
  BY <1>0, <1>4, <1>5 DEF TypeOK
<1>7. RowsConsistent'
  BY <1>5, RowsKept
<1>8. RequestOk(req[u])'
  BY <1>1, <1>2, <1>4, <1>5 DEF RequestOk
<1>9. DuplicatePart'
  BY <1>5, DuplicateKept
<1> QED BY <1>4, <1>5, <1>6, <1>7, <1>8, <1>9, InvStep

\* The next threshold is one of the table; after the last the task waits.
LEMMA NextThresholdFacts ==
    ASSUME poll \in [Devices -> Poller], NEW d \in Devices, poll[d].k \in Regs,
           \A k \in Regs : poll[d].snap[k] \in Values, NextThreshold(d)
    PROVE  \E p \in Poller :
              /\ poll' = [poll EXCEPT ![d] = p] /\ p.pc \in {"check", "wait"}
              /\ p.pc = "check" => p.k \in Regs /\ \A k \in Regs : p.snap[k] \in Values
<1> DEFINE n == Len(ALARM_THRESHOLDS)
           q == poll[d]
           next == [q EXCEPT !.pc = "check", !.k = q.k + 1, !.id = 0]
           last == [NoTask EXCEPT !.pc = "wait"]
<1>1. q \in Poller /\ n \in Nat /\ Regs = 1..n
  BY ThresholdAssumption DEF Regs
<1>2. q.k < n => q.k + 1 \in Regs
  BY <1>1
<1>3. poll' = [poll EXCEPT ![d] = IF q.k < n THEN next ELSE last]
  BY DEF NextThreshold
<1>4. CASE q.k < n
  <2>1. next \in Poller /\ next.pc = "check" /\ next.k = q.k + 1 /\ next.snap = q.snap
    BY <1>1, <1>2, <1>4 DEF Poller, PollPcs
  <2>2. poll' = [poll EXCEPT ![d] = next]
    BY <1>3, <1>4
  <2> HIDE DEF next
  <2> QED BY <1>2, <1>4, <2>1, <2>2
<1>5. CASE ~(q.k < n)
  <2>1. last \in Poller /\ last.pc = "wait"
    BY NoTaskFacts DEF NoTask, Poller, PollPcs
  <2>2. poll' = [poll EXCEPT ![d] = last]
    BY <1>3, <1>5
  <2> HIDE DEF last
  <2> QED BY <2>1, <2>2
<1> QED BY <1>4, <1>5

-----------------------------------------------------------------------------
(* The steps.                                                              *)

LEMMA CheckStep ==
    ASSUME AlarmInv, NEW d \in Devices, Check(d)
    PROVE  AlarmInv'
<1> DEFINE k == poll[d].k
           v == poll[d].snap[k]
<1>0. /\ TypeOK /\ PollerOk(d, poll[d]) /\ RowsConsistent /\ poll \in [Devices -> Poller]
      /\ alarms \in Seq(Row) /\ poll[d].pc = "check" /\ poll[d] \in Poller
      /\ UNCHANGED <<plc, alarms, req, audit>>
  BY DEF AlarmInv, PollPart, TypeOK, Check
<1>1. k \in Regs /\ \A j \in Regs : poll[d].snap[j] \in Values
  BY <1>0 DEF PollerOk
<1>2. PICK has \in BOOLEAN :
        /\ ~DbMayFail => has = has_active_alarm(d, k)
        /\ \/ ~has /\ PriorityFor(k, v) # None /\ PollGoto(d, "raise")
           \/ has /\ InSafeRange(k, v) /\ PollGoto(d, "getid")
           \/ NextThreshold(d)
  <2>1. has_active_alarm(d, k) \in BOOLEAN
    BY DEF has_active_alarm
  <2> QED BY <2>1 DEF Check
<1>3. CASE ~has /\ PriorityFor(k, v) # None /\ PollGoto(d, "raise")
  <2> DEFINE p == [poll[d] EXCEPT !.pc = "raise"]
  <2>1. p \in Poller /\ p.pc = "raise" /\ p.k = k /\ p.snap = poll[d].snap
    BY <1>0 DEF Poller, PollPcs
  <2>2. poll' = [poll EXCEPT ![d] = p]
    BY <1>3 DEF PollGoto
  <2> HIDE DEF p
  <2>3. PollerOk(d, p)
    BY <1>1, <1>3, <2>1 DEF PollerOk
  <2>4. ASSUME ~DbMayFail, NEW i \in DOMAIN alarms, IsOf(alarms[i], d, p.k)
        PROVE  alarms[i].hidden
    <3>1. alarms[i] \in Row /\ RowConsistent(alarms[i]) /\ IsOf(alarms[i], d, k)
      BY <1>0, <2>1, <2>4 DEF RowsConsistent
    <3>2. ~Unresolved(alarms[i], d, k)
      BY <1>2, <1>3, <2>4 DEF has_active_alarm
    <3> QED BY <3>1, <3>2, OutOfSight
  <2> QED BY <1>0, <2>1, <2>2, <2>3, <2>4, PollerStep
<1>4. CASE has /\ InSafeRange(k, v) /\ PollGoto(d, "getid")
  <2> DEFINE p == [poll[d] EXCEPT !.pc = "getid"]
  <2>1. p \in Poller /\ p.pc = "getid" /\ p.k = k /\ p.snap = poll[d].snap
    BY <1>0 DEF Poller, PollPcs
  <2>2. poll' = [poll EXCEPT ![d] = p]
    BY <1>4 DEF PollGoto
  <2> HIDE DEF p
  <2>3. PollerOk(d, p)
    BY <1>1, <1>4, <2>1 DEF PollerOk
  <2> QED BY <1>0, <2>1, <2>2, <2>3, PollerStep
<1>5. CASE NextThreshold(d)
  <2>1. PICK p \in Poller :
          /\ poll' = [poll EXCEPT ![d] = p] /\ p.pc \in {"check", "wait"}
          /\ p.pc = "check" => p.k \in Regs /\ \A j \in Regs : p.snap[j] \in Values
    BY <1>0, <1>1, <1>5, NextThresholdFacts
  <2>2. PollerOk(d, p)
    BY <2>1 DEF PollerOk
  <2> QED BY <1>0, <2>1, <2>2, PollerStep
<1> QED BY <1>2, <1>3, <1>4, <1>5

LEMMA GetActiveAlarmIdStep ==
    ASSUME AlarmInv, NEW d \in Devices, GetActiveAlarmId(d)
    PROVE  AlarmInv'
<1> DEFINE k == poll[d].k
           id == get_active_alarm_id(d, k)
<1>0. /\ TypeOK /\ PollerOk(d, poll[d]) /\ poll \in [Devices -> Poller]
      /\ alarms \in Seq(Row) /\ poll[d].pc = "getid" /\ poll[d] \in Poller
      /\ UNCHANGED <<plc, alarms, req, audit>>
  BY DEF AlarmInv, PollPart, TypeOK, GetActiveAlarmId
<1>1. /\ k \in Regs /\ \A j \in Regs : poll[d].snap[j] \in Values
      /\ InSafeRange(k, poll[d].snap[k])
  BY <1>0 DEF PollerOk
<1>2. CASE /\ id # 0
           /\ poll' = [poll EXCEPT ![d] = [@ EXCEPT !.pc = "clear", !.id = id]]
  <2> DEFINE p == [poll[d] EXCEPT !.pc = "clear", !.id = id]
  <2>1. id \in DOMAIN alarms /\ IsOf(alarms[id], d, k)
    BY <1>0, <1>2, ActiveId
  <2>2. id \in Nat
    BY <1>0, <2>1
  <2> HIDE DEF id
  <2>3. /\ p \in Poller /\ p.pc = "clear" /\ p.k = k /\ p.snap = poll[d].snap /\ p.id = id
    BY <1>0, <2>2 DEF Poller, PollPcs
  <2>4. poll' = [poll EXCEPT ![d] = p]
    BY <1>2
  <2> HIDE DEF p
  <2>5. PollerOk(d, p)
    BY <1>1, <2>1, <2>3 DEF PollerOk
  <2> QED BY <1>0, <2>3, <2>4, <2>5, PollerStep
<1>3. CASE NextThreshold(d)
  <2>1. PICK p \in Poller :
          /\ poll' = [poll EXCEPT ![d] = p] /\ p.pc \in {"check", "wait"}
          /\ p.pc = "check" => p.k \in Regs /\ \A j \in Regs : p.snap[j] \in Values
    BY <1>0, <1>1, <1>3, NextThresholdFacts
  <2>2. PollerOk(d, p)
    BY <2>1 DEF PollerOk
  <2> QED BY <1>0, <2>1, <2>2, PollerStep
<1> QED BY <1>2, <1>3 DEF GetActiveAlarmId

\* The poller goes elsewhere with nothing in its hands.
LEMMA GotoStep ==
    ASSUME AlarmInv, NEW d \in Devices, NEW pc \in {"down", "connect", "wait"},
           PollGoto(d, pc), UNCHANGED <<plc, alarms, req, audit>>
    PROVE  AlarmInv'
<1> DEFINE p == [poll[d] EXCEPT !.pc = pc]
<1>1. poll[d] \in Poller
  BY DEF AlarmInv, TypeOK
<1>2. p \in Poller /\ p.pc = pc
  BY <1>1 DEF Poller, PollPcs
<1>3. poll' = [poll EXCEPT ![d] = p]
  BY DEF PollGoto
<1> HIDE DEF p
<1>4. PollerOk(d, p)
  BY <1>2 DEF PollerOk
<1> QED BY <1>2, <1>3, <1>4, PollerStep

LEMMA ReadRegistersStep ==
    ASSUME AlarmInv, NEW d \in Devices, ReadRegisters(d)
    PROVE  AlarmInv'
<1> DEFINE p == [poll[d] EXCEPT !.pc = "check", !.k = 1, !.snap = plc[d]]
<1>1. poll[d] \in Poller /\ plc[d] \in [Regs -> Values]
  BY DEF AlarmInv, TypeOK
<1>2. /\ Regs # {} /\ poll' = [poll EXCEPT ![d] = p]
      /\ UNCHANGED <<plc, alarms, req, audit>>
  BY DEF ReadRegisters
<1>3. 1 \in Regs
  BY <1>2, ThresholdAssumption DEF Regs
<1>4. p \in Poller /\ p.pc = "check" /\ p.k = 1 /\ p.snap = plc[d]
  BY <1>1, <1>3 DEF Poller, PollPcs
<1> HIDE DEF p
<1>5. PollerOk(d, p)
  BY <1>1, <1>3, <1>4 DEF PollerOk
<1> QED BY <1>2, <1>4, <1>5, PollerStep

\* The alarm that is raised is the newest of its point, and hides no other one.
LEMMA RaiseAlarmStep ==
    ASSUME AlarmInv, NEW d \in Devices, RaiseAlarm(d)
    PROVE  AlarmInv'
<1> DEFINE k == poll[d].k
           row == NewRow(d, k, PriorityFor(k, poll[d].snap[k]))
<1>0. /\ TypeOK /\ PollerOk(d, poll[d]) /\ DuplicatePart /\ poll \in [Devices -> Poller]
      /\ alarms \in Seq(Row) /\ poll[d].pc = "raise" /\ NextThreshold(d)
      /\ (alarms' = Append(alarms, row) \/ UNCHANGED alarms)
      /\ UNCHANGED <<plc, req, audit>>
  BY DEF AlarmInv, PollPart, TypeOK, RaiseAlarm
<1>1. /\ k \in Regs /\ \A j \in Regs : poll[d].snap[j] \in Values
      /\ PriorityFor(k, poll[d].snap[k]) # None
  BY <1>0 DEF PollerOk
<1>2. row \in Row /\ RowConsistent(row) /\ IsOf(row, d, k)
  BY <1>1, PriorityType, NewRowOk
<1>3. PICK p \in Poller :
        /\ poll' = [poll EXCEPT ![d] = p] /\ p.pc \in {"check", "wait"}
        /\ p.pc = "check" => p.k \in Regs /\ \A j \in Regs : p.snap[j] \in Values
  BY <1>0, <1>1, NextThresholdFacts
<1>4. CASE UNCHANGED alarms
  <2>1. PollerOk(d, p)
    BY <1>3 DEF PollerOk
  <2> QED BY <1>0, <1>3, <1>4, <2>1, PollerStep
<1>5. CASE alarms' = Append(alarms, row)
  <2> HIDE DEF row
  <2>0. PICK n \in Nat : n = Len(alarms)
    BY <1>0
  <2>1. /\ alarms' \in Seq(Row) /\ DOMAIN alarms = 1..n
        /\ DOMAIN alarms' = 1..(n + 1) /\ alarms'[n + 1] = row
        /\ \A i \in 1..n : alarms'[i] = alarms[i]
    BY <1>0, <1>2, <1>5, <2>0
  <2>2. \A i \in 1..(n + 1) : i \in 1..n \/ i = n + 1
    BY <2>1
  <2>3. \A i \in 1..n : i \in 1..(n + 1)
    BY <2>1
  <2>4. poll'[d] = p /\ \A e \in Devices : e # d => poll'[e] = poll[e]
    BY <1>0, <1>3
  <2>5. TypeOK'
    BY <1>0, <1>3, <2>1 DEF TypeOK
  <2>6. Grows
    BY <1>0, <2>1, <2>3 DEF Grows, Follows
  <2>7. PollerOk(d, poll[d])'
    BY <1>3, <2>4 DEF PollerOk
  <2>8. RowConsistent(alarms[n + 1])'
    BY <1>0, <1>2, <2>1 DEF RowConsistent
  <2>9. RowsConsistent'
    <3>1. \A i \in DOMAIN alarms' :
            RowConsistent(alarms[i])' \/ (i \in DOMAIN alarms /\ alarms'[i] = alarms[i])
      BY <2>1, <2>2, <2>8
    <3> QED BY <1>0, <2>5, <2>6, <3>1, RowsKept
  <2>10. ASSUME ~DbMayFail, NEW i \in DOMAIN alarms', NEW j \in DOMAIN alarms',
                i < j, IsOf(alarms'[i], alarms'[j].dev, alarms'[j].reg)
         PROVE  alarms'[i].hidden
    <3>1. i \in 1..n /\ alarms'[i] = alarms[i]
      BY <2>1, <2>2, <2>10
    <3>2. CASE j \in 1..n
      BY <1>0, <2>1, <2>10, <3>1, <3>2 DEF DuplicatePart
    <3>3. CASE j = n + 1
      <4>1. IsOf(alarms[i], d, k)
        BY <1>2, <2>1, <2>10, <3>1, <3>3 DEF IsOf
      <4> QED BY <1>0, <2>1, <2>10, <3>1, <4>1 DEF DuplicatePart
    <3> QED BY <2>1, <2>2, <3>2, <3>3
  <2>11. ASSUME ~DbMayFail, NEW e \in Devices, poll'[e].pc = "raise",
                NEW i \in DOMAIN alarms', IsOf(alarms'[i], e, poll'[e].k)
         PROVE  alarms'[i].hidden
    <3>1. e # d /\ poll'[e] = poll[e]
      BY <1>3, <2>4, <2>11
    <3>2. CASE i \in 1..n
      BY <1>0, <2>1, <2>11, <3>1, <3>2 DEF DuplicatePart
    <3>3. CASE i = n + 1
      BY <1>2, <2>1, <2>11, <3>1, <3>3 DEF IsOf
    <3> QED BY <2>1, <2>2, <3>2, <3>3
  <2>12. DuplicatePart'
    BY <2>10, <2>11 DEF DuplicatePart
  <2> QED BY <1>0, <2>4, <2>5, <2>6, <2>7, <2>9, <2>12, InvStep
<1> QED BY <1>0, <1>4, <1>5

LEMMA ClearAlarmStep ==
    ASSUME AlarmInv, NEW d \in Devices, ClearAlarm(d)
    PROVE  AlarmInv'
<1> DEFINE i == poll[d].id
           row == ClearedRow(alarms[i])
<1>0. /\ TypeOK /\ PollerOk(d, poll[d]) /\ RowsConsistent /\ poll \in [Devices -> Poller]
      /\ alarms \in Seq(Row) /\ poll[d].pc = "clear" /\ NextThreshold(d)
      /\ (alarms' = [alarms EXCEPT ![i] = row] \/ UNCHANGED alarms)
      /\ UNCHANGED <<plc, req, audit>>
  BY DEF AlarmInv, PollPart, TypeOK, ClearAlarm
<1>1. /\ poll[d].k \in Regs /\ \A j \in Regs : poll[d].snap[j] \in Values
      /\ i \in DOMAIN alarms
  BY <1>0 DEF PollerOk
<1>2. PICK p \in Poller :
        /\ poll' = [poll EXCEPT ![d] = p] /\ p.pc \in {"check", "wait"}
        /\ p.pc = "check" => p.k \in Regs /\ \A j \in Regs : p.snap[j] \in Values
  BY <1>0, <1>1, NextThresholdFacts
<1>3. CASE UNCHANGED alarms
  <2>1. PollerOk(d, p)
    BY <1>2 DEF PollerOk
  <2> QED BY <1>0, <1>2, <1>3, <2>1, PollerStep
<1>4. CASE alarms' = [alarms EXCEPT ![i] = row]
  <2>1. row \in Row /\ RowConsistent(row) /\ Follows(row, alarms[i])
    BY <1>0, <1>1, ClearedRowOk DEF RowsConsistent
  <2> HIDE DEF row, i
  <2>2. /\ alarms' \in Seq(Row) /\ DOMAIN alarms' = DOMAIN alarms /\ Grows
        /\ \A j \in DOMAIN alarms' :
              RowConsistent(alarms[j])' \/ (j \in DOMAIN alarms /\ alarms'[j] = alarms[j])
    BY <1>0, <1>1, <1>4, <2>1, UpdateFacts
  <2>3. poll'[d] = p /\ \A e \in Devices : e # d => poll'[e] = poll[e]
    BY <1>0, <1>2
  <2>4. TypeOK'
    BY <1>0, <1>2, <2>2 DEF TypeOK
  <2>5. PollerOk(d, poll[d])'
    BY <1>2, <2>3 DEF PollerOk
  <2>6. RowsConsistent'
    BY <1>0, <2>2, RowsKept
  <2>7. DuplicatePart'
    BY <1>2, <2>2, <2>3, DuplicateKept
  <2> QED BY <1>0, <2>2, <2>3, <2>4, <2>5, <2>6, <2>7, InvStep
<1> QED BY <1>0, <1>3, <1>4

LEMMA AbortStep ==
    ASSUME AlarmInv, NEW d \in Devices, Abort(d)
    PROVE  AlarmInv'
<1>1. PollerOk(d, NoTask)
  BY NoTaskFacts DEF PollerOk
<1> QED BY <1>1, NoTaskFacts, PollerStep DEF Abort

LEMMA AckSelectStep ==
    ASSUME AlarmInv, NEW u \in Users, NEW i \in DOMAIN alarms, AckSelect(u, i)
    PROVE  AlarmInv'
<1> DEFINE r == [pc |-> "update", op |-> "alarm_ack", id |-> i, until |-> None]
<1>1. alarms \in Seq(Row) /\ audit \subseteq Nat
  BY DEF AlarmInv, TypeOK
<1>2. i \in Nat
  BY <1>1
<1>3. r \in Request /\ RequestOk(r)
  BY <1>1, <1>2, NumberAssumption DEF Request, RequestOk
<1> HIDE DEF r
<1>4. req' = [req EXCEPT ![u] = r] /\ UNCHANGED <<plc, poll, alarms, audit>>
  BY DEF AckSelect, r
<1> QED BY <1>1, <1>3, <1>4, HandlerStep

LEMMA ShelveSelectStep ==
    ASSUME AlarmInv, NEW u \in Users, NEW i \in DOMAIN alarms, NEW m \in Durations,
           ShelveSelect(u, i, m)
    PROVE  AlarmInv'
<1> DEFINE r == [pc |-> "update", op |-> "alarm_shelve", id |-> i, until |-> ShelveUntil(m)]
<1>1. alarms \in Seq(Row) /\ audit \subseteq Nat
  BY DEF AlarmInv, TypeOK
<1>2. i \in Nat
  BY <1>1
<1>3. /\ ShelveUntil(m) \in MinutesLeft /\ ShelveUntil(m) # None
      /\ ShelveUntil(m) <= MAX_SHELVE_MINUTES
  BY NoneAssumption, NumberAssumption DEF ShelveUntil, MinutesLeft
<1>4. r \in Request /\ RequestOk(r)
  BY <1>2, <1>3 DEF Request, RequestOk
<1> HIDE DEF r
<1>5. req' = [req EXCEPT ![u] = r] /\ UNCHANGED <<plc, poll, alarms, audit>>
  BY DEF ShelveSelect, r
<1> QED BY <1>1, <1>4, <1>5, HandlerStep

LEMMA AckUpdateStep ==
    ASSUME AlarmInv, NEW u \in Users, AckUpdate(u)
    PROVE  AlarmInv'
<1> DEFINE row == AckedRow(alarms[req[u].id], u)
<1>1. req[u].pc = "update" /\ alarms \in Seq(Row) /\ req[u].id \in DOMAIN alarms
  BY DEF AlarmInv, TypeOK, RequestPart, RequestOk, AckUpdate
<1>2. /\ row \in Row /\ RowConsistent(row) /\ Follows(row, alarms[req[u].id])
      /\ row.acked_by # None
  BY <1>1, AckedRowOk
<1> QED BY <1>1, <1>2, UpdateStep DEF AckUpdate

LEMMA ShelveUpdateStep ==
    ASSUME AlarmInv, NEW u \in Users, ShelveUpdate(u)
    PROVE  AlarmInv'
<1> DEFINE row == ShelvedRow(alarms[req[u].id], u, req[u].until)
<1>1. /\ req[u].pc = "update" /\ alarms \in Seq(Row) /\ req[u].id \in DOMAIN alarms
      /\ req[u].until # None /\ req[u].until <= MAX_SHELVE_MINUTES
      /\ req[u] \in Request /\ req[u].op = "alarm_shelve"
  BY DEF AlarmInv, TypeOK, RequestPart, RequestOk, ShelveUpdate
<1>2. req[u].until \in MinutesLeft
  BY <1>1 DEF Request
<1>3. row \in Row /\ RowConsistent(row) /\ Follows(row, alarms[req[u].id])
  BY <1>1, <1>2, ShelvedRowOk
<1> QED BY <1>1, <1>3, UpdateStep DEF ShelveUpdate

LEMMA LogAuditStep ==
    ASSUME AlarmInv, NEW u \in Users, LogAudit(u)
    PROVE  AlarmInv'
<1>1. /\ RequestOk(req[u]) /\ alarms \in Seq(Row) /\ audit \subseteq Nat
      /\ req[u].pc = "audit" /\ req' = [req EXCEPT ![u] = NoRequest]
      /\ audit' = IF req[u].op = "alarm_ack" THEN audit \cup {req[u].id} ELSE audit
      /\ UNCHANGED <<plc, poll, alarms>>
  BY DEF AlarmInv, TypeOK, RequestPart, LogAudit
<1>2. req[u].id \in DOMAIN alarms
  BY <1>1 DEF RequestOk
<1>3. req[u].id \in Nat /\ (req[u].op = "alarm_ack" => alarms[req[u].id].acked_by # None)
  BY <1>1, <1>2 DEF RequestOk
<1>4. RequestOk(NoRequest)
  BY NoRequestFacts DEF RequestOk
<1>5. audit' \subseteq Nat /\ \A i \in audit' :
        i \in audit \/ (i \in DOMAIN alarms /\ alarms[i].acked_by # None)
  BY <1>1, <1>2, <1>3
<1> QED BY <1>1, <1>4, <1>5, NoRequestFacts, HandlerStep

LEMMA RequestEndsStep ==
    ASSUME AlarmInv, NEW u \in Users, RequestEnds(u)
    PROVE  AlarmInv'
<1>1. /\ audit \subseteq Nat /\ req' = [req EXCEPT ![u] = NoRequest]
      /\ UNCHANGED <<plc, poll, alarms, audit>>
  BY DEF AlarmInv, TypeOK, RequestEnds
<1>2. RequestOk(NoRequest)
  BY NoRequestFacts DEF RequestOk
<1> QED BY <1>1, <1>2, NoRequestFacts, HandlerStep

\* A statement on the whole table, or a minute that passes: each row follows
\* itself, and no request changes place.
LEMMA RowMapStep ==
    ASSUME AlarmInv, alarms' = [i \in DOMAIN alarms |-> alarms'[i]],
           \A i \in DOMAIN alarms : /\ alarms'[i] \in Row /\ RowConsistent(alarms'[i])
                                    /\ Follows(alarms'[i], alarms[i]),
           req' \in [Users -> Request],
           \A u \in Users : req'[u] = req[u] \/ RequestOk(req[u])',
           UNCHANGED <<plc, poll, audit>>
    PROVE  AlarmInv'
<1>0. /\ TypeOK /\ RowsConsistent /\ alarms \in Seq(Row)
      /\ poll \in [Devices -> Poller]
  BY DEF AlarmInv, TypeOK
<1>1. Len(alarms) \in Nat /\ DOMAIN alarms = 1..Len(alarms)
  BY <1>0
<1>2. DOMAIN alarms' = DOMAIN alarms /\ alarms' \in Seq(Row)
  <2>1. alarms' \in [1..Len(alarms) -> Row]
    BY <1>1
  <2> QED BY <1>1, <2>1
<1>3. Grows
  BY <1>2 DEF Grows
<1>4. TypeOK'
  BY <1>0, <1>2 DEF TypeOK
<1>5. \A i \in DOMAIN alarms' : RowConsistent(alarms[i])'
  BY <1>2 DEF RowConsistent
<1>6. RowsConsistent'
  BY <1>0, <1>3, <1>5, RowsKept
<1>7. DuplicatePart'
  BY <1>0, <1>2, <1>3, DuplicateKept
<1> QED BY <1>0, <1>3, <1>4, <1>6, <1>7, InvStep

\* Listing the alarms un-shelves, and that is all.
LEMMA ListAlarmsStep ==
    ASSUME AlarmInv, ListAlarms
    PROVE  AlarmInv'
<1>1. /\ req \in [Users -> Request]
      /\ \A i \in DOMAIN alarms : alarms[i] \in Row /\ RowConsistent(alarms[i])
      /\ alarms' = [i \in DOMAIN alarms |-> UnshelvedRow(alarms[i])]
      /\ UNCHANGED <<plc, poll, req, audit>>
  BY DEF AlarmInv, TypeOK, RowsConsistent, ListAlarms
<1>2. /\ \A i \in DOMAIN alarms : alarms'[i] = UnshelvedRow(alarms[i])
      /\ alarms' = [i \in DOMAIN alarms |-> alarms'[i]]
  BY <1>1
<1>3. \A i \in DOMAIN alarms : /\ alarms'[i] \in Row /\ RowConsistent(alarms'[i])
                               /\ Follows(alarms'[i], alarms[i])
  BY <1>1, <1>2, UnshelvedRowOk
<1> QED BY <1>1, <1>2, <1>3, RowMapStep

\* A minute nears every expiry, those computed by requests under way too.
LEMMA TickStep ==
    ASSUME AlarmInv, Tick
    PROVE  AlarmInv'
<1>0. /\ req \in [Users -> Request] /\ RequestPart /\ alarms \in Seq(Row)
      /\ alarms' = [i \in DOMAIN alarms |-> AgedRow(alarms[i])]
      /\ req' = [u \in Users |-> AgedRequest(req[u])] /\ UNCHANGED <<plc, poll, audit>>
  BY DEF AlarmInv, TypeOK, Tick
<1>1. \A u \in Users : AgedRequest(req[u]) \in Request /\ RequestOk(AgedRequest(req[u]))
  BY <1>0, AgedRequestOk DEF RequestPart
<1>2. /\ DOMAIN alarms' = DOMAIN alarms
      /\ alarms' = [i \in DOMAIN alarms |-> alarms'[i]]
      /\ \A i \in DOMAIN alarms : /\ alarms'[i] \in Row /\ RowConsistent(alarms'[i])
                                  /\ Follows(alarms'[i], alarms[i])
  <2>1. \A i \in DOMAIN alarms : alarms[i] \in Row /\ RowConsistent(alarms[i])
    BY <1>0 DEF AlarmInv, RowsConsistent
  <2> QED BY <1>0, <2>1, AgedRowOk
<1>3. ASSUME NEW u \in Users PROVE RequestOk(req[u])'
  BY <1>0, <1>1, <1>2 DEF RequestOk, Follows
<1> QED BY <1>0, <1>1, <1>2, <1>3, RowMapStep

\* A crash takes the tasks and the requests, and leaves the tables.
LEMMA CrashStep ==
    ASSUME AlarmInv, Crash
    PROVE  AlarmInv'
<1>0. /\ TypeOK /\ poll' = [d \in Devices |-> NoTask]
      /\ req' = [u \in Users |-> NoRequest] /\ UNCHANGED <<plc, alarms, audit>>
  BY DEF AlarmInv, TypeOK, Crash
<1>1. TypeOK'
  BY <1>0, NoTaskFacts, NoRequestFacts DEF TypeOK
<1>2. Grows
  BY <1>0, SameTable
<1>3. \A d \in Devices : PollerOk(d, poll[d])'
  BY <1>0, NoTaskFacts DEF PollerOk
<1>4. \A u \in Users : RequestOk(req[u])'
  BY <1>0, NoRequestFacts DEF RequestOk
<1>5. RowsConsistent'
  BY <1>0, <1>1, <1>2, RowsKept
<1>6. DuplicatePart'
  BY <1>0, <1>2, NoTaskFacts, DuplicateKept
<1> QED BY <1>1, <1>2, <1>3, <1>4, <1>5, <1>6, InvStep

\* The process value moves.
LEMMA ValueStep ==
    ASSUME AlarmInv, plc' \in [Devices -> [Regs -> Values]],
           UNCHANGED <<poll, alarms, req, audit>>
    PROVE  AlarmInv'
<1>1. TypeOK'
  BY DEF AlarmInv, TypeOK
<1>2. Grows
  BY SameTable
<1>3. RowsConsistent'
  BY <1>2, RowsKept
<1>4. DuplicatePart'
  BY <1>2, DuplicateKept
<1> QED BY <1>1, <1>2, <1>3, <1>4, InvStep

LEMMA PlcChangesStep ==
    ASSUME AlarmInv, NEW d \in Devices, NEW k \in Regs, PlcChanges(d, k)
    PROVE  AlarmInv'
<1>0. plc \in [Devices -> [Regs -> Values]]
  BY DEF AlarmInv, TypeOK
<1>1. PICK v \in Values : plc' = [plc EXCEPT ![d][k] = v]
  BY DEF PlcChanges
<1> DEFINE shown == [plc[d] EXCEPT ![k] = v]
<1>2. shown \in [Regs -> Values] /\ plc' = [plc EXCEPT ![d] = shown]
  BY <1>0, <1>1
<1> HIDE DEF shown
<1>3. plc' \in [Devices -> [Regs -> Values]]
  BY <1>0, <1>2
<1>4. UNCHANGED <<poll, alarms, req, audit>>
  BY <1>0 DEF PlcChanges
<1> QED BY <1>0, <1>3, <1>4, ValueStep

LEMMA AlarmStep == AlarmInv /\ [Next]_vars => AlarmInv'
<1> SUFFICES ASSUME AlarmInv, [Next]_vars PROVE AlarmInv'
  OBVIOUS
<1>0. plc \in [Devices -> [Regs -> Values]]
  BY DEF AlarmInv, TypeOK
<1>1. CASE Tick
  BY <1>1, TickStep
<1>2. CASE UNCHANGED vars
  BY <1>0, <1>2, ValueStep DEF vars
<1>3. ASSUME NEW d \in Devices, Spawn(d) \/ Connect(d) \/ LoseConnection(d) PROVE AlarmInv'
  BY <1>3, GotoStep DEF Spawn, Connect, LoseConnection
<1>4. ASSUME NEW d \in Devices, PollStep(d) PROVE AlarmInv'
  BY <1>4, ReadRegistersStep, CheckStep, RaiseAlarmStep, GetActiveAlarmIdStep, ClearAlarmStep
  DEF PollStep
<1>5. ASSUME NEW u \in Users,
             AckUpdate(u) \/ ShelveUpdate(u) \/ LogAudit(u) \/ RequestEnds(u)
      PROVE  AlarmInv'
  BY <1>5, AckUpdateStep, ShelveUpdateStep, LogAuditStep, RequestEndsStep
<1> QED
  BY <1>1, <1>2, <1>3, <1>4, <1>5, ListAlarmsStep, CrashStep, PlcChangesStep, AbortStep,
     AckSelectStep, ShelveSelectStep
  DEF Next

-----------------------------------------------------------------------------
(* The theorems.                                                           *)

\* The state keeps its type.
THEOREM AlarmsTypeCorrect == Spec => []TypeOK
<1>1. AlarmInv => TypeOK
  BY DEF AlarmInv
<1> QED BY <1>1, AlarmInit, AlarmStep, PTL DEF Spec

\* Whatever the interleaving of pollers, handlers, failing statements and
\* crashes, the columns of a row agree with its state, and an alarm_ack entry
\* of the audit trail is about an alarm that carries a signature.
THEOREM RowsStayConsistent == Spec => []RowsConsistent
<1>1. AlarmInv => RowsConsistent
  BY DEF AlarmInv
<1> QED BY <1>1, AlarmInit, AlarmStep, PTL DEF Spec

\* The check-then-insert of the polling task raises no second alarm for a
\* point whose first it could see, although operators and un-shelving change
\* the rows between the check and the insert.
THEOREM NoVisibleDuplicate == Spec => []NoDuplicateVisible
<1>1. AlarmInv => NoDuplicateVisible
  BY DEF AlarmInv, DuplicatePart, NoDuplicateVisible, Unresolved, IsOf
<1> QED BY <1>1, AlarmInit, AlarmStep, PTL DEF Spec

\* Only clear_alarm clears, and it clears the row of its task.
LEMMA OnlyClearAlarmClears ==
    ASSUME AlarmInv, [Next]_vars, NEW i \in DOMAIN alarms, Clears(i)
    PROVE  \E d \in Devices : ClearAlarm(d) /\ poll[d].id = i
<1>0. /\ alarms \in Seq(Row) /\ alarms[i] \in Row /\ RowConsistent(alarms[i])
      /\ alarms[i].state # "cleared" /\ alarms'[i].state = "cleared"
  BY DEF AlarmInv, TypeOK, RowsConsistent, Clears
<1>1. alarms' # alarms
  BY <1>0
<1>2. ASSUME ListAlarms PROVE FALSE
  <2>1. alarms'[i] = UnshelvedRow(alarms[i])
    BY <1>2 DEF ListAlarms
  <2> QED BY <1>0, <2>1, UnshelvedRowOk
<1>3. ASSUME Tick PROVE FALSE
  <2>1. alarms'[i] = AgedRow(alarms[i])
    BY <1>3 DEF Tick
  <2> QED BY <1>0, <2>1, AgedRowOk
<1>4. ASSUME NEW u \in Users, AckUpdate(u) \/ ShelveUpdate(u) PROVE FALSE
  <2>1. /\ req[u].id \in DOMAIN alarms /\ req[u] \in Request /\ req[u].pc = "update"
        /\ ShelveUpdate(u) => req[u].until # None /\ req[u].until <= MAX_SHELVE_MINUTES
    BY <1>4 DEF AlarmInv, TypeOK, RequestPart, RequestOk, AckUpdate, ShelveUpdate
  <2>2. alarms[req[u].id] \in Row /\ (ShelveUpdate(u) => req[u].until \in MinutesLeft)
    BY <1>0, <2>1 DEF Request
  <2>3. PICK row : /\ alarms' = [alarms EXCEPT ![req[u].id] = row]
                   /\ row.state # "cleared"
    BY <1>4, <2>1, <2>2, AckedRowOk, ShelvedRowOk DEF AckUpdate, ShelveUpdate
  <2> QED BY <1>0, <2>1, <2>3
<1>5. ASSUME NEW d \in Devices, RaiseAlarm(d) PROVE FALSE
  <2>1. PICK row : alarms' = Append(alarms, row) \/ UNCHANGED alarms
    BY <1>5 DEF RaiseAlarm
  <2>2. alarms'[i] = alarms[i]
    BY <1>0, <2>1
  <2> QED BY <1>0, <2>2
<1>6. ASSUME NEW d \in Devices, ClearAlarm(d) PROVE poll[d].id = i
  <2>1. alarms' = [alarms EXCEPT ![poll[d].id] = ClearedRow(@)]
    BY <1>1, <1>6 DEF ClearAlarm
  <2> QED BY <1>0, <2>1
<1>7. PICK d \in Devices : ClearAlarm(d)
  BY <1>1, <1>2, <1>3, <1>4, <1>5
  DEF Next, vars, Crash, PlcChanges, Spawn, Connect, LoseConnection, PollStep,
      ReadRegisters, Check, GetActiveAlarmId, Abort, AckSelect, ShelveSelect, LogAudit,
      RequestEnds
<1> QED BY <1>6, <1>7

\* An alarm is cleared only by the task of its own device, while it looks at
\* the alarm's register, on a value of that cycle that is back in range.
THEOREM OnlySafeValuesClear == Spec => ClearJustified
<1>1. ASSUME AlarmInv, [Next]_vars, NEW i \in DOMAIN alarms, Clears(i)
      PROVE  Justified(i)
  <2>1. PICK d \in Devices : ClearAlarm(d) /\ poll[d].id = i
    BY <1>1, OnlyClearAlarmClears
  <2>2. PollerOk(d, poll[d]) /\ poll[d].pc = "clear"
    BY <1>1, <2>1 DEF AlarmInv, PollPart, ClearAlarm
  <2> QED BY <2>1, <2>2 DEF PollerOk, IsOf, Justified
<1>2. AlarmInv /\ [Next]_vars => [\A i \in DOMAIN alarms : Clears(i) => Justified(i)]_vars
  BY <1>1
<1> QED BY <1>2, AlarmInit, AlarmStep, PTL DEF Spec, ClearJustified
=============================================================================
