---------------------------- MODULE BatchTracking ----------------------------
(***************************************************************************)
(* ISA-88 batch records: the batch part of the polling loop                *)
(* (server/src/protocol.rs) and the batch_records statements of            *)
(* server/src/db.rs.  A task compares the batch state register with the    *)
(* value of the previous poll and opens or closes a record on an edge.     *)
(* `prev` and the batch counter live in the task: they are lost when the   *)
(* task is aborted or the server stops, the records are not.               *)
(*                                                                         *)
(* The PLC is free here: the register may take any code at any time, so    *)
(* what is shown holds for every PLC and every polling rate.               *)
(***************************************************************************)
EXTENDS Integers, Sequences, FiniteSets

CONSTANTS
    Devices,
    Codes,        \* values of the batch state register
    None,
    MaxBatches    \* bound: batch_counter of one task

BATCH_IDLE == 0
BATCH_HEATING == 1
BATCH_COMPLETE == 4

ASSUME CodesAssumption ==
    Codes \subseteq Nat /\ {BATCH_IDLE, BATCH_HEATING, BATCH_COMPLETE} \subseteq Codes
ASSUME BatchNoneAssumption == None \notin Nat
ASSUME BatchBoundAssumption == MaxBatches \in Nat

VARIABLES
    reg,      \* reg[d]: register 1032 of device d
    task,     \* task[d]: the local state of the polling task
    records,  \* the batch_records table, row id = position
    failed    \* history: has a statement returned an error

vars == <<reg, task, records, failed>>

(* batch_id is "BATCH-{device}-{counter}": the pair determines the string. *)
Record == [dev : Devices, n : Nat, status : {"running", "completed", "aborted"}]

Task ==
    [pc : {"down", "wait", "create", "find", "update"},
     prev : Codes \cup {None},     \* prev_batch_state
     counter : Nat,                \* batch_counter
     now : Codes,                  \* batch_state of this poll
     row : Nat]                    \* what get_running_batch found

TypeOK ==
    /\ reg \in [Devices -> Codes]
    /\ task \in [Devices -> Task]
    /\ records \in Seq(Record)
    /\ failed \in BOOLEAN

NoTask ==
    [pc |-> "down", prev |-> None, counter |-> 0, now |-> BATCH_IDLE, row |-> 0]

Init ==
    /\ reg \in [Devices -> Codes]
    /\ task = [d \in Devices |-> NoTask]
    /\ records = <<>>
    /\ failed = FALSE

-----------------------------------------------------------------------------
(* The statements of db.rs.                                                *)

IsRunning(r, d) == r.dev = d /\ r.status = "running"
Running(d) == {i \in DOMAIN records : IsRunning(records[i], d)}
HasId(r, d, n) == r.dev = d /\ r.n = n
IdTaken(d, n) == \E i \in DOMAIN records : HasId(records[i], d, n)

\* ORDER BY id DESC LIMIT 1, 0 for no row
get_running_batch(d) ==
    IF Running(d) = {}
      THEN 0
      ELSE CHOOSE i \in Running(d) : \A j \in Running(d) : j <= i

\* Wrong: no UNIQUE constraint on batch_id.
create_batchNotUnique(d, n) ==
    records' = Append(records, [dev |-> d, n |-> n, status |-> "running"])

\* batch_id is UNIQUE: the INSERT of a taken id fails and changes nothing.
create_batch(d, n) ==
    records' = IF IdTaken(d, n)
                 THEN records
                 ELSE Append(records, [dev |-> d, n |-> n, status |-> "running"])

-----------------------------------------------------------------------------
(* The environment.                                                        *)

PlcChanges(d) ==
    /\ \E c \in Codes \ {reg[d]} : reg' = [reg EXCEPT ![d] = c]
    /\ UNCHANGED <<task, records, failed>>

Spawn(d) ==
    /\ task[d].pc = "down"
    /\ task' = [task EXCEPT ![d] = [NoTask EXCEPT !.pc = "wait"]]
    /\ UNCHANGED <<reg, records, failed>>

\* abort() by a handler, at any await
Abort(d) ==
    /\ task[d].pc # "down"
    /\ task' = [task EXCEPT ![d] = NoTask]
    /\ UNCHANGED <<reg, records, failed>>

\* The server stops; it starts its tasks anew.
Crash ==
    /\ task' = [d \in Devices |-> NoTask]
    /\ UNCHANGED <<reg, records, failed>>

-----------------------------------------------------------------------------
(* One poll: read the register, find the edge, update the table, remember. *)
(* A statement that returns an error is ignored.                           *)

StatementFails == failed' = TRUE /\ UNCHANGED records

\* Wrong: a batch that is stopped in its first phase is not closed.
StepForNoStop(prev, c) ==
    IF prev = BATCH_IDLE /\ c = BATCH_HEATING THEN "create"
    ELSE IF prev # BATCH_COMPLETE /\ c = BATCH_COMPLETE THEN "find"
    ELSE "wait"

\* Wrong: only a batch that was still heating can complete.
StepForNarrow(prev, c) ==
    IF prev = BATCH_IDLE /\ c = BATCH_HEATING THEN "create"
    ELSE IF \/ prev = BATCH_HEATING /\ c = BATCH_COMPLETE
            \/ prev \notin {BATCH_IDLE, BATCH_COMPLETE} /\ c = BATCH_IDLE
         THEN "find"
         ELSE "wait"

\* Which of the three transitions the poll sees; they exclude each other.
StepFor(prev, c) ==
    IF prev = BATCH_IDLE /\ c = BATCH_HEATING THEN "create"
    ELSE IF \/ prev # BATCH_COMPLETE /\ c = BATCH_COMPLETE
            \/ prev \notin {BATCH_IDLE, BATCH_COMPLETE} /\ c = BATCH_IDLE
         THEN "find"
         ELSE "wait"

\* prev_batch_state.unwrap_or(batch_state)
PrevOr(d, c) == IF task[d].prev = None THEN c ELSE task[d].prev

\* The end of the poll: prev_batch_state = Some(batch_state).
Remember(t) == [t EXCEPT !.pc = "wait", !.prev = t.now, !.row = 0]

ReadRegister(d) ==
    LET c == reg[d]
        step == StepFor(PrevOr(d, c), c)
        t == [task[d] EXCEPT !.now = c]
    IN  /\ task[d].pc = "wait"
        /\ task' = [task EXCEPT ![d] =
                      CASE step = "wait" -> Remember(t)
                        [] step = "find" -> [t EXCEPT !.pc = "find"]
                        [] step = "create" ->
                             [t EXCEPT !.pc = "create", !.counter = t.counter + 1]]
        /\ step = "create" => task[d].counter < MaxBatches
        /\ UNCHANGED <<reg, records, failed>>

CreateBatch(d) ==
    /\ task[d].pc = "create"
    /\ \/ create_batch(d, task[d].counter) /\ UNCHANGED failed
       \/ StatementFails
    /\ task' = [task EXCEPT ![d] = Remember(@)]
    /\ UNCHANGED reg

GetRunningBatch(d) ==
    LET i == get_running_batch(d)
    IN  /\ task[d].pc = "find"
        /\ \/ i # 0 /\ task' = [task EXCEPT ![d] =
                                  [@ EXCEPT !.pc = "update", !.row = i]]
              /\ UNCHANGED <<records, failed>>
           \/ i = 0 /\ task' = [task EXCEPT ![d] = Remember(@)]
              /\ UNCHANGED <<records, failed>>
           \/ StatementFails /\ task' = [task EXCEPT ![d] = Remember(@)]
        /\ UNCHANGED reg

\* Wrong: stamps every batch of the device.
update_batch_statusAll(d, i, s) ==
    records' = [j \in DOMAIN records |->
                  IF records[j].dev = d THEN [records[j] EXCEPT !.status = s]
                                        ELSE records[j]]

\* Wrong: stores the name of the register state.
update_batch_statusRaw(d, i, s) ==
    records' = [records EXCEPT ![i] =
                  [@ EXCEPT !.status = IF s = "aborted" THEN "idle" ELSE s]]

\* WHERE batch_id = ?: batch_id is unique, so this is the row that was found.
update_batch_status(d, i, s) ==
    records' = [records EXCEPT ![i] = [@ EXCEPT !.status = s]]

UpdateBatchStatus(d) ==
    /\ task[d].pc = "update"
    /\ \/ /\ update_batch_status(d, task[d].row,
                IF task[d].now = BATCH_COMPLETE THEN "completed" ELSE "aborted")
          /\ UNCHANGED failed
       \/ StatementFails
    /\ task' = [task EXCEPT ![d] = Remember(@)]
    /\ UNCHANGED reg

-----------------------------------------------------------------------------
PollStep(d) ==
    \/ ReadRegister(d) \/ CreateBatch(d)
    \/ GetRunningBatch(d) \/ UpdateBatchStatus(d)

Next ==
    \/ Crash
    \/ \E d \in Devices :
         PlcChanges(d) \/ Spawn(d) \/ Abort(d) \/ PollStep(d)

Spec == Init /\ [][Next]_vars

(* The polling timer fires again and again.                                *)
FairSpec == Spec /\ \A d \in Devices : WF_vars(PollStep(d))

-----------------------------------------------------------------------------
(* Properties.                                                             *)

\* At most one batch of a device is running.  Nothing checks this when a
\* record is opened, and `prev` and the counter are lost on a restart: it
\* holds because a restarted counter collides with the UNIQUE id of the first
\* batch, and because a counter that is past 1 was followed by a close.  It
\* lasts until a statement fails.
AtMostOneRunning ==
    ~failed => \A d \in Devices : \A i, j \in Running(d) : i = j

\* A batch that is completed or aborted is never touched again.
TerminalIsFinal ==
    [][\A i \in DOMAIN records :
          records[i].status # "running" => records'[i] = records[i]]_vars

\* While the register says complete and the task saw another state before,
\* the running batch gets closed (no errors, the task is left alone).
SawOther(d) == task[d].prev \notin {None, BATCH_COMPLETE}
Completing(d) == reg[d] = BATCH_COMPLETE /\ task[d].pc # "down" /\ SawOther(d)
Undisturbed(d) == reg[d] = BATCH_COMPLETE /\ task[d].pc # "down"

CompletionCloses ==
    \A d \in Devices :
        [](Completing(d) => <>(~Undisturbed(d) \/ Running(d) = {} \/ failed))

(* The inductive strengthening of AtMostOneRunning.                        *)

\* What each task knows about its own local state.
TaskInv(d) ==
    /\ task[d].pc \in {"create", "find", "update"} => task[d].prev # None
    /\ task[d].pc = "create" => task[d].counter >= 1 /\ task[d].now = BATCH_HEATING
    /\ task[d].pc \in {"find", "update"} =>
          task[d].now \in {BATCH_IDLE, BATCH_COMPLETE}
    /\ task[d].pc = "update" => task[d].row \in Running(d)
    /\ task[d].prev = None => task[d].counter = 0

\* How the task and the table are related while no statement fails.
TableInv(d) ==
    /\ \A i \in DOMAIN records : records[i].dev = d => IdTaken(d, 1)
    /\ task[d].counter >= 1 /\ ~(task[d].pc = "create" /\ task[d].counter = 1)
          => IdTaken(d, 1)
    /\ \A i, j \in Running(d) : i = j
    /\ (/\ task[d].counter >= 1 /\ task[d].pc = "wait"
        /\ task[d].prev \in {BATCH_IDLE, BATCH_COMPLETE})
          => Running(d) = {}
    /\ task[d].pc = "create" /\ task[d].counter >= 2 => Running(d) = {}

\* Holds in every reachable state, and every step preserves it: the batch a
\* task is about to close is running, the first id of a device with records
\* is taken, and a task that counted a batch and is back at idle or complete
\* has closed it.
BatchInv ==
    /\ TypeOK
    /\ \A d \in Devices : TaskInv(d) /\ (~failed => TableInv(d))

(* What a comment says, and the code does not do.                          *)

\* protocol.rs:196 "Transition: IDLE -> HEATING = new batch started": each
\* start that a poll sees is recorded, unless the statement fails for a reason
\* outside the program.
StartIsRecorded ==
    [][\A d \in Devices :
          task[d].pc = "create" /\ task'[d].pc = "wait"
             => Len(records') = Len(records) + 1 \/ failed']_vars
=============================================================================
