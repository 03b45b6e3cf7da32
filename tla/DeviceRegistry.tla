--------------------------- MODULE DeviceRegistry ---------------------------
(***************************************************************************)
(* The device registry (server/src/state.rs), the handlers that use it     *)
(* (add, remove, disconnect, connect and the sending part of write, of     *)
(* server/src/routes.rs), the devices table that outlives the server       *)
(* (server/src/db.rs) and the start-up of server/src/main.rs.              *)
(*                                                                         *)
(* The registry is behind a tokio RwLock, which hands itself out in the    *)
(* order of the queue.  add and connect look under the read lock, let it   *)
(* go, spawn a polling task and queue for the write lock; remove keeps the *)
(* write lock while it deletes the table row, write keeps the read lock    *)
(* while it waits for room in the channel of the device.  A JoinHandle     *)
(* that is overwritten or dropped detaches its task, which then polls on   *)
(* with nobody holding it.                                                 *)
(***************************************************************************)
EXTENDS Integers, Sequences, FiniteSets

CONSTANTS
    Devices,
    Configs,    \* what config.toml may list at a start: sequences of devices
    Handlers,   \* concurrent requests
    MayHangUp,  \* may a client hang up, so that its handler is dropped
    None,
    MaxTasks    \* bound: requests that may spawn a task come in below it

ASSUME RegistryAssumption ==
    /\ Configs \subseteq Seq(Devices)
    /\ MayHangUp \in BOOLEAN
    /\ MaxTasks \in Nat

VARIABLES
    config,    \* the list of config.toml that the server has started with
    registry,  \* registry[d]: the task of the handle of d, 0 for no entry
    tasks,     \* the tasks spawned since the server started, in order
    saved,     \* the devices table
    queue,     \* the handlers that wait for the lock, first come first
    req,       \* req[h]: the request that handler h works on
    serial,    \* history: the devices that config names at most once and of
               \* which, since the start, no requests overlapped or hung up
    failed     \* history: the devices about which a statement on the table
               \* has failed since the start

vars == <<config, registry, tasks, saved, queue, req, serial, failed>>

TaskRec == [dev : Devices, state : {"running", "aborted", "finished"}]

\* The requests that wait for the lock: to look (add, connect, write) or to
\* change (remove, disconnect; insert and update are the second wait of add
\* and connect).
Ops == {"add", "remove", "disconnect", "connect", "write"}
Waiting == Ops \cup {"insert", "update"}

Request ==
    [pc : {"idle", "save", "delete", "send"} \cup Waiting,
     dev : Devices \cup {None}, task : Nat]

\* Who is queued waits, in one place.
QueueOk ==
    /\ queue \in Seq(Handlers)
    /\ \A i \in DOMAIN queue : req[queue[i]].pc \in Waiting
    /\ \A i, j \in DOMAIN queue : queue[i] = queue[j] => i = j

TypeOK ==
    /\ config \in Seq(Devices)
    /\ registry \in [Devices -> Nat]
    /\ tasks \in Seq(TaskRec)
    /\ \A d \in Devices : registry[d] # 0 => registry[d] \in DOMAIN tasks
    /\ saved \subseteq Devices
    /\ req \in [Handlers -> Request]
    /\ QueueOk
    /\ serial \subseteq Devices
    /\ failed \subseteq Devices

NoRequest == [pc |-> "idle", dev |-> None, task |-> 0]

Running(d) == {t \in DOMAIN tasks : tasks[t].dev = d /\ tasks[t].state = "running"}

\* JoinHandle::is_finished is true only once the aborted task has stopped.
Finished(t) == tasks[t].state = "finished"

\* Connected and disconnected, as connect_device and disconnect_device see it.
Polled(d) == registry[d] # 0 /\ ~Finished(registry[d])
Stopped(d) == registry[d] # 0 /\ Finished(registry[d])

Aborted(t) == [tasks EXCEPT ![t].state = IF @ = "running" THEN "aborted" ELSE @]

-----------------------------------------------------------------------------
(* Start-up: the devices of config.toml, then the rows of the table that   *)
(* are not registered yet.  Nobody sends requests before it is over.       *)

Named(c) == {c[i] : i \in DOMAIN c}
NamedOnce(c) == {d \in Devices : \A i, j \in DOMAIN c : c[i] = d /\ c[j] = d => i = j}

\* A running task per entry of the list, even for a device it names twice,
\* and one per further row, in any order.
StartTasks(c, rows) ==
    LET rest == rows \ Named(c)
        n == Cardinality(rest)
        order == CHOOSE f \in [1..n -> rest] : \A d \in rest : \E i \in 1..n : f[i] = d
    IN  [i \in 1..(Len(c) + n) |->
           [dev |-> IF i <= Len(c) THEN c[i] ELSE order[i - Len(c)],
            state |-> "running"]]

\* insert replaces: the last task of the device.
Registered(ts) ==
    [d \in Devices |->
       IF \E i \in DOMAIN ts : ts[i].dev = d
         THEN CHOOSE i \in DOMAIN ts :
                ts[i].dev = d /\ \A j \in DOMAIN ts : ts[j].dev = d => j <= i
         ELSE 0]

\* load_devices turns an error into an empty list.
LoadedRows == {saved, {}}
NotLoaded(c, rows) == saved \ (rows \cup Named(c))

Init ==
    /\ saved \in {s \in SUBSET Devices : IsFiniteSet(s)}
    /\ \E c \in Configs, rows \in LoadedRows :
         /\ config = c
         /\ tasks = StartTasks(c, rows)
         /\ serial = NamedOnce(c)
         /\ failed = NotLoaded(c, rows)
    /\ registry = Registered(tasks)
    /\ req = [h \in Handlers |-> NoRequest]
    /\ queue = <<>>

\* The server stops at any point and starts again, perhaps with another list.
Restart ==
    /\ \E c \in Configs, rows \in LoadedRows :
         /\ config' = c
         /\ tasks' = StartTasks(c, rows)
         /\ serial' = NamedOnce(c)
         /\ failed' = NotLoaded(c, rows)
    /\ registry' = Registered(tasks')
    /\ req' = [h \in Handlers |-> NoRequest]
    /\ queue' = <<>>
    /\ UNCHANGED saved

-----------------------------------------------------------------------------
(* The lock.  Between steps it is kept by a remove that deletes its row    *)
(* and by the writes that wait for room in a channel.                      *)

Writers == {h \in Handlers : req[h].pc = "delete"}

\* Wrong: add and connect keep their read guard while they wait to write.
ReadersKeepGuard == {h \in Handlers : req[h].pc \in {"send", "insert", "update"}}

Readers == {h \in Handlers : req[h].pc = "send"}

Turn(h) == queue # <<>> /\ Head(queue) = h
MayRead(h) == Turn(h) /\ Writers = {}
MayWrite(h) == Turn(h) /\ Writers = {} /\ Readers = {}

Spawn(d) == tasks' = Append(tasks, [dev |-> d, state |-> "running"])

\* The runtime drops an aborted task at its next await.
TaskStops(t) ==
    /\ tasks[t].state = "aborted"
    /\ tasks' = [tasks EXCEPT ![t].state = "finished"]
    /\ UNCHANGED <<config, registry, saved, queue, req, serial, failed>>

\* Request h may change the entry or the row of d.
Changes(h, d) == req[h].dev = d /\ req[h].pc \notin {"idle", "write", "send"}

MayCome(op) ==
    op \in {"add", "connect"} =>
        Len(tasks) + Cardinality({g \in Handlers : req[g].pc \in {"add", "connect"}})
          < MaxTasks

\* A request comes in.  Does it overlap with another one about its device?
Arrive(h, d, op) ==
    /\ req[h].pc = "idle" /\ MayCome(op)
    /\ req' = [req EXCEPT ![h] = [pc |-> op, dev |-> d, task |-> 0]]
    /\ queue' = Append(queue, h)
    /\ serial' = IF op # "write" /\ \E g \in Handlers : Changes(g, d)
                   THEN serial \ {d} ELSE serial
    /\ UNCHANGED <<config, registry, tasks, saved, failed>>

\* The lock is there and the request is turned down: the device is there
\* already, or not, or its task is in the wrong state; or the protocol is not
\* supported (add), the register not writable (write).
Refuse(h) ==
    LET d == req[h].dev
    IN  /\ \/ req[h].pc \in {"add", "write"} /\ MayRead(h)
           \/ req[h].pc = "connect" /\ MayRead(h) /\ ~Stopped(d)
           \/ req[h].pc = "remove" /\ MayWrite(h) /\ registry[d] = 0
           \/ req[h].pc = "disconnect" /\ MayWrite(h) /\ ~Polled(d)
        /\ req' = [req EXCEPT ![h] = NoRequest]
        /\ queue' = Tail(queue)
        /\ UNCHANGED <<config, registry, tasks, saved, serial, failed>>

(* add_device.                                                             *)

\* Wrong: no check for a device that is there already.
AddCheckBlind(h) ==
    /\ req[h].pc = "add" /\ MayRead(h)
    /\ Spawn(req[h].dev)
    /\ req' = [req EXCEPT ![h].pc = "insert", ![h].task = Len(tasks) + 1]
    /\ queue' = Append(Tail(queue), h)
    /\ UNCHANGED <<config, registry, saved, serial, failed>>

\* Under the read lock: is it there?  Then, unlocked, spawn the task.
AddCheck(h) ==
    /\ req[h].pc = "add" /\ MayRead(h)
    /\ registry[req[h].dev] = 0
    /\ Spawn(req[h].dev)
    /\ req' = [req EXCEPT ![h].pc = "insert", ![h].task = Len(tasks) + 1]
    /\ queue' = Append(Tail(queue), h)
    /\ UNCHANGED <<config, registry, saved, serial, failed>>

\* Wrong: does not go on to save.
AddInsertNoSave(h) ==
    /\ req[h].pc = "insert" /\ MayWrite(h)
    /\ registry' = [registry EXCEPT ![req[h].dev] = req[h].task]
    /\ req' = [req EXCEPT ![h] = NoRequest]
    /\ queue' = Tail(queue)
    /\ UNCHANGED <<config, tasks, saved, serial, failed>>

\* Under the write lock: insert, replacing what is there by now.
AddInsert(h) ==
    /\ req[h].pc = "insert" /\ MayWrite(h)
    /\ registry' = [registry EXCEPT ![req[h].dev] = req[h].task]
    /\ req' = [req EXCEPT ![h].pc = "save"]
    /\ queue' = Tail(queue)
    /\ UNCHANGED <<config, tasks, saved, serial, failed>>

\* save_device, INSERT OR REPLACE; an error is ignored.
AddSave(h) ==
    /\ req[h].pc = "save"
    /\ \/ saved' = saved \cup {req[h].dev} /\ UNCHANGED failed
       \/ failed' = failed \cup {req[h].dev} /\ UNCHANGED saved
    /\ req' = [req EXCEPT ![h] = NoRequest]
    /\ UNCHANGED <<config, registry, tasks, queue, serial>>

(* remove_device.                                                          *)

\* Wrong: forgets to abort.
RemoveEntryNoAbort(h) ==
    /\ req[h].pc = "remove" /\ MayWrite(h)
    /\ registry[req[h].dev] # 0
    /\ registry' = [registry EXCEPT ![req[h].dev] = 0]
    /\ req' = [req EXCEPT ![h].pc = "delete"]
    /\ queue' = Tail(queue)
    /\ UNCHANGED <<config, tasks, saved, serial, failed>>

\* Take the write lock, remove the entry, abort its task.
RemoveEntry(h) ==
    /\ req[h].pc = "remove" /\ MayWrite(h)
    /\ registry[req[h].dev] # 0
    /\ registry' = [registry EXCEPT ![req[h].dev] = 0]
    /\ tasks' = Aborted(registry[req[h].dev])
    /\ req' = [req EXCEPT ![h].pc = "delete"]
    /\ queue' = Tail(queue)
    /\ UNCHANGED <<config, saved, serial, failed>>

\* delete_device, an error is ignored; then the lock is let go.
RemoveRow(h) ==
    /\ req[h].pc = "delete"
    /\ \/ saved' = saved \ {req[h].dev} /\ UNCHANGED failed
       \/ failed' = failed \cup {req[h].dev} /\ UNCHANGED saved
    /\ req' = [req EXCEPT ![h] = NoRequest]
    /\ UNCHANGED <<config, registry, tasks, queue, serial>>

(* disconnect_device: one critical section.                                *)
Disconnect(h) ==
    /\ req[h].pc = "disconnect" /\ MayWrite(h)
    /\ Polled(req[h].dev)
    /\ tasks' = Aborted(registry[req[h].dev])
    /\ req' = [req EXCEPT ![h] = NoRequest]
    /\ queue' = Tail(queue)
    /\ UNCHANGED <<config, registry, saved, serial, failed>>

(* connect_device.                                                         *)

\* Under the read lock: there, and its task has finished?  Then spawn.
ConnectCheck(h) ==
    /\ req[h].pc = "connect" /\ MayRead(h)
    /\ Stopped(req[h].dev)
    /\ Spawn(req[h].dev)
    /\ req' = [req EXCEPT ![h].pc = "update", ![h].task = Len(tasks) + 1]
    /\ queue' = Append(Tail(queue), h)
    /\ UNCHANGED <<config, registry, saved, serial, failed>>

\* Under the write lock: store the new task if the entry is still there.
ConnectUpdate(h) ==
    LET d == req[h].dev
    IN  /\ req[h].pc = "update" /\ MayWrite(h)
        /\ registry' = [registry EXCEPT ![d] = IF @ # 0 THEN req[h].task ELSE 0]
        /\ req' = [req EXCEPT ![h] = NoRequest]
        /\ queue' = Tail(queue)
        /\ UNCHANGED <<config, tasks, saved, serial, failed>>

(* post_write: what it does with the lock (WritePath has the rest).        *)

\* Take the read lock, find the channel and start to send.
WriteLookup(h) ==
    /\ req[h].pc = "write" /\ MayRead(h)
    /\ registry[req[h].dev] # 0
    /\ req' = [req EXCEPT ![h].pc = "send"]
    /\ queue' = Tail(queue)
    /\ UNCHANGED <<config, registry, tasks, saved, serial, failed>>

\* There is room, or the task is gone and the channel closed; then the guard
\* is dropped.  Nothing says when.
WriteSent(h) ==
    /\ req[h].pc = "send"
    /\ req' = [req EXCEPT ![h] = NoRequest]
    /\ UNCHANGED <<config, registry, tasks, saved, queue, serial, failed>>

-----------------------------------------------------------------------------
\* A handler that is dropped gives up its place in the queue.
LeavesQueue(h) ==
    \/ /\ \A i \in DOMAIN queue : queue[i] # h
       /\ UNCHANGED queue
    \/ \E i \in DOMAIN queue :
         /\ queue[i] = h
         /\ queue' = SubSeq(queue, 1, i - 1) \o SubSeq(queue, i + 1, Len(queue))

\* Wrong: a dropped handler is still waited for.
HangUpKeepsPlace(h) ==
    /\ MayHangUp
    /\ req[h].pc # "idle"
    /\ req' = [req EXCEPT ![h] = NoRequest]
    /\ serial' = serial \ {d \in Devices : Changes(h, d)}
    /\ UNCHANGED <<config, registry, tasks, saved, queue, failed>>

\* The client hangs up and the handler is dropped where it waits; dropping a
\* JoinHandle does not stop the task, dropping a guard frees the lock.
HangUp(h) ==
    /\ MayHangUp
    /\ req[h].pc # "idle"
    /\ req' = [req EXCEPT ![h] = NoRequest]
    /\ LeavesQueue(h)
    /\ serial' = serial \ {d \in Devices : Changes(h, d)}
    /\ UNCHANGED <<config, registry, tasks, saved, failed>>

-----------------------------------------------------------------------------
Continue(h) ==
    \/ Refuse(h) \/ AddCheck(h) \/ AddInsert(h) \/ AddSave(h)
    \/ RemoveEntry(h) \/ RemoveRow(h) \/ Disconnect(h)
    \/ ConnectCheck(h) \/ ConnectUpdate(h) \/ WriteLookup(h)

Next ==
    \/ Restart
    \/ \E t \in DOMAIN tasks : TaskStops(t)
    \/ \E h \in Handlers :
         \/ \E d \in Devices, op \in Ops : Arrive(h, d, op)
         \/ Continue(h) \/ WriteSent(h) \/ HangUp(h)

Spec == Init /\ [][Next]_vars

(* The runtime goes on with a handler that has been given the lock or has  *)
(* the answer of the database.  Nothing obliges a polling task to make     *)
(* room in its channel.                                                    *)
FairSpec == Spec /\ \A h \in Handlers : WF_vars(Continue(h))

-----------------------------------------------------------------------------
(* Properties.                                                             *)

\* No device is polled by two tasks as long as the requests about it come one
\* at a time and config.toml names it once: an aborted task that has not
\* stopped yet holds back connect, and start-up skips what is registered.
\* What happens to other devices meanwhile does not matter.
OnePollerIfSerial == \A d \in serial : Cardinality(Running(d)) <= 1

Settled(d) == d \in serial /\ \A h \in Handlers : ~Changes(h, d)

\* Every running task belongs to the entry of its device: overwriting or
\* dropping a handle leaves no task behind that disconnect and remove cannot
\* reach.
NoOrphan(d) == \A t \in Running(d) : registry[d] = t

\* db.rs:165 "Remove a runtime-added device from the database": a device of
\* the table is registered, so that a removed device does not come back with
\* the next start.
NoGhost(d) == d \in saved => registry[d] # 0

\* When the requests about a device come one at a time, tasks and registry
\* agree once they are over, and so does the table unless a statement about
\* the device has failed: the one that loads the table at the start, or one
\* that saves or deletes.
AgreeIfSerial ==
    \A d \in Devices : Settled(d) => NoOrphan(d) /\ (d \notin failed => NoGhost(d))

\* routes.rs:124 "Persist to DB (survives restart)": under the same condition
\* a device that the server polls comes back with the next start, because it
\* is in the table or in the list of config.toml.
AddedSurvive ==
    \A d \in Devices :
        Settled(d) /\ d \notin failed /\ registry[d] # 0 =>
            d \in saved \cup Named(config)

\* No request waits for ever for the lock, even if requests overlap and hang
\* up, provided that no write waits for ever for room in the channel of its
\* device: it would do so with the read lock held.
RequestsFinish ==
    (\A h \in Handlers : []<>(req[h].pc # "send")) =>
        \A h \in Handlers : req[h].pc # "idle" ~> req[h].pc = "idle"
=============================================================================
