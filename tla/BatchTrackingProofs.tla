------------------------ MODULE BatchTrackingProofs ------------------------
(***************************************************************************)
(* Proofs about BatchTracking for any set of devices, any register codes,  *)
(* any PLC and any number of batches, restarts and database errors.        *)
(***************************************************************************)
EXTENDS BatchTracking, WellFoundedInduction, TLAPS

\* What Append does to the table.
LEMMA AppendRow ==
    ASSUME NEW s \in Seq(Record), NEW r \in Record
    PROVE  /\ Append(s, r) \in Seq(Record)
           /\ DOMAIN Append(s, r) = DOMAIN s \cup {Len(s) + 1}
           /\ Len(s) + 1 \notin DOMAIN s
           /\ \A i \in DOMAIN s : Append(s, r)[i] = s[i]
           /\ Append(s, r)[Len(s) + 1] = r
  OBVIOUS

\* What an update of one row's status does to the table.
LEMMA UpdateRow ==
    ASSUME NEW s \in Seq(Record), NEW i \in DOMAIN s,
           NEW st \in {"running", "completed", "aborted"},
           NEW t, t = [s EXCEPT ![i] = [@ EXCEPT !.status = st]]
    PROVE  /\ t \in Seq(Record)
           /\ DOMAIN t = DOMAIN s
           /\ \A j \in DOMAIN s \ {i} : t[j] = s[j]
           /\ t[i].dev = s[i].dev /\ t[i].n = s[i].n /\ t[i].status = st
  <1>1. s[i] \in Record  OBVIOUS
  <1>2. [s[i] EXCEPT !.status = st] \in Record  BY <1>1 DEF Record
  <1>3. t \in Seq(Record)  BY <1>2
  <1> QED  BY <1>1, <1>2, <1>3 DEF Record

\* A nonempty set of positions of a finite sequence has a greatest element.
LEMMA GreatestPosition ==
    ASSUME NEW n \in Nat, NEW S \in SUBSET (1..n), S # {}
    PROVE  \E m \in S : \A j \in S : j <= m
  <1> DEFINE T == {k \in Nat : \E i \in S : k = n - i}
             less == OpToRel(<, Nat)
  <1>1. T \subseteq Nat /\ T # {}
    <2>1. PICK i \in S : TRUE  OBVIOUS
    <2>2. n - i \in T  BY <2>1
    <2> QED  BY <2>2
  <1>2. PICK k \in T : \A y \in T : ~(<<y, k>> \in less)
    <2> HIDE DEF T, less
    <2>1. IsWellFoundedOn(less, Nat)  BY NatLessThanWellFounded DEF less
    <2> QED  BY <1>1, <2>1, WFMin
  <1>3. \A y \in T : ~(y < k)  BY <1>1, <1>2 DEF OpToRel
  <1>4. PICK m \in S : k = n - m  OBVIOUS
  <1>5. ASSUME NEW j \in S PROVE j <= m
    <2>1. n - j \in T  OBVIOUS
    <2>2. ~(n - j < n - m)  BY <2>1, <1>3, <1>4
    <2> QED  BY <2>2
  <1> QED  BY <1>4, <1>5

\* get_running_batch returns a running row of the device, or 0 if there is
\* none.
LEMMA GetRunning ==
    ASSUME NEW d \in Devices, records \in Seq(Record)
    PROVE  IF Running(d) = {} THEN get_running_batch(d) = 0
                              ELSE get_running_batch(d) \in Running(d)
  <1>1. CASE Running(d) = {}  BY <1>1 DEF get_running_batch
  <1>2. CASE Running(d) # {}
    <2>1. Len(records) \in Nat /\ Running(d) \in SUBSET (1..Len(records))
      BY DEF Running
    <2>2. \E m \in Running(d) : \A j \in Running(d) : j <= m
      BY <1>2, <2>1, GreatestPosition
    <2>3. get_running_batch(d) \in Running(d)
      BY <1>2, <2>2 DEF get_running_batch
    <2> QED  BY <1>2, <2>3
  <1> QED  BY <1>1, <1>2

-----------------------------------------------------------------------------
(* The facts of one device depend only on its task and on the table.       *)

\* If neither the table nor the task of e changes, its facts stay.
LEMMA Untouched ==
    ASSUME NEW e \in Devices, TaskInv(e), ~failed => TableInv(e),
           records' = records, task'[e] = task[e], ~failed' => ~failed
    PROVE  TaskInv(e)' /\ (~failed' => TableInv(e)')
  <1>1. Running(e)' = Running(e)  BY DEF Running, IsRunning
  <1>2. IdTaken(e, 1)' <=> IdTaken(e, 1)  BY DEF IdTaken, HasId
  <1> QED  BY <1>1, <1>2 DEF TaskInv, TableInv

\* A row of device d was appended or updated: the facts of e # d stay.
LEMMA OtherDevice ==
    ASSUME NEW d \in Devices, NEW e \in Devices, e # d,
           TaskInv(e), ~failed => TableInv(e), task'[e] = task[e],
           ~failed' => ~failed,
           DOMAIN records \subseteq DOMAIN records',
           \A i \in DOMAIN records :
              records'[i] = records[i] \/ (records[i].dev = d /\ records'[i].dev = d),
           \A i \in DOMAIN records' \ DOMAIN records : records'[i].dev = d
    PROVE  TaskInv(e)' /\ (~failed' => TableInv(e)')
  <1>1. Running(e)' = Running(e)  BY DEF Running, IsRunning
  <1>2. IdTaken(e, 1)' <=> IdTaken(e, 1)  BY DEF IdTaken, HasId
  <1>3. \A i \in DOMAIN records' : records'[i].dev = e =>
           i \in DOMAIN records /\ records[i].dev = e
    OBVIOUS
  <1> QED  BY <1>1, <1>2, <1>3 DEF TaskInv, TableInv

\* Facts of the task that holds no batch work: prev, counter, now are typed.
LEMMA RememberFacts ==
    ASSUME NEW t \in Task
    PROVE  /\ Remember(t) \in Task
           /\ Remember(t).pc = "wait"
           /\ Remember(t).prev = t.now
           /\ Remember(t).counter = t.counter
  BY DEF Remember, Task

\* The task that is about to open a record has counted it.
LEMMA CountFacts ==
    ASSUME NEW t \in Task,
           NEW u, u = [t EXCEPT !.pc = "create", !.counter = t.counter + 1]
    PROVE  /\ u \in Task
           /\ u.pc = "create"
           /\ u.counter = t.counter + 1
           /\ u.prev = t.prev /\ u.now = t.now
  <1>1. t.counter + 1 \in Nat  BY DEF Task
  <1> QED  BY <1>1 DEF Task

\* A device that is not polled has a well-formed task record.
LEMMA NoTaskTyped == NoTask \in Task
  BY CodesAssumption DEF NoTask, Task, BATCH_IDLE

\* A device whose task is gone has no task facts to keep, only table facts.
LEMMA Stopped ==
    ASSUME NEW d \in Devices, ~failed => TableInv(d),
           records' = records, ~failed' => ~failed,
           task'[d] = NoTask \/ task'[d] = [NoTask EXCEPT !.pc = "wait"]
    PROVE  TaskInv(d)' /\ (~failed' => TableInv(d)')
  <1>1. Running(d)' = Running(d)  BY DEF Running, IsRunning
  <1>2. IdTaken(d, 1)' <=> IdTaken(d, 1)  BY DEF IdTaken, HasId
  <1>3. task'[d].counter = 0 /\ task'[d].prev = None /\ task'[d].pc \in {"down", "wait"}
    BY DEF NoTask
  <1>4. TaskInv(d)'  BY <1>3 DEF TaskInv
  <1>5. ~failed' => TableInv(d)'  BY <1>1, <1>2, <1>3 DEF TableInv
  <1> QED  BY <1>4, <1>5

-----------------------------------------------------------------------------
(* One lemma per action that touches the task of d or the table.           *)

\* Reading the batch state register keeps the invariant.
LEMMA ReadPreserves ==
    ASSUME BatchInv, NEW d \in Devices, ReadRegister(d)
    PROVE  BatchInv'
  <1> DEFINE c == reg[d]
             prev == PrevOr(d, c)
             t == [task[d] EXCEPT !.now = c]
  <1>1. task[d] \in Task /\ c \in Codes /\ records \in Seq(Record)
        /\ task \in [Devices -> Task] /\ reg \in [Devices -> Codes]
    BY DEF BatchInv, TypeOK
  <1>0. failed \in BOOLEAN  BY DEF BatchInv, TypeOK
  <1>2. t \in Task /\ t.now = c /\ t.counter = task[d].counter
        /\ t.prev = task[d].prev
    BY <1>1 DEF Task
  <1>3. task[d].pc = "wait" /\ records' = records /\ reg' = reg /\ failed' = failed
    BY DEF ReadRegister
  <1>4. TaskInv(d) /\ (~failed => TableInv(d))  BY DEF BatchInv
  <1>5. Running(d)' = Running(d)  BY <1>3 DEF Running, IsRunning
  <1>6. IdTaken(d, 1)' <=> IdTaken(d, 1)  BY <1>3 DEF IdTaken, HasId
  <1>7. None \notin Codes  BY CodesAssumption, BatchNoneAssumption
  <1>8. /\ task' \in [Devices -> Task]
        /\ TaskInv(d)' /\ (~failed' => TableInv(d)')
        /\ \A e \in Devices \ {d} : task'[e] = task[e]
    <2>1. CASE StepFor(prev, c) = "wait"
      <3>1. task' = [task EXCEPT ![d] = Remember(t)]
        BY <2>1 DEF ReadRegister
      <3>2. Remember(t) \in Task /\ Remember(t).pc = "wait"
            /\ Remember(t).prev = c /\ Remember(t).counter = task[d].counter
        BY <1>2, RememberFacts
      <3>3. task'[d] = Remember(t)  BY <1>1, <3>1
      <3>4. TaskInv(d)'  BY <3>2, <3>3, <1>1, <1>7 DEF TaskInv
      <3>5. task[d].counter >= 1 /\ c \in {BATCH_IDLE, BATCH_COMPLETE} =>
               task[d].prev \in {BATCH_IDLE, BATCH_COMPLETE}
        <4> SUFFICES ASSUME task[d].counter >= 1,
                            c \in {BATCH_IDLE, BATCH_COMPLETE}
                     PROVE  task[d].prev \in {BATCH_IDLE, BATCH_COMPLETE}
          OBVIOUS
        <4>1. task[d].prev # None  BY <1>1, <1>4 DEF TaskInv, Task
        <4>2. prev = task[d].prev  BY <4>1 DEF PrevOr
        <4> QED
          BY <2>1, <4>2 DEF StepFor, BATCH_IDLE, BATCH_HEATING, BATCH_COMPLETE
      <3>6. ~failed' => TableInv(d)'
        BY <1>3, <1>4, <1>5, <1>6, <3>2, <3>3, <3>5 DEF TableInv
      <3> QED  BY <1>1, <3>1, <3>2, <3>4, <3>6
    <2>2. CASE StepFor(prev, c) = "find"
      <3>1. task' = [task EXCEPT ![d] = [t EXCEPT !.pc = "find"]]
        BY <2>2 DEF ReadRegister
      <3>2. [t EXCEPT !.pc = "find"] \in Task
        BY <1>2 DEF Task
      <3>3. task'[d] = [t EXCEPT !.pc = "find"]  BY <1>1, <3>1
      <3>4. task'[d].pc = "find" /\ task'[d].now = c
            /\ task'[d].counter = task[d].counter /\ task'[d].prev = task[d].prev
        BY <1>2, <3>3 DEF Task
      <3>5. c \in {BATCH_IDLE, BATCH_COMPLETE} /\ prev # c
        BY <2>2 DEF StepFor, BATCH_IDLE, BATCH_HEATING, BATCH_COMPLETE
      <3>6. task[d].prev # None  BY <3>5 DEF PrevOr
      <3>7. TaskInv(d)'  BY <3>4, <3>5, <3>6, <1>4 DEF TaskInv
      <3>8. ~failed' => TableInv(d)'
        BY <1>3, <1>4, <1>5, <1>6, <3>4 DEF TableInv
      <3> QED  BY <1>1, <3>1, <3>2, <3>7, <3>8
    <2>3. CASE StepFor(prev, c) = "create"
      <3> DEFINE u == [t EXCEPT !.pc = "create", !.counter = t.counter + 1]
      <3>1. task' = [task EXCEPT ![d] = u]
        BY <2>3 DEF ReadRegister
      <3>2. u \in Task /\ u.pc = "create" /\ u.counter = task[d].counter + 1
            /\ u.prev = task[d].prev /\ u.now = c
        BY <1>2, CountFacts
      <3>3. task'[d] = u  BY <1>1, <3>1
      <3>4. prev = BATCH_IDLE /\ c = BATCH_HEATING
        BY <2>3 DEF StepFor, BATCH_IDLE, BATCH_HEATING, BATCH_COMPLETE
      <3>5. task[d].prev = BATCH_IDLE
        BY <3>4 DEF PrevOr, BATCH_IDLE, BATCH_HEATING
      <3>6. task[d].prev # None
        BY <3>5, BatchNoneAssumption DEF BATCH_IDLE
      <3>7. task[d].counter \in Nat  BY <1>1 DEF Task
      <3> HIDE DEF u
      <3>8. TaskInv(d)'  BY <3>2, <3>3, <3>4, <3>6, <3>7 DEF TaskInv
      <3>9. ~failed' => TableInv(d)'
        BY <1>3, <1>4, <1>5, <1>6, <3>2, <3>3, <3>5, <3>7 DEF TableInv
      <3> QED  BY <1>1, <3>1, <3>2, <3>8, <3>9
    <2> QED  BY <2>1, <2>2, <2>3 DEF StepFor
  <1>9. ASSUME NEW e \in Devices \ {d}
        PROVE  TaskInv(e)' /\ (~failed' => TableInv(e)')
    BY <1>3, <1>8, Untouched DEF BatchInv
  <1> QED  BY <1>0, <1>1, <1>3, <1>8, <1>9 DEF BatchInv, TypeOK

\* get_running_batch, the SELECT before a batch is closed, keeps it.
LEMMA FindPreserves ==
    ASSUME BatchInv, NEW d \in Devices, GetRunningBatch(d)
    PROVE  BatchInv'
  <1>1. task[d] \in Task /\ records \in Seq(Record)
        /\ task \in [Devices -> Task] /\ reg \in [Devices -> Codes]
    BY DEF BatchInv, TypeOK
  <1>0. failed \in BOOLEAN  BY DEF BatchInv, TypeOK
  <1>2. task[d].pc = "find" /\ records' = records /\ reg' = reg
    BY DEF GetRunningBatch, StatementFails
  <1>f. failed' = failed \/ failed' = TRUE  BY DEF GetRunningBatch, StatementFails
  <1>g. failed' \in BOOLEAN /\ (~failed' => ~failed)  BY <1>0, <1>f
  <1>3. TaskInv(d) /\ (~failed => TableInv(d))  BY DEF BatchInv
  <1>4. Running(d)' = Running(d)  BY <1>2 DEF Running, IsRunning
  <1>5. IdTaken(d, 1)' <=> IdTaken(d, 1)  BY <1>2 DEF IdTaken, HasId
  <1>6. None \notin Codes  BY CodesAssumption, BatchNoneAssumption
  <1> DEFINE i == get_running_batch(d)
  <1>7. IF Running(d) = {} THEN i = 0 ELSE i \in Running(d)
    BY <1>1, GetRunning
  <1> HIDE DEF i
  <1>8. /\ task' \in [Devices -> Task]
        /\ TaskInv(d)' /\ (~failed' => TableInv(d)')
        /\ \A e \in Devices \ {d} : task'[e] = task[e]
    <2>1. CASE i # 0 /\ task' = [task EXCEPT ![d] =
                                   [@ EXCEPT !.pc = "update", !.row = i]]
      <3> DEFINE u == [task[d] EXCEPT !.pc = "update", !.row = i]
      <3>1. i \in Running(d)  BY <1>7, <2>1
      <3>2. i \in Nat  BY <1>1, <3>1 DEF Running
      <3>3. u \in Task /\ u.pc = "update" /\ u.row = i /\ u.prev = task[d].prev
            /\ u.counter = task[d].counter /\ u.now = task[d].now
        BY <1>1, <3>2 DEF Task
      <3>4. task'[d] = u /\ task' = [task EXCEPT ![d] = u]  BY <1>1, <2>1
      <3> HIDE DEF u
      <3>5. TaskInv(d)'  BY <1>2, <1>3, <1>4, <3>1, <3>3, <3>4 DEF TaskInv
      <3>6. ~failed' => TableInv(d)'
        BY <1>g, <1>2, <1>3, <1>4, <1>5, <3>3, <3>4 DEF TableInv
      <3> QED  BY <1>1, <3>3, <3>4, <3>5, <3>6
    <2>2. CASE /\ i = 0 \/ failed' = TRUE
               /\ task' = [task EXCEPT ![d] = Remember(@)]
      <3>1. Remember(task[d]) \in Task /\ Remember(task[d]).pc = "wait"
            /\ Remember(task[d]).prev = task[d].now
            /\ Remember(task[d]).counter = task[d].counter
        BY <1>1, RememberFacts
      <3>2. task'[d] = Remember(task[d])
            /\ task' = [task EXCEPT ![d] = Remember(task[d])]
        BY <1>1, <2>2
      <3>3. task[d].now \in Codes  BY <1>1 DEF Task
      <3>4. TaskInv(d)'  BY <1>6, <3>1, <3>2, <3>3 DEF TaskInv
      <3>5. ~failed' => Running(d) = {}
        <4>1. 0 \notin Running(d)  BY <1>1 DEF Running
        <4> QED  BY <4>1, <1>7, <2>2
      <3>6. ~failed' => TableInv(d)'
        BY <1>g, <1>2, <1>3, <1>4, <1>5, <3>1, <3>2, <3>5 DEF TableInv
      <3> QED  BY <1>1, <3>1, <3>2, <3>4, <3>6
    <2> QED  BY <2>1, <2>2 DEF GetRunningBatch, StatementFails, i
  <1>9. ASSUME NEW e \in Devices \ {d}
        PROVE  TaskInv(e)' /\ (~failed' => TableInv(e)')
    BY <1>g, <1>2, <1>8, Untouched DEF BatchInv
  <1> QED  BY <1>g, <1>0, <1>1, <1>2, <1>8, <1>9 DEF BatchInv, TypeOK

-----------------------------------------------------------------------------
\* create_batch keeps it, taken ids and failing statements included.
LEMMA CreatePreserves ==
    ASSUME BatchInv, NEW d \in Devices, CreateBatch(d)
    PROVE  BatchInv'
  <1> DEFINE n == task[d].counter
             r == [dev |-> d, n |-> n, status |-> "running"]
  <1>1. task[d] \in Task /\ records \in Seq(Record)
        /\ task \in [Devices -> Task] /\ reg \in [Devices -> Codes]
    BY DEF BatchInv, TypeOK
  <1>0. failed \in BOOLEAN  BY DEF BatchInv, TypeOK
  <1>2. task[d].pc = "create" /\ reg' = reg
        /\ task' = [task EXCEPT ![d] = Remember(task[d])]
    BY DEF CreateBatch, StatementFails
  <1>f. failed' = failed \/ failed' = TRUE  BY DEF CreateBatch, StatementFails
  <1>g. failed' \in BOOLEAN /\ (~failed' => ~failed)  BY <1>0, <1>f
  <1>3. TaskInv(d) /\ (~failed => TableInv(d))  BY DEF BatchInv
  <1>4. Remember(task[d]) \in Task /\ Remember(task[d]).pc = "wait"
        /\ Remember(task[d]).prev = task[d].now
        /\ Remember(task[d]).counter = n
    BY <1>1, RememberFacts
  <1>5. task'[d] = Remember(task[d]) /\ task' \in [Devices -> Task]
        /\ \A e \in Devices \ {d} : task'[e] = task[e]
    BY <1>1, <1>2, <1>4
  <1>6. n \in Nat /\ n >= 1 /\ task[d].now \in Codes  BY <1>1, <1>2, <1>3 DEF Task, TaskInv
  <1>7. TaskInv(d)'
    BY <1>4, <1>5, <1>6, CodesAssumption, BatchNoneAssumption DEF TaskInv
  <1>8. task'[d].prev \notin {BATCH_IDLE, BATCH_COMPLETE}
    BY <1>2, <1>3, <1>4, <1>5 DEF TaskInv, BATCH_IDLE, BATCH_HEATING, BATCH_COMPLETE
  <1>9. CASE records' = records
    <2>1. Running(d)' = Running(d)  BY <1>9 DEF Running, IsRunning
    <2>2. IdTaken(d, 1)' <=> IdTaken(d, 1)  BY <1>9 DEF IdTaken, HasId
    <2>3. ~failed' => IdTaken(d, n)  
      <3>1. SUFFICES ASSUME ~failed', ~IdTaken(d, n) PROVE FALSE  OBVIOUS
      <3>2. records' = Append(records, r)  BY <3>1 DEF CreateBatch, create_batch, StatementFails
      <3>3. r \in Record  BY <1>6 DEF Record
      <3>4. DOMAIN Append(records, r) # DOMAIN records
        BY <1>1, <3>3, AppendRow
      <3> QED  BY <1>9, <3>2, <3>4
    <2>4. ~failed' => TableInv(d)'
      BY <1>g, <1>2, <1>3, <1>4, <1>5, <1>6, <1>8, <1>9, <2>1, <2>2, <2>3 DEF TableInv
    <2>5. ASSUME NEW e \in Devices \ {d}
          PROVE  TaskInv(e)' /\ (~failed' => TableInv(e)')
      BY <1>g, <1>2, <1>5, <1>9, Untouched DEF BatchInv
    <2> QED  BY <1>g, <1>0, <1>1, <1>2, <1>5, <1>7, <1>9, <2>4, <2>5 DEF BatchInv, TypeOK
  <1>10. CASE records' = Append(records, r) /\ ~IdTaken(d, n)
    <2> DEFINE L == Len(records) + 1
    <2>1. r \in Record /\ r.dev = d /\ r.n = n /\ r.status = "running"
      BY <1>6 DEF Record
    <2> HIDE DEF r
    <2>2. /\ records' \in Seq(Record)
          /\ DOMAIN records' = DOMAIN records \cup {L}
          /\ L \notin DOMAIN records
          /\ \A i \in DOMAIN records : records'[i] = records[i]
          /\ records'[L] = r
      BY <1>1, <1>10, <2>1, AppendRow
    <2> HIDE DEF L
    <2>3. IdTaken(d, 1) => IdTaken(d, 1)'  BY <2>2 DEF IdTaken, HasId
    <2>4. Running(d)' = Running(d) \cup {L}
      BY <2>1, <2>2 DEF Running, IsRunning
    <2>5. ~failed' => IdTaken(d, 1)'
      <3>1. CASE n = 1  BY <2>1, <2>2, <3>1 DEF IdTaken, HasId
      <3>2. CASE n # 1  BY <1>g, <1>2, <1>3, <1>6, <2>3, <3>2 DEF TableInv
      <3> QED  BY <3>1, <3>2
    <2>6. ~failed' => Running(d) = {}
      <3>1. CASE n = 1
        <4>1. ~failed' => \A i \in DOMAIN records : records[i].dev # d
          BY <1>g, <1>2, <1>3, <1>10, <3>1 DEF TableInv
        <4> QED  BY <4>1 DEF Running, IsRunning
      <3>2. CASE n # 1
        <4>1. n >= 2  BY <1>6, <3>2
        <4> QED  BY <1>g, <1>2, <1>3, <4>1 DEF TableInv
      <3> QED  BY <3>1, <3>2
    <2>7. ~failed' => TableInv(d)'
      BY <1>g, <1>4, <1>5, <1>8, <2>4, <2>5, <2>6 DEF TableInv
    <2>8. ASSUME NEW e \in Devices \ {d}
          PROVE  TaskInv(e)' /\ (~failed' => TableInv(e)')
      BY <1>g, <1>2, <1>5, <2>1, <2>2, OtherDevice DEF BatchInv
    <2> QED  BY <1>g, <1>0, <1>1, <1>2, <1>5, <1>7, <2>2, <2>7, <2>8 DEF BatchInv, TypeOK
  <1> QED  BY <1>9, <1>10 DEF CreateBatch, create_batch, StatementFails

\* update_batch_status keeps it.
LEMMA UpdatePreserves ==
    ASSUME BatchInv, NEW d \in Devices, UpdateBatchStatus(d)
    PROVE  BatchInv'
  <1> DEFINE k == task[d].row
             st == IF task[d].now = BATCH_COMPLETE THEN "completed" ELSE "aborted"
  <1>1. task[d] \in Task /\ records \in Seq(Record)
        /\ task \in [Devices -> Task] /\ reg \in [Devices -> Codes]
    BY DEF BatchInv, TypeOK
  <1>0. failed \in BOOLEAN  BY DEF BatchInv, TypeOK
  <1>2. task[d].pc = "update" /\ reg' = reg
        /\ task' = [task EXCEPT ![d] = Remember(task[d])]
    BY DEF UpdateBatchStatus, StatementFails
  <1>f. failed' = failed \/ failed' = TRUE  BY DEF UpdateBatchStatus, StatementFails
  <1>g. failed' \in BOOLEAN /\ (~failed' => ~failed)  BY <1>0, <1>f
  <1>3. TaskInv(d) /\ (~failed => TableInv(d))  BY DEF BatchInv
  <1>4. Remember(task[d]) \in Task /\ Remember(task[d]).pc = "wait"
        /\ Remember(task[d]).prev = task[d].now
        /\ Remember(task[d]).counter = task[d].counter
    BY <1>1, RememberFacts
  <1>5. task'[d] = Remember(task[d]) /\ task' \in [Devices -> Task]
        /\ \A e \in Devices \ {d} : task'[e] = task[e]
    BY <1>1, <1>2, <1>4
  <1>6. task[d].now \in Codes  BY <1>1 DEF Task
  <1>7. TaskInv(d)'
    BY <1>4, <1>5, <1>6, CodesAssumption, BatchNoneAssumption DEF TaskInv
  <1>8. CASE records' = records /\ failed' = TRUE
    <2>1. ASSUME NEW e \in Devices \ {d}
          PROVE  TaskInv(e)' /\ (~failed' => TableInv(e)')
      BY <1>g, <1>2, <1>5, <1>8, Untouched DEF BatchInv
    <2> QED  BY <1>g, <1>0, <1>1, <1>2, <1>5, <1>7, <1>8, <2>1 DEF BatchInv, TypeOK
  <1>9. CASE records' = [records EXCEPT ![k] = [@ EXCEPT !.status = st]]
    <2>1. k \in Running(d)  BY <1>2, <1>3 DEF TaskInv
    <2>2. k \in DOMAIN records /\ records[k].dev = d  BY <2>1 DEF Running, IsRunning
    <2>3. st \in {"running", "completed", "aborted"} /\ st # "running"  OBVIOUS
    <2> HIDE DEF st, k
    <2>4. /\ records' \in Seq(Record)
          /\ DOMAIN records' = DOMAIN records
          /\ \A j \in DOMAIN records \ {k} : records'[j] = records[j]
          /\ records'[k].dev = records[k].dev /\ records'[k].n = records[k].n
          /\ records'[k].status = st
      BY <1>1, <1>9, <2>2, <2>3, UpdateRow
    <2>5. Running(d)' = Running(d) \ {k}
      BY <2>2, <2>3, <2>4 DEF Running, IsRunning
    <2>6. IdTaken(d, 1)' <=> IdTaken(d, 1)  BY <2>2, <2>4 DEF IdTaken, HasId
    <2>7. ~failed' => Running(d)' = {}  BY <1>g, <1>2, <1>3, <2>1, <2>5 DEF TableInv
    <2>8. \A i \in DOMAIN records' : records'[i].dev = d =>
             i \in DOMAIN records /\ records[i].dev = d
      BY <2>2, <2>4
    <2>9. ~failed' => TableInv(d)'
      BY <1>g, <1>2, <1>3, <1>4, <1>5, <2>6, <2>7, <2>8 DEF TableInv
    <2>10. ASSUME NEW e \in Devices \ {d}
          PROVE  TaskInv(e)' /\ (~failed' => TableInv(e)')
      BY <1>g, <1>2, <1>5, <2>2, <2>4, OtherDevice DEF BatchInv
    <2> QED  BY <1>g, <1>0, <1>1, <1>2, <1>5, <1>7, <2>4, <2>9, <2>10 DEF BatchInv, TypeOK
  <1> QED  BY <1>8, <1>9 DEF UpdateBatchStatus, update_batch_status, StatementFails

-----------------------------------------------------------------------------
\* A server that starts with empty tables satisfies it.
LEMMA InitEstablishes == Init => BatchInv
  <1> SUFFICES ASSUME Init PROVE BatchInv  OBVIOUS
  <1>1. TypeOK
    <2>1. failed \in BOOLEAN  BY DEF Init
    <2>2. task \in [Devices -> Task] /\ records \in Seq(Record)
      BY NoTaskTyped DEF Init
    <2> QED  BY <2>1, <2>2 DEF Init, TypeOK
  <1>2. ASSUME NEW d \in Devices PROVE TaskInv(d) /\ TableInv(d)
    <2>1. DOMAIN records = {} /\ task[d] = NoTask  BY DEF Init
    <2>2. Running(d) = {}  BY <2>1 DEF Running
    <2> QED  BY <2>1, <2>2 DEF TaskInv, TableInv, NoTask
  <1> QED  BY <1>1, <1>2 DEF BatchInv

\* Every step, of the PLC, of a task, of a handler or a crash, keeps BatchInv.
LEMMA StepPreserves == BatchInv /\ [Next]_vars => BatchInv'
  <1> SUFFICES ASSUME BatchInv, [Next]_vars PROVE BatchInv'  OBVIOUS
  <1>0. TypeOK /\ \A d \in Devices : TaskInv(d) /\ (~failed => TableInv(d))
    BY DEF BatchInv
  <1>1. CASE UNCHANGED vars
    BY <1>0, <1>1, Untouched DEF BatchInv, TypeOK, vars
  <1>2. CASE Crash
    <2>1. TypeOK'  BY <1>0, <1>2, NoTaskTyped DEF Crash, TypeOK
    <2>2. ASSUME NEW d \in Devices
          PROVE  TaskInv(d)' /\ (~failed' => TableInv(d)')
      BY <1>0, <1>2, Stopped DEF Crash
    <2> QED  BY <2>1, <2>2 DEF BatchInv
  <1>3. ASSUME NEW d \in Devices, PlcChanges(d) PROVE BatchInv'
    <2>1. TypeOK' /\ records' = records /\ task' = task /\ failed' = failed
      BY <1>0, <1>3 DEF PlcChanges, TypeOK
    <2> QED  BY <1>0, <2>1, Untouched DEF BatchInv
  <1>4. ASSUME NEW d \in Devices, Spawn(d) \/ Abort(d) PROVE BatchInv'
    <2>1. [NoTask EXCEPT !.pc = "wait"] \in Task
      BY NoTaskTyped DEF Task
    <2>2. PICK t \in Task : /\ t = NoTask \/ t = [NoTask EXCEPT !.pc = "wait"]
                            /\ task' = [task EXCEPT ![d] = t]
                            /\ UNCHANGED <<reg, records, failed>>
      BY <1>4, <2>1, NoTaskTyped DEF Spawn, Abort
    <2>3. TypeOK'  BY <1>0, <2>2 DEF TypeOK
    <2>4. task'[d] = t /\ \A e \in Devices \ {d} : task'[e] = task[e]
      BY <1>0, <2>2 DEF TypeOK
    <2>5. TaskInv(d)' /\ (~failed' => TableInv(d)')
      BY <1>0, <2>2, <2>4, Stopped
    <2>6. ASSUME NEW e \in Devices \ {d}
          PROVE  TaskInv(e)' /\ (~failed' => TableInv(e)')
      BY <1>0, <2>2, <2>4, Untouched
    <2> QED  BY <2>3, <2>5, <2>6 DEF BatchInv
  <1>5. ASSUME NEW d \in Devices, PollStep(d) PROVE BatchInv'
    BY <1>5, ReadPreserves, CreatePreserves, FindPreserves, UpdatePreserves
       DEF PollStep
  <1> QED  BY <1>1, <1>2, <1>3, <1>4, <1>5 DEF Next

\* The local state of every task and the batch_records table keep their types.
THEOREM BatchTypeCorrect == Spec => []TypeOK
  <1>1. BatchInv => TypeOK  BY DEF BatchInv
  <1> QED  BY <1>1, InitEstablishes, StepPreserves, PTL DEF Spec

\* The strengthening holds in every reachable state: what get_running_batch
\* found is still running when it is closed, and a device with any record has
\* its first id taken.
THEOREM BatchInvariant == Spec => []BatchInv
  BY InitEstablishes, StepPreserves, PTL DEF Spec

\* No sequence of polls, PLC states, aborts, restarts and crashes leaves two
\* batches of one device running, until a statement fails.
THEOREM OneRunningBatch == Spec => []AtMostOneRunning
  <1>1. BatchInv => AtMostOneRunning
    BY DEF BatchInv, TableInv, AtMostOneRunning
  <1> QED  BY <1>1, BatchInvariant, PTL

\* The status of a finished batch never changes: update_batch_status has no
\* guard on the status, but the row it is given is always a running one.
THEOREM FinishedBatchFinal == Spec => TerminalIsFinal
  <1> DEFINE Keeps == \A i \in DOMAIN records :
                 records[i].status # "running" => records'[i] = records[i]
  <1>1. ASSUME BatchInv, [Next]_vars PROVE Keeps
    <2>1. CASE records' = records  BY <2>1
    <2>2. ASSUME NEW d \in Devices, CreateBatch(d) PROVE Keeps
      <3>1. CASE records' = records  BY <3>1
      <3>2. CASE records' = Append(records, [dev |-> d, n |-> task[d].counter,
                                             status |-> "running"])
        <4>1. records \in Seq(Record) /\ task[d].counter \in Nat
          BY <1>1 DEF BatchInv, TypeOK, Task
        <4>2. [dev |-> d, n |-> task[d].counter, status |-> "running"] \in Record
          BY <4>1 DEF Record
        <4> QED  BY <3>2, <4>1, <4>2, AppendRow
      <3> QED  BY <2>2, <3>1, <3>2 DEF CreateBatch, create_batch, StatementFails
    <2>3. ASSUME NEW d \in Devices, UpdateBatchStatus(d) PROVE Keeps
      <3>1. task[d].row \in Running(d)
        BY <1>1, <2>3 DEF BatchInv, TaskInv, UpdateBatchStatus
      <3>2. task[d].row \in DOMAIN records
            /\ records[task[d].row].status = "running"
        BY <3>1 DEF Running, IsRunning
      <3>3. records \in Seq(Record)  BY <1>1 DEF BatchInv, TypeOK
      <3> QED
        BY <2>3, <3>2, <3>3 DEF UpdateBatchStatus, update_batch_status, StatementFails
    <2> QED
      BY <1>1, <2>1, <2>2, <2>3
         DEF Next, vars, Crash, PlcChanges, Spawn, Abort, PollStep,
             ReadRegister, GetRunningBatch, StatementFails
  <1>2. BatchInv /\ [Next]_vars => [Keeps]_vars  BY <1>1
  <1> QED  BY <1>2, BatchInvariant, PTL DEF Spec, TerminalIsFinal
============================================================================
