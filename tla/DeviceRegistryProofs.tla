------------------------ MODULE DeviceRegistryProofs ------------------------
(***************************************************************************)
(* Proofs about DeviceRegistry, for every set of devices and of handlers   *)
(* and every configuration: as long as the requests about a device do not  *)
(* overlap it has one poller, tasks, registry and table agree about it,    *)
(* and it survives a restart, whatever happens to the other devices.       *)
(***************************************************************************)
EXTENDS DeviceRegistry, FiniteSetTheorems, SequenceTheorems, WellFoundedInduction, TLAPS

(* The invariant.                                                          *)

\* A request that is under way is about a device, and the task it has spawned
\* polls that device.
RequestPart ==
    \A h \in Handlers :
        /\ req[h].pc # "idle" => req[h].dev \in Devices
        /\ req[h].pc \in {"insert", "update"} =>
              /\ req[h].task \in DOMAIN tasks
              /\ tasks[req[h].task].dev = req[h].dev

\* An entry's task polls the device of that entry.
EntryPart == \A d \in Devices : registry[d] # 0 => tasks[registry[d]].dev = d

OnlyOne(d) == \A g, h \in Handlers : Changes(g, d) /\ Changes(h, d) => g = h

\* Handler h has spawned task t and not registered it yet.
Holds(h, t) == req[h].pc \in {"insert", "update"} /\ req[h].task = t

\* A running task is registered, or held by the request that spawned it.
Accounted(d) ==
    \A t \in Running(d) : registry[d] = t \/ \E h \in Handlers : Holds(h, t)

\* What a request has found under the lock is still so.
StillTrue(d) ==
    \A h \in Handlers : req[h].dev = d =>
        /\ req[h].pc = "insert" => registry[d] = 0
        /\ req[h].pc = "update" => Stopped(d)
        /\ req[h].pc = "save" => registry[d] # 0
        /\ req[h].pc = "delete" => registry[d] = 0

\* A row without an entry is being deleted, an entry without a row saved.
RowsPart(d) ==
    d \notin failed =>
        /\ d \in saved =>
              registry[d] # 0 \/ \E h \in Handlers : req[h].pc = "delete" /\ req[h].dev = d
        /\ registry[d] # 0 =>
              \/ d \in saved \cup Named(config)
              \/ \E h \in Handlers : req[h].pc = "save" /\ req[h].dev = d

SerialPart(d) == OnlyOne(d) /\ Accounted(d) /\ StillTrue(d) /\ RowsPart(d)

RegInv ==
    /\ TypeOK /\ IsFiniteSet(saved)
    /\ RequestPart /\ EntryPart
    /\ \A d \in serial : SerialPart(d)

-----------------------------------------------------------------------------
(* Start-up.                                                               *)

\* A nonempty set of positions has a last one.
LEMMA LastOf ==
    ASSUME NEW n \in Nat, NEW S \in SUBSET (1..n), S # {}
    PROVE  \E i \in S : \A j \in S : j <= i
<1> DEFINE ToEnd == {n - i : i \in S}
           lt == OpToRel(<, Nat)
<1>1. ToEnd \subseteq Nat /\ ToEnd # {}
  <2>1. \A i \in S : n - i \in Nat
    OBVIOUS
  <2> QED BY <2>1
<1>2. \E x \in ToEnd : \A y \in ToEnd : <<y, x>> \notin lt
  <2> HIDE DEF ToEnd
  <2>1. IsWellFoundedOn(lt, Nat)
    BY NatLessThanWellFounded
  <2> HIDE DEF lt
  <2> QED BY <1>1, <2>1, WFMin
<1>3. PICK i \in S : \A y \in ToEnd : <<y, n - i>> \notin lt
  BY <1>2
<1>4. ASSUME NEW j \in S PROVE j <= i
  <2>1. n - j \in Nat /\ n - i \in Nat /\ n - j \in ToEnd
    OBVIOUS
  <2>2. ~(n - j < n - i)
    BY <1>3, <2>1 DEF OpToRel
  <2> QED BY <2>2
<1> QED BY <1>4

\* A running task for each entry of the list and for each further row, and no
\* second one for a device that the list names once.
LEMMA StartFacts ==
    ASSUME NEW c \in Seq(Devices), NEW rows \in SUBSET Devices, IsFiniteSet(rows)
    PROVE  LET ts == StartTasks(c, rows)
           IN  /\ ts \in Seq(TaskRec)
               /\ \A t \in DOMAIN ts : ts[t].dev \in rows \cup Named(c)
               /\ \A d \in rows \cup Named(c) : \E t \in DOMAIN ts : ts[t].dev = d
               /\ \A d \in NamedOnce(c) : \A t, u \in DOMAIN ts :
                     ts[t].dev = d /\ ts[u].dev = d => t = u
<1> DEFINE rest == rows \ Named(c)
           n == Cardinality(rest)
           m == Len(c)
           Enumerates(f) == \A d \in rest : \E i \in 1..n : f[i] = d
           order == CHOOSE f \in [1..n -> rest] : Enumerates(f)
           ts == [i \in 1..(m + n) |->
                    [dev |-> IF i <= m THEN c[i] ELSE order[i - m], state |-> "running"]]
<1>1. rest \subseteq Devices /\ IsFiniteSet(rest)
  BY FS_Subset
<1>2. n \in Nat /\ ExistsBijection(1..n, rest)
  BY <1>1, FS_CardinalityType
<1>3. \E f \in [1..n -> rest] : Enumerates(f)
  BY <1>2 DEF ExistsBijection, Bijection, Surjection
<1>4. order \in [1..n -> rest] /\ Enumerates(order)
  BY <1>3
<1>5. \A i, j \in 1..n : order[i] = order[j] => i = j
  <2>1. order \in Surjection(1..n, rest)
    BY <1>4 DEF Surjection
  <2>2. IsFiniteSet(1..n) /\ Cardinality(1..n) = n
    BY <1>2, FS_Interval
  <2>3. order \in Injection(1..n, rest)
    BY <2>1, <2>2, FS_SurjSameCardinalityImpliesInj
  <2> QED BY <2>3 DEF Injection, IsInjective
<1>6. ts = StartTasks(c, rows)
  BY DEF StartTasks
<1>7. /\ m \in Nat /\ DOMAIN c = 1..m /\ \A i \in 1..m : c[i] \in Devices
      /\ \A d : d \in Named(c) <=> \E i \in 1..m : c[i] = d
      /\ \A d \in NamedOnce(c) : \A i, j \in 1..m : c[i] = d /\ c[j] = d => i = j
      /\ \A d \in rest : d \in rows /\ d \notin Named(c)
      /\ \A d \in rows : d \in rest \/ d \in Named(c)
  BY DEF Named, NamedOnce
<1> HIDE DEF order, n, m, rest
<1>8. /\ m + n \in Nat /\ DOMAIN ts = 1..(m + n)
      /\ \A i \in 1..m : i \in 1..(m + n) /\ ts[i].dev = c[i]
      /\ \A i \in 1..n : i + m \in 1..(m + n) /\ ts[i + m].dev = order[i]
      /\ \A i \in 1..(m + n) : i \in 1..m \/ (i - m \in 1..n /\ ts[i].dev = order[i - m])
      /\ \A i \in 1..(m + n) : ts[i] = [dev |-> ts[i].dev, state |-> "running"]
  BY <1>2, <1>7
<1> HIDE DEF ts
<1>9. \A i \in 1..(m + n) : ts[i].dev \in Devices /\ ts[i].dev \in rows \cup Named(c)
  <2> SUFFICES ASSUME NEW i \in 1..(m + n)
               PROVE  ts[i].dev \in Devices /\ ts[i].dev \in rows \cup Named(c)
    OBVIOUS
  <2>1. CASE i \in 1..m
    BY <1>7, <1>8, <2>1
  <2>2. CASE i - m \in 1..n /\ ts[i].dev = order[i - m]
    BY <1>1, <1>4, <1>7, <2>2
  <2> QED BY <1>8, <2>1, <2>2
<1>10. ts \in Seq(TaskRec)
  <2>1. \A i \in 1..(m + n) : ts[i] \in TaskRec
    BY <1>8, <1>9 DEF TaskRec
  <2>2. ts = [i \in 1..(m + n) |-> ts[i]]
    BY DEF ts
  <2> QED BY <1>8, <2>1, <2>2
<1>11. \A d \in rows \cup Named(c) : \E t \in DOMAIN ts : ts[t].dev = d
  <2> SUFFICES ASSUME NEW d \in rows \cup Named(c)
               PROVE  \E t \in 1..(m + n) : ts[t].dev = d
    BY <1>8
  <2>1. CASE d \in Named(c)
    BY <1>7, <1>8, <2>1
  <2>2. CASE d \in rest
    <3>1. PICK i \in 1..n : order[i] = d
      BY <1>4, <2>2
    <3> QED BY <1>8, <3>1
  <2> QED BY <1>7, <2>1, <2>2
<1>12. ASSUME NEW d \in NamedOnce(c), NEW t \in 1..(m + n), NEW u \in 1..(m + n),
              ts[t].dev = d, ts[u].dev = d
       PROVE  t = u
  <2>1. \A i \in 1..n : order[i] \notin Named(c)
    BY <1>4, <1>7
  <2>2. CASE t \in 1..m /\ u \in 1..m
    BY <1>7, <1>8, <1>12, <2>2
  <2>3. CASE t \notin 1..m /\ u \notin 1..m
    <3>1. t - m \in 1..n /\ u - m \in 1..n /\ order[t - m] = order[u - m]
      BY <1>8, <1>12, <2>3
    <3>2. t - m = u - m
      BY <1>5, <3>1
    <3> QED BY <1>2, <1>7, <3>2
  <2>4. ASSUME NEW i \in 1..m, NEW j \in 1..(m + n), j \notin 1..m, ts[i].dev = ts[j].dev
        PROVE  FALSE
    <3>1. ts[i].dev \in Named(c)
      BY <1>7, <1>8
    <3> QED BY <1>8, <2>1, <2>4, <3>1
  <2> QED BY <1>12, <2>2, <2>3, <2>4
<1> QED BY <1>6, <1>8, <1>9, <1>10, <1>11, <1>12

\* The registry holds a task of each device that has one.
LEMMA RegisteredFacts ==
    ASSUME NEW ts \in Seq(TaskRec)
    PROVE  /\ Registered(ts) \in [Devices -> Nat]
           /\ \A d \in Devices :
                 Registered(ts)[d] # 0 =>
                    Registered(ts)[d] \in DOMAIN ts /\ ts[Registered(ts)[d]].dev = d
           /\ \A d \in Devices :
                 (\E t \in DOMAIN ts : ts[t].dev = d) <=> Registered(ts)[d] # 0
<1>0. Len(ts) \in Nat /\ DOMAIN ts = 1..Len(ts)
  OBVIOUS
<1>1. ASSUME NEW d \in Devices
      PROVE  \/ /\ Registered(ts)[d] = 0
                /\ ~\E t \in DOMAIN ts : ts[t].dev = d
             \/ /\ Registered(ts)[d] \in DOMAIN ts
                /\ ts[Registered(ts)[d]].dev = d
  <2> DEFINE S == {i \in DOMAIN ts : ts[i].dev = d}
             IsLast(i) == ts[i].dev = d /\ \A j \in DOMAIN ts : ts[j].dev = d => j <= i
  <2>1. CASE S = {}
    BY <2>1 DEF Registered
  <2>2. CASE S # {}
    <3>1. \E i \in S : \A j \in S : j <= i
      BY <1>0, <2>2, LastOf
    <3>2. \E i \in DOMAIN ts : IsLast(i)
      BY <3>1
    <3>3. Registered(ts)[d] = CHOOSE i \in DOMAIN ts : IsLast(i)
      BY <2>2 DEF Registered
    <3> QED BY <3>2, <3>3
  <2> QED BY <2>1, <2>2
<1>2. DOMAIN ts \subseteq Nat \ {0}
  BY <1>0
<1>3. Registered(ts) = [d \in Devices |-> Registered(ts)[d]]
  BY DEF Registered
<1>4. \A d \in Devices : Registered(ts)[d] \in Nat
  BY <1>1, <1>2
<1>5. Registered(ts) \in [Devices -> Nat]
  BY <1>3, <1>4
<1> QED BY <1>1, <1>2, <1>5

LEMMA NoRequestFacts ==
    NoRequest \in Request /\ NoRequest.pc = "idle"
BY DEF NoRequest, Request

\* The state after a start, whatever was before.
Started ==
    /\ saved \in SUBSET Devices /\ IsFiniteSet(saved)
    /\ \E c \in Configs, rows \in LoadedRows :
         /\ config = c
         /\ tasks = StartTasks(c, rows)
         /\ serial = NamedOnce(c)
         /\ failed = NotLoaded(c, rows)
    /\ registry = Registered(tasks)
    /\ req = [h \in Handlers |-> NoRequest] /\ queue = <<>>

LEMMA StartState == Started => RegInv
<1> SUFFICES ASSUME Started PROVE RegInv
  OBVIOUS
<1>0. PICK c \in Configs, rows \in LoadedRows :
        /\ config = c /\ tasks = StartTasks(c, rows)
        /\ serial = NamedOnce(c) /\ failed = NotLoaded(c, rows)
  BY DEF Started
<1>1. /\ saved \subseteq Devices /\ IsFiniteSet(saved) /\ registry = Registered(tasks)
      /\ req = [h \in Handlers |-> NoRequest] /\ queue = <<>>
  BY DEF Started
<1>2. c \in Seq(Devices) /\ rows \in SUBSET Devices /\ IsFiniteSet(rows)
  BY <1>1, RegistryAssumption, FS_EmptySet DEF LoadedRows
<1>3. /\ tasks \in Seq(TaskRec)
      /\ \A t \in DOMAIN tasks : tasks[t].dev \in rows \cup Named(c)
      /\ \A d \in rows \cup Named(c) : \E t \in DOMAIN tasks : tasks[t].dev = d
      /\ \A d \in serial : \A t, u \in DOMAIN tasks :
            tasks[t].dev = d /\ tasks[u].dev = d => t = u
  BY <1>0, <1>2, StartFacts
<1>4. /\ registry \in [Devices -> Nat]
      /\ \A d \in Devices :
            registry[d] # 0 => registry[d] \in DOMAIN tasks /\ tasks[registry[d]].dev = d
      /\ \A d \in Devices : (\E t \in DOMAIN tasks : tasks[t].dev = d) <=> registry[d] # 0
  BY <1>1, <1>3, RegisteredFacts
<1>5. \A h \in Handlers : req[h] \in Request /\ req[h].pc = "idle"
  BY <1>1, NoRequestFacts
<1>6. TypeOK
  <2>1. QueueOk
    BY <1>1 DEF QueueOk
  <2>2. serial \subseteq Devices /\ failed \subseteq Devices
    BY <1>0, <1>1 DEF NamedOnce, NotLoaded
  <2>3. req \in [Handlers -> Request]
    BY <1>1, NoRequestFacts
  <2> QED BY <1>0, <1>1, <1>2, <1>3, <1>4, <2>1, <2>2, <2>3 DEF TypeOK
<1>7. ASSUME NEW d \in serial PROVE SerialPart(d)
  <2>1. d \in Devices
    BY <1>6 DEF TypeOK
  <2>2. OnlyOne(d) /\ StillTrue(d)
    BY <1>5 DEF OnlyOne, Changes, StillTrue
  <2>3. Accounted(d)
    BY <1>3, <1>4, <2>1 DEF Accounted, Running
  <2>4. RowsPart(d)
    <3>1. d \notin failed /\ d \in saved => d \in rows \cup Named(c)
      BY <1>0 DEF NotLoaded
    <3>2. d \in rows \cup Named(c) <=> registry[d] # 0
      BY <1>3, <1>4, <2>1
    <3>3. rows \subseteq saved
      BY DEF LoadedRows
    <3> QED BY <1>0, <3>1, <3>2, <3>3 DEF RowsPart
  <2> QED BY <2>2, <2>3, <2>4 DEF SerialPart
<1> QED BY <1>1, <1>4, <1>5, <1>6, <1>7 DEF RegInv, RequestPart, EntryPart

LEMMA RegInit == Init => RegInv
BY StartState DEF Init, Started

-----------------------------------------------------------------------------
(* The tasks.                                                              *)

\* A new task comes last and leaves the others alone.
LEMMA SpawnFacts ==
    ASSUME tasks \in Seq(TaskRec), NEW d \in Devices, Spawn(d)
    PROVE  /\ tasks' \in Seq(TaskRec)
           /\ Len(tasks) + 1 \in Nat \ {0} /\ Len(tasks) + 1 \in DOMAIN tasks'
           /\ Len(tasks) + 1 \notin DOMAIN tasks
           /\ tasks'[Len(tasks) + 1].dev = d
           /\ \A t \in DOMAIN tasks : t \in DOMAIN tasks' /\ tasks'[t] = tasks[t]
           /\ \A t \in DOMAIN tasks' : t \in DOMAIN tasks \/ t = Len(tasks) + 1
<1> DEFINE new == [dev |-> d, state |-> "running"]
<1>1. new \in TaskRec /\ new.dev = d
  BY DEF TaskRec
<1>2. tasks' = Append(tasks, new)
  BY DEF Spawn
<1> HIDE DEF new
<1> QED BY <1>1, <1>2

\* A task changes its state and nothing else.
LEMMA StateFacts ==
    ASSUME tasks \in Seq(TaskRec), NEW t \in DOMAIN tasks,
           NEW st \in {"running", "aborted", "finished"},
           tasks' = [tasks EXCEPT ![t].state = st]
    PROVE  /\ tasks' \in Seq(TaskRec) /\ DOMAIN tasks' = DOMAIN tasks
           /\ \A u \in DOMAIN tasks : tasks'[u].dev = tasks[u].dev
           /\ \A u \in DOMAIN tasks : u # t => tasks'[u] = tasks[u]
           /\ tasks'[t].state = st
<1> DEFINE y == [tasks[t] EXCEPT !.state = st]
<1>1. tasks[t] \in TaskRec
  OBVIOUS
<1>2. y \in TaskRec /\ y.dev = tasks[t].dev /\ y.state = st
  BY <1>1 DEF TaskRec
<1>3. tasks' = [tasks EXCEPT ![t] = y]
  OBVIOUS
<1> HIDE DEF y
<1> QED BY <1>2, <1>3

LEMMA AbortFacts ==
    ASSUME tasks \in Seq(TaskRec), NEW t \in DOMAIN tasks, tasks' = Aborted(t)
    PROVE  /\ tasks' \in Seq(TaskRec) /\ DOMAIN tasks' = DOMAIN tasks
           /\ \A u \in DOMAIN tasks : tasks'[u].dev = tasks[u].dev
           /\ \A u \in DOMAIN tasks : u # t => tasks'[u] = tasks[u]
           /\ tasks'[t].state # "running"
<1> DEFINE st == IF tasks[t].state = "running" THEN "aborted" ELSE tasks[t].state
<1>1. tasks[t] \in TaskRec
  OBVIOUS
<1>2. st \in {"running", "aborted", "finished"} /\ st # "running"
  BY <1>1 DEF TaskRec
<1>3. tasks' = [tasks EXCEPT ![t].state = st]
  BY DEF Aborted
<1> HIDE DEF st
<1> QED BY <1>2, <1>3, StateFacts

-----------------------------------------------------------------------------
(* The queue.                                                              *)

\* What comes last in a sequence, and what is left of one.
LEMMA AppendedFacts ==
    ASSUME NEW S, NEW q \in Seq(S), NEW e \in S, NEW r, r = Append(q, e)
    PROVE  /\ r \in Seq(S) /\ Len(q) \in Nat /\ DOMAIN q = 1..Len(q)
           /\ DOMAIN r = 1..(Len(q) + 1)
           /\ r[Len(q) + 1] = e /\ \A i \in 1..Len(q) : r[i] = q[i]
           /\ \A i \in 1..(Len(q) + 1) : i \in 1..Len(q) \/ i = Len(q) + 1
OBVIOUS

LEMMA RestFacts ==
    ASSUME NEW S, NEW q \in Seq(S), NEW i \in 1..Len(q), NEW r,
           r = SubSeq(q, i + 1, Len(q))
    PROVE  /\ r \in Seq(S) /\ Len(r) = Len(q) - i
           /\ \A j \in 1..(Len(q) - i) : r[j] = q[i + j]
<1> DEFINE m == i + 1
           n == Len(q)
<1>1. m \in Int /\ n \in Int /\ n \in Nat /\ m = i + 1 /\ \A j \in m..n : q[j] \in S
  OBVIOUS
<1>2. r = SubSeq(q, m, n)
  OBVIOUS
<1> HIDE DEF m, n
<1>3. /\ r \in Seq(S) /\ Len(r) = (IF m <= n THEN n - m + 1 ELSE 0)
      /\ \A j \in 1..(n - m + 1) : r[j] = q[m + j - 1]
  BY <1>1, <1>2, SubSeqProperties
<1>4. i \in Int /\ i <= n
  BY <1>1 DEF n
<1>5. Len(r) = n - i
  BY <1>1, <1>3, <1>4
<1>6. ASSUME NEW j \in 1..(n - i) PROVE r[j] = q[i + j]
  <2>1. j \in 1..(n - m + 1) /\ m + j - 1 = i + j
    BY <1>1, <1>4
  <2> QED BY <1>3, <2>1
<1> QED BY <1>3, <1>5, <1>6 DEF n

\* All but handler h wait as before.
OthersWait(h) == \A g \in Handlers : g # h => req'[g] = req[g]

\* Handler h has had its turn.
LEMMA QueueTail ==
    ASSUME QueueOk, NEW h \in Handlers, Turn(h), OthersWait(h)
    PROVE  /\ Tail(queue) \in Seq(Handlers)
           /\ \A i \in DOMAIN Tail(queue) :
                 Tail(queue)[i] # h /\ req'[Tail(queue)[i]].pc \in Waiting
           /\ \A i, j \in DOMAIN Tail(queue) :
                 Tail(queue)[i] = Tail(queue)[j] => i = j
<1>1. /\ queue \in Seq(Handlers) /\ queue # <<>> /\ queue[1] = h
      /\ Len(queue) \in Nat \ {0} /\ DOMAIN queue = 1..Len(queue)
  BY DEF QueueOk, Turn
<1>2. /\ Tail(queue) \in Seq(Handlers) /\ DOMAIN Tail(queue) = 1..(Len(queue) - 1)
      /\ \A i \in 1..(Len(queue) - 1) :
            Tail(queue)[i] = queue[i + 1] /\ i + 1 \in DOMAIN queue /\ i + 1 # 1
  BY <1>1
<1> QED BY <1>1, <1>2 DEF QueueOk, OthersWait

LEMMA QueueLeft ==
    ASSUME QueueOk, NEW h \in Handlers, Turn(h), OthersWait(h), queue' = Tail(queue)
    PROVE  QueueOk'
BY QueueTail DEF QueueOk

\* Handler h queues up again.
LEMMA QueueAgain ==
    ASSUME QueueOk, NEW h \in Handlers, Turn(h), OthersWait(h),
           queue' = Append(Tail(queue), h), req'[h].pc \in Waiting
    PROVE  QueueOk'
<1> DEFINE q == Tail(queue)
<1>1. /\ q \in Seq(Handlers)
      /\ \A i \in DOMAIN q : q[i] # h /\ req'[q[i]].pc \in Waiting
      /\ \A i, j \in DOMAIN q : q[i] = q[j] => i = j
  BY QueueTail
<1>2. queue' = Append(q, h)
  OBVIOUS
<1> HIDE DEF q
<1>3. /\ Len(q) \in Nat /\ DOMAIN q = 1..Len(q)
      /\ queue' \in Seq(Handlers) /\ DOMAIN queue' = 1..(Len(q) + 1)
      /\ queue'[Len(q) + 1] = h /\ \A i \in 1..Len(q) : queue'[i] = q[i]
      /\ \A i \in 1..(Len(q) + 1) : i \in 1..Len(q) \/ i = Len(q) + 1
  <2>1. q \in Seq(Handlers)
    BY <1>1
  <2>2. queue' = Append(q, h)
    BY <1>2
  <2> QED BY ONLY <2>1, <2>2, h \in Handlers, AppendedFacts
<1>4. \A i \in DOMAIN queue' : req'[queue'[i]].pc \in Waiting
  BY <1>1, <1>3
<1>5. ASSUME NEW i \in DOMAIN queue', NEW j \in DOMAIN queue', queue'[i] = queue'[j]
      PROVE  i = j
  <2>1. CASE i \in 1..Len(q) /\ j \in 1..Len(q)
    BY <1>1, <1>3, <1>5, <2>1
  <2>2. CASE i = Len(q) + 1 /\ j \in 1..Len(q)
    BY <1>1, <1>3, <1>5, <2>2
  <2>3. CASE i \in 1..Len(q) /\ j = Len(q) + 1
    BY <1>1, <1>3, <1>5, <2>3
  <2> QED BY <1>3, <2>1, <2>2, <2>3
<1> QED BY <1>3, <1>4, <1>5 DEF QueueOk

\* Handler h queues up.
LEMMA QueueJoined ==
    ASSUME QueueOk, NEW h \in Handlers, req[h].pc = "idle", OthersWait(h),
           queue' = Append(queue, h), req'[h].pc \in Waiting
    PROVE  QueueOk'
<1>1. /\ queue \in Seq(Handlers) /\ Len(queue) \in Nat /\ DOMAIN queue = 1..Len(queue)
      /\ queue' \in Seq(Handlers) /\ DOMAIN queue' = 1..(Len(queue) + 1)
      /\ queue'[Len(queue) + 1] = h /\ \A i \in 1..Len(queue) : queue'[i] = queue[i]
      /\ \A i \in 1..(Len(queue) + 1) : i \in 1..Len(queue) \/ i = Len(queue) + 1
  BY DEF QueueOk
<1>2. \A i \in DOMAIN queue : queue[i] # h /\ req'[queue[i]].pc \in Waiting
  BY <1>1 DEF QueueOk, OthersWait, Waiting, Ops
<1> QED BY <1>1, <1>2 DEF QueueOk

\* Handler h is not in the queue.
LEMMA QueueKept ==
    ASSUME QueueOk, NEW h \in Handlers, OthersWait(h), UNCHANGED queue,
           \A i \in DOMAIN queue : queue[i] # h
    PROVE  QueueOk'
BY DEF QueueOk, OthersWait

\* Handler h gives up its place.
LEMMA QueueGivenUp ==
    ASSUME QueueOk, NEW h \in Handlers, OthersWait(h), LeavesQueue(h)
    PROVE  QueueOk'
<1>1. CASE (\A i \in DOMAIN queue : queue[i] # h) /\ UNCHANGED queue
  BY <1>1, QueueKept
<1>2. CASE \E i \in DOMAIN queue :
             /\ queue[i] = h
             /\ queue' = SubSeq(queue, 1, i - 1) \o SubSeq(queue, i + 1, Len(queue))
  <2> DEFINE n == Len(queue)
  <2>1. queue \in Seq(Handlers) /\ n \in Nat /\ DOMAIN queue = 1..n
    BY DEF QueueOk
  <2>2. PICK i \in 1..n :
          queue[i] = h /\ queue' = SubSeq(queue, 1, i - 1) \o SubSeq(queue, i + 1, n)
    BY <1>2, <2>1
  <2> DEFINE a == SubSeq(queue, 1, i - 1)
             b == SubSeq(queue, i + 1, n)
             Old(j) == IF j < i THEN j ELSE j + 1
  <2>0. /\ i - 1 \in Int /\ i + 1 \in Int /\ n \in Int
        /\ \A j \in 1..(i - 1) : queue[j] \in Handlers
        /\ \A j \in (i + 1)..n : queue[j] \in Handlers
    BY <2>1
  <2>3. /\ a \in Seq(Handlers) /\ Len(a) = i - 1 /\ \A j \in 1..(i - 1) : a[j] = queue[j]
    BY <2>0, SubSeqProperties
  <2>4. /\ b \in Seq(Handlers) /\ Len(b) = n - i /\ \A j \in 1..(n - i) : b[j] = queue[i + j]
    BY <2>1, RestFacts
  <2>5. queue' = a \o b
    BY <2>2
  <2> HIDE DEF a, b
  <2>6. queue' \in Seq(Handlers) /\ Len(queue') = n - 1 /\ DOMAIN queue' = 1..(n - 1)
    <3>1. queue' \in Seq(Handlers) /\ Len(queue') = Len(a) + Len(b)
      BY <2>3, <2>4, <2>5, ConcatProperties
    <3>2. Len(queue') = n - 1
      BY <2>1, <2>3, <2>4, <3>1
    <3> QED BY <3>1, <3>2
  <2>7. ASSUME NEW j \in 1..(n - 1)
        PROVE  queue'[j] = queue[Old(j)] /\ Old(j) \in 1..n /\ Old(j) # i
    <3>1. CASE j < i
      BY <2>1, <2>3, <2>4, <2>5, <3>1
    <3>2. CASE ~(j < i)
      <4>1. j - (i - 1) \in 1..(n - i) /\ queue'[j] = b[j - (i - 1)]
        BY <2>1, <2>3, <2>4, <2>5, <3>2
      <4>2. i + (j - (i - 1)) = j + 1
        BY <2>1
      <4> QED BY <2>1, <2>4, <3>2, <4>1, <4>2
    <3> QED BY <3>1, <3>2
  <2>8. \A j, k \in 1..(n - 1) : Old(j) = Old(k) => j = k
    BY <2>1
  <2> HIDE DEF Old
  <2>9. \A j \in DOMAIN queue' : queue'[j] # h /\ req[queue'[j]].pc \in Waiting
    BY <2>1, <2>2, <2>6, <2>7 DEF QueueOk
  <2>10. \A j, k \in DOMAIN queue' : queue'[j] = queue'[k] => j = k
    BY <2>1, <2>6, <2>7, <2>8 DEF QueueOk
  <2>11. \A j \in DOMAIN queue' : queue'[j] \in Handlers
    BY <2>6
  <2> QED BY <2>6, <2>9, <2>10, <2>11 DEF QueueOk, OthersWait
<1> QED BY <1>1, <1>2 DEF LeavesQueue

-----------------------------------------------------------------------------
(* What a step has to show.                                                *)

\* Handler h is in the middle of a change of device d.
Acts(h, d) == req[h].dev = d /\ req[h].pc \in {"insert", "update", "save", "delete"}

\* Nothing that is known about device e is disturbed: its entry and row stay,
\* its tasks do not start or come back, no request in the middle of a change
\* moves.
LEMMA Undisturbed ==
    ASSUME RegInv, NEW e \in Devices, SerialPart(e),
           config' = config, registry'[e] = registry[e],
           e \in saved' <=> e \in saved, e \in failed => e \in failed',
           \A h \in Handlers :
               req'[h] = req[h] \/ (~Acts(h, e) /\ ~Changes(h, e)'),
           \A t \in DOMAIN tasks : t \in DOMAIN tasks',
           \A t \in DOMAIN tasks' : tasks'[t].dev = e =>
               /\ t \in DOMAIN tasks /\ tasks[t].dev = e
               /\ tasks'[t].state = "running" => tasks[t].state = "running"
               /\ tasks[t].state = "finished" => tasks'[t].state = "finished",
           \A t \in DOMAIN tasks : tasks'[t].dev = tasks[t].dev
    PROVE  SerialPart(e)'
<1>0. TypeOK /\ RequestPart /\ EntryPart
  BY DEF RegInv
<1>1. OnlyOne(e)'
  BY DEF SerialPart, OnlyOne, Changes
<1>2. Accounted(e)'
  <2> SUFFICES ASSUME NEW t \in DOMAIN tasks', tasks'[t].dev = e, tasks'[t].state = "running"
               PROVE  registry'[e] = t \/ \E h \in Handlers : Holds(h, t)'
    BY DEF Accounted, Running
  <2>1. t \in Running(e)
    BY DEF Running
  <2>2. CASE registry[e] = t
    BY <2>2
  <2>3. ASSUME NEW h \in Handlers, Holds(h, t) PROVE Holds(h, t)'
    <3>1. Acts(h, e)
      BY <1>0, <2>1, <2>3 DEF RequestPart, Holds, Running, Acts
    <3> QED BY <2>3, <3>1 DEF Holds
  <2> QED BY <2>1, <2>2, <2>3 DEF SerialPart, Accounted
<1>3. StillTrue(e)'
  <2>1. Stopped(e) => Stopped(e)'
    <3>1. registry[e] # 0 => registry[e] \in DOMAIN tasks /\ tasks[registry[e]].dev = e
      BY <1>0 DEF TypeOK, EntryPart
    <3> QED BY <3>1 DEF Stopped, Finished
  <2>2. ASSUME NEW h \in Handlers, req'[h].dev = e, req'[h].pc \in {"insert", "update", "save", "delete"}
        PROVE  req'[h] = req[h]
    BY <2>2 DEF Changes
  <2>3. ASSUME NEW h \in Handlers, req[h].dev = e
        PROVE  /\ req[h].pc = "insert" => registry[e] = 0
               /\ req[h].pc = "update" => Stopped(e)
               /\ req[h].pc = "save" => registry[e] # 0
               /\ req[h].pc = "delete" => registry[e] = 0
    BY <2>3 DEF SerialPart, StillTrue
  <2> QED BY <2>1, <2>2, <2>3 DEF StillTrue
<1>4. RowsPart(e)'
  <2>1. ASSUME NEW h \in Handlers, req[h].dev = e, req[h].pc \in {"delete", "save"}
        PROVE  req'[h] = req[h]
    BY <2>1 DEF Acts
  <2> QED BY <2>1 DEF SerialPart, RowsPart
<1> QED BY <1>1, <1>2, <1>3, <1>4 DEF SerialPart

\* The tasks of other devices than d stay as they are, and no task changes
\* its device.
TasksOf(d) ==
    /\ tasks' \in Seq(TaskRec)
    /\ \A t \in DOMAIN tasks :
          /\ t \in DOMAIN tasks' /\ tasks'[t].dev = tasks[t].dev
          /\ tasks[t].dev # d => tasks'[t] = tasks[t]
    /\ \A t \in DOMAIN tasks' : t \in DOMAIN tasks \/ tasks'[t].dev = d

\* A step of handler h, whose request is about device d before and after.
LEMMA HandlerStep ==
    ASSUME RegInv, NEW h \in Handlers, NEW d \in Devices, NEW y \in Request,
           req' = [req EXCEPT ![h] = y],
           req[h].pc # "idle" => req[h].dev = d, y.pc # "idle" => y.dev = d,
           y.pc \in {"insert", "update"} =>
               y.task \in DOMAIN tasks' /\ tasks'[y.task].dev = d,
           QueueOk', config' = config, TasksOf(d),
           registry' \in [Devices -> Nat],
           \A e \in Devices : e # d => registry'[e] = registry[e],
           registry'[d] # 0 => registry'[d] \in DOMAIN tasks' /\ tasks'[registry'[d]].dev = d,
           saved' \subseteq Devices, IsFiniteSet(saved'),
           \A e \in Devices : e # d => (e \in saved' <=> e \in saved),
           failed' \subseteq Devices, failed \subseteq failed', serial' \subseteq serial,
           d \in serial' => SerialPart(d)'
    PROVE  RegInv'
<1>0. /\ TypeOK /\ RequestPart /\ EntryPart /\ req \in [Handlers -> Request]
      /\ serial \subseteq Devices /\ \A e \in serial : SerialPart(e)
  BY DEF RegInv, TypeOK
<1>1. /\ req' \in [Handlers -> Request] /\ req'[h] = y
      /\ \A g \in Handlers : g # h => req'[g] = req[g]
  BY <1>0
<1>2. ASSUME NEW e \in Devices, e # d, registry'[e] # 0
      PROVE  registry'[e] \in DOMAIN tasks' /\ tasks'[registry'[e]].dev = e
  <2>1. registry[e] \in DOMAIN tasks /\ tasks[registry[e]].dev = e
    BY <1>0, <1>2 DEF TypeOK, EntryPart
  <2> QED BY <1>2, <2>1 DEF TasksOf
<1>3. TypeOK'
  BY <1>0, <1>1, <1>2 DEF TypeOK, TasksOf
<1>4. RequestPart'
  <2>1. ASSUME NEW g \in Handlers, g # h
        PROVE  /\ req'[g].pc # "idle" => req'[g].dev \in Devices
               /\ req'[g].pc \in {"insert", "update"} =>
                     /\ req'[g].task \in DOMAIN tasks'
                     /\ tasks'[req'[g].task].dev = req'[g].dev
    BY <1>0, <1>1, <2>1 DEF RequestPart, TasksOf
  <2> QED BY <1>1, <2>1 DEF RequestPart
<1>5. EntryPart'
  BY <1>2 DEF EntryPart
<1>6. ASSUME NEW e \in serial', e # d PROVE SerialPart(e)'
  <2>1. e \in Devices /\ SerialPart(e)
    BY <1>0
  <2>2. \A g \in Handlers : req'[g] = req[g] \/ (~Acts(g, e) /\ ~Changes(g, e)')
    BY <1>1, <1>6 DEF Changes, Acts
  <2>3. /\ \A t \in DOMAIN tasks : t \in DOMAIN tasks' /\ tasks'[t].dev = tasks[t].dev
        /\ \A t \in DOMAIN tasks' : tasks'[t].dev = e =>
             /\ t \in DOMAIN tasks /\ tasks[t].dev = e /\ tasks'[t] = tasks[t]
    BY <1>6 DEF TasksOf
  <2> QED BY <1>6, <2>1, <2>2, <2>3, Undisturbed
<1> QED BY <1>3, <1>4, <1>5, <1>6 DEF RegInv

LEMMA SameTasks ==
    ASSUME TypeOK, NEW d, UNCHANGED tasks
    PROVE  TasksOf(d)
BY DEF TypeOK, TasksOf

LEMMA Spawned ==
    ASSUME TypeOK, NEW d \in Devices, Spawn(d)
    PROVE  TasksOf(d)
<1>1. tasks \in Seq(TaskRec)
  BY DEF TypeOK
<1> QED BY <1>1, SpawnFacts DEF TasksOf

LEMMA AbortedOf ==
    ASSUME TypeOK, NEW d, NEW t \in DOMAIN tasks, tasks[t].dev = d, tasks' = Aborted(t)
    PROVE  TasksOf(d)
<1>1. tasks \in Seq(TaskRec)
  BY DEF TypeOK
<1> QED BY <1>1, AbortFacts DEF TasksOf

\* What is known of the request of a handler and of the entry of its device.
LEMMA Known ==
    ASSUME RegInv, NEW h \in Handlers, req[h].pc # "idle"
    PROVE  /\ TypeOK /\ QueueOk /\ req \in [Handlers -> Request] /\ req[h] \in Request
           /\ req[h].dev \in Devices /\ registry \in [Devices -> Nat]
           /\ IsFiniteSet(saved) /\ saved \subseteq Devices
           /\ failed \subseteq Devices /\ tasks \in Seq(TaskRec)
           /\ \A d \in Devices : registry[d] # 0 =>
                 registry[d] \in DOMAIN tasks /\ tasks[registry[d]].dev = d
           /\ req[h].pc \in {"insert", "update"} =>
                 /\ req[h].task \in DOMAIN tasks /\ tasks[req[h].task].dev = req[h].dev
                 /\ req[h].task \in Nat /\ req[h].task # 0
<1>1. /\ TypeOK /\ RequestPart /\ EntryPart /\ IsFiniteSet(saved)
      /\ tasks \in Seq(TaskRec) /\ DOMAIN tasks \subseteq Nat \ {0}
  BY DEF RegInv, TypeOK
<1> QED BY <1>1 DEF TypeOK, RequestPart, EntryPart

\* A request that changes device d while d is in `serial` is the only one.
LEMMA Alone ==
    ASSUME RegInv, NEW h \in Handlers, NEW d \in serial, Changes(h, d)
    PROVE  /\ \A g \in Handlers : g # h => ~Changes(g, d)
           /\ SerialPart(d)
BY DEF RegInv, SerialPart, OnlyOne

\* The requests that are done leave NoRequest behind.
LEMMA Over ==
    ASSUME RegInv, NEW h \in Handlers, req' = [req EXCEPT ![h] = NoRequest]
    PROVE  /\ OthersWait(h) /\ req'[h] = NoRequest
           /\ NoRequest \in Request /\ NoRequest.pc = "idle"
           /\ \A d : ~Changes(h, d)'
<1>1. req \in [Handlers -> Request]
  BY DEF RegInv, TypeOK
<1> QED BY <1>1, NoRequestFacts DEF OthersWait, Changes

-----------------------------------------------------------------------------
(* The steps.                                                              *)

LEMMA ArriveStep ==
    ASSUME RegInv, NEW h \in Handlers, NEW d \in Devices, NEW op \in Ops, Arrive(h, d, op)
    PROVE  RegInv'
<1> DEFINE y == [pc |-> op, dev |-> d, task |-> 0]
<1>0. /\ TypeOK /\ QueueOk /\ req \in [Handlers -> Request] /\ IsFiniteSet(saved)
      /\ RequestPart /\ EntryPart
  BY DEF RegInv, TypeOK
<1>1. /\ req[h].pc = "idle" /\ req' = [req EXCEPT ![h] = y] /\ queue' = Append(queue, h)
      /\ serial' = IF op # "write" /\ \E g \in Handlers : Changes(g, d)
                     THEN serial \ {d} ELSE serial
      /\ UNCHANGED <<config, registry, tasks, saved, failed>>
  BY DEF Arrive
<1>2. /\ y \in Request /\ y.pc = op /\ y.dev = d
      /\ op \in Waiting /\ op \notin {"idle", "insert", "update", "save", "delete", "send"}
  BY DEF Request, Waiting, Ops
<1> HIDE DEF y
<1>3. /\ req' \in [Handlers -> Request] /\ req'[h] = y
      /\ \A g \in Handlers : g # h => req'[g] = req[g]
  BY <1>0, <1>1, <1>2
<1>4. QueueOk'
  BY <1>0, <1>1, <1>2, <1>3, QueueJoined DEF OthersWait
<1>5. TasksOf(d)
  BY <1>0, <1>1, SameTasks
<1>6. ASSUME d \in serial' PROVE SerialPart(d)'
  <2>1. d \in serial /\ SerialPart(d)
    BY <1>1, <1>6 DEF RegInv
  <2>2. CASE op = "write"
    <3>1. \A g \in Handlers : req'[g] = req[g] \/ (~Acts(g, d) /\ ~Changes(g, d)')
      BY <1>1, <1>2, <1>3, <2>2 DEF Acts, Changes
    <3> QED BY <1>1, <2>1, <3>1, Undisturbed
  <2>3. CASE op # "write"
    <3>1. \A g \in Handlers : ~Changes(g, d)
      BY <1>1, <1>6, <2>3
    <3>2. \A g \in Handlers : g # h => ~Changes(g, d)'
      BY <1>3, <3>1 DEF Changes
    <3>3. OnlyOne(d)'
      BY <3>2 DEF OnlyOne
    <3>4. Accounted(d)'
      <4>1. \A g \in Handlers : \A t : Holds(g, t) => Holds(g, t)'
        BY <1>1, <1>3 DEF Holds
      <4> QED BY <1>1, <2>1, <4>1 DEF SerialPart, Accounted, Running
    <3>5. StillTrue(d)'
      BY <1>2, <1>3, <3>2 DEF StillTrue, Changes
    <3>6. RowsPart(d)'
      BY <1>1, <2>1, <3>1 DEF SerialPart, RowsPart, Changes
    <3> QED BY <3>3, <3>4, <3>5, <3>6 DEF SerialPart
  <2> QED BY <2>2, <2>3
<1>7. /\ registry' \in [Devices -> Nat] /\ saved' \subseteq Devices /\ IsFiniteSet(saved')
      /\ failed' \subseteq Devices /\ failed \subseteq failed' /\ serial' \subseteq serial
      /\ registry'[d] # 0 => registry'[d] \in DOMAIN tasks' /\ tasks'[registry'[d]].dev = d
      /\ \A e \in Devices : e # d => registry'[e] = registry[e]
      /\ \A e \in Devices : e # d => (e \in saved' <=> e \in saved)
  BY <1>0, <1>1 DEF TypeOK, EntryPart
<1> QED BY <1>1, <1>2, <1>4, <1>5, <1>6, <1>7, HandlerStep

\* A request ends, or a write goes on, with nothing changed but a task that is
\* told to stop.
LEMMA IdleStep ==
    ASSUME RegInv, NEW h \in Handlers, req[h].pc # "idle", NEW y \in Request,
           req' = [req EXCEPT ![h] = y], y = NoRequest \/ (y.pc = "send" /\ y.dev = req[h].dev),
           ~Acts(h, req[h].dev) \/ req[h].dev \notin serial', QueueOk',
           UNCHANGED <<config, registry, saved, failed>>, serial' \subseteq serial,
           UNCHANGED tasks \/ (Polled(req[h].dev) /\ tasks' = Aborted(registry[req[h].dev]))
    PROVE  RegInv'
<1>d. PICK d \in Devices : req[h].dev = d
  BY Known
<1>0. /\ TypeOK /\ registry \in [Devices -> Nat] /\ tasks \in Seq(TaskRec)
      /\ req \in [Handlers -> Request] /\ IsFiniteSet(saved) /\ saved \subseteq Devices
      /\ failed \subseteq Devices
      /\ registry[d] # 0 => registry[d] \in DOMAIN tasks /\ tasks[registry[d]].dev = d
  BY Known
<1>1. /\ req'[h] = y /\ \A g \in Handlers : g # h => req'[g] = req[g]
      /\ y.pc \in {"idle", "send"} /\ (y.pc # "idle" => y.dev = d)
  BY <1>d, <1>0, NoRequestFacts
<1>2. TasksOf(d)
  BY <1>d, <1>0, SameTasks, AbortedOf DEF Polled
<1>3. /\ \A t \in DOMAIN tasks : t \in DOMAIN tasks' /\ tasks'[t].dev = tasks[t].dev
      /\ \A t \in DOMAIN tasks' :
           /\ t \in DOMAIN tasks
           /\ tasks'[t].state = "running" => tasks[t].state = "running"
           /\ tasks[t].state = "finished" => tasks'[t].state = "finished"
  <2>1. CASE UNCHANGED tasks
    BY <2>1
  <2>2. CASE Polled(d) /\ tasks' = Aborted(registry[d])
    <3>1. registry[d] \in DOMAIN tasks /\ tasks[registry[d]].state # "finished"
      BY <1>0, <2>2 DEF Polled, Finished
    <3> QED BY <1>0, <2>2, <3>1, AbortFacts
  <2> QED BY <1>d, <2>1, <2>2
<1>4. ASSUME d \in serial' PROVE SerialPart(d)'
  <2>1. SerialPart(d)
    BY <1>4 DEF RegInv
  <2>2. \A g \in Handlers : req'[g] = req[g] \/ (~Acts(g, d) /\ ~Changes(g, d)')
    BY <1>d, <1>1, <1>4 DEF Changes
  <2>3. \A t \in DOMAIN tasks' : tasks'[t].dev = d =>
           /\ t \in DOMAIN tasks /\ tasks[t].dev = d
           /\ tasks'[t].state = "running" => tasks[t].state = "running"
           /\ tasks[t].state = "finished" => tasks'[t].state = "finished"
    BY <1>3
  <2> QED BY <1>0, <1>3, <2>1, <2>2, <2>3, Undisturbed
<1>5. registry'[d] # 0 => registry'[d] \in DOMAIN tasks' /\ tasks'[registry'[d]].dev = d
  BY <1>0, <1>3
<1>6. /\ registry' \in [Devices -> Nat] /\ saved' \subseteq Devices /\ IsFiniteSet(saved')
      /\ failed' \subseteq Devices /\ failed \subseteq failed' /\ config' = config
      /\ \A e \in Devices : e # d => registry'[e] = registry[e]
      /\ \A e \in Devices : e # d => (e \in saved' <=> e \in saved)
      /\ y.pc \notin {"insert", "update"}
  BY <1>0, <1>1
<1> QED BY <1>d, <1>0, <1>1, <1>2, <1>4, <1>5, <1>6, HandlerStep

LEMMA NotActing ==
    ASSUME NEW h, req[h].pc \in Ops \cup {"send"}
    PROVE  ~Acts(h, req[h].dev) /\ req[h].pc # "idle"
BY DEF Acts, Ops

LEMMA RefuseStep ==
    ASSUME RegInv, NEW h \in Handlers, Refuse(h)
    PROVE  RegInv'
<1>1. /\ req[h].pc \in Ops /\ Turn(h) /\ req' = [req EXCEPT ![h] = NoRequest]
      /\ queue' = Tail(queue)
      /\ UNCHANGED <<config, registry, tasks, saved, serial, failed>>
  BY DEF Refuse, MayRead, MayWrite, Ops
<1>2. OthersWait(h) /\ NoRequest \in Request
  BY <1>1, Over
<1>3. QueueOk'
  BY <1>1, <1>2, QueueLeft DEF RegInv, TypeOK
<1> QED BY <1>1, <1>2, <1>3, NotActing, IdleStep

LEMMA DisconnectStep ==
    ASSUME RegInv, NEW h \in Handlers, Disconnect(h)
    PROVE  RegInv'
<1>1. /\ req[h].pc \in Ops /\ Turn(h) /\ req' = [req EXCEPT ![h] = NoRequest]
      /\ queue' = Tail(queue) /\ UNCHANGED <<config, registry, saved, serial, failed>>
      /\ Polled(req[h].dev) /\ tasks' = Aborted(registry[req[h].dev])
  BY DEF Disconnect, MayWrite, Ops
<1>2. OthersWait(h) /\ NoRequest \in Request
  BY <1>1, Over
<1>3. QueueOk'
  BY <1>1, <1>2, QueueLeft DEF RegInv, TypeOK
<1> QED BY <1>1, <1>2, <1>3, NotActing, IdleStep

LEMMA WriteLookupStep ==
    ASSUME RegInv, NEW h \in Handlers, WriteLookup(h)
    PROVE  RegInv'
<1> DEFINE y == [req[h] EXCEPT !.pc = "send"]
<1>1. /\ req[h].pc \in Ops /\ req[h].pc # "idle" /\ Turn(h) /\ req' = [req EXCEPT ![h] = y]
      /\ queue' = Tail(queue)
      /\ UNCHANGED <<config, registry, tasks, saved, serial, failed>>
  BY DEF WriteLookup, MayRead, Ops
<1>2. req[h] \in Request /\ req \in [Handlers -> Request] /\ QueueOk
  BY <1>1, Known
<1>3. y \in Request /\ y.pc = "send" /\ y.dev = req[h].dev
  BY <1>2 DEF Request
<1> HIDE DEF y
<1>4. QueueOk'
  BY <1>1, <1>2, QueueLeft DEF OthersWait
<1> QED BY <1>1, <1>3, <1>4, NotActing, IdleStep

LEMMA WriteSentStep ==
    ASSUME RegInv, NEW h \in Handlers, WriteSent(h)
    PROVE  RegInv'
<1>1. /\ req[h].pc = "send" /\ req' = [req EXCEPT ![h] = NoRequest]
      /\ UNCHANGED <<config, registry, tasks, saved, queue, serial, failed>>
  BY DEF WriteSent
<1>2. OthersWait(h) /\ NoRequest \in Request
  BY <1>1, Over
<1>3. QueueOk'
  <2>1. QueueOk /\ \A i \in DOMAIN queue : queue[i] # h
    BY <1>1 DEF RegInv, TypeOK, QueueOk, Waiting, Ops
  <2> QED BY <1>1, <1>2, <2>1, QueueKept
<1> QED BY <1>1, <1>2, <1>3, NotActing, IdleStep

LEMMA HangUpStep ==
    ASSUME RegInv, NEW h \in Handlers, HangUp(h)
    PROVE  RegInv'
<1>1. /\ req[h].pc # "idle" /\ req' = [req EXCEPT ![h] = NoRequest] /\ LeavesQueue(h)
      /\ serial' = serial \ {d \in Devices : Changes(h, d)}
      /\ UNCHANGED <<config, registry, tasks, saved, failed>>
  BY DEF HangUp
<1>2. OthersWait(h) /\ NoRequest \in Request
  BY <1>1, Over
<1>3. QueueOk'
  BY <1>1, <1>2, QueueGivenUp DEF RegInv, TypeOK
<1>4. ~Acts(h, req[h].dev) \/ req[h].dev \notin serial'
  <2>1. req[h].dev \in Devices
    BY <1>1, Known
  <2> QED BY <1>1, <2>1 DEF Acts, Changes
<1> QED BY <1>1, <1>2, <1>3, <1>4, IdleStep

\* What SerialPart comes to for the only request that changes device d.
Mine(h, d) ==
    /\ \A t \in Running(d) : registry[d] = t \/ Holds(h, t)
    /\ req[h].dev = d =>
         /\ req[h].pc = "insert" => registry[d] = 0
         /\ req[h].pc = "update" => Stopped(d)
         /\ req[h].pc = "save" => registry[d] # 0
         /\ req[h].pc = "delete" => registry[d] = 0
    /\ d \notin failed =>
         /\ d \in saved => registry[d] # 0 \/ (req[h].pc = "delete" /\ req[h].dev = d)
         /\ registry[d] # 0 =>
               \/ d \in saved \cup Named(config)
               \/ req[h].pc = "save" /\ req[h].dev = d

LEMMA MineBefore ==
    ASSUME RegInv, NEW h \in Handlers, NEW d \in serial, Changes(h, d)
    PROVE  Mine(h, d)
<1>1. (\A g \in Handlers : g # h => ~Changes(g, d)) /\ SerialPart(d)
  BY Alone
<1>2. \A t \in Running(d) : registry[d] = t \/ Holds(h, t)
  <2>1. ASSUME NEW t \in Running(d), NEW g \in Handlers, Holds(g, t) PROVE g = h
    <3>1. req[g].dev = d
      BY <2>1 DEF RegInv, RequestPart, Holds, Running
    <3> QED BY <1>1, <2>1, <3>1 DEF Changes, Holds
  <2> QED BY <1>1, <2>1 DEF SerialPart, Accounted
<1>3. ASSUME NEW g \in Handlers, req[g].dev = d, req[g].pc \in {"delete", "save"}
      PROVE  g = h
  BY <1>1, <1>3 DEF Changes
<1> QED BY <1>1, <1>2, <1>3 DEF Mine, SerialPart, StillTrue, RowsPart

LEMMA MineAfter ==
    ASSUME RegInv, NEW h \in Handlers, NEW d \in serial, Changes(h, d), OthersWait(h), Mine(h, d)'
    PROVE  SerialPart(d)'
<1>1. \A g \in Handlers : g # h => ~Changes(g, d) /\ req'[g] = req[g]
  BY Alone DEF OthersWait
<1>2. \A g \in Handlers : g # h => ~Changes(g, d)'
  BY <1>1 DEF Changes
<1>3. OnlyOne(d)'
  BY <1>2 DEF OnlyOne
<1>4. Accounted(d)'
  BY DEF Mine, Accounted
<1>5. StillTrue(d)'
  BY <1>2 DEF Mine, StillTrue, Changes
<1>6. RowsPart(d)'
  BY DEF Mine, RowsPart
<1> QED BY <1>3, <1>4, <1>5, <1>6 DEF SerialPart

\* A task of an add or a connect has been spawned.
LEMMA SpawnStep ==
    ASSUME RegInv, NEW h \in Handlers, NEW d \in Devices, req[h].dev = d,
           NEW y \in Request, req' = [req EXCEPT ![h] = y],
           y.dev = d, y.task = Len(tasks) + 1,
           \/ req[h].pc = "add" /\ registry[d] = 0 /\ y.pc = "insert"
           \/ req[h].pc = "connect" /\ Stopped(d) /\ y.pc = "update",
           Turn(h), queue' = Append(Tail(queue), h), Spawn(d),
           UNCHANGED <<config, registry, saved, serial, failed>>
    PROVE  RegInv'
<1>0. /\ TypeOK /\ QueueOk /\ req \in [Handlers -> Request] /\ tasks \in Seq(TaskRec)
      /\ registry \in [Devices -> Nat] /\ IsFiniteSet(saved) /\ saved \subseteq Devices
      /\ failed \subseteq Devices
      /\ registry[d] # 0 => registry[d] \in DOMAIN tasks /\ tasks[registry[d]].dev = d
  BY Known
<1>1. req'[h] = y /\ OthersWait(h) /\ y.pc \in Waiting /\ y.pc # "idle"
  BY <1>0 DEF OthersWait, Waiting
<1>2. QueueOk'
  BY <1>0, <1>1, QueueAgain
<1>3. /\ TasksOf(d)
      /\ Len(tasks) + 1 \in DOMAIN tasks' /\ Len(tasks) + 1 \notin DOMAIN tasks
      /\ tasks'[Len(tasks) + 1].dev = d
      /\ \A t \in DOMAIN tasks : t \in DOMAIN tasks' /\ tasks'[t] = tasks[t]
      /\ \A t \in DOMAIN tasks' : t \in DOMAIN tasks \/ t = Len(tasks) + 1
  BY <1>0, SpawnFacts, Spawned
<1>4. ASSUME d \in serial PROVE SerialPart(d)'
  <2>1. Changes(h, d) /\ Mine(h, d)
    BY <1>4, MineBefore DEF Changes
  <2>2. \A t \in Running(d)' : registry'[d] = t \/ Holds(h, t)'
    BY <1>1, <1>3, <2>1 DEF Mine, Running, Holds
  <2>3. Stopped(d) => Stopped(d)'
    BY <1>0, <1>3 DEF Stopped, Finished
  <2>4. Mine(h, d)'
    BY <1>1, <2>1, <2>2, <2>3 DEF Mine
  <2> QED BY <1>1, <1>4, <2>1, <2>4, MineAfter
<1>5. registry'[d] # 0 => registry'[d] \in DOMAIN tasks' /\ tasks'[registry'[d]].dev = d
  BY <1>0, <1>3
<1>6. y.task \in DOMAIN tasks' /\ tasks'[y.task].dev = d
  BY <1>3
<1> QED BY <1>0, <1>1, <1>2, <1>3, <1>4, <1>5, <1>6, HandlerStep

LEMMA AddCheckStep ==
    ASSUME RegInv, NEW h \in Handlers, AddCheck(h)
    PROVE  RegInv'
<1>1. PICK d \in Devices : req[h].dev = d
  BY Known DEF AddCheck
<1>2. req[h] \in Request /\ Len(tasks) + 1 \in Nat
  BY Known DEF AddCheck
<1> DEFINE y == [req[h] EXCEPT !.pc = "insert", !.task = Len(tasks) + 1]
<1>3. /\ req[h].pc = "add" /\ Turn(h) /\ registry[d] = 0 /\ Spawn(d)
      /\ req' = [req EXCEPT ![h] = y] /\ queue' = Append(Tail(queue), h)
      /\ UNCHANGED <<config, registry, saved, serial, failed>>
  BY <1>1 DEF AddCheck, MayRead
<1>4. y \in Request /\ y.pc = "insert" /\ y.dev = d /\ y.task = Len(tasks) + 1
  BY <1>1, <1>2 DEF Request, Waiting
<1> HIDE DEF y
<1> QED BY <1>1, <1>3, <1>4, SpawnStep

LEMMA ConnectCheckStep ==
    ASSUME RegInv, NEW h \in Handlers, ConnectCheck(h)
    PROVE  RegInv'
<1>1. PICK d \in Devices : req[h].dev = d
  BY Known DEF ConnectCheck
<1>2. req[h] \in Request /\ Len(tasks) + 1 \in Nat
  BY Known DEF ConnectCheck
<1> DEFINE y == [req[h] EXCEPT !.pc = "update", !.task = Len(tasks) + 1]
<1>3. /\ req[h].pc = "connect" /\ Turn(h) /\ Stopped(d) /\ Spawn(d)
      /\ req' = [req EXCEPT ![h] = y] /\ queue' = Append(Tail(queue), h)
      /\ UNCHANGED <<config, registry, saved, serial, failed>>
  BY <1>1 DEF ConnectCheck, MayRead
<1>4. y \in Request /\ y.pc = "update" /\ y.dev = d /\ y.task = Len(tasks) + 1
  BY <1>1, <1>2 DEF Request, Waiting
<1> HIDE DEF y
<1> QED BY <1>1, <1>3, <1>4, SpawnStep

LEMMA AddInsertStep ==
    ASSUME RegInv, NEW h \in Handlers, AddInsert(h)
    PROVE  RegInv'
<1>1. PICK d \in Devices : req[h].dev = d
  BY Known DEF AddInsert
<1> DEFINE y == [req[h] EXCEPT !.pc = "save"]
<1>2. /\ req[h].pc = "insert" /\ Turn(h) /\ registry' = [registry EXCEPT ![d] = req[h].task]
      /\ req' = [req EXCEPT ![h] = y] /\ queue' = Tail(queue)
      /\ UNCHANGED <<config, tasks, saved, serial, failed>>
  BY <1>1 DEF AddInsert, MayWrite
<1>3. /\ TypeOK /\ QueueOk /\ req \in [Handlers -> Request] /\ req[h] \in Request
      /\ registry \in [Devices -> Nat] /\ IsFiniteSet(saved) /\ saved \subseteq Devices
      /\ failed \subseteq Devices
      /\ req[h].task \in DOMAIN tasks /\ tasks[req[h].task].dev = d
      /\ req[h].task \in Nat /\ req[h].task # 0
  BY <1>1, <1>2, Known
<1>4. y \in Request /\ y.pc = "save" /\ y.dev = d
  BY <1>1, <1>3 DEF Request
<1> HIDE DEF y
<1>5. req'[h] = y /\ OthersWait(h)
  BY <1>2, <1>3 DEF OthersWait
<1>6. /\ registry' \in [Devices -> Nat] /\ registry'[d] = req[h].task
      /\ \A e \in Devices : e # d => registry'[e] = registry[e]
  BY <1>2, <1>3
<1>7. QueueOk' /\ TasksOf(d)
  BY <1>2, <1>3, <1>5, QueueLeft, SameTasks
<1>8. ASSUME d \in serial PROVE SerialPart(d)'
  <2>1. Changes(h, d) /\ Mine(h, d)
    BY <1>1, <1>2, <1>8, MineBefore DEF Changes
  <2>2. \A t \in Running(d)' : registry'[d] = t
    <3>1. \A t \in Running(d) : t # 0
      BY <1>3 DEF Running, TypeOK
    <3> QED BY <1>1, <1>2, <1>6, <2>1, <3>1 DEF Mine, Running, Holds
  <2>3. Mine(h, d)'
    BY <1>3, <1>4, <1>5, <1>6, <2>2 DEF Mine
  <2> QED BY <1>2, <1>5, <1>8, <2>1, <2>3, MineAfter
<1> QED BY <1>1, <1>2, <1>3, <1>4, <1>6, <1>7, <1>8, HandlerStep

LEMMA ConnectUpdateStep ==
    ASSUME RegInv, NEW h \in Handlers, ConnectUpdate(h)
    PROVE  RegInv'
<1>1. PICK d \in Devices : req[h].dev = d
  BY Known DEF ConnectUpdate
<1> DEFINE new == IF registry[d] # 0 THEN req[h].task ELSE 0
<1>2. /\ req[h].pc = "update" /\ Turn(h) /\ registry' = [registry EXCEPT ![d] = new]
      /\ req' = [req EXCEPT ![h] = NoRequest] /\ queue' = Tail(queue)
      /\ UNCHANGED <<config, tasks, saved, serial, failed>>
  BY <1>1 DEF ConnectUpdate, MayWrite
<1>3. /\ TypeOK /\ QueueOk /\ req \in [Handlers -> Request]
      /\ registry \in [Devices -> Nat] /\ IsFiniteSet(saved) /\ saved \subseteq Devices
      /\ failed \subseteq Devices
      /\ req[h].task \in DOMAIN tasks /\ tasks[req[h].task].dev = d
      /\ req[h].task \in Nat /\ req[h].task # 0
  BY <1>1, <1>2, Known
<1>4. new \in Nat /\ (new # 0 => registry[d] # 0 /\ new = req[h].task)
  BY <1>3
<1>5. registry[d] # 0 => new = req[h].task
  OBVIOUS
<1> HIDE DEF new
<1>6. /\ OthersWait(h) /\ req'[h] = NoRequest /\ NoRequest \in Request
      /\ NoRequest.pc = "idle"
  BY <1>2, Over
<1>7. /\ registry' \in [Devices -> Nat] /\ registry'[d] = new
      /\ \A e \in Devices : e # d => registry'[e] = registry[e]
  BY <1>2, <1>3, <1>4
<1>8. QueueOk' /\ TasksOf(d)
  BY <1>2, <1>3, <1>6, QueueLeft, SameTasks
<1>9. ASSUME d \in serial PROVE SerialPart(d)'
  <2>1. Changes(h, d) /\ Mine(h, d)
    BY <1>1, <1>2, <1>9, MineBefore DEF Changes
  <2>2. Stopped(d) /\ registry'[d] = req[h].task
    BY <1>1, <1>2, <1>5, <1>7, <2>1 DEF Mine, Stopped
  <2>3. \A t \in Running(d)' : registry'[d] = t
    BY <1>2, <2>1, <2>2 DEF Mine, Running, Holds, Stopped, Finished
  <2>4. Mine(h, d)'
    BY <1>2, <1>3, <1>6, <2>1, <2>2, <2>3 DEF Mine, Stopped
  <2> QED BY <1>2, <1>6, <1>9, <2>1, <2>4, MineAfter
<1>10. registry'[d] # 0 => registry'[d] \in DOMAIN tasks' /\ tasks'[registry'[d]].dev = d
  BY <1>2, <1>3, <1>4, <1>7
<1> QED BY <1>1, <1>2, <1>3, <1>6, <1>7, <1>8, <1>9, <1>10, HandlerStep

\* What the statement on the row of the device leaves behind.
LEMMA RowStep ==
    ASSUME RegInv, NEW h \in Handlers, NEW d \in Devices, req[h].dev = d,
           req' = [req EXCEPT ![h] = NoRequest],
           \/ req[h].pc = "save" /\ saved' = saved \cup {d} /\ UNCHANGED failed
           \/ req[h].pc = "delete" /\ saved' = saved \ {d} /\ UNCHANGED failed
           \/ /\ req[h].pc \in {"save", "delete"}
              /\ UNCHANGED saved /\ failed' = failed \cup {d},
           UNCHANGED <<config, registry, tasks, queue, serial>>
    PROVE  RegInv'
<1>1. /\ TypeOK /\ QueueOk /\ req \in [Handlers -> Request]
      /\ registry \in [Devices -> Nat] /\ IsFiniteSet(saved) /\ saved \subseteq Devices
      /\ failed \subseteq Devices
      /\ registry[d] # 0 => registry[d] \in DOMAIN tasks /\ tasks[registry[d]].dev = d
  BY Known
<1>2. /\ OthersWait(h) /\ req'[h] = NoRequest /\ NoRequest \in Request
      /\ NoRequest.pc = "idle"
  BY Over
<1>3. QueueOk'
  <2>1. \A i \in DOMAIN queue : queue[i] # h
    BY <1>1 DEF QueueOk, Waiting, Ops
  <2> QED BY <1>1, <1>2, <2>1, QueueKept
<1>4. /\ saved' \subseteq Devices /\ failed' \subseteq Devices /\ failed \subseteq failed'
      /\ \A e \in Devices : e # d => (e \in saved' <=> e \in saved)
  BY <1>1
<1>5. IsFiniteSet(saved')
  BY <1>1, FS_AddElement, FS_RemoveElement
<1>6. TasksOf(d)
  BY <1>1, SameTasks
<1>7. ASSUME d \in serial PROVE SerialPart(d)'
  <2>1. Changes(h, d) /\ Mine(h, d)
    BY <1>7, MineBefore DEF Changes
  <2>2. \A t \in Running(d)' : registry'[d] = t
    BY <2>1 DEF Mine, Running, Holds
  <2>3. Mine(h, d)'
    BY <1>2, <2>1, <2>2 DEF Mine
  <2> QED BY <1>2, <1>7, <2>1, <2>3, MineAfter
<1>8. registry'[d] # 0 => registry'[d] \in DOMAIN tasks' /\ tasks'[registry'[d]].dev = d
  BY <1>1
<1> QED BY <1>1, <1>2, <1>3, <1>4, <1>5, <1>6, <1>7, <1>8, HandlerStep

LEMMA AddSaveStep ==
    ASSUME RegInv, NEW h \in Handlers, AddSave(h)
    PROVE  RegInv'
<1>1. PICK d \in Devices : req[h].dev = d
  BY Known DEF AddSave
<1> QED BY <1>1, RowStep DEF AddSave

LEMMA RemoveRowStep ==
    ASSUME RegInv, NEW h \in Handlers, RemoveRow(h)
    PROVE  RegInv'
<1>1. PICK d \in Devices : req[h].dev = d
  BY Known DEF RemoveRow
<1> QED BY <1>1, RowStep DEF RemoveRow

LEMMA RemoveEntryStep ==
    ASSUME RegInv, NEW h \in Handlers, RemoveEntry(h)
    PROVE  RegInv'
<1>1. PICK d \in Devices : req[h].dev = d
  BY Known DEF RemoveEntry
<1> DEFINE y == [req[h] EXCEPT !.pc = "delete"]
<1>2. /\ req[h].pc = "remove" /\ Turn(h) /\ registry[d] # 0
      /\ registry' = [registry EXCEPT ![d] = 0] /\ tasks' = Aborted(registry[d])
      /\ req' = [req EXCEPT ![h] = y] /\ queue' = Tail(queue)
      /\ UNCHANGED <<config, saved, serial, failed>>
  BY <1>1 DEF RemoveEntry, MayWrite
<1>3. /\ TypeOK /\ QueueOk /\ req \in [Handlers -> Request] /\ req[h] \in Request
      /\ registry \in [Devices -> Nat] /\ IsFiniteSet(saved) /\ saved \subseteq Devices
      /\ failed \subseteq Devices /\ tasks \in Seq(TaskRec)
      /\ registry[d] \in DOMAIN tasks /\ tasks[registry[d]].dev = d
  BY <1>1, <1>2, Known
<1>4. y \in Request /\ y.pc = "delete" /\ y.dev = d
  BY <1>1, <1>3 DEF Request
<1> HIDE DEF y
<1>5. req'[h] = y /\ OthersWait(h)
  BY <1>2, <1>3 DEF OthersWait
<1>6. /\ registry' \in [Devices -> Nat] /\ registry'[d] = 0
      /\ \A e \in Devices : e # d => registry'[e] = registry[e]
  BY <1>2, <1>3
<1>7. QueueOk' /\ TasksOf(d)
  BY <1>2, <1>3, <1>5, QueueLeft, AbortedOf
<1>8. ASSUME d \in serial PROVE SerialPart(d)'
  <2>1. Changes(h, d) /\ Mine(h, d)
    BY <1>1, <1>2, <1>8, MineBefore DEF Changes
  <2>2. Running(d)' = {}
    <3>1. /\ DOMAIN tasks' = DOMAIN tasks /\ tasks'[registry[d]].state # "running"
          /\ \A t \in DOMAIN tasks : t # registry[d] => tasks'[t] = tasks[t]
      BY <1>2, <1>3, AbortFacts
    <3> QED BY <1>2, <2>1, <3>1 DEF Mine, Running, Holds
  <2>3. Mine(h, d)'
    BY <1>4, <1>5, <1>6, <2>2 DEF Mine
  <2> QED BY <1>2, <1>5, <1>8, <2>1, <2>3, MineAfter
<1> QED BY <1>1, <1>2, <1>3, <1>4, <1>6, <1>7, <1>8, HandlerStep

LEMMA TaskStopsStep ==
    ASSUME RegInv, NEW t \in DOMAIN tasks, TaskStops(t)
    PROVE  RegInv'
<1>1. /\ tasks[t].state = "aborted" /\ tasks' = [tasks EXCEPT ![t].state = "finished"]
      /\ UNCHANGED <<config, registry, saved, queue, req, serial, failed>>
  BY DEF TaskStops
<1>2. TypeOK /\ RequestPart /\ EntryPart /\ IsFiniteSet(saved)
      /\ serial \subseteq Devices /\ tasks \in Seq(TaskRec)
  BY DEF RegInv, TypeOK
<1>3. /\ tasks' \in Seq(TaskRec) /\ DOMAIN tasks' = DOMAIN tasks
      /\ \A u \in DOMAIN tasks : tasks'[u].dev = tasks[u].dev
      /\ \A u \in DOMAIN tasks : u # t => tasks'[u] = tasks[u]
      /\ tasks'[t].state = "finished"
  BY <1>1, <1>2, StateFacts
<1>4. TypeOK'
  BY <1>1, <1>2, <1>3 DEF TypeOK, QueueOk
<1>5. RequestPart' /\ EntryPart'
  BY <1>1, <1>2, <1>3 DEF RequestPart, EntryPart, TypeOK
<1>6. ASSUME NEW e \in serial' PROVE SerialPart(e)'
  <2>1. e \in Devices /\ SerialPart(e)
    BY <1>1, <1>2 DEF RegInv
  <2> QED BY <1>1, <1>3, <2>1, Undisturbed
<1> QED BY <1>1, <1>2, <1>4, <1>5, <1>6 DEF RegInv

LEMMA RestartStep ==
    ASSUME RegInv, Restart
    PROVE  RegInv'
<1>1. Started'
  BY DEF RegInv, TypeOK, Restart, Started, LoadedRows, NotLoaded
<1> QED BY <1>1, StartState, PTL

LEMMA RegStep == RegInv /\ [Next]_vars => RegInv'
<1> SUFFICES ASSUME RegInv, [Next]_vars PROVE RegInv'
  OBVIOUS
<1>1. CASE Restart
  BY <1>1, RestartStep
<1>2. CASE \E t \in DOMAIN tasks : TaskStops(t)
  BY <1>2, TaskStopsStep
<1>3. ASSUME NEW h \in Handlers, NEW d \in Devices, NEW op \in Ops, Arrive(h, d, op)
      PROVE  RegInv'
  BY <1>3, ArriveStep
<1>4. ASSUME NEW h \in Handlers, Continue(h) PROVE RegInv'
  BY <1>4, RefuseStep, AddCheckStep, AddInsertStep, AddSaveStep, RemoveEntryStep,
     RemoveRowStep, DisconnectStep, ConnectCheckStep, ConnectUpdateStep,
     WriteLookupStep DEF Continue
<1>5. ASSUME NEW h \in Handlers, WriteSent(h) \/ HangUp(h) PROVE RegInv'
  BY <1>5, WriteSentStep, HangUpStep
<1>6. CASE UNCHANGED vars
  <2>1. UNCHANGED <<config, registry, tasks, saved, queue, req, serial, failed>>
    BY <1>6 DEF vars
  <2>2. TypeOK' /\ IsFiniteSet(saved')
    BY <2>1 DEF RegInv, TypeOK, QueueOk
  <2>3. RequestPart' /\ EntryPart'
    BY <2>1 DEF RegInv, RequestPart, EntryPart
  <2>4. ASSUME NEW e \in serial' PROVE SerialPart(e)'
    <3>1. e \in Devices /\ SerialPart(e)
      BY <2>1 DEF RegInv, TypeOK
    <3> QED BY <2>1, <3>1, Undisturbed
  <2> QED BY <2>2, <2>3, <2>4 DEF RegInv
<1> QED BY <1>1, <1>2, <1>3, <1>4, <1>5, <1>6 DEF Next

-----------------------------------------------------------------------------
(* The theorems.                                                           *)

\* The state keeps its type: every entry points at a task that was spawned,
\* every handler in the queue of the lock is there once and waits for it.
THEOREM RegistryTypeCorrect == Spec => []TypeOK
<1>1. RegInv => TypeOK
  BY DEF RegInv
<1> QED BY <1>1, RegInit, RegStep, PTL DEF Spec

\* Two running tasks of one device are both accounted for by its entry or by
\* the one request there is: by its entry only, because an insert has found no
\* entry and an update one whose task has finished.
LEMMA OneRunning ==
    ASSUME RegInv, NEW d \in serial, NEW t \in Running(d), NEW u \in Running(d)
    PROVE  t = u
<1>1. /\ SerialPart(d) /\ RequestPart
      /\ t \in DOMAIN tasks /\ tasks[t].dev = d /\ tasks[t].state = "running"
      /\ u \in DOMAIN tasks /\ tasks[u].dev = d /\ tasks[u].state = "running"
      /\ t # 0 /\ u # 0
  BY DEF RegInv, TypeOK, Running
<1>2. registry[d] = t \/ \E h \in Handlers : Holds(h, t)
  BY <1>1 DEF SerialPart, Accounted
<1>3. registry[d] = u \/ \E h \in Handlers : Holds(h, u)
  BY <1>1 DEF SerialPart, Accounted
<1>4. ASSUME NEW h \in Handlers, NEW v \in {t, u}, Holds(h, v)
      PROVE  Changes(h, d) /\ req[h].dev = d
  BY <1>1, <1>4 DEF RequestPart, Holds, Changes
<1>5. \A g, h \in Handlers : Holds(g, t) /\ Holds(h, u) => t = u
  BY <1>1, <1>4 DEF SerialPart, OnlyOne, Holds
<1>6. ASSUME NEW h \in Handlers, NEW v \in {t, u}, Holds(h, v), registry[d] \in {t, u}
      PROVE  FALSE
  BY <1>1, <1>4, <1>6 DEF SerialPart, StillTrue, Holds, Stopped, Finished
<1> QED BY <1>2, <1>3, <1>5, <1>6

\* As long as the requests about a device come one at a time and config.toml
\* names it once, it is not polled by two tasks.
THEOREM OnePollerWithoutOverlap == Spec => []OnePollerIfSerial
<1>1. ASSUME RegInv, NEW d \in serial PROVE Cardinality(Running(d)) <= 1
  <2>1. CASE Running(d) = {}
    BY <2>1, FS_EmptySet
  <2>2. CASE Running(d) # {}
    <3>1. PICK t : t \in Running(d)
      BY <2>2
    <3>2. Running(d) = {t}
      BY <1>1, <3>1, OneRunning
    <3> QED BY <3>2, FS_Singleton
  <2> QED BY <2>1, <2>2
<1>2. RegInv => OnePollerIfSerial
  BY <1>1 DEF OnePollerIfSerial
<1> QED BY <1>2, RegInit, RegStep, PTL DEF Spec

\* With no request about a device under way, its running tasks are registered
\* and its row and its entry belong together.
LEMMA SettledFacts ==
    ASSUME RegInv, NEW d \in Devices, Settled(d)
    PROVE  /\ NoOrphan(d)
           /\ d \notin failed =>
                 /\ NoGhost(d)
                 /\ registry[d] # 0 => d \in saved \cup Named(config)
<1>1. SerialPart(d) /\ RequestPart /\ \A h \in Handlers : ~Changes(h, d)
  BY DEF RegInv, Settled
<1>2. NoOrphan(d)
  <2>1. ASSUME NEW t \in Running(d), NEW h \in Handlers, Holds(h, t) PROVE FALSE
    BY <1>1, <2>1 DEF RequestPart, Holds, Running, Changes
  <2> QED BY <1>1, <2>1 DEF NoOrphan, SerialPart, Accounted
<1>3. \A h \in Handlers : ~(req[h].dev = d /\ req[h].pc \in {"save", "delete"})
  BY <1>1 DEF Changes
<1> QED BY <1>1, <1>2, <1>3 DEF NoGhost, SerialPart, RowsPart

\* ... and once they are over, every running task of the device is the one of
\* its entry, and a device of the table has an entry unless a statement about
\* it has failed, be it the one that loads the table.
THEOREM AgreementWithoutOverlap == Spec => []AgreeIfSerial
<1>1. RegInv => AgreeIfSerial
  BY SettledFacts DEF AgreeIfSerial
<1> QED BY <1>1, RegInit, RegStep, PTL DEF Spec

\* ... and, the other way round, a device with an entry is in the table or in
\* config.toml, so that the next start finds it.
THEOREM AddedDevicesSurvive == Spec => []AddedSurvive
<1>1. RegInv => AddedSurvive
  BY SettledFacts DEF AddedSurvive
<1> QED BY <1>1, RegInit, RegStep, PTL DEF Spec
=============================================================================
