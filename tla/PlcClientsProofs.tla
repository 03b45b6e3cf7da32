-------------------------- MODULE PlcClientsProofs --------------------------
(***************************************************************************)
(* Proofs about PlcClients, for every set of registers, every choice of    *)
(* monitored ones, every value and every stale limit: a poll from the      *)
(* cache finds every monitored register, a lost connection is noticed      *)
(* after the polls that waiting notifications pay for, and both clients    *)
(* implement PlcLink.                                                      *)
(***************************************************************************)
EXTENDS PlcClients, SequenceTheorems, TLAPS

\* All the proofs need to know of the width of a register.
LEMMA MaxU16Nat == MaxU16 \in Nat
BY SMT DEF MaxU16

\* `as u16` of an integer, and of a float.
LEMMA WrapInRange == \A n \in Int : n % (MaxU16 + 1) \in Words
BY MaxU16Nat DEF Words

LEMMA ClampInRange == \A n \in Int : Clamp(n) \in Words
BY MaxU16Nat DEF Words, Clamp

\* No word is the mark of a missing one.
LEMMA WordIsNotNone == \A n \in Words : n # None
<1>1. Words \subseteq Nat
  BY MaxU16Nat DEF Words
<1> QED BY <1>1, ClientsAssumption

\* The conversion ends in a u16 and so is never taken for a missing entry.
LEMMA ConversionInRange ==
    ASSUME NEW x \in Variants
    PROVE  variant_to_u16(x) \in Words /\ variant_to_u16(x) # None
<1>1. x.type \in {"integer", "float", "null"} /\ x.val \in Int
  BY ClientsAssumption
<1>2. x.val % (MaxU16 + 1) \in Words
  BY <1>1, WrapInRange
<1>3. Clamp(x.val) \in Words
  BY <1>1, ClampInRange
<1>4. variant_to_u16(x) \in Words
  <2>1. CASE x.type = "integer"
    BY <2>1, <1>2 DEF variant_to_u16
  <2>2. CASE x.type = "float"
    BY <2>2, <1>3 DEF variant_to_u16
  <2>3. CASE x.type = "null"
    BY <2>3, MaxU16Nat DEF variant_to_u16, Words
  <2> QED BY <1>1, <2>1, <2>2, <2>3
<1> QED BY <1>4, WordIsNotNone

\* The two ways to say what a reading is; TypeOK has the one TLC evaluates.
LEMMA ReadingDef == \A f : IsReading(f) <=> f \in [Regs -> Words \cup {None}]
<1>1. Words \subseteq Nat
  BY MaxU16Nat DEF Words
<1> QED BY <1>1 DEF IsReading

\* The notifications that wait: one more at the end, one less at the front.
Notes == [Regs -> Variants \cup {None}]

LEMMA NotesAppend ==
    ASSUME NEW q \in Seq(Notes), NEW e \in Notes, NEW r, r = Append(q, e)
    PROVE  /\ r \in Seq(Notes) /\ r # <<>> /\ Len(r) = Len(q) + 1
           /\ \A i \in DOMAIN r : r[i] = e \/ (i \in DOMAIN q /\ r[i] = q[i])
           /\ q = <<>> => Head(r) = e
           /\ q # <<>> => Head(r) = Head(q)
<1>1. /\ r \in Seq(Notes) /\ Len(r) = Len(q) + 1 /\ DOMAIN r = 1..(Len(q) + 1)
      /\ DOMAIN q = 1..Len(q)
      /\ \A i \in 1..Len(q) : r[i] = q[i]
      /\ r[Len(q) + 1] = e
  OBVIOUS
<1>2. r # <<>> /\ Head(r) = r[1]
  BY <1>1
<1>3. q = <<>> => Len(q) = 0
  OBVIOUS
<1>4. q # <<>> => 1 \in 1..Len(q) /\ Head(q) = q[1]
  OBVIOUS
<1> QED BY <1>1, <1>2, <1>3, <1>4

LEMMA NotesTail ==
    ASSUME NEW q \in Seq(Notes), q # <<>>
    PROVE  /\ Head(q) \in Notes /\ 1 \in DOMAIN q /\ Head(q) = q[1]
           /\ Tail(q) \in Seq(Notes) /\ Len(Tail(q)) = Len(q) - 1
           /\ \A i \in DOMAIN Tail(q) : i + 1 \in DOMAIN q /\ Tail(q)[i] = q[i + 1]
<1>1. /\ Len(q) \in Nat /\ Len(q) >= 1 /\ DOMAIN q = 1..Len(q)
      /\ Head(q) = q[1] /\ Tail(q) \in Seq(Notes) /\ Len(Tail(q)) = Len(q) - 1
      /\ DOMAIN Tail(q) = 1..(Len(q) - 1)
  OBVIOUS
<1>2. \A i \in 1..(Len(q) - 1) : Tail(q)[i] = q[i + 1]
  OBVIOUS
<1> QED BY <1>1, <1>2

LEMMA NotesSingle ==
    ASSUME NEW e \in Notes
    PROVE  <<e>> \in Seq(Notes) /\ Len(<<e>>) = 1 /\ <<e>> # <<>>
OBVIOUS

LEMMA NotesEmpty == <<>> \in Seq(Notes) /\ Len(<<>>) = 0
OBVIOUS

\* A sequence of one has nothing after its head.
LEMMA TailOfOne ==
    ASSUME NEW q \in Seq(Notes), Len(q) = 1
    PROVE  Tail(q) = <<>>
<1>1. q # <<>>
  <2>1. SUFFICES ASSUME q = <<>> PROVE FALSE
    OBVIOUS
  <2>2. Len(q) = Len(<<>>)
    BY <2>1
  <2> QED BY <2>2, EmptySeq
<1>2. Tail(q) \in Seq(Notes) /\ Len(Tail(q)) = 0
  BY <1>1, NotesTail
<1> QED BY <1>2, EmptySeq

-----------------------------------------------------------------------------
(* Types.                                                                  *)

\* While the subscription is trusted the counter has not passed its limit, and
\* the callback has a notification in its hands while it inserts.
TypeInv ==
    /\ TypeOK
    /\ active => stale <= StaleLimit
    /\ cb = "insert" => notes # <<>>

LEMMA TypeInit == Init => TypeInv
<1> SUFFICES ASSUME Init PROVE TypeInv
  OBVIOUS
<1>1. /\ sub \in [live : BOOLEAN, last : [Regs -> Variants \cup {None}]]
      /\ notes \in Seq([Regs -> Variants \cup {None}]) /\ cb # "insert"
  BY NotesEmpty DEF Init, NoSub, NoWords, Notes
<1>2. IsReading(cache) /\ IsReading(buf) /\ IsReading(shown)
  BY ReadingDef DEF Init, NoWords
<1>3. held \in [Regs -> SUBSET Variants]
  BY DEF Init
<1>4. stale \in 0..(StaleLimit + 1)
  BY ClientsAssumption DEF Init
<1>5. /\ proto \in Protocols /\ plc \in [Regs -> Variants] /\ up \in BOOLEAN
      /\ link \in {"none", "up", "cut", "halfopen"} /\ cb = "idle" /\ pc \in Pcs
  BY DEF Init, Pcs
<1>6. fresh = FALSE /\ active = FALSE /\ credit \in Int
  BY DEF Init
<1> QED BY <1>1, <1>2, <1>3, <1>4, <1>5, <1>6 DEF TypeInv, TypeOK

LEMMA TypeStep == TypeInv /\ [Next]_vars => TypeInv'
<1> SUFFICES ASSUME TypeInv, [Next]_vars PROVE TypeInv'
  OBVIOUS
<1> USE DEF TypeInv, TypeOK, Pcs, server, subscription, client
<1>0. IsReading(NoWords)
  BY ReadingDef DEF NoWords
<1>1. CASE UNCHANGED vars
  BY <1>1 DEF vars
<1>2. ASSUME NEW r \in Regs, PlcChanges(r) PROVE TypeInv'
  BY <1>2 DEF PlcChanges, Store
<1>3. CASE PlcGoes
  <2>1. credit' \in Int
    BY <1>3, NotesEmpty DEF PlcGoes, Credit
  <2> QED BY <1>3, <2>1 DEF PlcGoes, NoSub, NoWords
<1>4. CASE PlcComes
  BY <1>4 DEF PlcComes
<1>5. CASE Publish
  <2> DEFINE changed == {r \in Regs \ Unmonitored : sub.last[r] # plc[r]}
             note == [r \in Regs |-> IF r \in changed THEN plc[r] ELSE None]
  <2>1. /\ notes' = Append(notes, note)
        /\ sub' = [sub EXCEPT !.last =
                      [r \in Regs |-> IF r \in changed THEN plc[r] ELSE @[r]]]
        /\ UNCHANGED <<proto, server, cb, pc, client, buf, shown, credit>>
    BY <1>5 DEF Publish
  <2>2. note \in Notes
    BY DEF Notes
  <2>3. notes \in Seq(Notes)
    BY DEF Notes
  <2>4. notes' \in Seq(Notes) /\ notes' # <<>>
    <3> HIDE DEF note
    <3> QED BY <2>1, <2>2, <2>3, NotesAppend
  <2>5. sub' \in [live : BOOLEAN, last : [Regs -> Variants \cup {None}]]
    BY <2>1
  <2> QED BY <2>1, <2>4, <2>5 DEF Notes
<1>6. CASE Deliver
  BY <1>6 DEF Deliver
<1>7. CASE CallbackInserts
  <2> DEFINE note == Head(notes)
  <2>1. /\ cb = "insert" /\ cb' = "count" /\ notes' = Tail(notes)
        /\ cache' = [r \in Regs |-> IF note[r] = None THEN cache[r]
                                                      ELSE variant_to_u16(note[r])]
        /\ UNCHANGED <<proto, server, sub, pc, fresh, active, stale, buf, shown, credit>>
    BY <1>7 DEF CallbackInserts
  <2>2. note \in Notes /\ notes' \in Seq(Notes)
    BY <2>1, NotesTail DEF Notes
  <2>3. IsReading(cache')
    <3>1. \A r \in Regs : cache[r] \in Words \cup {None}
      BY ReadingDef
    <3>2. \A r \in Regs : note[r] # None => variant_to_u16(note[r]) \in Words
      BY <2>2, ConversionInRange DEF Notes
    <3>3. cache' \in [Regs -> Words \cup {None}]
      <4> HIDE DEF note
      <4> QED BY <2>1, <3>1, <3>2
    <3> QED BY <3>3, ReadingDef
  <2> QED BY <2>1, <2>2, <2>3 DEF Notes
<1>8. CASE CallbackCounts
  BY <1>8 DEF CallbackCounts
<1>9. CASE BeginConnect
  BY <1>0, <1>9 DEF BeginConnect, ResetCache
<1>10. CASE ConnectOk
  <2>1. /\ link' = "up" /\ pc' = "select" /\ stale' = 0
        /\ held' = [r \in Regs |-> {plc[r]}]
        /\ active' \in BOOLEAN
        /\ UNCHANGED <<proto, plc, up, notes, cb, cache, fresh, buf, shown, credit>>
    <3>1. PICK made \in IF proto = "opcua" THEN BOOLEAN ELSE {FALSE} : active' = made
      BY <1>10 DEF ConnectOk
    <3>2. made \in BOOLEAN
      BY <3>1
    <3> QED BY <1>10, <3>1, <3>2 DEF ConnectOk
  <2>3. held' \in [Regs -> SUBSET Variants]
    BY <2>1
  <2>2. sub' \in [live : BOOLEAN, last : [Regs -> Variants \cup {None}]]
    <3>1. PICK made \in BOOLEAN : sub' = [NoSub EXCEPT !.live = made]
      BY <1>10 DEF ConnectOk
    <3>2. sub' = [live |-> made, last |-> NoWords]
      BY <3>1 DEF NoSub
    <3> QED BY <3>2 DEF NoWords
  <2> QED BY <2>1, <2>2, <2>3, ClientsAssumption
<1>11. CASE ConnectFails
  BY <1>11 DEF ConnectFails
<1>12. CASE Tick
  <2>1. CASE active /\ fresh /\ FreshConsumed /\ stale' = 0 /\ pc' = "cache" /\ UNCHANGED active
    <3>1. stale' \in 0..(StaleLimit + 1) /\ stale' <= StaleLimit
      BY <2>1, ClientsAssumption
    <3> QED BY <1>12, <2>1, <3>1 DEF Tick, FreshConsumed
  <2>2. CASE active /\ ~fresh /\ stale' = stale + 1 /\ active' = StillTrusted
             /\ pc' = "request" /\ UNCHANGED fresh
    <3>1. stale' \in 0..(StaleLimit + 1)
      BY <2>2, ClientsAssumption
    <3>2. active' \in BOOLEAN /\ (active' => stale' <= StaleLimit)
      BY <2>2 DEF StillTrusted
    <3> QED BY <1>12, <2>2, <3>1, <3>2 DEF Tick
  <2>3. CASE ~active /\ pc' = "request" /\ UNCHANGED <<fresh, active, stale>>
    BY <1>12, <2>3 DEF Tick
  <2> QED BY <1>12, <2>1, <2>2, <2>3 DEF Tick
<1>13. CASE CacheReturns
  <2>1. IsReading(shown')
    <3>1. \A r \in Regs : CachedOr0(r) \in Words
      BY MaxU16Nat, ReadingDef DEF CachedOr0, Words
    <3> QED BY <1>13, <3>1, ReadingDef DEF CacheReturns
  <2>2. credit' \in Int
    BY <1>13 DEF CacheReturns
  <2> QED BY <1>13, <2>1, <2>2 DEF CacheReturns
<1>14. CASE ReplyReturns
  BY <1>0, <1>14 DEF ReplyReturns
<1>15. ASSUME DropConnection PROVE TypeInv'
  <2>1. /\ notes' = IF cb = "insert" THEN <<Head(notes)>> ELSE <<>>
        /\ cb' = cb
    BY <1>15 DEF DropConnection
  <2>2. notes' \in Seq(Notes) /\ (cb' = "insert" => notes' # <<>>)
    BY <2>1, NotesTail, NotesSingle, NotesEmpty DEF Notes
  <2>3. sub' \in [live : BOOLEAN, last : [Regs -> Variants \cup {None}]]
    BY <1>15 DEF DropConnection, NoSub, NoWords
  <2>4. /\ IsReading(cache') /\ IsReading(buf')
        /\ active' \in BOOLEAN /\ (active' => active)
    BY <1>0, <1>15 DEF DropConnection
  <2>5. held' \in [Regs -> SUBSET Variants] /\ credit' = 0
    BY <1>15 DEF DropConnection
  <2>6. UNCHANGED <<proto, plc, up, fresh, stale, shown>> /\ pc' = "connect" /\ link' = "none"
    BY <1>15 DEF DropConnection
  <2> QED BY <2>1, <2>2, <2>3, <2>4, <2>5, <2>6 DEF Notes
<1>16. CASE WriteOk
  BY <1>16 DEF WriteOk, Store
<1>17. CASE PlcReads
  <2>1. IsReading(buf')
    BY <1>17, ConversionInRange, ReadingDef DEF PlcReads
  <2> QED BY <1>17, <2>1 DEF PlcReads
<1>18. CASE ReadRefused
  BY <1>18 DEF ReadRefused
<1>19. CASE Receive
  BY <1>19 DEF Receive
<1>20. CASE WriteRefused
  BY <1>20 DEF WriteRefused
<1> QED
  BY <1>1, <1>2, <1>3, <1>4, <1>5, <1>6, <1>7, <1>8, <1>9, <1>10, <1>11, <1>12,
     <1>13, <1>14, <1>15, <1>16, <1>17, <1>18, <1>19, <1>20
  DEF Next, Plc, Callback, Loop, ReadFails, WriteFails

\* Every variable keeps its type: in particular the staleness counter stops
\* just above its limit, and what is published is a u16.
THEOREM ClientsTypeCorrect == Spec => []TypeOK
<1>1. TypeInv => TypeOK
  BY DEF TypeInv
<1> QED BY <1>1, TypeInit, TypeStep, PTL DEF Spec

-----------------------------------------------------------------------------
(* The inductive invariant.                                                *)

\* There is a connection except while the loop connects.  Without one there
\* is no subscription, and no notification but the one in the hands of the
\* callback; and a connection begins with an empty cache.
LinkPart ==
    /\ link = "none" <=> pc \in {"connect", "connecting"}
    /\ link = "none" =>
          /\ ~sub.live
          /\ IF cb = "insert" THEN Len(notes) = 1 ELSE notes = <<>>
    /\ pc = "connecting" => cb = "idle" /\ cache = NoWords /\ ~fresh

\* A Modbus client has no subscription and an empty cache.
ModbusPart ==
    proto = "modbus" =>
        /\ ~sub.live /\ notes = <<>> /\ cb = "idle"
        /\ cache = NoWords /\ ~fresh

\* On a connection, what is on its way and what is cached was held by the
\* register since the connection was opened.
ValuePart ==
    link # "none" =>
        \A r \in Regs :
            /\ plc[r] \in held[r]
            /\ \A i \in DOMAIN notes :
                   notes[i][r] # None => notes[i][r] \in held[r]
            /\ cache[r] # None => cache[r] \in Shows(held[r])
            /\ pc = "reply" => buf[r] \in Shows(held[r])

\* On a connection, a monitored register is missing in the cache only until
\* the first notification, which has all of them, is inserted; and the cache
\* is trusted only after that.
CompletePart ==
    link # "none" =>
        \A r \in Monitored :
            /\ fresh \/ cb = "count" \/ pc = "cache" => cache[r] # None
            /\ notes # <<>> \/ (sub.live /\ sub.last[r] # None)
                  => cache[r] # None \/ (notes # <<>> /\ Head(notes)[r] # None)

ClientsInv == TypeInv /\ LinkPart /\ ModbusPart /\ ValuePart /\ CompletePart

LEMMA MonitoredAreRegs == Monitored \subseteq Regs
BY DEF Monitored

\* A register shows more values as time goes by.
LEMMA ShowsGrows ==
    ASSUME NEW X, NEW Y, X \subseteq Y
    PROVE  Shows(X) \subseteq Shows(Y)
BY DEF Shows

LEMMA ShowsMember ==
    ASSUME NEW X, NEW x \in X
    PROVE  variant_to_u16(x) \in Shows(X)
BY DEF Shows

\* What Store does to the history of a connection.
LEMMA StoreEffect ==
    ASSUME TypeOK, NEW s \in Regs, NEW x \in Variants, Store(s, x), link # "none"
    PROVE  \A r \in Regs :
              /\ held[r] \subseteq held'[r]
              /\ plc'[r] = plc[r] \/ plc'[r] \in held'[r]
BY DEF TypeOK, Store, Connected

LEMMA InvInit == Init => ClientsInv
<1> SUFFICES ASSUME Init PROVE ClientsInv
  OBVIOUS
<1>1. TypeInv
  BY TypeInit
<1>2. LinkPart /\ ModbusPart
  BY DEF Init, LinkPart, ModbusPart, NoSub
<1>3. ValuePart /\ CompletePart
  BY DEF Init, ValuePart, CompletePart
<1> QED BY <1>1, <1>2, <1>3 DEF ClientsInv

LEMMA InvStep == ClientsInv /\ [Next]_vars => ClientsInv'
<1> SUFFICES ASSUME ClientsInv, [Next]_vars PROVE ClientsInv'
  OBVIOUS
<1>0. TypeInv /\ TypeOK /\ TypeInv' /\ TypeOK'
  BY TypeStep DEF ClientsInv, TypeInv
<1> DEFINE Parts == LinkPart /\ ModbusPart /\ ValuePart /\ CompletePart
<1>a. Parts
  BY DEF ClientsInv
<1> SUFFICES Parts'
  BY <1>0 DEF ClientsInv
<1> USE DEF server, subscription, client, Connected
<1>1. CASE UNCHANGED vars
  BY <1>1, <1>a DEF vars, LinkPart, ModbusPart, ValuePart, CompletePart, Shows
<1>2. ASSUME NEW s \in Regs, NEW x \in Variants, Store(s, x), pc' \in {pc, "select"},
             pc # "connect", pc # "connecting",
             UNCHANGED <<proto, link, subscription, client, buf>>
      PROVE  Parts'
  <2>1. LinkPart' /\ ModbusPart'
    BY <1>a, <1>2 DEF LinkPart, ModbusPart
  <2>2. CompletePart'
    BY <1>a, <1>2 DEF LinkPart, CompletePart
  <2>3. link # "none"
    BY <1>a, <1>2 DEF LinkPart
  <2>4. ValuePart'
    BY <1>0, <1>a, <1>2, <2>3, StoreEffect, ShowsGrows DEF ValuePart
  <2> QED BY <2>1, <2>2, <2>4
<1>3. ASSUME NEW s \in Regs, PlcChanges(s) PROVE Parts'
  <2>1. PICK x \in Variants : Store(s, x)
    BY <1>3 DEF PlcChanges
  <2>2. CASE link = "none"
    BY <1>3, <1>a, <2>1, <2>2 DEF PlcChanges, LinkPart, ModbusPart, ValuePart, CompletePart
  <2>3. CASE link # "none"
    <3>1. pc # "connect" /\ pc # "connecting"
      BY <1>a, <2>3 DEF LinkPart
    <3> QED BY <1>2, <1>3, <2>1, <3>1 DEF PlcChanges
  <2> QED BY <2>2, <2>3
<1>4. CASE PlcGoes
  <2>1. ~sub'.live /\ sub'.last = NoWords
    BY <1>4 DEF PlcGoes, NoSub
  <2>2. link' = "none" <=> link = "none"
    BY <1>4 DEF PlcGoes
  <2>3. UNCHANGED <<proto, plc, held, notes, cb, pc, cache, fresh, buf>>
    BY <1>4 DEF PlcGoes
  <2>4. LinkPart' /\ ModbusPart'
    BY <1>a, <2>1, <2>2, <2>3 DEF LinkPart, ModbusPart
  <2>5. ValuePart'
    BY <1>a, <2>2, <2>3 DEF ValuePart, Shows
  <2>6. CompletePart'
    BY <1>a, <2>1, <2>2, <2>3 DEF CompletePart
  <2> QED BY <2>4, <2>5, <2>6
<1>5. CASE PlcComes
  BY <1>5, <1>a DEF PlcComes, LinkPart, ModbusPart, ValuePart, CompletePart
<1>6. CASE Publish
  <2> DEFINE changed == {r \in Monitored : sub.last[r] # plc[r]}
             note == [r \in Regs |-> IF r \in changed THEN plc[r] ELSE None]
  <2>1. /\ sub.live /\ notes' = Append(notes, note)
        /\ sub' = [sub EXCEPT !.last = [r \in Regs |-> IF r \in changed THEN plc[r] ELSE @[r]]]
        /\ UNCHANGED <<proto, server, cb, pc, client, buf>>
    BY <1>6 DEF Publish, Monitored
  <2>2. sub'.live = sub.live
    BY <1>0, <2>1 DEF TypeOK
  <2>3. link # "none" /\ proto # "modbus"
    BY <1>a, <2>1 DEF LinkPart, ModbusPart
  <2>4. LinkPart' /\ ModbusPart'
    BY <1>a, <2>1, <2>3 DEF LinkPart, ModbusPart
  <2>5. /\ note \in Notes /\ notes \in Seq(Notes)
        /\ \A r \in Regs : note[r] # None => note[r] = plc[r]
    BY <1>0 DEF Notes, TypeOK
  <2>6. /\ notes' # <<>>
        /\ \A i \in DOMAIN notes' :
              notes'[i] = note \/ (i \in DOMAIN notes /\ notes'[i] = notes[i])
        /\ notes = <<>> => Head(notes') = note
        /\ notes # <<>> => Head(notes') = Head(notes)
    <3> HIDE DEF note
    <3> QED BY <2>1, <2>5, NotesAppend
  <2>7. ASSUME NEW r \in Regs, NEW i \in DOMAIN notes', notes'[i][r] # None
        PROVE  notes'[i][r] \in held[r]
    <3>1. CASE notes'[i] = note
      <4> HIDE DEF note
      <4> QED BY <1>a, <2>3, <2>5, <2>7, <3>1 DEF ValuePart
    <3>2. CASE i \in DOMAIN notes /\ notes'[i] = notes[i]
      BY <1>a, <2>3, <2>7, <3>2 DEF ValuePart
    <3> QED BY <2>6, <3>1, <3>2
  <2>8. ValuePart'
    BY <1>a, <2>1, <2>3, <2>7 DEF ValuePart
  <2>9. ASSUME NEW r \in Monitored
        PROVE  cache[r] # None \/ Head(notes')[r] # None
    <3>1. r \in Regs /\ plc[r] # None
      BY <1>0, MonitoredAreRegs, ClientsAssumption DEF TypeOK
    <3>2. CASE notes = <<>> /\ r \in changed
      <4>1. note[r] # None
        BY <3>1, <3>2
      <4> QED BY <2>6, <3>2, <4>1
    <3>3. CASE notes = <<>> /\ r \notin changed
      <4>1. sub.last[r] # None
        BY <3>1, <3>3
      <4> QED BY <1>a, <2>1, <2>3, <3>3, <4>1 DEF CompletePart
    <3>4. CASE notes # <<>>
      BY <1>a, <2>3, <2>6, <3>4 DEF CompletePart
    <3> QED BY <3>2, <3>3, <3>4
  <2>10. CompletePart'
    BY <1>a, <2>1, <2>3, <2>6, <2>9 DEF CompletePart
  <2> QED BY <2>4, <2>8, <2>10
<1>7. CASE Deliver
  <2>1. LinkPart' /\ ValuePart' /\ CompletePart'
    BY <1>7, <1>a DEF Deliver, LinkPart, ValuePart, CompletePart
  <2>2. ModbusPart'
    BY <1>7, <1>a DEF Deliver, ModbusPart
  <2> QED BY <2>1, <2>2
<1>8. CASE CallbackInserts
  <2> DEFINE note == Head(notes)
  <2>1. /\ cb = "insert" /\ cb' = "count" /\ notes' = Tail(notes)
        /\ cache' = [r \in Regs |-> IF note[r] = None THEN cache[r] ELSE variant_to_u16(note[r])]
        /\ UNCHANGED <<proto, plc, link, held, sub, pc, fresh, buf>>
    BY <1>8 DEF CallbackInserts
  <2>2. notes \in Seq(Notes) /\ notes # <<>>
    BY <1>0, <2>1 DEF TypeInv, TypeOK, Notes
  <2>3. /\ note \in Notes /\ 1 \in DOMAIN notes /\ note = notes[1]
        /\ \A i \in DOMAIN notes' : i + 1 \in DOMAIN notes /\ notes'[i] = notes[i + 1]
        /\ Len(notes) = 1 => notes' = <<>>
    BY <2>1, <2>2, NotesTail, TailOfOne
  <2>4. LinkPart' /\ ModbusPart'
    BY <1>a, <2>1, <2>3 DEF LinkPart, ModbusPart
  <2> HIDE DEF note
  <2>5. ASSUME link # "none", NEW r \in Regs, cache'[r] # None
        PROVE  cache'[r] \in Shows(held[r])
    <3>1. CASE note[r] = None
      BY <1>a, <2>1, <2>5, <3>1 DEF ValuePart
    <3>2. CASE note[r] # None
      <4>1. note[r] \in held[r]
        BY <1>a, <2>3, <2>5, <3>2 DEF ValuePart
      <4> QED BY <2>1, <3>2, <4>1, ShowsMember
    <3> QED BY <3>1, <3>2
  <2>6. ValuePart'
    <3>1. ASSUME link # "none", NEW r \in Regs, NEW i \in DOMAIN notes', notes'[i][r] # None
          PROVE  notes'[i][r] \in held[r]
      BY <1>a, <2>3, <3>1 DEF ValuePart
    <3> QED BY <1>a, <2>1, <2>5, <3>1 DEF ValuePart, Shows
  <2>7. ASSUME link # "none", NEW r \in Monitored
        PROVE  cache'[r] # None
    <3>1. r \in Regs /\ (note[r] = None \/ note[r] \in Variants)
      BY <2>3, MonitoredAreRegs DEF Notes
    <3>2. cache[r] # None \/ note[r] # None
      BY <1>a, <2>2, <2>7 DEF CompletePart, note
    <3> QED BY <2>1, <3>1, <3>2, ConversionInRange
  <2>8. CompletePart'
    BY <2>1, <2>7 DEF CompletePart, Monitored
  <2> QED BY <2>4, <2>6, <2>8
<1>9. CASE CallbackCounts
  <2>1. LinkPart' /\ ValuePart' /\ CompletePart'
    BY <1>9, <1>a DEF CallbackCounts, LinkPart, ValuePart, CompletePart
  <2>2. ModbusPart'
    BY <1>9, <1>a DEF CallbackCounts, ModbusPart
  <2> QED BY <2>1, <2>2
<1>10. CASE BeginConnect
  <2>1. link = "none" /\ link' = "none" /\ cache' = NoWords /\ ~fresh'
    BY <1>0, <1>10, <1>a, ClientsAssumption
    DEF BeginConnect, ResetCache, LinkPart, ModbusPart, TypeOK
  <2> QED BY <1>10, <1>a, <2>1
          DEF BeginConnect, LinkPart, ModbusPart, ValuePart, CompletePart
<1>11. CASE ConnectOk
  <2>1. PICK made \in IF proto = "opcua" THEN BOOLEAN ELSE {FALSE} :
           sub' = [NoSub EXCEPT !.live = made]
    BY <1>11 DEF ConnectOk
  <2>2. sub'.last = NoWords /\ (proto # "opcua" => ~sub'.live)
    BY <2>1 DEF NoSub
  <2>3. /\ pc = "connecting" /\ pc' = "select" /\ link' = "up"
        /\ held' = [r \in Regs |-> {plc[r]}]
        /\ UNCHANGED <<proto, plc, notes, cb, cache, fresh, buf>>
    BY <1>11 DEF ConnectOk
  <2>4. cb = "idle" /\ cache = NoWords /\ ~fresh /\ notes = <<>>
    BY <1>a, <2>3 DEF LinkPart
  <2>5. LinkPart' /\ ModbusPart'
    BY <1>0, <2>2, <2>3, <2>4 DEF LinkPart, ModbusPart
  <2>6. ValuePart' /\ CompletePart'
    BY <2>2, <2>3, <2>4 DEF ValuePart, CompletePart, NoWords, Monitored
  <2> QED BY <2>5, <2>6
<1>12. CASE ConnectFails
  BY <1>12, <1>a DEF ConnectFails, LinkPart, ModbusPart, ValuePart, CompletePart
<1>13. CASE Tick
  <2>1. /\ pc = "select" /\ pc' \in {"cache", "request"}
        /\ pc' = "cache" => fresh
        /\ fresh' => fresh
        /\ UNCHANGED <<proto, server, subscription, cache, buf>>
    BY <1>13 DEF Tick, FreshConsumed
  <2>2. LinkPart' /\ ModbusPart'
    BY <1>a, <2>1 DEF LinkPart, ModbusPart
  <2>3. ValuePart' /\ CompletePart'
    BY <1>a, <2>1 DEF ValuePart, CompletePart
  <2> QED BY <2>2, <2>3
<1>14. ASSUME pc \notin {"connect", "connecting"}, pc' = "select",
              UNCHANGED <<proto, server, subscription, cache, fresh>>
       PROVE  Parts'
  <2>1. LinkPart' /\ ModbusPart'
    BY <1>14, <1>a DEF LinkPart, ModbusPart
  <2>2. ValuePart' /\ CompletePart'
    BY <1>14, <1>a DEF ValuePart, CompletePart
  <2> QED BY <2>1, <2>2
<1>15. CASE CacheReturns \/ ReplyReturns \/ ReadRefused \/ WriteRefused
  BY <1>14, <1>15 DEF CacheReturns, ReplyReturns, ReadRefused, WriteRefused
<1>16. ASSUME DropConnection PROVE Parts'
  <2>1. /\ pc' = "connect" /\ link' = "none" /\ ~sub'.live /\ proto' = proto
        /\ cb' = cb /\ fresh' = fresh
        /\ notes' = IF cb = "insert" THEN <<Head(notes)>> ELSE <<>>
        /\ proto # "opcua" => cache' = cache
    BY <1>16 DEF DropConnection, NoSub
  <2>2. LinkPart' /\ ValuePart' /\ CompletePart'
    <3>1. \A e : Len(<<e>>) = 1
      OBVIOUS
    <3> QED BY <2>1, <3>1 DEF LinkPart, ValuePart, CompletePart
  <2>3. ModbusPart'
    BY <1>a, <2>1 DEF ModbusPart
  <2> QED BY <2>2, <2>3
<1>17. CASE WriteOk
  <2>1. pc = "write" /\ pc' = "select"
        /\ UNCHANGED <<proto, link, subscription, client, buf>>
    BY <1>17 DEF WriteOk
  <2>2. PICK r \in Regs, x \in Variants : Store(r, x)
    BY <1>17 DEF WriteOk
  <2> QED BY <1>2, <2>1, <2>2
<1>18. CASE PlcReads
  <2>1. /\ pc = "request" /\ link = "up" /\ pc' = "reply"
        /\ buf' = [r \in Regs |-> variant_to_u16(plc[r])]
        /\ UNCHANGED <<proto, server, subscription, client>>
    BY <1>18 DEF PlcReads
  <2>2. LinkPart' /\ ModbusPart' /\ CompletePart'
    BY <1>a, <2>1 DEF LinkPart, ModbusPart, CompletePart
  <2>3. \A r \in Regs : buf'[r] \in Shows(held[r])
    BY <1>a, <2>1, ShowsMember DEF ValuePart
  <2>4. ValuePart'
    BY <1>a, <2>1, <2>3 DEF ValuePart
  <2> QED BY <2>2, <2>4
<1>19. CASE Receive
  BY <1>19, <1>a DEF Receive, LinkPart, ModbusPart, ValuePart, CompletePart
<1> QED
  BY <1>1, <1>3, <1>4, <1>5, <1>6, <1>7, <1>8, <1>9, <1>10, <1>11, <1>12, <1>13,
     <1>15, <1>16, <1>17, <1>18, <1>19
  DEF Next, Plc, Callback, Loop, ReadFails, WriteFails

LEMMA InvariantHolds == Spec => []ClientsInv
BY InvInit, InvStep, PTL DEF Spec

\* A poll that answers from the cache finds every monitored register there.
THEOREM CacheIsComplete == Spec => []CacheComplete
<1>1. ClientsInv => CacheComplete
  BY DEF ClientsInv, LinkPart, CompletePart, CacheComplete
<1> QED BY <1>1, InvariantHolds, PTL

-----------------------------------------------------------------------------
(* Polls from the cache after the connection is lost.                      *)

One(b) == IF b THEN 1 ELSE 0

\* The polls that can still find fresh entries: the one that has seen the
\* count, the count itself, what the callback is about to count, and the
\* notifications that it has not inserted.
Pending == One(pc = "cache") + One(fresh) + One(cb = "count") + Len(notes)

\* Once the connection is lost no notification is added, and every poll that
\* answers from the cache is paid for by one that was pending.
BlindPart ==
    /\ link \in {"none", "up"} => credit = 0
    /\ link \in {"cut", "halfopen"} => ~sub.live /\ credit >= Pending

LEMMA PendingBound ==
    TypeOK => Pending \in Nat /\ Len(notes) \in Nat /\ Pending <= Credit
BY NotesEmpty DEF TypeOK, Pending, Credit, One

LEMMA BlindInit == Init => BlindPart
BY DEF Init, BlindPart

LEMMA BlindStep == ClientsInv /\ ClientsInv' /\ BlindPart /\ [Next]_vars => BlindPart'
<1> SUFFICES ASSUME ClientsInv, ClientsInv', BlindPart, [Next]_vars
             PROVE  BlindPart'
  OBVIOUS
<1>0. TypeInv /\ TypeOK /\ TypeOK' /\ LinkPart /\ credit \in Int /\ credit' \in Int
  BY DEF ClientsInv, TypeInv, TypeOK
<1>n. Len(notes) \in Nat /\ Len(notes') \in Nat /\ Pending \in Nat /\ Pending' \in Nat
  <2>1. Pending \in Nat /\ Len(notes) \in Nat
    BY <1>0, PendingBound
  <2>2. Len(notes') \in Nat
    BY <1>0 DEF TypeOK
  <2> QED BY <2>1, <2>2, SMT DEF Pending, One
<1> USE DEF server, subscription, client
<1>1. ASSUME UNCHANGED <<link, sub, credit>>, Pending' <= Pending
      PROVE  BlindPart'
  <2>1. ASSUME link \in {"cut", "halfopen"} PROVE ~sub'.live /\ credit' >= Pending'
    <3>1. ~sub.live /\ credit >= Pending
      BY <2>1 DEF BlindPart
    <3>2. PICK p \in Nat, q \in Nat : p = Pending /\ q = Pending'
      BY <1>n
    <3>3. q <= p /\ credit >= p
      BY <1>1, <3>1, <3>2
    <3>4. credit' >= q
      BY <1>0, <1>1, <3>3
    <3> QED BY <1>1, <3>1, <3>2, <3>4
  <2>2. link' \in {"none", "up"} => credit' = 0
    BY <1>1 DEF BlindPart
  <2> QED BY <1>1, <2>1, <2>2 DEF BlindPart
<1>3. CASE \/ UNCHANGED vars \/ PlcComes \/ (\E r \in Regs : PlcChanges(r))
           \/ WriteRefused \/ WriteOk \/ ConnectFails \/ Receive \/ ReadRefused
           \/ ReplyReturns \/ PlcReads
  <2>1. /\ UNCHANGED <<link, sub, credit, fresh, cb, notes>>
        /\ pc' = pc \/ pc' # "cache"
    BY <1>3 DEF vars, PlcComes, PlcChanges, WriteRefused, WriteOk, ConnectFails,
       Receive, ReadRefused, ReplyReturns, PlcReads
  <2>2. Pending' <= Pending
    BY <1>n, <2>1, SMT DEF Pending, One
  <2> QED BY <1>1, <2>1, <2>2
<1>4. CASE PlcGoes
  <2>1. ~sub'.live
    BY <1>4 DEF PlcGoes, NoSub
  <2>2. Pending' = Pending
    BY <1>4 DEF PlcGoes, Pending
  <2>3. CASE link = "up"
    <3>1. credit' = Credit /\ link' \in {"cut", "halfopen"}
      BY <1>4, <2>3 DEF PlcGoes
    <3>2. credit' >= Pending
      BY <1>0, <1>n, <3>1, PendingBound
    <3> QED BY <2>1, <2>2, <3>1, <3>2 DEF BlindPart
  <2>4. CASE link = "none"
    BY <1>4, <2>1, <2>4 DEF PlcGoes, BlindPart
  <2>5. CASE link \in {"cut", "halfopen"}
    <3>1. credit' = credit /\ link' \in {"cut", "halfopen"}
      BY <1>4, <2>5 DEF PlcGoes
    <3> QED BY <2>1, <2>2, <2>5, <3>1 DEF BlindPart
  <2> QED BY <1>0, <2>3, <2>4, <2>5 DEF TypeOK
<1>5. CASE Publish
  <2>1. sub.live /\ UNCHANGED <<link, credit>>
    BY <1>5 DEF Publish
  <2>2. link \notin {"cut", "halfopen"}
    BY <2>1 DEF BlindPart
  <2> QED BY <2>1, <2>2 DEF BlindPart
<1>6. CASE Callback
  <2>1. UNCHANGED <<link, sub, credit>>
    BY <1>6 DEF Callback, Deliver, CallbackInserts, CallbackCounts
  <2>2. Pending' <= Pending
    <3>1. CASE Deliver
      BY <1>n, <3>1, SMT DEF Deliver, Pending, One
    <3>2. CASE CallbackInserts
      <4>1. Len(notes') = Len(notes) - 1
        <5>1. notes \in Seq(Notes) /\ notes # <<>>
          BY <1>0, <3>2 DEF TypeInv, TypeOK, CallbackInserts, Notes
        <5> QED BY <3>2, <5>1, NotesTail DEF CallbackInserts
      <4>2. cb = "insert" /\ cb' = "count" /\ fresh' = fresh /\ pc' = pc
        BY <3>2 DEF CallbackInserts
      <4> QED BY <1>n, <4>1, <4>2, SMT DEF Pending, One
    <3>3. CASE CallbackCounts
      BY <1>n, <3>3, SMT DEF CallbackCounts, Pending, One
    <3> QED BY <1>6, <3>1, <3>2, <3>3 DEF Callback
  <2> QED BY <1>1, <2>1, <2>2
<1>7. CASE BeginConnect
  <2>1. /\ UNCHANGED <<link, sub, credit, cb, notes>> /\ pc' # "cache"
        /\ fresh' = fresh \/ fresh' = FALSE
    BY <1>7 DEF BeginConnect, ResetCache
  <2>2. Pending' <= Pending
    BY <1>n, <2>1, SMT DEF Pending, One
  <2> QED BY <1>1, <2>1, <2>2
<1>8. CASE ConnectOk
  <2>1. link = "none" /\ link' = "up" /\ credit' = credit
    BY <1>0, <1>8 DEF ConnectOk, LinkPart
  <2> QED BY <2>1 DEF BlindPart
<1>9. ASSUME DropConnection PROVE BlindPart'
  BY <1>9 DEF DropConnection, BlindPart
<1>10. CASE Tick
  <2>1. UNCHANGED <<link, sub, credit, cb, notes>> /\ pc = "select"
    BY <1>10 DEF Tick
  <2>2. (pc' = "cache" /\ fresh /\ ~fresh') \/ (pc' = "request" /\ fresh' = fresh)
    BY <1>10 DEF Tick, FreshConsumed
  <2>3. Pending' <= Pending
    BY <1>n, <2>1, <2>2, SMT DEF Pending, One
  <2> QED BY <1>1, <2>1, <2>3
<1>11. CASE CacheReturns
  <2>1. /\ pc = "cache" /\ pc' = "select" /\ UNCHANGED <<link, sub, cb, notes, fresh>>
        /\ credit' = IF link = "up" THEN credit ELSE credit - 1
    BY <1>11 DEF CacheReturns
  <2>2. Pending' + 1 = Pending
    BY <1>n, <2>1, SMT DEF Pending, One
  <2>3. link # "none"
    BY <1>0, <2>1 DEF LinkPart
  <2>4. CASE link = "up"
    BY <2>1, <2>4 DEF BlindPart
  <2>5. CASE link \in {"cut", "halfopen"}
    <3>1. credit >= Pending /\ ~sub.live
      BY <2>5 DEF BlindPart
    <3>2. PICK p \in Nat, q \in Nat : p = Pending /\ q = Pending'
      BY <1>n
    <3>3. q + 1 = p /\ credit >= p /\ credit' = credit - 1
      BY <2>1, <2>2, <2>5, <3>1, <3>2
    <3>4. credit' >= q
      BY <1>0, <3>3
    <3> QED BY <2>1, <2>5, <3>1, <3>2, <3>4 DEF BlindPart
  <2> QED BY <1>0, <2>3, <2>4, <2>5 DEF TypeOK
<1> QED
  BY <1>3, <1>4, <1>5, <1>6, <1>7, <1>8, <1>9, <1>10, <1>11
  DEF Next, Plc, Loop, ReadFails, WriteFails

\* When the connection is gone, the polls that answer from the cache before
\* the client asks the server are at most the notifications that had come in
\* and three more, however many those were.
THEOREM LostConnectionIsNoticed == Spec => []BlindBounded
<1>1. Init => BlindPart
  BY BlindInit
<1>2. ClientsInv /\ BlindPart => BlindBounded
  <2> SUFFICES ASSUME ClientsInv, BlindPart PROVE credit >= 0
    BY DEF BlindBounded
  <2>1. TypeOK /\ Pending \in Nat /\ credit \in Int
    BY PendingBound DEF ClientsInv, TypeInv, TypeOK
  <2>2. CASE link \in {"none", "up"}
    BY <2>2 DEF BlindPart
  <2>3. CASE link \in {"cut", "halfopen"}
    BY <2>1, <2>3 DEF BlindPart
  <2> QED BY <2>1, <2>2, <2>3 DEF TypeOK
<1> QED BY <1>1, <1>2, BlindStep, InvariantHolds, PTL DEF Spec

-----------------------------------------------------------------------------
(* Both clients implement PlcLink: what the PLC does on its own and an     *)
(* executed write are Change, a read that returns is Read, whether the     *)
(* values come from the cache or from the PLC, and everything the          *)
(* subscription and the callback do is hidden.                             *)

\* A register that shows one more value.
LEMMA ShowsAdds ==
    ASSUME NEW X, NEW x
    PROVE  Shows(X \cup {x}) = Shows(X) \cup {variant_to_u16(x)}
BY DEF Shows

LEMMA ShowsNothing == Shows({}) = {}
BY DEF Shows

\* What the link is made of does not change with anything else.
LEMMA LinkStutters ==
    UNCHANGED <<plc, link, held, shown>> => UNCHANGED Link!linkVars
BY DEF Link!linkVars, Connected, Shows

LEMMA LinkInit == Init => Link!Init
<1> SUFFICES ASSUME Init PROVE Link!Init
  OBVIOUS
<1>1. [r \in Monitored |-> variant_to_u16(plc[r])] \in [Monitored -> Shows(Variants)]
  <2>1. \A r \in Monitored : plc[r] \in Variants
    BY MonitoredAreRegs DEF Init
  <2> QED BY <2>1, ShowsMember
<1>2. [r \in Monitored |-> Shows(held[r])] = [r \in Monitored |-> {}]
  BY MonitoredAreRegs, ShowsNothing DEF Init
<1>3. [r \in Monitored |-> shown[r]] = [r \in Monitored |-> None]
  BY MonitoredAreRegs DEF Init, NoWords
<1> QED BY <1>1, <1>2, <1>3 DEF Link!Init, Init, Connected

\* A register of the PLC takes a value.
LEMMA LinkChange ==
    ASSUME TypeOK, TypeOK', ValuePart, UNCHANGED <<link, shown>>,
           NEW s \in Regs, NEW x \in Variants, Store(s, x)
    PROVE  Link!Change
<1>1. [r \in Monitored |-> variant_to_u16(plc'[r])] \in [Monitored -> Shows(Variants)]
  <2>1. \A r \in Monitored : plc'[r] \in Variants
    BY MonitoredAreRegs DEF TypeOK
  <2> QED BY <2>1, ShowsMember
<1>2. CASE ~Connected
  <2>1. held' = held
    BY <1>2 DEF Store
  <2> QED BY <1>1, <1>2, <2>1 DEF Link!Change, Connected
<1>3. CASE Connected
  <2>1. ASSUME NEW r \in Monitored
        PROVE  Shows(held'[r]) = Shows(held[r]) \cup {variant_to_u16(plc'[r])}
    <3>1. r \in Regs
      BY MonitoredAreRegs
    <3>2. CASE r = s
      <4>1. held'[r] = held[r] \cup {x} /\ plc'[r] = x
        BY <1>3, <3>1, <3>2 DEF Store, TypeOK
      <4> QED BY <4>1, ShowsAdds
    <3>3. CASE r # s
      <4>1. held'[r] = held[r] /\ plc'[r] = plc[r]
        BY <1>3, <3>1, <3>3 DEF Store, TypeOK
      <4>2. plc[r] \in held[r]
        BY <1>3, <3>1 DEF ValuePart, Connected
      <4>3. variant_to_u16(plc[r]) \in Shows(held[r])
        BY <4>2, ShowsMember
      <4> QED BY <4>1, <4>3
    <3> QED BY <3>2, <3>3
  <2>2. [r \in Monitored |-> Shows(held'[r])] =
        [r \in Monitored |-> [q \in Monitored |-> Shows(held[q])][r]
             \cup {[q \in Monitored |-> variant_to_u16(plc'[q])][r]}]
    BY <2>1
  <2> QED BY <1>1, <1>3, <2>2 DEF Link!Change, Connected
<1> QED BY <1>2, <1>3

\* A read returns: all that it needs is that each register held its value.
LEMMA LinkRead ==
    ASSUME link # "none", UNCHANGED <<plc, link, held>>,
           TypeOK,
           \A r \in Monitored : shown'[r] \in Shows(held[r])
    PROVE  Link!Read
<1>1. \A r \in Monitored : Shows(held[r]) \subseteq Shows(Variants)
  BY MonitoredAreRegs, ShowsGrows DEF TypeOK
<1>2. [r \in Monitored |-> shown'[r]] \in [Monitored -> Shows(Variants)]
  BY <1>1
<1>3. \A r \in Monitored : [q \in Monitored |-> shown'[q]][r]
                             \in [q \in Monitored |-> Shows(held[q])][r]
  OBVIOUS
<1> QED BY <1>2, <1>3 DEF Link!Read, Connected

LEMMA LinkStep ==
    ClientsInv /\ ClientsInv' /\ [Next]_vars => [Link!Next]_Link!linkVars
<1> SUFFICES ASSUME ClientsInv, ClientsInv', [Next]_vars
             PROVE  [Link!Next]_Link!linkVars
  OBVIOUS
<1>0. TypeOK /\ TypeOK' /\ LinkPart /\ ValuePart /\ CompletePart
  BY DEF ClientsInv, TypeInv
<1> USE DEF server, subscription, client
<1>1. CASE UNCHANGED <<plc, link, held, shown>>
  BY <1>1, LinkStutters
<1>2. ASSUME NEW s \in Regs, PlcChanges(s) PROVE Link!Change
  BY <1>0, <1>2, LinkChange DEF PlcChanges
<1>3. CASE PlcGoes
  <2>1. UNCHANGED <<plc, held, shown>> /\ (link' = "none" <=> link = "none")
    BY <1>3 DEF PlcGoes
  <2> QED BY <2>1 DEF Link!linkVars, Connected, Shows
<1>4. CASE ConnectOk
  <2>1. /\ pc = "connecting" /\ link' = "up"
        /\ held' = [r \in Regs |-> {plc[r]}] /\ UNCHANGED <<plc, shown>>
    BY <1>4 DEF ConnectOk
  <2>2. link = "none"
    BY <1>0, <2>1 DEF LinkPart
  <2>3. ASSUME NEW r \in Monitored PROVE Shows(held'[r]) = {variant_to_u16(plc[r])}
    <3>1. held'[r] = {} \cup {plc[r]}
      BY <2>1, MonitoredAreRegs
    <3> QED BY <3>1, ShowsAdds, ShowsNothing
  <2>4. [r \in Monitored |-> Shows(held'[r])] =
        [r \in Monitored |-> {[q \in Monitored |-> variant_to_u16(plc[q])][r]}]
    BY <2>3
  <2>5. Link!Open
    BY <2>1, <2>2, <2>4 DEF Link!Open, Connected
  <2> QED BY <2>5 DEF Link!Next
<1>5. CASE CacheReturns
  <2>1. /\ pc = "cache" /\ shown' = [r \in Regs |-> CachedOr0(r)]
        /\ UNCHANGED <<plc, link, held>>
    BY <1>5 DEF CacheReturns
  <2>2. link # "none"
    BY <1>0, <2>1 DEF LinkPart
  <2>3. ASSUME NEW r \in Monitored PROVE shown'[r] \in Shows(held[r])
    <3>1. r \in Regs /\ cache[r] # None
      BY <1>0, <2>1, <2>2, MonitoredAreRegs DEF CompletePart
    <3> QED BY <1>0, <2>1, <2>2, <3>1 DEF ValuePart, CachedOr0
  <2>4. Link!Read
    BY <1>0, <2>1, <2>2, <2>3, LinkRead
  <2> QED BY <2>4 DEF Link!Next
<1>6. CASE ReplyReturns
  <2>1. pc = "reply" /\ shown' = buf /\ UNCHANGED <<plc, link, held>>
    BY <1>6 DEF ReplyReturns
  <2>2. link # "none"
    BY <1>0, <2>1 DEF LinkPart
  <2>3. \A r \in Monitored : shown'[r] \in Shows(held[r])
    BY <1>0, <2>1, <2>2, MonitoredAreRegs DEF ValuePart
  <2>4. Link!Read
    BY <1>0, <2>1, <2>2, <2>3, LinkRead
  <2> QED BY <2>4 DEF Link!Next
<1>7. ASSUME DropConnection, link # "none" PROVE Link!Next
  <2>1. link' = "none" /\ held' = [r \in Regs |-> {}] /\ UNCHANGED <<plc, shown>>
    BY <1>7 DEF DropConnection
  <2>2. [r \in Monitored |-> Shows(held'[r])] = [r \in Monitored |-> {}]
    BY <2>1, MonitoredAreRegs, ShowsNothing
  <2>3. Link!Close
    BY <1>7, <2>1, <2>2 DEF Link!Close, Connected
  <2> QED BY <2>3 DEF Link!Next
<1>8. CASE ReadFails \/ WriteFails
  <2>1. link # "none" /\ DropConnection
    BY <1>0, <1>8 DEF ReadFails, WriteFails, LinkPart
  <2> QED BY <1>7, <2>1
<1>9. CASE WriteOk
  <2>1. PICK r \in Regs, x \in Variants : Store(r, x)
    BY <1>9 DEF WriteOk
  <2>2. UNCHANGED <<link, shown>>
    BY <1>9 DEF WriteOk
  <2>3. Link!Change
    BY <1>0, <2>1, <2>2, LinkChange
  <2> QED BY <2>3 DEF Link!Next
<1>10. ASSUME \/ UNCHANGED vars \/ PlcComes \/ Publish \/ Callback \/ BeginConnect
              \/ ConnectFails \/ Tick \/ PlcReads \/ ReadRefused \/ Receive
              \/ WriteRefused
       PROVE  UNCHANGED <<plc, link, held, shown>>
  BY <1>10 DEF vars, PlcComes, Publish, Callback, Deliver, CallbackInserts,
     CallbackCounts, BeginConnect, ConnectFails, Tick, PlcReads, ReadRefused,
     Receive, WriteRefused
<1> QED
  BY <1>1, <1>2, <1>3, <1>4, <1>5, <1>6, <1>8, <1>9, <1>10
  DEF Next, Plc, Loop, Link!Next

\* A read that succeeds returns, for every monitored register, what it has
\* shown since the connection was opened, and never a value of an earlier one:
\* for ModbusClient, and for OpcUaClient whatever the interleaving of
\* callback, reconnect and read.
THEOREM ClientsImplementLink == Spec => ImplementsLink
<1>1. Spec => Link!Init
  BY LinkInit DEF Spec
<1>2. Spec => [][Link!Next]_Link!linkVars
  BY InvariantHolds, LinkStep, PTL DEF Spec
<1> QED BY <1>1, <1>2 DEF ImplementsLink, Link!Spec
=============================================================================
