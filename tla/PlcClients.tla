----------------------------- MODULE PlcClients -----------------------------
(***************************************************************************)
(* The two implementations of the trait PlcProtocol under the loop of      *)
(* start_device_polling (server/src/protocol.rs): connect, then writes and *)
(* reads as they come, and connect again when a call has dropped the       *)
(* connection.                                                             *)
(*                                                                         *)
(* ModbusClient (server/src/modbus.rs) asks the PLC on every read.         *)
(* OpcUaClient (server/src/opcua_client.rs) asks the server for a          *)
(* subscription when it connects; a callback on a thread of the library    *)
(* fills a cache and then counts, under two separate locks, and a read     *)
(* answers from the cache if the count has grown since the last one, else  *)
(* over the network, and gives the subscription up after StaleLimit such   *)
(* reads.                                                                  *)
(*                                                                         *)
(* Of the counts only `sub_update_count > last_read_count` is read: this   *)
(* is `fresh`.  What a poll does with its registers is in Alarms and       *)
(* BatchTracking, a write from its request to its answer in WritePath.     *)
(***************************************************************************)
EXTENDS Integers, Sequences

CONSTANTS
    Regs,         \* register_start .. register_start + register_count - 1
    Unmonitored,  \* the registers the subscription never delivers: not in
                  \* 1028..1035, or their monitored item was refused
    Variants,     \* what a register can hold: [type, val]
    Protocols,    \* the protocols of the instance
    StaleLimit,   \* 5 in the code
    MayHalfOpen,  \* may a PLC vanish without the connection noticing
    MaxNotes,     \* bound: notifications that wait for the callback
    None

ASSUME ClientsAssumption ==
    /\ Unmonitored \subseteq Regs
    /\ Protocols \subseteq {"modbus", "opcua"}
    /\ StaleLimit \in Nat /\ MaxNotes \in Nat
    /\ MayHalfOpen \in BOOLEAN
    /\ Variants \subseteq [type : {"integer", "float", "null"}, val : Int]
    /\ None \notin Nat /\ None \notin Variants

VARIABLES
    proto,   \* DeviceConfig.protocol
    plc,     \* plc[r]: what register r holds
    up,      \* is the PLC there for a new connection
    link,    \* the connection: "none", "up", "cut", "halfopen"
    sub,     \* the server's subscription: [live, last], last[r] is what it
             \* reported of r last, None for nothing
    notes,   \* the notifications that have come in, in order; the callback
             \* has the first one in its hands while it inserts
    cb,      \* the callback: "idle", "insert", "count"
    pc,      \* the polling task
    cache,   \* sub_cache
    fresh,   \* sub_update_count > last_read_count
    active,  \* sub_active
    stale,   \* sub_stale_reads
    buf,     \* the reply to the read request under way
    shown,   \* the registers as the last poll published them
    held,    \* history: what each register has held since the connection
    credit   \* history: how many more polls may answer from the cache now
             \* that the connection is lost

server == <<plc, up, link, held>>
subscription == <<sub, notes, cb>>
client == <<cache, fresh, active, stale>>
vars == <<proto, server, subscription, pc, client, buf, shown, credit>>

Pcs == {"connect", "connecting", "select", "cache", "request", "reply", "write"}
MaxU16 == 65535
Words == 0..MaxU16
NoWords == [r \in Regs |-> None]
NoSub == [live |-> FALSE, last |-> NoWords]

-----------------------------------------------------------------------------
(* Conversion.                                                             *)

Clamp(n) == IF n < 0 THEN 0 ELSE IF n > MaxU16 THEN MaxU16 ELSE n

\* `as u16` wraps integers and clamps floats (val is the integral part); a
\* null value, which is what a bad status comes with, becomes 0.
variant_to_u16(x) ==
    CASE x.type = "integer" -> x.val % (MaxU16 + 1)
      [] x.type = "float"   -> Clamp(x.val)
      [] x.type = "null"    -> 0

CachedOr0(r) == IF cache[r] = None THEN 0 ELSE cache[r]

\* A word for each register, None where there is none.
IsReading(f) ==
    /\ f \in [Regs -> Nat \cup {None}]
    /\ \A r \in Regs : f[r] = None \/ f[r] \in Words

TypeOK ==
    /\ proto \in Protocols
    /\ plc \in [Regs -> Variants]
    /\ up \in BOOLEAN
    /\ link \in {"none", "up", "cut", "halfopen"}
    /\ sub \in [live : BOOLEAN, last : [Regs -> Variants \cup {None}]]
    /\ notes \in Seq([Regs -> Variants \cup {None}])
    /\ cb \in {"idle", "insert", "count"}
    /\ pc \in Pcs
    /\ IsReading(cache)
    /\ fresh \in BOOLEAN /\ active \in BOOLEAN
    /\ stale \in 0..(StaleLimit + 1)
    /\ IsReading(buf)
    /\ IsReading(shown)
    /\ held \in [Regs -> SUBSET Variants]
    /\ credit \in Int

Init ==
    /\ proto \in Protocols
    /\ plc \in [Regs -> Variants]
    /\ up \in BOOLEAN /\ link = "none"
    /\ sub = NoSub /\ notes = <<>> /\ cb = "idle"
    /\ pc = "connect"
    /\ cache = NoWords /\ fresh = FALSE /\ active = FALSE /\ stale = 0
    /\ buf = NoWords /\ shown = NoWords
    /\ held = [r \in Regs |-> {}]
    /\ credit = 0

-----------------------------------------------------------------------------
(* The PLC.                                                                *)

Connected == link # "none"

Store(r, x) ==
    /\ plc' = [plc EXCEPT ![r] = x]
    /\ held' = IF Connected THEN [held EXCEPT ![r] = @ \cup {x}] ELSE held

PlcChanges(r) ==
    /\ \E x \in Variants \ {plc[r]} : Store(r, x)
    /\ UNCHANGED <<proto, up, link, subscription, pc, client, buf, shown, credit>>

\* One poll each for the notifications that have come in, for the one that the
\* callback counts, for what it has counted and for the read that is at it.
Credit == Len(notes) + 3

\* It stops, restarts or loses the network: the connection is gone, and its
\* subscription.  The client notices at its next call, but a call whose
\* request had arrived may wait on a connection that is half open: nothing is
\* sent on it any more that the PLC could reject.
PlcGoes ==
    /\ up /\ up' = FALSE
    /\ \/ link = "none" /\ UNCHANGED link
       \/ link # "none" /\ link' = "cut"
       \/ link = "up" /\ MayHalfOpen /\ pc \in {"request", "write"}
          /\ link' = "halfopen"
    /\ sub' = NoSub
    /\ credit' = IF link = "up" THEN Credit ELSE credit
    /\ UNCHANGED <<proto, plc, held, notes, cb, pc, client, buf, shown>>

PlcComes ==
    /\ ~up /\ up' = TRUE
    /\ UNCHANGED <<proto, plc, link, held, subscription, pc, client, buf, shown, credit>>

\* Publishing interval: one notification with every monitored item that
\* changed since it was last reported.  Nothing obliges the server to, and
\* several may come in before the callback is done with the first.
Publish ==
    LET changed == {r \in Regs \ Unmonitored : sub.last[r] # plc[r]}
    IN  /\ sub.live
        /\ Len(notes) < MaxNotes /\ changed # {}
        /\ notes' = Append(notes, [r \in Regs |-> IF r \in changed THEN plc[r] ELSE None])
        /\ sub' = [sub EXCEPT !.last =
                      [r \in Regs |-> IF r \in changed THEN plc[r] ELSE @[r]]]
        /\ UNCHANGED <<proto, server, cb, pc, client, buf, shown, credit>>

(* The DataChangeCallback.                                                 *)

Deliver ==
    /\ cb = "idle" /\ notes # <<>> /\ Connected
    /\ cb' = "insert"
    /\ UNCHANGED <<proto, server, sub, notes, pc, client, buf, shown, credit>>

CallbackInserts ==
    LET note == Head(notes)
    IN  /\ cb = "insert" /\ cb' = "count"
        /\ cache' = [r \in Regs |-> IF note[r] = None THEN cache[r]
                                                     ELSE variant_to_u16(note[r])]
        /\ notes' = Tail(notes)
        /\ UNCHANGED <<proto, server, sub, pc, fresh, active, stale, buf, shown, credit>>

CallbackCounts ==
    /\ cb = "count" /\ cb' = "idle"
    /\ fresh' = TRUE
    /\ UNCHANGED <<proto, server, sub, notes, pc, cache, active, stale, buf, shown, credit>>

-----------------------------------------------------------------------------
(* connect()                                                               *)

\* Wrong: the counts of the last connection are kept.
ResetCacheOnly == cache' = NoWords /\ UNCHANGED fresh

\* cache.clear(), count = 0, last_read_count = 0
ResetCache == cache' = NoWords /\ fresh' = FALSE

\* The loop has slept 5 s since the connection was dropped: a callback of the
\* old one has ended.
BeginConnect ==
    /\ pc = "connect" /\ cb = "idle"
    /\ pc' = "connecting"
    /\ IF proto = "opcua" THEN ResetCache ELSE UNCHANGED <<cache, fresh>>
    /\ UNCHANGED <<proto, server, subscription, active, stale, buf, shown, credit>>

\* connect() returns Ok, with a subscription or without.
ConnectOk ==
    /\ pc = "connecting" /\ up
    /\ pc' = "select"
    /\ link' = "up"
    /\ held' = [r \in Regs |-> {plc[r]}]
    /\ \E made \in IF proto = "opcua" THEN BOOLEAN ELSE {FALSE} :
          /\ sub' = [NoSub EXCEPT !.live = made]
          /\ active' = made
    /\ stale' = 0
    /\ UNCHANGED <<proto, plc, up, notes, cb, cache, fresh, buf, shown, credit>>

\* It may fail whether the PLC is there or not.
ConnectFails ==
    /\ pc = "connecting"
    /\ pc' = "connect"
    /\ UNCHANGED <<proto, server, subscription, client, buf, shown, credit>>

\* A call has failed: session and keepalive are dropped, the cache is
\* cleared, the loop leaves its inner loop.  A notification the callback has
\* begun with stays with it, the others are gone.
DropConnection ==
    /\ pc' = "connect"
    /\ link' = "none"
    /\ held' = [r \in Regs |-> {}]
    /\ sub' = NoSub
    /\ notes' = IF cb = "insert" THEN <<Head(notes)>> ELSE <<>>
    /\ IF proto = "opcua" THEN active' = FALSE /\ cache' = NoWords
                          ELSE UNCHANGED <<active, cache>>
    /\ buf' = NoWords
    /\ credit' = 0
    /\ UNCHANGED <<proto, plc, up, cb, fresh, stale, shown>>

\* Does the call that waits for a reply return an error?  The library under
\* OpcUaClient gives up after a time, tokio-modbus waits as long as the
\* connection stands.
CallFails ==
    \/ link = "cut"
    \/ link = "halfopen" /\ proto = "opcua"

-----------------------------------------------------------------------------
(* read_registers(), and what the loop does with its result.               *)

\* Wrong: last_read_count is not updated.
FreshNotConsumed == UNCHANGED fresh

\* last_read_count = current_count
FreshConsumed == fresh' = FALSE

\* Wrong: the subscription is never given up.
AlwaysTrusted == TRUE

\* sub_active, after one more read without a delivery.
StillTrusted == stale' <= StaleLimit

\* A tick: look at the count and decide where to read.
Tick ==
    /\ pc = "select"
    /\ \/ /\ active /\ fresh
          /\ FreshConsumed /\ stale' = 0
          /\ pc' = "cache" /\ UNCHANGED active
       \/ /\ active /\ ~fresh
          /\ stale' = stale + 1
          /\ active' = StillTrusted
          /\ pc' = "request" /\ UNCHANGED fresh
       \/ /\ ~active
          /\ pc' = "request" /\ UNCHANGED <<fresh, active, stale>>
    /\ UNCHANGED <<proto, server, subscription, cache, buf, shown, credit>>

CacheReturns ==
    /\ pc = "cache" /\ pc' = "select"
    /\ shown' = [r \in Regs |-> CachedOr0(r)]
    /\ credit' = IF link = "up" THEN credit ELSE credit - 1
    /\ UNCHANGED <<proto, server, subscription, client, buf>>

PlcReads ==
    /\ pc = "request" /\ link = "up"
    /\ pc' = "reply"
    /\ buf' = [r \in Regs |-> variant_to_u16(plc[r])]
    /\ UNCHANGED <<proto, server, subscription, client, shown, credit>>

ReplyReturns ==
    /\ pc = "reply" /\ pc' = "select"
    /\ shown' = buf /\ buf' = NoWords
    /\ UNCHANGED <<proto, server, subscription, client, credit>>

\* A Modbus exception: the loop logs it and keeps the connection.
ReadRefused ==
    /\ proto = "modbus" /\ pc = "request" /\ link = "up"
    /\ pc' = "select"
    /\ UNCHANGED <<proto, server, subscription, client, buf, shown, credit>>

ReadFails ==
    /\ pc \in {"request", "reply"}
    /\ CallFails \/ (proto = "opcua" /\ pc = "request")
    /\ DropConnection

(* write_register(), for a command of the device's channel.                *)

Receive ==
    /\ pc = "select" /\ pc' = "write"
    /\ UNCHANGED <<proto, server, subscription, client, buf, shown, credit>>

\* The PLC executes the write and Ok comes back.
WriteOk ==
    /\ pc = "write" /\ link = "up"
    /\ pc' = "select"
    /\ \E r \in Regs, x \in Variants : x.type = "integer" /\ Store(r, x)
    /\ UNCHANGED <<proto, up, link, subscription, client, buf, shown, credit>>

\* A refused write keeps a Modbus connection and drops an OPC UA session.
WriteRefused ==
    /\ pc = "write" /\ link = "up" /\ proto = "modbus"
    /\ pc' = "select"
    /\ UNCHANGED <<proto, server, subscription, client, buf, shown, credit>>

WriteFails ==
    /\ pc = "write"
    /\ CallFails \/ proto = "opcua"
    /\ DropConnection

-----------------------------------------------------------------------------
Plc == PlcGoes \/ PlcComes \/ \E r \in Regs : PlcChanges(r)
Callback == Deliver \/ CallbackInserts \/ CallbackCounts
Loop ==
    \/ BeginConnect \/ ConnectOk \/ ConnectFails
    \/ Tick \/ CacheReturns \/ ReplyReturns \/ ReadFails
    \/ WriteOk \/ WriteFails
Next ==
    \/ Plc \/ Publish \/ Callback \/ Loop
    \/ PlcReads \/ ReadRefused \/ Receive \/ WriteRefused

Spec == Init /\ [][Next]_vars

(* The loop is a tokio task woken by its timer and by replies.  A PLC that *)
(* is asked again and again, to connect or to answer, does so some time;   *)
(* nothing obliges the server of a subscription to publish, or an error to *)
(* be a rare one.  The timer competes with writes, and `select!` picks at  *)
(* random among what is ready.                                             *)
Fairness ==
    /\ WF_vars(Loop) /\ SF_vars(Tick) /\ SF_vars(ConnectOk) /\ SF_vars(PlcReads)
    /\ WF_vars(CallbackInserts \/ CallbackCounts)
FairSpec == Spec /\ Fairness

-----------------------------------------------------------------------------
(* Properties.                                                             *)

Monitored == Regs \ Unmonitored
Shows(X) == {variant_to_u16(x) : x \in X}

\* What the loop relies on, for both clients and for the registers that the
\* subscription delivers: a read returns what the register has shown on this
\* connection, and nothing of an earlier one, whatever the interleaving of
\* callback, reconnect and read.
Link == INSTANCE PlcLink WITH
    Regs <- Monitored,
    Values <- Shows(Variants),
    plc <- [r \in Monitored |-> variant_to_u16(plc[r])],
    open <- Connected,
    held <- [r \in Monitored |-> Shows(held[r])],
    shown <- [r \in Monitored |-> shown[r]]

ImplementsLink == Link!Spec

\* A poll that answers from the cache finds every monitored register in it:
\* between clear() on one task and the callback on another thread, no poll
\* gets the 0 of a missing entry.
CacheComplete == pc = "cache" => \A r \in Monitored : cache[r] # None

\* A lost connection is noticed: after the loss at most one poll for each
\* notification that had come in answers from the cache, and three more for
\* what the callback was done with; the next poll asks the server and so
\* finds out.
BlindBounded == credit >= 0

\* A register that keeps its value is shown with this value in the end: after
\* any number of lost connections, with a subscription that delivers, stops
\* delivering, or delivers late.  (A Modbus read on a connection that is half
\* open waits for ever: it has no time-out.)
Hung == proto = "modbus" /\ link = "halfopen"
Converges ==
    \A r \in Monitored, x \in Variants :
        <>[](up /\ plc[r] = x /\ ~Hung) => <>[](shown[r] = variant_to_u16(x))
=============================================================================
