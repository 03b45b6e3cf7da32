------------------------------ MODULE LiveFeed ------------------------------
(***************************************************************************)
(* From the broadcast channel of the server to the screen of one app:      *)
(* handle_socket (server/src/ws.rs), WebSocketService                      *)
(* (app/lib/services/websocket_service.dart), the life of a DashboardStore *)
(* and the log-in and log-out of app/lib/main.dart.                        *)
(*                                                                         *)
(* A socket has two ends.  The server's end is srv[s], the app's end is    *)
(* the service that holds s; net[s] is what is between them.  Readings are *)
(* numbered in the order in which the polling tasks broadcast them.  A     *)
(* store is made for a log-in, so stores and sessions share their names.   *)
(* How a session begins and ends on the server is in Sessions.             *)
(***************************************************************************)
EXTENDS Integers, Sequences

CONSTANTS
    Stores,       \* the stores, and the sessions they are made for
    Sockets,      \* the sockets that may exist at once
    MaxReading,   \* bound: readings are numbered 1..MaxReading
    Cap,          \* capacity of the broadcast channel, 2000 in the code
    Wire,         \* bound: messages on their way to the app
    MayHalfOpen,  \* may a link fail with neither end being told
    None

ASSUME FeedAssumption ==
    /\ Stores # {}
    /\ MaxReading \in Nat \ {0} /\ Cap \in Nat \ {0} /\ Wire \in Nat \ {0}
    /\ MayHalfOpen \in BOOLEAN
    /\ None \notin Stores \cup Sockets

VARIABLES
    valid,    \* SessionStore: the sessions the server knows
    now,      \* the newest reading
    srv,      \* srv[s]: where the server's handler of s is; "feed" has a send
              \* task and a receive task, later states only one of them
    rx,       \* rx[s]: the broadcast messages the send task has not read
    net,      \* net[s]: "up", "cut" or "gone" (half open)
    up,       \* up[s]: the token on its way to the server, or None
    down,     \* down[s]: the messages on their way to the app
    svc,      \* svc[k]: the store k and its WebSocketService
    cur,      \* _store
    screen,   \* "main" is _isAuthenticated
    lost      \* history: the stores that a second log-in has overwritten

server == <<valid, srv, rx>>
network == <<net, up, down>>
app == <<svc, cur, screen, lost>>
vars == <<server, now, network, app>>

Readings == 1..MaxReading
AuthOk == 0
AuthError == -1
Message == Readings \cup {AuthOk, AuthError}
Stages == {"none", "auth", "subscribe", "feed", "recvOnly", "sendOnly"}

\* phase "none": no connection and nothing that would make one; "init" and
\* "handshake" await, and go on after a dispose() (dead).
Idle == [phase |-> "none", dead |-> FALSE, sock |-> None, shown |-> 0]
NewStore == [Idle EXCEPT !.phase = "init"]
ServiceState ==
    [phase : {"none", "init", "handshake", "open", "timer"}, dead : BOOLEAN,
     sock : Sockets \cup {None}, shown : 0..MaxReading]

\* The names of stores and sockets mean nothing: the first that is not in use.
Pick(S) == CHOOSE x \in S : TRUE

Held(s) == \E k \in Stores : svc[k].sock = s
Free(s) == srv[s] = "none" /\ ~Held(s)
Alive(k) == svc[k].phase # "none" /\ ~svc[k].dead

TypeOK ==
    /\ valid \subseteq Stores
    /\ now \in Readings
    /\ srv \in [Sockets -> Stages]
    /\ rx \in [Sockets -> Seq(Readings)] /\ down \in [Sockets -> Seq(Message)]
    /\ \A s \in Sockets : Len(rx[s]) <= Cap /\ Len(down[s]) <= Wire
    /\ net \in [Sockets -> {"up", "cut", "gone"}]
    /\ up \in [Sockets -> Stores \cup {None}]
    /\ svc \in [Stores -> ServiceState]
    /\ cur \in Stores /\ screen \in {"login", "main"}
    /\ lost \subseteq Stores

\* _loadConfig has restored a session, or has not.
Init ==
    /\ now = 1
    /\ srv = [s \in Sockets |-> "none"] /\ rx = [s \in Sockets |-> <<>>]
    /\ net = [s \in Sockets |-> "up"]
    /\ up = [s \in Sockets |-> None] /\ down = [s \in Sockets |-> <<>>]
    /\ cur = Pick(Stores) /\ lost = {}
    /\ \/ /\ screen = "main" /\ valid = {cur}
          /\ svc = [k \in Stores |-> IF k = cur THEN NewStore ELSE Idle]
       \/ /\ screen = "login" /\ valid = {}
          /\ svc = [k \in Stores |-> Idle]

-----------------------------------------------------------------------------
(* The server.                                                             *)

\* The handler returns, or one task aborts the other: both halves are
\* dropped.  What was sent before is still delivered.
End(s) ==
    /\ srv' = [srv EXCEPT ![s] = "none"]
    /\ rx' = [rx EXCEPT ![s] = <<>>]
    /\ up' = [up EXCEPT ![s] = None]
    /\ net' = IF Held(s) THEN net ELSE [net EXCEPT ![s] = "up"]

\* Nobody is told whether a message arrives.
Emit(s, m) ==
    down' = IF Held(s) /\ net[s] = "up" THEN [down EXCEPT ![s] = Append(@, m)]
                                        ELSE down

\* The other side has closed, or the link is known to be cut.
SeesClose(s) == net[s] = "cut" \/ (net[s] = "up" /\ ~Held(s))

\* validate_token and is_session_valid on the first message.  The session is
\* looked at this once.
Accept(s) ==
    /\ srv[s] = "auth" /\ up[s] \in valid
    /\ srv' = [srv EXCEPT ![s] = "subscribe"]
    /\ up' = [up EXCEPT ![s] = None]
    /\ Emit(s, AuthOk)
    /\ UNCHANGED <<valid, rx, now, net, app>>

Reject(s) ==
    /\ srv[s] = "auth" /\ up[s] \notin valid \cup {None}
    /\ Emit(s, AuthError) /\ End(s)
    /\ UNCHANGED <<valid, now, app>>

\* No message within 10 s: it was never sent, or is slow or lost.
AuthTimeout(s) ==
    /\ srv[s] = "auth"
    /\ Emit(s, AuthError) /\ End(s)
    /\ UNCHANGED <<valid, now, app>>

AuthClosed(s) ==
    /\ srv[s] = "auth" /\ SeesClose(s)
    /\ End(s)
    /\ UNCHANGED <<valid, now, down, app>>

\* Wrong: a new receiver begins with the oldest message of the channel.
FromTheOldest == <<1>>

\* A new receiver gets what is sent after the subscription.
FromNow == <<>>

\* state.tx.subscribe(), after the answer.
Subscribe(s) ==
    /\ srv[s] = "subscribe"
    /\ srv' = [srv EXCEPT ![s] = "feed"]
    /\ rx' = [rx EXCEPT ![s] = FromNow]
    /\ UNCHANGED <<valid, now, network, app>>

\* Wrong: nothing bounds what a slow receiver keeps.
PushAll(q, m) == Append(q, m)

\* A receiver that lags skips the oldest messages (Lagged) and goes on.
Push(q, m) == IF Len(q) < Cap THEN Append(q, m) ELSE Append(Tail(q), m)

\* The tasks of the feed that have not ended.
Sending(s) == srv[s] \in {"feed", "sendOnly"}
Receiving(s) == srv[s] \in {"feed", "recvOnly"}

\* tx.send(): a poll that reads its device broadcasts the reading, changed or
\* not.
Publish ==
    /\ rx' = [s \in Sockets |-> IF Sending(s) THEN Push(rx[s], now) ELSE rx[s]]
    /\ UNCHANGED <<valid, srv, now, network, app>>

\* The send task.  A full socket makes it wait.
Send(s) ==
    /\ Sending(s) /\ rx[s] # <<>>
    /\ Held(s) /\ net[s] = "up" /\ Len(down[s]) < Wire
    /\ Emit(s, Head(rx[s]))
    /\ rx' = [rx EXCEPT ![s] = Tail(@)]
    /\ UNCHANGED <<valid, srv, now, net, up, app>>

\* It ends with a message that it cannot send: on a link that is half open,
\* when its messages are never confirmed.  Its receiver is dropped.
SendEnds(s) ==
    /\ Sending(s) /\ rx[s] # <<>>
    /\ net[s] # "up" \/ ~Held(s)
    /\ IF srv[s] = "feed"
       THEN /\ srv' = [srv EXCEPT ![s] = "recvOnly"]
            /\ rx' = [rx EXCEPT ![s] = <<>>]
            /\ UNCHANGED <<up, net>>
       ELSE End(s)
    /\ UNCHANGED <<valid, now, down, app>>

\* The receive task ends when it is told that the link is gone.
RecvEnds(s) ==
    /\ Receiving(s) /\ SeesClose(s)
    /\ IF srv[s] = "feed"
       THEN /\ srv' = [srv EXCEPT ![s] = "sendOnly"]
            /\ UNCHANGED <<rx, up, net>>
       ELSE End(s)
    /\ UNCHANGED <<valid, now, down, app>>

\* Wrong: join! waits until the other has ended by itself.
NeitherAborted(s) == FALSE

\* select! goes on when the first has ended, and aborts the other.
OtherAborted(s) == srv[s] \in {"recvOnly", "sendOnly"}

Abort(s) ==
    /\ OtherAborted(s)
    /\ End(s)
    /\ UNCHANGED <<valid, now, down, app>>

NewReading ==
    /\ now < MaxReading /\ now' = now + 1
    /\ UNCHANGED <<server, network, app>>

\* Log-out, expiry, or a deactivated user.
SessionEnds(k) ==
    /\ k \in valid /\ valid' = valid \ {k}
    /\ UNCHANGED <<srv, rx, now, network, app>>

-----------------------------------------------------------------------------
(* Trouble.                                                                *)

\* The server stops and starts again, with an empty SessionStore.
Restart ==
    /\ valid' = {}
    /\ srv' = [s \in Sockets |-> "none"] /\ rx' = [s \in Sockets |-> <<>>]
    /\ up' = [s \in Sockets |-> None]
    /\ net' = [s \in Sockets |-> IF ~Held(s) THEN "up"
                                 ELSE IF srv[s] = "none" THEN net[s] ELSE "cut"]
    /\ UNCHANGED <<now, down, app>>

LinkFails(s) ==
    /\ ~Free(s) /\ net[s] = "up"
    /\ \/ Held(s) /\ net' = [net EXCEPT ![s] = "cut"]
       \/ MayHalfOpen /\ net' = [net EXCEPT ![s] = "gone"]
    /\ up' = [up EXCEPT ![s] = None]
    /\ down' = [down EXCEPT ![s] = <<>>]
    /\ UNCHANGED <<server, now, app>>

-----------------------------------------------------------------------------
(* WebSocketService.                                                       *)

\* The app's end of the sockets S is closed and its subscription cancelled.
\* The server notices, as it does of a link that is cut, unless it is "gone".
CloseSockets(S) ==
    /\ down' = [s \in Sockets |-> IF s \in S THEN <<>> ELSE down[s]]
    /\ net' = [s \in Sockets |-> IF s \in S /\ (srv[s] = "none" \/ net[s] = "cut")
                               THEN "up" ELSE net[s]]

\* DashboardStore.init() comes back from checkHealth and getDevices and calls
\* connect(), which does nothing for a disposed service.
InitDone(k) ==
    /\ svc[k].phase = "init"
    /\ svc' = [svc EXCEPT ![k] = IF @.dead THEN Idle
                                           ELSE [@ EXCEPT !.phase = "handshake"]]
    /\ UNCHANGED <<server, now, network, cur, screen, lost>>

\* _doConnect comes back from `ready` and sends the token.  If dispose() has
\* closed the sink in between, so is the socket.
Handshaked(k) ==
    LET free == {s \in Sockets : Free(s)}
        s == Pick(free) IN
    /\ svc[k].phase = "handshake" /\ free # {}
    /\ srv' = [srv EXCEPT ![s] = "auth"]
    /\ IF svc[k].dead
       THEN svc' = [svc EXCEPT ![k] = Idle] /\ UNCHANGED up
       ELSE /\ svc' = [svc EXCEPT ![k].phase = "open", ![k].sock = s]
            /\ up' = [up EXCEPT ![s] = k]
    /\ UNCHANGED <<valid, rx, now, net, down, cur, screen, lost>>

\* Wrong: no timer is set.
NoRetry(r) == [r EXCEPT !.phase = "none", !.sock = None]

\* _handleDisconnect: close, and try again in 3 s.
Disconnected(r) == [r EXCEPT !.phase = "timer", !.sock = None]

HandshakeFails(k) ==
    /\ svc[k].phase = "handshake"
    /\ svc' = [svc EXCEPT ![k] = IF @.dead THEN Idle ELSE Disconnected(@)]
    /\ UNCHANGED <<server, now, network, cur, screen, lost>>

\* onDone or onError.
SocketDone(k) ==
    LET s == svc[k].sock IN
    /\ svc[k].phase = "open"
    /\ net[s] = "cut" \/ (net[s] = "up" /\ srv[s] = "none" /\ down[s] = <<>>)
    /\ svc' = [svc EXCEPT ![k] = Disconnected(@)]
    /\ CloseSockets({s})
    /\ UNCHANGED <<server, now, up, cur, screen, lost>>

TimerFires(k) ==
    /\ svc[k].phase = "timer"
    /\ svc' = [svc EXCEPT ![k].phase = "handshake"]
    /\ UNCHANGED <<server, now, network, cur, screen, lost>>

\* Wrong: the timer outlives dispose().
DisposedButTimer(r) ==
    IF r.phase \in {"init", "handshake"} THEN [Idle EXCEPT !.phase = r.phase, !.dead = TRUE]
    ELSE IF r.phase = "timer" THEN r
    ELSE Idle

\* DashboardStore.dispose(): what awaits goes on, and finds _disposed.
Disposed(r) ==
    IF r.phase \in {"init", "handshake"} THEN [Idle EXCEPT !.phase = r.phase, !.dead = TRUE]
    ELSE Idle

\* A message of the feed.
Hear(k) ==
    LET s == svc[k].sock
        m == Head(down[s])
    IN  /\ svc[k].phase = "open" /\ net[s] = "up"
        /\ down[s] # <<>> /\ m # AuthError
        /\ svc' = [svc EXCEPT ![k] = IF m = AuthOk THEN @
                                                 ELSE [@ EXCEPT !.shown = m]]
        /\ down' = [down EXCEPT ![s] = Tail(@)]
        /\ UNCHANGED <<server, now, net, up, cur, screen, lost>>

\* Wrong: an error is a disconnect like any other.
ErrorRetries(k) ==
    LET s == svc[k].sock IN
    /\ svc[k].phase = "open" /\ net[s] = "up"
    /\ down[s] # <<>> /\ Head(down[s]) = AuthError
    /\ svc' = [svc EXCEPT ![k] = Disconnected(@)]
    /\ CloseSockets({s})
    /\ UNCHANGED <<server, now, up, cur, screen, lost>>

\* An error of any kind: close, no timer, and _onWsAuthFailed forgets the user,
\* disposes the store of the moment and shows the log-in screen.
HearError(k) ==
    LET s == svc[k].sock IN
    /\ svc[k].phase = "open" /\ net[s] = "up"
    /\ down[s] # <<>> /\ Head(down[s]) = AuthError
    /\ svc' = [[svc EXCEPT ![k] = Idle] EXCEPT ![cur] = Disposed(@)]
    /\ CloseSockets({s, svc[cur].sock})
    /\ screen' = "login" /\ lost' = lost \ {k}
    /\ UNCHANGED <<server, now, up, cur>>

-----------------------------------------------------------------------------
(* main.dart.                                                              *)

\* login() has its answer, _onLoginSuccess makes a store for the new session.
\* The form can be submitted again while an answer is awaited, and all that
\* _handleLogin asks is whether its screen is mounted: the answers that come
\* before the next frame each make a store, and overwrite the one before,
\* which is not disposed.  They are one step: what the app does between two of
\* them it does as well after the last.
LoginSuccess ==
    LET unused == {k \in Stores : svc[k].phase = "none" /\ \A s \in Sockets : up[s] # k}
        k == Pick(unused) IN
    /\ screen = "login" /\ screen' = "main"
    /\ unused # {}
    /\ \E before \in SUBSET (unused \ {k}) :
          /\ valid' = valid \cup before \cup {k}
          /\ svc' = [j \in Stores |-> IF j \in before \cup {k} THEN NewStore ELSE svc[j]]
          /\ lost' = (lost \cup before) \ {k}
    /\ cur' = k
    /\ UNCHANGED <<srv, rx, now, network>>

\* _onLogout, by the button or by the inactivity detector: the POST to
\* /api/auth/logout has its effect (SessionEnds) or has not, and when it
\* returns, the store of the moment is disposed.  If the user was thrown out
\* while it was awaited and is in again, this is the store of the new log-in.
Logout ==
    /\ screen = "main" /\ screen' = "login"
    /\ svc' = [svc EXCEPT ![cur] = Disposed(@)]
    /\ CloseSockets({svc[cur].sock})
    /\ UNCHANGED <<server, now, up, cur, lost>>

-----------------------------------------------------------------------------
Handle(s) ==
    \/ Accept(s) \/ Reject(s) \/ AuthTimeout(s) \/ AuthClosed(s)
    \/ Subscribe(s) \/ Send(s) \/ SendEnds(s) \/ RecvEnds(s) \/ Abort(s)
Service(k) ==
    \/ InitDone(k) \/ SocketDone(k) \/ Handshaked(k)
    \/ TimerFires(k) \/ Hear(k) \/ HearError(k)

Next ==
    \/ Publish \/ NewReading \/ Restart
    \/ \E s \in Sockets : Handle(s) \/ LinkFails(s)
    \/ \E k \in Stores : Service(k) \/ HandshakeFails(k) \/ SessionEnds(k)
    \/ LoginSuccess \/ Logout

Spec == Init /\ [][Next]_vars

(* Tasks and timers run; a call that awaits comes back.  No device has to  *)
(* be read, nobody has to log in or out, no link has to fail, no session   *)
(* to end, and trouble need not stop.                                      *)
Fairness ==
    /\ \A s \in Sockets : WF_vars(Handle(s))
    /\ \A k \in Stores : WF_vars(Service(k))
FairSpec == Spec /\ Fairness

-----------------------------------------------------------------------------
(* Properties.                                                             *)

\* Some device goes on to be read: else nothing is broadcast.
Broadcasting == WF_vars(Publish)

\* The network and the server make no trouble any more.  (A restart while no
\* app is connected only ends sessions; a token that would be refused anyway
\* may as well be late.)
Trouble ==
    \/ Restart /\ \E s \in Sockets : Held(s) /\ srv[s] # "none"
    \/ \E s \in Sockets : LinkFails(s) \/ (AuthTimeout(s) /\ up[s] \in valid)
    \/ \E k \in Stores : HandshakeFails(k)
Calm == <>[][~Trouble]_vars

\* main.dart:107 "The previous store's WS was disposed on logout and can't
\* reconnect": whatever awaits or is on its way when a user leaves, is thrown
\* out or enters again, only the store on the screen has or seeks a
\* connection, but for one that a second log-in in the same frame overwrote.
OneStore == \A k \in Stores : Alive(k) => (k = cur /\ screen = "main") \/ k \in lost

\* Lost messages, reconnects and a new subscription never take the screen
\* back to an older reading.
Forward ==
    [][\A k \in Stores : Alive(k) /\ Alive(k)' => svc'[k].shown >= svc[k].shown]_vars

\* Once trouble ends and a device is read, a reading that stays the newest
\* gets to the screen, however many messages were skipped and between
\* whichever of the auth answer, the subscription and the broadcast it came.
\* (The app never learns of a link that is half open: it sends nothing.)
Hung == svc[cur].sock # None /\ net[svc[cur].sock] = "gone"
Converges ==
    \A v \in Readings :
        Broadcasting /\ Calm /\ <>[](screen = "main" /\ now = v /\ ~Hung)
            => <>[](svc[cur].shown = v)

\* A store whose session the server does not know gives up: it does not go on
\* to connect with a token that is refused.  (A handler that has accepted the
\* session does not look at it again; of a link that is half open the app never
\* learns; and a handshake may find no socket among the few of an instance.)
Waits(k) ==
    LET s == svc[k].sock
    IN  CASE svc[k].phase = "open" ->
                net[s] = "gone" \/ srv[s] \notin {"none", "auth"}
          [] svc[k].phase = "handshake" -> \A t \in Sockets : ~Free(t)
          [] OTHER -> FALSE
RejectedEnds ==
    Broadcasting /\ Calm
        => \A k \in Stores : ~<>[](Alive(k) /\ k \notin valid /\ ~Waits(k))

\* The server's handler of a socket that the app has closed, or whose link has
\* failed with or without notice, does not stay: it ends at any of its stages,
\* both tasks, whichever notices.  Only a feed that has nothing to send never
\* learns of a link that is half open.
Unaware(s) == srv[s] = "feed" /\ net[s] = "gone" /\ rx[s] = <<>>
SocketsEnd ==
    \A s \in Sockets :
        ~<>[](srv[s] # "none" /\ (net[s] # "up" \/ ~Held(s)) /\ ~Unaware(s))
=============================================================================
