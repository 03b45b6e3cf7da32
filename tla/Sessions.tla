------------------------------ MODULE Sessions ------------------------------
(***************************************************************************)
(* Accounts, logins and sessions: server/src/auth.rs.  A login is checked  *)
(* against the throttle, the users table and the password, in this order   *)
(* and with an await between any two of them; a session is a token held by *)
(* the client and an entry in a table that lives in memory.                *)
(*                                                                         *)
(* Every await of a handler ends a step, so requests interleave there, and *)
(* there a request may be dropped because its client hung up.              *)
(*                                                                         *)
(* Time is relative: a token carries the time it has left, an entry of the *)
(* throttle the time since its first failure.  The code only compares      *)
(* these with 0, -leeway and LOCKOUT_DURATION_SECS, so they stop one       *)
(* beyond.                                                                 *)
(***************************************************************************)
EXTENDS Integers, FiniteSets

CONSTANTS
    Clients,         \* requests that can be under way at one time
    Names,           \* user names
    Seeded,          \* the names of the users that init_auth_tables creates
    SeedRole,        \* SeedRole[n]: their roles
    NewRoles,        \* bound: the roles create_user is asked for
    Mistyped,        \* bound: the names that wrong passwords are given for
    Disableable,     \* bound: the accounts that may be disabled
    Sids,            \* bound: session ids (uuids) that can be drawn
    None,
    MaxAttempts,     \* MAX_LOGIN_ATTEMPTS
    Lockout,         \* LOCKOUT_DURATION_SECS, in ticks
    Expiry,          \* TOKEN_EXPIRY_HOURS, in ticks
    Leeway           \* what the JWT library adds to the expiry, in ticks

Roles == {"viewer", "operator", "admin"}

\* The requests, with the role their route asks for.  "operate" stands for the
\* routes of operators, which are the subject of the other modules; those that
\* only read, auth/verify included, take the same test as "esig".
Guarded == [esig |-> "viewer", operate |-> "operator", create |-> "admin"]
Ops == {"login", "logout"} \cup DOMAIN Guarded

Level == [viewer |-> 0, operator |-> 1, admin |-> 2]
has_permission(role, required) == Level[role] >= Level[required]

User == [role : Roles, is_active : BOOLEAN]
Token == [user : Names, role : Roles, ttl : (-Leeway - 1)..Expiry]
Attempt == [count : Nat \ {0}, age : 0..Lockout]
Entry == [created_user : Names, role : Roles]

ASSUME SessionsAssumption ==
    /\ IsFiniteSet(Clients)
    /\ Seeded \subseteq Names /\ SeedRole \in [Seeded -> Roles]
    /\ NewRoles \subseteq Roles /\ Mistyped \subseteq Names
    /\ Disableable \subseteq Names
    /\ MaxAttempts \in Nat \ {0} /\ Lockout \in Nat \ {0}
    /\ Expiry \in Nat \ {0} /\ Leeway \in Nat
    /\ None \notin Names /\ None \notin Sids /\ None \notin Roles
    /\ None \notin Ops /\ None \notin User /\ None \notin Token /\ None \notin Attempt

VARIABLES
    users,      \* users[n]: the row of n, or None
    attempts,   \* login_attempts[n], or None
    sessions,   \* the keys of the session store
    tokens,     \* tokens[sid]: the claims signed for sid, or None
    req,        \* req[c]: the request of c and how far it got
    audit,      \* the create_user rows of audit_trail; nothing here reads others
    (* history, not state of the program: *)
    delivered,  \* sids whose token was sent to a client
    loggedOut,  \* sids that were revoked by a logout
    stale,      \* sids from before the last restart
    lockedFor   \* lockedFor[n]: ticks for which n has been locked out

vars == <<users, attempts, sessions, tokens, req, audit,
          delivered, loggedOut, stale, lockedFor>>
history == <<delivered, loggedOut, stale, lockedFor>>

Pcs == {"idle", "throttle", "select", "record", "clear", "register",
        "session", "handler", "revoke", "audit"}
Request == [op : Ops \cup {None}, pc : Pcs, sid : Sids \cup {None},
            name : Names \cup {None}, right : BOOLEAN, role : Roles \cup {None}]

TypeOK ==
    /\ users \in [Names -> User \cup {None}]
    /\ attempts \in [Names -> Attempt \cup {None}]
    /\ sessions \subseteq Sids
    /\ tokens \in [Sids -> Token \cup {None}]
    /\ req \in [Clients -> Request]
    /\ audit \subseteq Entry
    /\ delivered \subseteq Sids /\ loggedOut \subseteq Sids /\ stale \subseteq Sids
    /\ lockedFor \in [Names -> 0..Lockout]

Idle == [op |-> None, pc |-> "idle", sid |-> None, name |-> None,
         right |-> FALSE, role |-> None]

Init ==
    /\ users = [n \in Names |-> IF n \in Seeded
                                  THEN [role |-> SeedRole[n], is_active |-> TRUE]
                                  ELSE None]
    /\ attempts = [n \in Names |-> None]
    /\ sessions = {}
    /\ tokens = [sid \in Sids |-> None]
    /\ req = [c \in Clients |-> Idle]
    /\ audit = {}
    /\ delivered = {} /\ loggedOut = {} /\ stale = {}
    /\ lockedFor = [n \in Names |-> 0]

-----------------------------------------------------------------------------
(* The tests.                                                              *)

Issued == {sid \in Sids : tokens[sid] # None}

\* validate_token: the signature, which only the server can make, and the
\* expiry with its leeway.
validate_token(sid) == tokens[sid] # None /\ tokens[sid].ttl >= -Leeway

\* Wrong: the table is not asked.
is_session_validBySignature(sid) == TRUE

is_session_valid(sid) == sid \in sessions /\ tokens[sid].ttl > 0

\* Wrong: one attempt more.
ExhaustedLate(n) == attempts[n] # None /\ attempts[n].count > MaxAttempts

\* *count >= MAX_LOGIN_ATTEMPTS
Exhausted(n) == attempts[n] # None /\ attempts[n].count >= MaxAttempts

\* check_login_throttle answers Err.
Locked(n) == Exhausted(n) /\ attempts[n].age < Lockout

\* Wrong: an expired lockout leaves an entry behind, with nothing counted.
UnlockedKeepsEntry(n) ==
    IF Exhausted(n) THEN [attempts EXCEPT ![n].count = 0] ELSE attempts

\* An expired lockout is forgotten, and so is its count; an entry below the
\* limit stays, however old.
Unlocked(n) == IF Exhausted(n) THEN [attempts EXCEPT ![n] = None] ELSE attempts

\* verify_password against the row of n
Credentials(n, right) == users[n] # None /\ right

-----------------------------------------------------------------------------
(* Steps of requests.  At(c, op, pc): where c is.                          *)

At(c, op, pc) == req[c].op = op /\ req[c].pc = pc
Goto(c, pc) == req' = [req EXCEPT ![c].pc = pc]
Finish(c) == req' = [req EXCEPT ![c] = Idle]

\* Bound: there is a session id left for every login under way.
SidLeft == Cardinality({c \in Clients : req[c].op = "login" /\ req[c].right
                          /\ req[c].pc \in {"throttle", "select", "clear"}})
             < Cardinality(Sids \ Issued)

Arrive(c, r) ==
    /\ req[c] = Idle
    /\ req' = [req EXCEPT ![c] = r]
    /\ UNCHANGED <<users, attempts, sessions, tokens, audit, history>>

LoginArrives(c) ==
    \E n \in Names, right \in BOOLEAN :
        /\ IF right THEN SidLeft ELSE n \in Mistyped
        /\ Arrive(c, [Idle EXCEPT !.op = "login", !.pc = "throttle",
                                  !.name = n, !.right = right])

LogoutArrives(c) ==
    \E sid \in delivered :
        Arrive(c, [Idle EXCEPT !.op = "logout", !.pc = "revoke", !.sid = sid])

\* The body of the request is read by the handler, after the middleware.
GuardedArrives(c) ==
    \E sid \in delivered, op \in DOMAIN Guarded :
        Arrive(c, [Idle EXCEPT !.op = op, !.pc = "session", !.sid = sid])

\* Wrong: an attempt during a lockout starts it again.
CheckThrottleRestarts(c) ==
    LET n == req[c].name IN
    /\ At(c, "login", "throttle")
    /\ IF Locked(n)
         THEN Finish(c) /\ attempts' = [attempts EXCEPT ![n].age = 0]
         ELSE Goto(c, "select") /\ attempts' = Unlocked(n)
    /\ UNCHANGED <<users, sessions, tokens, audit, history>>

\* check_login_throttle
CheckThrottle(c) ==
    LET n == req[c].name IN
    /\ At(c, "login", "throttle")
    /\ IF Locked(n)
         THEN Finish(c) /\ UNCHANGED attempts
         ELSE Goto(c, "select") /\ attempts' = Unlocked(n)
    /\ UNCHANGED <<users, sessions, tokens, audit, history>>

\* login: the row is read, then the password verified with no await between.
\* A disabled account ends the request without counting it.
LoginSelect(c) ==
    LET u == users[req[c].name] IN
    /\ At(c, "login", "select")
    /\ IF u # None /\ ~u.is_active
         THEN Finish(c)
         ELSE Goto(c, IF Credentials(req[c].name, req[c].right) THEN "clear" ELSE "record")
    /\ UNCHANGED <<users, attempts, sessions, tokens, audit, history>>

\* The SELECT of a login or a signature fails: 500.
SelectFails(c) ==
    /\ At(c, "login", "select") \/ At(c, "esig", "handler")
    /\ Finish(c)
    /\ UNCHANGED <<users, attempts, sessions, tokens, audit, history>>

\* The entry after one more failure; the time counts from the first one.
OneMore(x) == IF x = None THEN [count |-> 1, age |-> 0]
                          ELSE [count |-> x.count + 1, age |-> x.age]

\* record_failed_login
RecordFailedLogin(c) ==
    LET n == req[c].name IN
    /\ At(c, "login", "record")
    /\ attempts' = [attempts EXCEPT ![n] = OneMore(attempts[n])]
    /\ Finish(c)
    /\ UNCHANGED <<users, sessions, tokens, audit, history>>

\* clear_failed_login, then create_token, which does not wait.
ClearFailedLogin(c) ==
    LET n == req[c].name IN
    /\ At(c, "login", "clear")
    /\ attempts' = [attempts EXCEPT ![n] = None]
    /\ lockedFor' = [lockedFor EXCEPT ![n] = 0]
    /\ \E sid \in Sids \ Issued :
         /\ tokens' = [tokens EXCEPT ![sid] =
                         [user |-> n, role |-> users[n].role, ttl |-> Expiry]]
         /\ req' = [req EXCEPT ![c].pc = "register", ![c].sid = sid]
    /\ UNCHANGED <<users, sessions, audit, delivered, loggedOut, stale>>

\* Wrong: the token is sent before its session is registered.
RegisterSessionLate(c) ==
    /\ At(c, "login", "register")
    /\ \/ /\ req[c].sid \notin delivered
          /\ delivered' = delivered \cup {req[c].sid}
          /\ UNCHANGED <<req, sessions>>
       \/ /\ sessions' = sessions \cup {req[c].sid}
          /\ Goto(c, "audit")
          /\ UNCHANGED delivered
    /\ UNCHANGED <<users, attempts, tokens, audit, loggedOut, stale, lockedFor>>

RegisterSession(c) ==
    /\ At(c, "login", "register")
    /\ sessions' = sessions \cup {req[c].sid}
    /\ Goto(c, "audit")
    /\ UNCHANGED <<users, attempts, tokens, audit, history>>

\* The last step of login, logout, electronic_signature and create_user:
\* log_audit, whose failure is only written to the log, then the answer.
LogAudit(c) ==
    LET r == req[c] IN
    /\ r.pc = "audit"
    /\ \/ r.op = "create"
          /\ audit' = audit \cup {[created_user |-> r.name, role |-> r.role]}
       \/ UNCHANGED audit
    /\ delivered' = IF r.op = "login" THEN delivered \cup {r.sid} ELSE delivered
    /\ Finish(c)
    /\ UNCHANGED <<users, attempts, sessions, tokens, loggedOut, stale, lockedFor>>

\* logout, with revoke_session; a token that is no longer valid is answered with OK at once.
Logout(c) ==
    LET sid == req[c].sid IN
    /\ At(c, "logout", "revoke")
    /\ IF validate_token(sid)
         THEN /\ sessions' = sessions \ {sid}
              /\ loggedOut' = loggedOut \cup {sid}
              /\ Goto(c, "audit")
         ELSE Finish(c) /\ UNCHANGED <<sessions, loggedOut>>
    /\ UNCHANGED <<users, attempts, tokens, audit, delivered, stale, lockedFor>>

\* auth_middleware, require_operator, require_admin, verify_token_handler.
Allowed(c) ==
    LET sid == req[c].sid IN
    /\ validate_token(sid)
    /\ is_session_valid(sid)
    /\ has_permission(tokens[sid].role, Guarded[req[c].op])

Middleware(c) ==
    /\ req[c].pc = "session"
    /\ IF Allowed(c) THEN Goto(c, "handler") ELSE Finish(c)
    /\ UNCHANGED <<users, attempts, sessions, tokens, audit, history>>

\* A handler of another module.
Operate(c) ==
    /\ At(c, "operate", "handler")
    /\ Finish(c)
    /\ UNCHANGED <<users, attempts, sessions, tokens, audit, history>>

\* electronic_signature: `AND is_active = 1` is in the SELECT.
ElectronicSignature(c) ==
    /\ At(c, "esig", "handler")
    /\ \E n \in Names, right \in BOOLEAN :
         IF Credentials(n, right) /\ users[n].is_active
           THEN Goto(c, "audit") ELSE Finish(c)
    /\ UNCHANGED <<users, attempts, sessions, tokens, audit, history>>

\* Wrong: the statement takes a name that is there.
InsertableAlways(n) == TRUE

\* username TEXT NOT NULL UNIQUE
Insertable(n) == users[n] = None

\* create_user: a bad body, role or password ends it; then the INSERT decides,
\* and any failure of it is answered with 409.
CreateUser(c) ==
    /\ At(c, "create", "handler")
    /\ \/ \E n \in Names, role \in NewRoles :
            /\ Insertable(n)
            /\ users' = [users EXCEPT ![n] = [role |-> role, is_active |-> TRUE]]
            /\ req' = [req EXCEPT ![c].pc = "audit", ![c].name = n, ![c].role = role]
       \/ Finish(c) /\ UNCHANGED users
    /\ UNCHANGED <<attempts, sessions, tokens, audit, history>>

HangUp(c) ==
    /\ req[c] # Idle
    /\ Finish(c)
    /\ UNCHANGED <<users, attempts, sessions, tokens, audit, history>>

-----------------------------------------------------------------------------
(* Time, restarts, and the one thing that needs a hand in the database.    *)

Older(x) == IF x = None \/ x.age = Lockout THEN x ELSE [x EXCEPT !.age = @ + 1]
Shorter(t) == IF t = None \/ t.ttl = -Leeway - 1 THEN t ELSE [t EXCEPT !.ttl = @ - 1]

Tick ==
    /\ attempts' = [n \in Names |-> Older(attempts[n])]
    /\ tokens' = [sid \in Sids |-> Shorter(tokens[sid])]
    /\ lockedFor' = [n \in Names |->
                      IF ~Locked(n)' THEN 0
                      ELSE IF lockedFor[n] < Lockout THEN lockedFor[n] + 1
                      ELSE Lockout]
    /\ UNCHANGED <<users, sessions, req, audit, delivered, loggedOut, stale>>

\* The tables in memory are gone; the signing secret is in config.toml and the
\* users are in the database, so nobody is seeded again.
Restart ==
    /\ attempts' = [n \in Names |-> None]
    /\ sessions' = {}
    /\ req' = [c \in Clients |-> Idle]
    /\ stale' = Issued
    /\ lockedFor' = [n \in Names |-> 0]
    /\ UNCHANGED <<users, tokens, audit, delivered, loggedOut>>

\* No route changes is_active.
Disable(n) ==
    /\ users[n] # None /\ users[n].is_active
    /\ users' = [users EXCEPT ![n].is_active = FALSE]
    /\ UNCHANGED <<attempts, sessions, tokens, req, audit, history>>

Step(c) ==
    \/ CheckThrottle(c) \/ LoginSelect(c) \/ SelectFails(c)
    \/ RecordFailedLogin(c) \/ ClearFailedLogin(c) \/ RegisterSession(c)
    \/ LogAudit(c) \/ Logout(c) \/ Middleware(c) \/ Operate(c)
    \/ ElectronicSignature(c) \/ CreateUser(c)

Next ==
    \/ \E c \in Clients : \/ LoginArrives(c) \/ LogoutArrives(c) \/ GuardedArrives(c)
                          \/ Step(c) \/ HangUp(c)
    \/ Tick
    \/ Restart
    \/ \E n \in Disableable : Disable(n)

Spec == Init /\ [][Next]_vars

-----------------------------------------------------------------------------
(* Properties.                                                             *)

\* Logins of n that passed the throttle and may still be counted.
Unrecorded(n) ==
    {c \in Clients : req[c].op = "login" /\ req[c].name = n
                       /\ req[c].pc \in {"select", "record"}}

\* "5 attempts -> lockout", as far as check-then-record keeps it: requests that
\* passed check_login_throttle side by side can go beyond the limit, but only
\* by one less than there are requests under way.
GuessesBounded ==
    \A n \in Names :
        LET count == IF attempts[n] = None THEN 0 ELSE attempts[n].count
        IN  count + Cardinality(Unrecorded(n)) < MaxAttempts + Cardinality(Clients)

\* The session store says exactly what a client would expect of the token it
\* was sent: it is there until that token is logged out or the server is
\* restarted, whatever other sessions of the user do, and it does not come
\* back, although a login registers the session in a step of its own.
SessionsExact ==
    \A sid \in delivered :
        sid \in sessions <=> sid \notin loggedOut \cup stale

\* The token of c is in a client's hands since the last restart, was not logged
\* out, has time left and belongs to an account whose role covers the route.
LiveToken(c) ==
    LET sid == req[c].sid IN
    /\ sid \in delivered \ (loggedOut \cup stale)
    /\ tokens[sid].ttl > 0
    /\ has_permission(users[tokens[sid].user].role, Guarded[req[c].op])

\* Only who is logged in is served: whatever happened to the account, the
\* session and the server before, a request gets past the middleware only with
\* a live token.  The JWT library alone would let it live on after logout, for
\* its leeway after the 8 hours, and across a restart.
ServedIsLive ==
    [][\A c \in Clients :
         req[c].pc = "session" /\ req'[c].pc = "handler" => LiveToken(c)]_vars

\* An audited user creation is true and stays true: the account exists with
\* the role in the entry, whichever of two requests for one name came first.
CreationsTrue ==
    \A e \in audit :
        users[e.created_user] # None /\ users[e.created_user].role = e.role

\* A lockout ends in time: it is counted from the first failure, and nothing
\* that arrives before or while it lasts, right or wrong, makes it longer.
LockoutEnds == \A n \in Names : lockedFor[n] < Lockout
=============================================================================
