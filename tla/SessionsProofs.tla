--------------------------- MODULE SessionsProofs ---------------------------
(***************************************************************************)
(* Proofs about Sessions for any number of clients, names and sessions and *)
(* any limits.                                                             *)
(***************************************************************************)
EXTENDS Sessions, FiniteSetTheorems, TLAPS

\* What the handlers rely on, besides the types: a login that got past the
\* SELECT has an account, one that has its token is the only one to have it and
\* nobody outside knows it yet, and every other request brought a token that
\* was sent out.
LoginsKnown ==
    \A c \in Clients : req[c].op = "login" =>
        /\ req[c].name \in Names
        /\ req[c].pc = "clear" => users[req[c].name] # None

LoginsFresh ==
    \A c \in Clients : req[c].op = "login" =>
        /\ req[c].pc \in {"register", "audit"} =>
              /\ req[c].sid \in Issued \ (delivered \cup stale)
              /\ \A d \in Clients \ {c} :
                   req[d].op = "login" /\ req[d].pc \in {"register", "audit"}
                     => req[d].sid # req[c].sid
        /\ req[c].pc = "audit" => req[c].sid \in sessions

TokensPresented ==
    \A c \in Clients :
        /\ req[c].op \in {"logout"} \cup DOMAIN Guarded => req[c].sid \in delivered
        /\ req[c].pc = "session" => req[c].op \in DOMAIN Guarded

StoreKnown ==
    /\ delivered \subseteq Issued /\ sessions \subseteq Issued
    /\ stale \subseteq Issued /\ loggedOut \subseteq delivered

\* The role in a token is the role in the table.
RolesKept ==
    \A sid \in Issued : /\ users[tokens[sid].user] # None
                        /\ tokens[sid].role = users[tokens[sid].user].role

CreationsPending ==
    \A c \in Clients : req[c].op = "create" /\ req[c].pc = "audit" =>
        /\ req[c].name \in Names /\ req[c].role \in Roles
        /\ users[req[c].name] # None /\ users[req[c].name].role = req[c].role

SessionsInv ==
    /\ LoginsKnown /\ LoginsFresh /\ TokensPresented /\ StoreKnown
    /\ SessionsExact

\* Who has been locked out for some time has an entry that is older still.
LockInv ==
    \A n \in Names : lockedFor[n] > 0 => Locked(n) /\ lockedFor[n] <= attempts[n].age

AccountsInv == RolesKept /\ CreationsPending /\ CreationsTrue

\* The requests that pass a middleware.
LEMMA GuardedOps == DOMAIN Guarded = {"esig", "operate", "create"}
  BY DEF Guarded

\* No request is a request record, too.
LEMMA IdleRequest == Idle \in Request
  BY DEF Idle, Request, Pcs

\* A request that gets further or is over is a request.
LEMMA RequestMoves ==
    ASSUME TypeOK, NEW c \in Clients
    PROVE  /\ [req EXCEPT ![c] = Idle] \in [Clients -> Request]
           /\ \A pc \in Pcs : [req EXCEPT ![c].pc = pc] \in [Clients -> Request]
           /\ [req EXCEPT ![c].pc = "select"] \in [Clients -> Request]
           /\ [req EXCEPT ![c].pc = "clear"] \in [Clients -> Request]
           /\ [req EXCEPT ![c].pc = "record"] \in [Clients -> Request]
           /\ [req EXCEPT ![c].pc = "handler"] \in [Clients -> Request]
           /\ [req EXCEPT ![c].pc = "audit"] \in [Clients -> Request]
  <1>1. req \in [Clients -> Request] /\ req[c] \in Request  BY DEF TypeOK
  <1>2. \A pc \in Pcs : [req[c] EXCEPT !.pc = pc] \in Request  BY <1>1 DEF Request
  <1>3. \A pc \in Pcs : [req EXCEPT ![c].pc = pc] \in [Clients -> Request]
    BY <1>1, <1>2
  <1>4. [req EXCEPT ![c].pc = "select"] \in [Clients -> Request]  BY <1>3 DEF Pcs
  <1>5. [req EXCEPT ![c].pc = "clear"] \in [Clients -> Request]  BY <1>3 DEF Pcs
  <1>6. [req EXCEPT ![c].pc = "record"] \in [Clients -> Request]  BY <1>3 DEF Pcs
  <1>7. [req EXCEPT ![c].pc = "handler"] \in [Clients -> Request]  BY <1>3 DEF Pcs
  <1>8. [req EXCEPT ![c].pc = "audit"] \in [Clients -> Request]  BY <1>3 DEF Pcs
  <1>9. [req EXCEPT ![c] = Idle] \in [Clients -> Request]  BY <1>1, IdleRequest
  <1> QED  BY <1>3, <1>4, <1>5, <1>6, <1>7, <1>8, <1>9

\* The tables that init_auth_tables and AppState::new set up have their types.
LEMMA TypeInit == Init => TypeOK
  BY SessionsAssumption, IdleRequest DEF Init, TypeOK, User

\* An entry of the throttle stays one as time passes.
LEMMA OlderType ==
    ASSUME NEW x \in Attempt \cup {None}
    PROVE  Older(x) \in Attempt \cup {None}
  BY SessionsAssumption DEF Older, Attempt

\* A token keeps its claims as time passes.
LEMMA ShorterType ==
    ASSUME NEW t \in Token \cup {None}
    PROVE  /\ Shorter(t) \in Token \cup {None}
           /\ t = None <=> Shorter(t) = None
           /\ t # None => Shorter(t).user = t.user /\ Shorter(t).role = t.role
  <1>1. CASE t = None  BY <1>1 DEF Shorter
  <1>2. CASE t # None
    <2>1. t \in Token  BY <1>2
    <2>2. [t EXCEPT !.ttl = @ - 1] \in [user : Names, role : Roles, ttl : Int]
      BY <2>1, SessionsAssumption DEF Token
    <2>3. t.ttl # -Leeway - 1 => [t EXCEPT !.ttl = @ - 1] \in Token
      BY <2>1, SessionsAssumption DEF Token
    <2> QED  BY <2>1, <2>3, SessionsAssumption DEF Shorter, Token
  <1> QED  BY <1>1, <1>2

\* Every step keeps the type.
LEMMA TypeStep == TypeOK /\ SessionsInv /\ AccountsInv /\ [Next]_vars => TypeOK'
  <1> SUFFICES ASSUME TypeOK, LoginsKnown, LoginsFresh, TokensPresented,
                      CreationsPending, [Next]_vars
               PROVE  TypeOK'
    BY DEF SessionsInv, AccountsInv
  <1> USE SessionsAssumption
  <1>1. ASSUME NEW c \in Clients, NEW r \in Request, Arrive(c, r)
        PROVE  TypeOK'
    BY <1>1 DEF Arrive, history, TypeOK
  <1>2. ASSUME NEW c \in Clients, LoginArrives(c)  PROVE TypeOK'
    <2>1. PICK n \in Names, right \in BOOLEAN :
            Arrive(c, [Idle EXCEPT !.op = "login", !.pc = "throttle",
                                   !.name = n, !.right = right])
      BY <1>2 DEF LoginArrives
    <2>2. [Idle EXCEPT !.op = "login", !.pc = "throttle",
                       !.name = n, !.right = right] \in Request
      BY DEF Idle, Request, Pcs, Ops
    <2> QED  BY <1>1, <2>1, <2>2
  <1>3. ASSUME NEW c \in Clients, LogoutArrives(c)  PROVE TypeOK'
    <2>1. PICK sid \in delivered :
            Arrive(c, [Idle EXCEPT !.op = "logout", !.pc = "revoke", !.sid = sid])
      BY <1>3 DEF LogoutArrives
    <2>2. sid \in Sids  BY DEF TypeOK
    <2>3. [Idle EXCEPT !.op = "logout", !.pc = "revoke", !.sid = sid] \in Request
      BY <2>2 DEF Idle, Request, Pcs, Ops
    <2> QED  BY <1>1, <2>1, <2>3
  <1>4. ASSUME NEW c \in Clients, GuardedArrives(c)  PROVE TypeOK'
    <2>1. PICK sid \in delivered, op \in DOMAIN Guarded :
            Arrive(c, [Idle EXCEPT !.op = op, !.pc = "session", !.sid = sid])
      BY <1>4 DEF GuardedArrives
    <2>2. sid \in Sids  BY DEF TypeOK
    <2>3. [Idle EXCEPT !.op = op, !.pc = "session", !.sid = sid] \in Request
      BY <2>2 DEF Idle, Request, Pcs, Ops
    <2> QED  BY <1>1, <2>1, <2>3
  <1>5. ASSUME NEW c \in Clients, CheckThrottle(c)  PROVE TypeOK'
    <2>1. req' = [req EXCEPT ![c] = Idle] \/ req' = [req EXCEPT ![c].pc = "select"]
      BY <1>5 DEF CheckThrottle, Goto, Finish
    <2>2. req' \in [Clients -> Request]
      BY <2>1, RequestMoves, Zenon
    <2>3. attempts' \in [Names -> Attempt \cup {None}]
      BY <1>5 DEF CheckThrottle, Unlocked, TypeOK
    <2> QED  BY <1>5, <2>2, <2>3 DEF CheckThrottle, history, TypeOK
  <1>6. ASSUME NEW c \in Clients, LoginSelect(c)  PROVE TypeOK'
    <2>1. \/ req' = [req EXCEPT ![c] = Idle]
          \/ req' = [req EXCEPT ![c].pc = "clear"]
          \/ req' = [req EXCEPT ![c].pc = "record"]
      BY <1>6 DEF LoginSelect, Goto, Finish
    <2>2. req' \in [Clients -> Request]
      BY <2>1, RequestMoves, Zenon
    <2> QED  BY <1>6, <2>2 DEF LoginSelect, history, TypeOK
  <1>7. ASSUME NEW c \in Clients, SelectFails(c)  PROVE TypeOK'
    BY <1>7, RequestMoves DEF SelectFails, Finish, Pcs, history, TypeOK
  <1>8. ASSUME NEW c \in Clients, RecordFailedLogin(c)  PROVE TypeOK'
    <2>1. req' \in [Clients -> Request]
      BY <1>8, IdleRequest DEF RecordFailedLogin, Finish, TypeOK
    <2>2. req[c].name \in Names  BY <1>8 DEF RecordFailedLogin, At, LoginsKnown
    <2>3. OneMore(attempts[req[c].name]) \in Attempt
      <3>1. attempts[req[c].name] \in Attempt \cup {None}  BY <2>2 DEF TypeOK
      <3> QED  BY <3>1 DEF OneMore, Attempt
    <2>4. attempts' \in [Names -> Attempt \cup {None}]
      BY <1>8, <2>3 DEF RecordFailedLogin, TypeOK
    <2> QED  BY <1>8, <2>1, <2>4 DEF RecordFailedLogin, history, TypeOK
  <1>9. ASSUME NEW c \in Clients, ClearFailedLogin(c)  PROVE TypeOK'
    <2> DEFINE n == req[c].name
    <2>0. n \in Names /\ users[n] # None
      BY <1>9 DEF ClearFailedLogin, At, LoginsKnown
    <2>1. PICK sid \in Sids \ Issued :
            /\ tokens' = [tokens EXCEPT ![sid] =
                            [user |-> n, role |-> users[n].role, ttl |-> Expiry]]
            /\ req' = [req EXCEPT ![c].pc = "register", ![c].sid = sid]
      BY <1>9 DEF ClearFailedLogin
    <2>2. users[n].role \in Roles  BY <2>0 DEF TypeOK, User
    <2>3. [user |-> n, role |-> users[n].role, ttl |-> Expiry] \in Token
      BY <2>0, <2>2 DEF Token
    <2>4. tokens' \in [Sids -> Token \cup {None}]  BY <2>1, <2>3 DEF TypeOK
    <2>5. req' \in [Clients -> Request]
      <3>1. req[c] \in Request  BY DEF TypeOK
      <3>2. [req[c] EXCEPT !.pc = "register", !.sid = sid] \in Request
        BY <3>1 DEF Request, Pcs
      <3> QED  BY <2>1, <3>2 DEF TypeOK
    <2> QED  BY <1>9, <2>0, <2>4, <2>5 DEF ClearFailedLogin, TypeOK
  <1>10. ASSUME NEW c \in Clients, RegisterSession(c)  PROVE TypeOK'
    <2>1. req[c].sid \in Sids  BY <1>10 DEF RegisterSession, At, LoginsFresh, Issued
    <2>2. req' \in [Clients -> Request]
      BY <1>10, RequestMoves DEF RegisterSession, Goto, Pcs
    <2> QED  BY <1>10, <2>1, <2>2 DEF RegisterSession, history, TypeOK
  <1>11. ASSUME NEW c \in Clients, LogAudit(c)  PROVE TypeOK'
    <2>1. req[c].op = "login" => req[c].sid \in Sids
      BY <1>11 DEF LogAudit, LoginsFresh, Issued
    <2>2. req[c].op = "create" => [created_user |-> req[c].name, role |-> req[c].role] \in Entry
      BY <1>11 DEF LogAudit, CreationsPending, Entry
    <2>3. req' \in [Clients -> Request]
      BY <1>11, RequestMoves DEF LogAudit, Finish
    <2>4. audit' \subseteq Entry  BY <1>11, <2>2 DEF LogAudit, TypeOK
    <2>5. delivered' \subseteq Sids  BY <1>11, <2>1 DEF LogAudit, TypeOK
    <2> QED  BY <1>11, <2>3, <2>4, <2>5 DEF LogAudit, TypeOK
  <1>12. ASSUME NEW c \in Clients, Logout(c)  PROVE TypeOK'
    <2>1. req[c].sid \in Sids  BY <1>12 DEF Logout, At, TokensPresented, TypeOK
    <2>2. req' = [req EXCEPT ![c] = Idle] \/ req' = [req EXCEPT ![c].pc = "audit"]
      BY <1>12 DEF Logout, Goto, Finish
    <2>3. req' \in [Clients -> Request]
      BY <2>2, RequestMoves, Zenon
    <2>4. sessions' \subseteq Sids /\ loggedOut' \subseteq Sids
      BY <1>12, <2>1 DEF Logout, TypeOK
    <2> QED  BY <1>12, <2>3, <2>4 DEF Logout, TypeOK
  <1>13. ASSUME NEW c \in Clients, Middleware(c)  PROVE TypeOK'
    <2>1. req' = [req EXCEPT ![c] = Idle] \/ req' = [req EXCEPT ![c].pc = "handler"]
      BY <1>13 DEF Middleware, Goto, Finish
    <2>2. req' \in [Clients -> Request]
      BY <2>1, RequestMoves, Zenon
    <2> QED  BY <1>13, <2>2 DEF Middleware, history, TypeOK
  <1>14. ASSUME NEW c \in Clients, Operate(c)  PROVE TypeOK'
    BY <1>14, RequestMoves DEF Operate, Finish, history, TypeOK
  <1>15. ASSUME NEW c \in Clients, ElectronicSignature(c)  PROVE TypeOK'
    <2>1. req' = [req EXCEPT ![c] = Idle] \/ req' = [req EXCEPT ![c].pc = "audit"]
      BY <1>15 DEF ElectronicSignature, Goto, Finish
    <2>2. req' \in [Clients -> Request]
      BY <2>1, RequestMoves, Zenon
    <2> QED  BY <1>15, <2>2 DEF ElectronicSignature, history, TypeOK
  <1>16. ASSUME NEW c \in Clients, CreateUser(c)  PROVE TypeOK'
    <2>1. CASE Finish(c) /\ UNCHANGED users
      BY <1>16, <2>1, RequestMoves DEF CreateUser, Finish, history, TypeOK
    <2>2. ASSUME NEW n \in Names, NEW role \in NewRoles,
                 users' = [users EXCEPT ![n] = [role |-> role, is_active |-> TRUE]],
                 req' = [req EXCEPT ![c].pc = "audit", ![c].name = n, ![c].role = role]
          PROVE  TypeOK'
      <3>1. req[c] \in Request  BY DEF TypeOK
      <3>2. [req[c] EXCEPT !.pc = "audit", !.name = n, !.role = role] \in Request
        BY <3>1 DEF Request, Pcs
      <3>3. req' \in [Clients -> Request]  BY <2>2, <3>2 DEF TypeOK
      <3>4. [role |-> role, is_active |-> TRUE] \in User  BY DEF User
      <3>5. users' \in [Names -> User \cup {None}]  BY <2>2, <3>4 DEF TypeOK
      <3> QED  BY <1>16, <3>3, <3>5 DEF CreateUser, history, TypeOK
    <2> QED  BY <1>16, <2>1, <2>2 DEF CreateUser
  <1>17. ASSUME NEW c \in Clients, HangUp(c)  PROVE TypeOK'
    BY <1>17, RequestMoves DEF HangUp, Finish, history, TypeOK
  <1>18. ASSUME Tick  PROVE TypeOK'
    <2>1. attempts' \in [Names -> Attempt \cup {None}]
      BY <1>18, OlderType DEF Tick, TypeOK
    <2>2. tokens' \in [Sids -> Token \cup {None}]
      BY <1>18, ShorterType DEF Tick, TypeOK
    <2>3. lockedFor' \in [Names -> 0..Lockout]
      BY <1>18 DEF Tick, TypeOK
    <2> QED  BY <1>18, <2>1, <2>2, <2>3 DEF Tick, TypeOK
  <1>19. ASSUME Restart  PROVE TypeOK'
    BY <1>19, IdleRequest DEF Restart, Issued, TypeOK
  <1>20. ASSUME NEW n \in Names, Disable(n)  PROVE TypeOK'
    <2>1. [users[n] EXCEPT !.is_active = FALSE] \in User
      BY <1>20 DEF Disable, TypeOK, User
    <2> QED  BY <1>20, <2>1 DEF Disable, history, TypeOK
  <1>21. CASE UNCHANGED vars
    BY <1>21 DEF vars, TypeOK
  <1> QED
    BY <1>2, <1>3, <1>4, <1>5, <1>6, <1>7, <1>8, <1>9, <1>10, <1>11, <1>12, <1>13,
       <1>14, <1>15, <1>16, <1>17, <1>18, <1>19, <1>20, <1>21 DEF Next, Step

-----------------------------------------------------------------------------
(* The session store.                                                      *)

\* A step that leaves the store alone and lets one request finish, or go on
\* within the same request to a place where it has no token of its own.
LEMMA StoreLeftAlone ==
    ASSUME TypeOK, SessionsInv, NEW c \in Clients,
           UNCHANGED <<sessions, tokens, delivered, loggedOut, stale>>,
           \A n \in Names : users[n] # None => users'[n] # None,
           \A d \in Clients \ {c} : req'[d] = req[d],
           \/ req'[c] = Idle
           \/ /\ req'[c].op = req[c].op /\ req'[c].sid = req[c].sid
              /\ req[c].op = "login" =>
                    /\ req'[c].name = req[c].name
                    /\ req'[c].pc \notin {"register", "audit"}
                    /\ req'[c].pc = "clear" => users'[req[c].name] # None
              /\ req'[c].pc # "session"
    PROVE  SessionsInv'
  <1> USE SessionsAssumption
  <1>1. Idle.op = None /\ Idle.pc = "idle"  BY DEF Idle
  <1>2. None \notin {"login", "logout"} \cup DOMAIN Guarded  BY DEF Ops
  <1>3. Issued' = Issued  BY DEF Issued
  <1>4. LoginsKnown'
    BY <1>1, <1>2 DEF SessionsInv, LoginsKnown
  <1>5. LoginsFresh'
    BY <1>1, <1>2, <1>3 DEF SessionsInv, LoginsFresh
  <1>6. TokensPresented'
    BY <1>1, <1>2 DEF SessionsInv, TokensPresented
  <1>7. StoreKnown' /\ SessionsExact'
    BY <1>3 DEF SessionsInv, StoreKnown, SessionsExact
  <1> QED  BY <1>4, <1>5, <1>6, <1>7 DEF SessionsInv

\* The invariant of the store holds when the server starts for the first time.
LEMMA SessionsInvInit == Init => SessionsInv
  <1> SUFFICES ASSUME Init PROVE SessionsInv
    OBVIOUS
  <1>1. \A c \in Clients : req[c].op = None /\ req[c].pc = "idle"
    BY DEF Init, Idle
  <1>2. None \notin {"login", "logout"} \cup DOMAIN Guarded
    BY SessionsAssumption DEF Ops
  <1>3. LoginsKnown /\ LoginsFresh /\ TokensPresented
    BY <1>1, <1>2 DEF LoginsKnown, LoginsFresh, TokensPresented
  <1> QED  BY <1>3 DEF Init, SessionsInv, StoreKnown, SessionsExact

\* The requests that only read the store, or leave it alone.
LEMMA ReadersKeepStore ==
    ASSUME TypeOK, SessionsInv, NEW c \in Clients,
           \/ CheckThrottle(c) \/ LoginSelect(c) \/ SelectFails(c)
           \/ RecordFailedLogin(c) \/ Middleware(c) \/ Operate(c)
           \/ ElectronicSignature(c) \/ CreateUser(c) \/ HangUp(c)
    PROVE  SessionsInv'
  <1>1. req \in [Clients -> Request] /\ req[c] \in Request  BY DEF TypeOK
  <1>2. ASSUME req' = [req EXCEPT ![c] = Idle]
        PROVE  /\ req'[c] = Idle
               /\ \A d \in Clients \ {c} : req'[d] = req[d]
    BY <1>1, <1>2
  <1>3. ASSUME NEW pc \in Pcs, req' = [req EXCEPT ![c].pc = pc]
        PROVE  /\ req'[c].op = req[c].op /\ req'[c].sid = req[c].sid
               /\ req'[c].name = req[c].name /\ req'[c].pc = pc
               /\ \A d \in Clients \ {c} : req'[d] = req[d]
    BY <1>1, <1>3 DEF Request
  <1>4. UNCHANGED <<sessions, tokens, delivered, loggedOut, stale>>
    BY DEF CheckThrottle, LoginSelect, SelectFails, RecordFailedLogin, Middleware,
           Operate, ElectronicSignature, CreateUser, HangUp, history
  <1>5. CASE req' = [req EXCEPT ![c] = Idle] /\ UNCHANGED users
    BY <1>2, <1>4, <1>5, StoreLeftAlone
  <1>6. CASE CheckThrottle(c)
    <2>1. CASE Goto(c, "select") /\ UNCHANGED users
      BY <1>3, <1>4, <2>1, StoreLeftAlone DEF Goto, Pcs
    <2> QED  BY <1>5, <1>6, <2>1 DEF CheckThrottle, Finish
  <1>7. CASE LoginSelect(c)
    <2>1. CASE Goto(c, "record") /\ UNCHANGED users
      BY <1>3, <1>4, <2>1, StoreLeftAlone DEF Goto, Pcs
    <2>2. CASE Goto(c, "clear") /\ UNCHANGED users /\ users[req[c].name] # None
      BY <1>3, <1>4, <2>2, StoreLeftAlone DEF Goto, Pcs
    <2> QED  BY <1>5, <1>7, <2>1, <2>2 DEF LoginSelect, Finish, Credentials
  <1>8. CASE Middleware(c)
    <2>1. CASE Goto(c, "handler") /\ UNCHANGED users
      BY <1>3, <1>4, <2>1, StoreLeftAlone DEF Goto, Pcs
    <2> QED  BY <1>5, <1>8, <2>1 DEF Middleware, Finish
  <1>9. CASE ElectronicSignature(c)
    <2>1. CASE Goto(c, "audit") /\ UNCHANGED users
      <3>1. req[c].op # "login"  BY <1>9 DEF ElectronicSignature, At
      <3> QED  BY <1>3, <1>4, <2>1, <3>1, StoreLeftAlone DEF Goto, Pcs
    <2> QED  BY <1>5, <1>9, <2>1 DEF ElectronicSignature, Finish
  <1>10. CASE CreateUser(c)
    <2>1. ASSUME NEW n \in Names, NEW role \in NewRoles,
                 users' = [users EXCEPT ![n] = [role |-> role, is_active |-> TRUE]],
                 req' = [req EXCEPT ![c].pc = "audit", ![c].name = n, ![c].role = role]
          PROVE  SessionsInv'
      <3>1. req[c].op = "create"  BY <1>10 DEF CreateUser, At
      <3>2. /\ req'[c].op = req[c].op /\ req'[c].sid = req[c].sid
            /\ req'[c].pc = "audit"
            /\ \A d \in Clients \ {c} : req'[d] = req[d]
        BY <1>1, <2>1 DEF Request
      <3>3. [role |-> role, is_active |-> TRUE] # None
        <4>1. [role |-> role, is_active |-> TRUE] \in User
          BY SessionsAssumption DEF User
        <4> QED  BY <4>1, SessionsAssumption
      <3>4. \A m \in Names : users[m] # None => users'[m] # None
        BY <2>1, <3>3 DEF TypeOK
      <3> QED  BY <1>4, <3>1, <3>2, <3>4, StoreLeftAlone
    <2> QED  BY <1>5, <1>10, <2>1 DEF CreateUser, Finish
  <1> QED  BY <1>5, <1>6, <1>7, <1>8, <1>9, <1>10
           DEF SelectFails, RecordFailedLogin, Operate, HangUp, Finish

\* A request arrives: it has no token yet, or one that was sent out.
LEMMA ArrivalsKeepStore ==
    ASSUME TypeOK, SessionsInv, NEW c \in Clients,
           LoginArrives(c) \/ LogoutArrives(c) \/ GuardedArrives(c)
    PROVE  SessionsInv'
  <1>1. ASSUME NEW r, Arrive(c, r),
               \/ r.op = "login" /\ r.name \in Names /\ r.pc = "throttle"
               \/ r.op = "logout" /\ r.sid \in delivered /\ r.pc = "revoke"
               \/ r.op \in DOMAIN Guarded /\ r.sid \in delivered /\ r.pc = "session"
        PROVE  SessionsInv'
    <2>1. req'[c] = r /\ \A d \in Clients \ {c} : req'[d] = req[d]
      BY <1>1 DEF Arrive, TypeOK
    <2>2. UNCHANGED <<users, sessions, tokens, delivered, loggedOut, stale>>
      BY <1>1 DEF Arrive, history
    <2>3. Issued' = Issued  BY <2>2 DEF Issued
    <2>4. LoginsKnown'
      BY <1>1, <2>1, <2>2, GuardedOps DEF SessionsInv, LoginsKnown
    <2>5. LoginsFresh'
      BY <1>1, <2>1, <2>2, <2>3, GuardedOps DEF SessionsInv, LoginsFresh
    <2>6. TokensPresented'
      BY <1>1, <2>1, <2>2, GuardedOps DEF SessionsInv, TokensPresented
    <2>7. StoreKnown' /\ SessionsExact'
      BY <2>2, <2>3 DEF SessionsInv, StoreKnown, SessionsExact
    <2> QED  BY <2>4, <2>5, <2>6, <2>7 DEF SessionsInv
  <1>2. CASE LoginArrives(c)
    <2>1. PICK n \in Names, right \in BOOLEAN :
            Arrive(c, [Idle EXCEPT !.op = "login", !.pc = "throttle",
                                   !.name = n, !.right = right])
      BY <1>2 DEF LoginArrives
    <2> DEFINE r == [Idle EXCEPT !.op = "login", !.pc = "throttle",
                                 !.name = n, !.right = right]
    <2>2. r.op = "login" /\ r.name \in Names /\ r.pc = "throttle"  BY DEF Idle
    <2> HIDE DEF r
    <2> QED  BY <1>1, <2>1, <2>2 DEF r
  <1>3. CASE LogoutArrives(c)
    <2>1. PICK sid \in delivered :
            Arrive(c, [Idle EXCEPT !.op = "logout", !.pc = "revoke", !.sid = sid])
      BY <1>3 DEF LogoutArrives
    <2> DEFINE r == [Idle EXCEPT !.op = "logout", !.pc = "revoke", !.sid = sid]
    <2>2. r.op = "logout" /\ r.sid \in delivered /\ r.pc = "revoke"  BY DEF Idle
    <2>3. Arrive(c, r)  BY <2>1
    <2> HIDE DEF r
    <2> QED  BY <1>1, <2>2, <2>3
  <1>4. CASE GuardedArrives(c)
    <2>1. PICK sid \in delivered, op \in DOMAIN Guarded :
            Arrive(c, [Idle EXCEPT !.op = op, !.pc = "session", !.sid = sid])
      BY <1>4 DEF GuardedArrives
    <2> DEFINE r == [Idle EXCEPT !.op = op, !.pc = "session", !.sid = sid]
    <2>2. r.op \in DOMAIN Guarded /\ r.sid \in delivered /\ r.pc = "session"
      BY DEF Idle
    <2>3. Arrive(c, r)  BY <2>1
    <2> HIDE DEF r
    <2> QED  BY <1>1, <2>2, <2>3
  <1> QED  BY <1>2, <1>3, <1>4

\* create_token draws an id that was never used.
LEMMA NewTokenKeepsStore ==
    ASSUME TypeOK, SessionsInv, NEW c \in Clients, ClearFailedLogin(c)
    PROVE  SessionsInv'
  <1> DEFINE n == req[c].name
             t == [user |-> n, role |-> users[n].role, ttl |-> Expiry]
  <1>1. PICK sid \in Sids \ Issued :
          /\ tokens' = [tokens EXCEPT ![sid] = t]
          /\ req' = [req EXCEPT ![c].pc = "register", ![c].sid = sid]
    BY DEF ClearFailedLogin
  <1>2. /\ UNCHANGED <<users, sessions, delivered, loggedOut, stale>>
        /\ req[c].op = "login" /\ req[c].pc = "clear"
    BY DEF ClearFailedLogin, At
  <1>3. n \in Names /\ users[n] # None
    BY <1>2 DEF SessionsInv, LoginsKnown
  <1>4. t # None
    <2>1. users[n].role \in Roles  BY <1>3 DEF TypeOK, User
    <2>2. t \in Token  BY <1>3, <2>1, SessionsAssumption DEF Token
    <2> QED  BY <2>2, SessionsAssumption
  <1> HIDE DEF t
  <1>5. Issued' = Issued \cup {sid}
    BY <1>1, <1>4 DEF Issued, TypeOK
  <1>6. /\ req'[c].op = "login" /\ req'[c].name = n /\ req'[c].pc = "register"
        /\ req'[c].sid = sid
        /\ \A d \in Clients \ {c} : req'[d] = req[d]
    BY <1>1, <1>2 DEF TypeOK, Request
  <1>7. sid \notin delivered \cup stale \cup sessions
    BY <1>1 DEF SessionsInv, StoreKnown
  <1>8. LoginsKnown'  BY <1>2, <1>3, <1>6 DEF SessionsInv, LoginsKnown
  <1>9. LoginsFresh'
    <2>1. \A d \in Clients \ {c} :
            req[d].op = "login" /\ req[d].pc \in {"register", "audit"} => req[d].sid # sid
      BY <1>1 DEF SessionsInv, LoginsFresh
    <2> QED  BY <1>2, <1>5, <1>6, <1>7, <2>1 DEF SessionsInv, LoginsFresh
  <1>10. TokensPresented'
    BY <1>2, <1>6, GuardedOps DEF SessionsInv, TokensPresented
  <1>11. StoreKnown' /\ SessionsExact'
    BY <1>2, <1>5 DEF SessionsInv, StoreKnown, SessionsExact
  <1> QED  BY <1>8, <1>9, <1>10, <1>11 DEF SessionsInv

\* register_session adds an id that nobody outside knows.
LEMMA RegisterKeepsStore ==
    ASSUME TypeOK, SessionsInv, NEW c \in Clients, RegisterSession(c)
    PROVE  SessionsInv'
  <1>1. /\ UNCHANGED <<users, tokens, delivered, loggedOut, stale>>
        /\ sessions' = sessions \cup {req[c].sid}
        /\ req[c].op = "login" /\ req[c].pc = "register"
    BY DEF RegisterSession, At, history
  <1>2. /\ req'[c].op = "login" /\ req'[c].name = req[c].name
        /\ req'[c].pc = "audit" /\ req'[c].sid = req[c].sid
        /\ \A d \in Clients \ {c} : req'[d] = req[d]
    BY <1>1 DEF RegisterSession, Goto, TypeOK, Request
  <1>3. Issued' = Issued  BY <1>1 DEF Issued
  <1>4. req[c].sid \in Issued \ (delivered \cup stale)
    BY <1>1 DEF SessionsInv, LoginsFresh
  <1>5. LoginsKnown'  BY <1>1, <1>2 DEF SessionsInv, LoginsKnown
  <1>6. LoginsFresh'
    BY <1>1, <1>2, <1>3, <1>4 DEF SessionsInv, LoginsFresh
  <1>7. TokensPresented'
    BY <1>1, <1>2, GuardedOps DEF SessionsInv, TokensPresented
  <1>8. StoreKnown' /\ SessionsExact'
    BY <1>1, <1>3, <1>4 DEF SessionsInv, StoreKnown, SessionsExact
  <1> QED  BY <1>5, <1>6, <1>7, <1>8 DEF SessionsInv

\* The token is sent when its session is in the store.
LEMMA AnswerKeepsStore ==
    ASSUME TypeOK, SessionsInv, NEW c \in Clients, LogAudit(c)
    PROVE  SessionsInv'
  <1>1. /\ UNCHANGED <<users, tokens, sessions, loggedOut, stale>>
        /\ req[c].pc = "audit" /\ req' = [req EXCEPT ![c] = Idle]
        /\ delivered' = IF req[c].op = "login" THEN delivered \cup {req[c].sid}
                                              ELSE delivered
    BY DEF LogAudit, Finish
  <1>2. req'[c] = Idle /\ \A d \in Clients \ {c} : req'[d] = req[d]
    BY <1>1 DEF TypeOK
  <1>3. CASE req[c].op # "login"
    BY <1>1, <1>2, <1>3, StoreLeftAlone
  <1>4. CASE req[c].op = "login"
    <2>1. /\ req[c].sid \in Issued \ (delivered \cup stale)
          /\ req[c].sid \in sessions
          /\ \A d \in Clients \ {c} :
               req[d].op = "login" /\ req[d].pc \in {"register", "audit"}
                 => req[d].sid # req[c].sid
      BY <1>1, <1>4 DEF SessionsInv, LoginsFresh
    <2>2. Issued' = Issued  BY <1>1 DEF Issued
    <2>3. Idle.op = None /\ Idle.pc = "idle"  BY DEF Idle
    <2>4. None \notin {"login", "logout"} \cup DOMAIN Guarded
      BY SessionsAssumption DEF Ops
    <2>5. delivered' = delivered \cup {req[c].sid}  BY <1>1, <1>4
    <2>6. LoginsKnown'
      BY <1>1, <1>2, <2>3, <2>4 DEF SessionsInv, LoginsKnown
    <2>7. LoginsFresh'
      BY <1>1, <1>2, <2>1, <2>2, <2>3, <2>4, <2>5 DEF SessionsInv, LoginsFresh
    <2>8. TokensPresented'
      BY <1>2, <2>3, <2>4, <2>5 DEF SessionsInv, TokensPresented
    <2>9. StoreKnown' /\ SessionsExact'
      BY <1>1, <2>1, <2>2, <2>5 DEF SessionsInv, StoreKnown, SessionsExact
    <2> QED  BY <2>6, <2>7, <2>8, <2>9 DEF SessionsInv
  <1> QED  BY <1>3, <1>4

\* logout removes the one session it names.
LEMMA LogoutKeepsStore ==
    ASSUME TypeOK, SessionsInv, NEW c \in Clients, Logout(c)
    PROVE  SessionsInv'
  <1> DEFINE sid == req[c].sid
  <1>1. /\ UNCHANGED <<users, tokens, delivered, stale>>
        /\ req[c].op = "logout" /\ req[c].pc = "revoke"
    BY DEF Logout, At
  <1>2. CASE Finish(c) /\ UNCHANGED <<sessions, loggedOut>>
    <2>1. req'[c] = Idle /\ \A d \in Clients \ {c} : req'[d] = req[d]
      BY <1>2 DEF TypeOK, Finish
    <2> QED  BY <1>1, <1>2, <2>1, StoreLeftAlone
  <1>3. CASE /\ sessions' = sessions \ {sid} /\ loggedOut' = loggedOut \cup {sid}
             /\ Goto(c, "audit")
    <2>1. sid \in delivered  BY <1>1 DEF SessionsInv, TokensPresented
    <2>2. /\ req'[c].op = "logout" /\ req'[c].sid = sid /\ req'[c].pc = "audit"
          /\ \A d \in Clients \ {c} : req'[d] = req[d]
      BY <1>1, <1>3 DEF Goto, TypeOK, Request
    <2>3. Issued' = Issued  BY <1>1 DEF Issued
    <2>4. LoginsKnown'  BY <1>1, <2>2 DEF SessionsInv, LoginsKnown
    <2>5. LoginsFresh'
      BY <1>1, <1>3, <2>1, <2>2, <2>3 DEF SessionsInv, LoginsFresh
    <2>6. TokensPresented'  BY <1>1, <2>1, <2>2 DEF SessionsInv, TokensPresented
    <2>7. StoreKnown' /\ SessionsExact'
      BY <1>1, <1>3, <2>1, <2>3 DEF SessionsInv, StoreKnown, SessionsExact
    <2> QED  BY <2>4, <2>5, <2>6, <2>7 DEF SessionsInv
  <1> QED  BY <1>2, <1>3 DEF Logout

\* Every step keeps the invariant of the store.
LEMMA SessionsInvStep ==
    TypeOK /\ SessionsInv /\ [Next]_vars => SessionsInv'
  <1> SUFFICES ASSUME TypeOK, SessionsInv, [Next]_vars PROVE SessionsInv'
    OBVIOUS
  <1>1. ASSUME NEW c \in Clients,
               \/ LoginArrives(c) \/ LogoutArrives(c) \/ GuardedArrives(c)
               \/ Step(c) \/ HangUp(c)
        PROVE  SessionsInv'
    BY <1>1, ArrivalsKeepStore, ReadersKeepStore, NewTokenKeepsStore,
       RegisterKeepsStore, AnswerKeepsStore, LogoutKeepsStore DEF Step
  <1>2. ASSUME UNCHANGED <<sessions, req, delivered, loggedOut, stale>>,
               \A n \in Names : users[n] # None => users'[n] # None,
               Issued' = Issued
        PROVE  SessionsInv'
    BY <1>2 DEF SessionsInv, LoginsKnown, LoginsFresh, TokensPresented, StoreKnown,
                SessionsExact
  <1>3. CASE Tick
    <2>1. \A s \in Sids : tokens'[s] = None <=> tokens[s] = None
      BY <1>3, ShorterType DEF Tick, TypeOK
    <2>2. Issued' = Issued  BY <2>1 DEF Issued
    <2> QED  BY <1>2, <1>3, <2>2 DEF Tick
  <1>4. CASE Restart
    <2>1. \A c \in Clients : req'[c].op = None /\ req'[c].pc = "idle"
      BY <1>4 DEF Restart, Idle
    <2>2. None \notin {"login", "logout"} \cup DOMAIN Guarded
      BY SessionsAssumption DEF Ops
    <2>3. Issued' = Issued  BY <1>4 DEF Restart, Issued
    <2>4. LoginsKnown' /\ LoginsFresh' /\ TokensPresented'
      BY <2>1, <2>2 DEF LoginsKnown, LoginsFresh, TokensPresented
    <2>5. StoreKnown' /\ SessionsExact'
      BY <1>4, <2>3 DEF Restart, SessionsInv, StoreKnown, SessionsExact
    <2> QED  BY <2>4, <2>5 DEF SessionsInv
  <1>5. ASSUME NEW n \in Names, Disable(n)  PROVE SessionsInv'
    <2>1. [users[n] EXCEPT !.is_active = FALSE] \in User
      BY <1>5 DEF Disable, TypeOK, User
    <2>2. \A m \in Names : users[m] # None => users'[m] # None
      BY <1>5, <2>1, SessionsAssumption DEF Disable, TypeOK
    <2>3. Issued' = Issued  BY <1>5 DEF Disable, Issued
    <2> QED  BY <1>2, <1>5, <2>2, <2>3 DEF Disable, history
  <1>6. CASE UNCHANGED vars
    <2>1. Issued' = Issued  BY <1>6 DEF vars, Issued
    <2> QED  BY <1>2, <1>6, <2>1 DEF vars
  <1> QED
    BY <1>1, <1>3, <1>4, <1>5, <1>6, SessionsAssumption DEF Next

-----------------------------------------------------------------------------
(* Accounts: a row keeps its role, whatever happens.                       *)

\* No statement changes the role of an account, or deletes it.
LEMMA RolesNeverChange ==
    ASSUME TypeOK, [Next]_vars
    PROVE  \A n \in Names : users[n] # None =>
                users'[n] # None /\ users'[n].role = users[n].role
  <1>1. CASE UNCHANGED users  BY <1>1
  <1>2. ASSUME NEW c \in Clients, CreateUser(c)
        PROVE  \A n \in Names : users[n] # None => users'[n] = users[n]
    BY <1>2 DEF CreateUser, Insertable, TypeOK
  <1>3. ASSUME NEW n \in Names, Disable(n)
        PROVE  \A m \in Names : users[m] # None =>
                  users'[m] # None /\ users'[m].role = users[m].role
    <2>1. [users[n] EXCEPT !.is_active = FALSE] \in User
      BY <1>3 DEF Disable, TypeOK, User
    <2>2. [users[n] EXCEPT !.is_active = FALSE].role = users[n].role
      BY <1>3 DEF Disable, TypeOK, User
    <2>3. users' = [users EXCEPT ![n] = [users[n] EXCEPT !.is_active = FALSE]]
      BY <1>3 DEF Disable, TypeOK
    <2> QED  BY <2>1, <2>2, <2>3, SessionsAssumption DEF TypeOK
  <1>4. \/ UNCHANGED users
        \/ \E c \in Clients : CreateUser(c)
        \/ \E n \in Names : Disable(n)
    BY SessionsAssumption
       DEF Next, Step, LoginArrives, LogoutArrives, GuardedArrives, Arrive,
           CheckThrottle, LoginSelect, SelectFails, RecordFailedLogin,
           ClearFailedLogin, RegisterSession, LogAudit, Logout, Middleware,
           Operate, ElectronicSignature, HangUp, Tick, Restart, vars
  <1> QED  BY <1>1, <1>2, <1>3, <1>4

\* The claims of a token are those it was created with.
LEMMA ClaimsNeverChange ==
    ASSUME TypeOK, SessionsInv, [Next]_vars, NEW sid \in Sids, tokens'[sid] # None
    PROVE  \/ /\ tokens[sid] # None
              /\ tokens'[sid].user = tokens[sid].user
              /\ tokens'[sid].role = tokens[sid].role
           \/ \E n \in Names : /\ users[n] # None
                               /\ tokens'[sid].user = n
                               /\ tokens'[sid].role = users[n].role
  <1>1. CASE UNCHANGED tokens  BY <1>1
  <1>2. CASE Tick
    <2>1. tokens'[sid] = Shorter(tokens[sid]) /\ tokens[sid] \in Token \cup {None}
      BY <1>2 DEF Tick, TypeOK
    <2> QED  BY <2>1, ShorterType
  <1>3. ASSUME NEW c \in Clients, ClearFailedLogin(c)
        PROVE  \/ tokens'[sid] = tokens[sid]
               \/ \E n \in Names : /\ users[n] # None
                                   /\ tokens'[sid].user = n
                                   /\ tokens'[sid].role = users[n].role
    <2> DEFINE n == req[c].name
    <2>1. PICK s \in Sids \ Issued :
            tokens' = [tokens EXCEPT ![s] =
                         [user |-> n, role |-> users[n].role, ttl |-> Expiry]]
      BY <1>3 DEF ClearFailedLogin
    <2>2. n \in Names /\ users[n] # None
      BY <1>3 DEF ClearFailedLogin, At, SessionsInv, LoginsKnown
    <2> QED  BY <2>1, <2>2 DEF TypeOK
  <1>4. UNCHANGED tokens \/ Tick \/ \E c \in Clients : ClearFailedLogin(c)
    BY DEF Next, Step, LoginArrives, LogoutArrives, GuardedArrives, Arrive,
           CheckThrottle, LoginSelect, SelectFails, RecordFailedLogin,
           RegisterSession, LogAudit, Logout, Middleware,
           Operate, ElectronicSignature, CreateUser, HangUp, Restart, Disable, vars
  <1> QED  BY <1>1, <1>2, <1>3, <1>4

\* A request begins with the throttle, the token or the middleware.
LEMMA ArrivalsBegin ==
    ASSUME TypeOK, NEW c \in Clients,
           LoginArrives(c) \/ LogoutArrives(c) \/ GuardedArrives(c)
    PROVE  /\ req[c] = Idle
           /\ req'[c].pc \in {"throttle", "revoke", "session"}
           /\ \A d \in Clients \ {c} : req'[d] = req[d]
  <1>1. ASSUME NEW r, Arrive(c, r)
        PROVE  /\ req[c] = Idle /\ req'[c] = r
               /\ \A d \in Clients \ {c} : req'[d] = req[d]
    BY <1>1 DEF Arrive, TypeOK
  <1>2. CASE LoginArrives(c)
    <2>1. PICK n \in Names, right \in BOOLEAN :
            Arrive(c, [Idle EXCEPT !.op = "login", !.pc = "throttle",
                                   !.name = n, !.right = right])
      BY <1>2 DEF LoginArrives
    <2> DEFINE r == [Idle EXCEPT !.op = "login", !.pc = "throttle",
                                 !.name = n, !.right = right]
    <2>2. r.pc = "throttle"  BY DEF Idle
    <2>3. Arrive(c, r)  BY <2>1
    <2> HIDE DEF r
    <2> QED  BY <1>1, <2>2, <2>3
  <1>3. CASE LogoutArrives(c)
    <2>1. PICK sid \in delivered :
            Arrive(c, [Idle EXCEPT !.op = "logout", !.pc = "revoke", !.sid = sid])
      BY <1>3 DEF LogoutArrives
    <2> DEFINE r == [Idle EXCEPT !.op = "logout", !.pc = "revoke", !.sid = sid]
    <2>2. r.pc = "revoke"  BY DEF Idle
    <2>3. Arrive(c, r)  BY <2>1
    <2> HIDE DEF r
    <2> QED  BY <1>1, <2>2, <2>3
  <1>4. CASE GuardedArrives(c)
    <2>1. PICK sid \in delivered, op \in DOMAIN Guarded :
            Arrive(c, [Idle EXCEPT !.op = op, !.pc = "session", !.sid = sid])
      BY <1>4 DEF GuardedArrives
    <2> DEFINE r == [Idle EXCEPT !.op = op, !.pc = "session", !.sid = sid]
    <2>2. r.pc = "session"  BY DEF Idle
    <2>3. Arrive(c, r)  BY <2>1
    <2> HIDE DEF r
    <2> QED  BY <1>1, <2>2, <2>3
  <1> QED  BY <1>2, <1>3, <1>4

\* A creation that is about to be logged was made by this request.
LEMMA CreationsArePending ==
    ASSUME TypeOK, SessionsInv, [Next]_vars, NEW d \in Clients,
           req'[d].op = "create", req'[d].pc = "audit"
    PROVE  \/ req'[d] = req[d]
           \/ /\ req'[d].name \in Names /\ req'[d].role \in Roles
              /\ users'[req'[d].name] = [role |-> req'[d].role, is_active |-> TRUE]
  <1> DEFINE Goal == \/ req'[d] = req[d]
                     \/ /\ req'[d].name \in Names /\ req'[d].role \in Roles
                        /\ users'[req'[d].name] =
                               [role |-> req'[d].role, is_active |-> TRUE]
  <1> USE SessionsAssumption
  <1>0. Idle.pc = "idle"  BY DEF Idle
  <1>1. CASE req'[d] = req[d]  BY <1>1
  <1>2. ASSUME NEW c \in Clients, NEW pc \in Pcs, req' = [req EXCEPT ![c].pc = pc],
               pc # "audit" \/ req[c].op # "create"
        PROVE  Goal
    BY <1>2 DEF TypeOK, Request
  <1>3. ASSUME NEW c \in Clients, req' = [req EXCEPT ![c] = Idle]  PROVE Goal
    BY <1>0, <1>3 DEF TypeOK
  <1>4. ASSUME NEW c \in Clients,
               LoginArrives(c) \/ LogoutArrives(c) \/ GuardedArrives(c)
        PROVE  Goal
    BY <1>1, <1>4, ArrivalsBegin
  <1>5. ASSUME NEW c \in Clients, ClearFailedLogin(c)  PROVE Goal
    BY <1>5 DEF ClearFailedLogin, At, TypeOK, Request
  <1>6. ASSUME NEW c \in Clients, CreateUser(c)  PROVE Goal
    <2>1. CASE Finish(c)  BY <1>3, <2>1 DEF Finish
    <2>2. ASSUME NEW n \in Names, NEW role \in NewRoles,
                 users' = [users EXCEPT ![n] = [role |-> role, is_active |-> TRUE]],
                 req' = [req EXCEPT ![c].pc = "audit", ![c].name = n, ![c].role = role]
          PROVE  Goal
      <3>1. req[c] \in Request  BY DEF TypeOK
      <3>2. d # c => req'[d] = req[d]  BY <2>2 DEF TypeOK
      <3>3. req'[c].name = n /\ req'[c].role = role
        BY <2>2, <3>1 DEF Request, TypeOK
      <3>4. users'[n] = [role |-> role, is_active |-> TRUE]  BY <2>2 DEF TypeOK
      <3> QED  BY <3>2, <3>3, <3>4
    <2> QED  BY <1>6, <2>1, <2>2 DEF CreateUser
  <1>7. ASSUME NEW c \in Clients,
               \/ CheckThrottle(c) \/ LoginSelect(c) \/ RegisterSession(c)
               \/ Logout(c) \/ Middleware(c) \/ ElectronicSignature(c)
        PROVE  Goal
    <2>1. CASE Finish(c)  BY <1>3, <2>1 DEF Finish
    <2>2. CASE CheckThrottle(c) /\ Goto(c, "select")
      BY <1>2, <2>2 DEF Goto, Pcs
    <2>3. CASE LoginSelect(c) /\ Goto(c, "clear")
      BY <1>2, <2>3 DEF Goto, Pcs
    <2>4. CASE LoginSelect(c) /\ Goto(c, "record")
      BY <1>2, <2>4 DEF Goto, Pcs
    <2>5. CASE RegisterSession(c)
      BY <1>2, <2>5 DEF RegisterSession, At, Goto, Pcs
    <2>6. CASE Logout(c) /\ Goto(c, "audit")
      BY <1>2, <2>6 DEF Logout, At, Goto, Pcs
    <2>7. CASE Middleware(c) /\ Goto(c, "handler")
      BY <1>2, <2>7 DEF Goto, Pcs
    <2>8. CASE ElectronicSignature(c) /\ Goto(c, "audit")
      BY <1>2, <2>8 DEF ElectronicSignature, At, Goto, Pcs
    <2> QED  BY <1>7, <2>1, <2>2, <2>3, <2>4, <2>5, <2>6, <2>7, <2>8
             DEF CheckThrottle, LoginSelect, Logout, Middleware, ElectronicSignature
  <1>8. ASSUME NEW c \in Clients,
               \/ SelectFails(c) \/ RecordFailedLogin(c) \/ LogAudit(c)
               \/ Operate(c) \/ HangUp(c)
        PROVE  Goal
    BY <1>3, <1>8 DEF SelectFails, RecordFailedLogin, LogAudit, Operate, HangUp, Finish
  <1>9. CASE Restart  BY <1>0, <1>9 DEF Restart
  <1>10. CASE UNCHANGED req  BY <1>10
  <1> QED
    BY <1>4, <1>5, <1>6, <1>7, <1>8, <1>9, <1>10 DEF Next, Step, Tick, Disable, vars

\* The invariant of the accounts holds at first.
LEMMA AccountsInvInit == Init => AccountsInv
  <1> SUFFICES ASSUME Init PROVE AccountsInv
    OBVIOUS
  <1>1. \A c \in Clients : req[c].pc = "idle"  BY DEF Init, Idle
  <1>2. CreationsPending  BY <1>1 DEF CreationsPending
  <1> QED  BY <1>2 DEF Init, AccountsInv, RolesKept, Issued, CreationsTrue

\* Every step keeps the invariant of the accounts.
LEMMA AccountsInvStep ==
    TypeOK /\ SessionsInv /\ AccountsInv /\ [Next]_vars => AccountsInv'
  <1> SUFFICES ASSUME TypeOK, SessionsInv, AccountsInv, [Next]_vars PROVE AccountsInv'
    OBVIOUS
  <1>0. TypeOK'  BY TypeStep
  <1>1. \A n \in Names : users[n] # None =>
            users'[n] # None /\ users'[n].role = users[n].role
    BY RolesNeverChange
  <1>2. RolesKept'
    <2> SUFFICES ASSUME NEW sid \in Sids, tokens'[sid] # None
                 PROVE  /\ users'[tokens'[sid].user] # None
                        /\ tokens'[sid].role = users'[tokens'[sid].user].role
      BY DEF RolesKept, Issued
    <2>1. CASE /\ tokens[sid] # None
               /\ tokens'[sid].user = tokens[sid].user
               /\ tokens'[sid].role = tokens[sid].role
      <3>1. tokens[sid].user \in Names  BY <2>1 DEF TypeOK, Token
      <3>2. /\ users[tokens[sid].user] # None
            /\ tokens[sid].role = users[tokens[sid].user].role
        BY <2>1 DEF AccountsInv, RolesKept, Issued
      <3> QED  BY <1>1, <2>1, <3>1, <3>2
    <2>2. CASE \E n \in Names : /\ users[n] # None /\ tokens'[sid].user = n
                                /\ tokens'[sid].role = users[n].role
      BY <1>1, <2>2
    <2> QED  BY <2>1, <2>2, ClaimsNeverChange
  <1>3. CreationsPending'
    <2> SUFFICES ASSUME NEW d \in Clients, req'[d].op = "create", req'[d].pc = "audit"
                 PROVE  /\ req'[d].name \in Names /\ req'[d].role \in Roles
                        /\ users'[req'[d].name] # None
                        /\ users'[req'[d].name].role = req'[d].role
      BY DEF CreationsPending
    <2>1. CASE req'[d] = req[d]
      BY <1>1, <2>1 DEF AccountsInv, CreationsPending
    <2>2. CASE /\ req'[d].name \in Names /\ req'[d].role \in Roles
               /\ users'[req'[d].name] = [role |-> req'[d].role, is_active |-> TRUE]
      <3>1. [role |-> req'[d].role, is_active |-> TRUE] \in User  BY <2>2 DEF User
      <3>2. [role |-> req'[d].role, is_active |-> TRUE].role = req'[d].role
        OBVIOUS
      <3> QED  BY <2>2, <3>1, <3>2, SessionsAssumption
    <2> QED  BY <2>1, <2>2, CreationsArePending
  <1>4. CreationsTrue'
    <2>1. \A e \in audit : e.created_user \in Names  BY DEF TypeOK, Entry
    <2>2. CASE UNCHANGED audit
      BY <1>1, <2>1, <2>2 DEF AccountsInv, CreationsTrue
    <2>3. ASSUME NEW c \in Clients, LogAudit(c), req[c].op = "create",
                 audit' = audit \cup {[created_user |-> req[c].name, role |-> req[c].role]}
          PROVE  CreationsTrue'
      <3>1. /\ req[c].name \in Names
            /\ users[req[c].name] # None /\ users[req[c].name].role = req[c].role
        BY <2>3 DEF LogAudit, AccountsInv, CreationsPending
      <3> QED  BY <1>1, <2>1, <2>3, <3>1 DEF AccountsInv, CreationsTrue
    <2>4. \/ UNCHANGED audit
          \/ \E c \in Clients : LogAudit(c)
      BY DEF Next, Step, LoginArrives, LogoutArrives, GuardedArrives, Arrive,
             CheckThrottle, LoginSelect, SelectFails, RecordFailedLogin,
             ClearFailedLogin, RegisterSession, Logout, Middleware, Operate,
             ElectronicSignature, CreateUser, HangUp, Tick, Restart, Disable, vars
    <2> QED  BY <2>2, <2>3, <2>4 DEF LogAudit
  <1> QED  BY <1>2, <1>3, <1>4 DEF AccountsInv

\* Only auth_middleware and its kin let a request into its handler.
LEMMA PassesMiddleware ==
    ASSUME TypeOK, [Next]_vars, NEW c \in Clients,
           req[c].pc = "session", req'[c].pc = "handler"
    PROVE  Allowed(c)
  <1>0. Idle.pc = "idle"  BY DEF Idle
  <1>1. ASSUME NEW d \in Clients, req' = [req EXCEPT ![d] = Idle]  PROVE FALSE
    BY <1>0, <1>1 DEF TypeOK
  <1>2. ASSUME NEW d \in Clients, NEW pc \in Pcs, req' = [req EXCEPT ![d].pc = pc]
        PROVE  d = c /\ pc = "handler"
    BY <1>2 DEF TypeOK, Request
  <1>3. ASSUME NEW d \in Clients,
               LoginArrives(d) \/ LogoutArrives(d) \/ GuardedArrives(d)
        PROVE  FALSE
    BY <1>0, <1>3, ArrivalsBegin
  <1>4. ASSUME NEW d \in Clients,
               CheckThrottle(d) \/ LoginSelect(d) \/ RegisterSession(d) \/ Logout(d)
                 \/ ElectronicSignature(d)
        PROVE  FALSE
    <2>1. CASE Finish(d)  BY <1>1, <2>1 DEF Finish
    <2>2. CASE Goto(d, "select")  BY <1>2, <2>2 DEF Goto, Pcs
    <2>3. CASE Goto(d, "clear")  BY <1>2, <2>3 DEF Goto, Pcs
    <2>4. CASE Goto(d, "record")  BY <1>2, <2>4 DEF Goto, Pcs
    <2>5. CASE Goto(d, "audit")  BY <1>2, <2>5 DEF Goto, Pcs
    <2> QED  BY <1>4, <2>1, <2>2, <2>3, <2>4, <2>5
             DEF CheckThrottle, LoginSelect, RegisterSession, Logout, ElectronicSignature
  <1>5. ASSUME NEW d \in Clients,
               SelectFails(d) \/ RecordFailedLogin(d) \/ LogAudit(d) \/ Operate(d)
                 \/ HangUp(d)
        PROVE  FALSE
    BY <1>1, <1>5 DEF SelectFails, RecordFailedLogin, LogAudit, Operate, HangUp, Finish
  <1>6. ASSUME NEW d \in Clients, ClearFailedLogin(d)  PROVE FALSE
    BY <1>6 DEF ClearFailedLogin, At, TypeOK, Request
  <1>7. ASSUME NEW d \in Clients, CreateUser(d)  PROVE FALSE
    <2>1. CASE Finish(d)  BY <1>1, <2>1 DEF Finish
    <2>2. ASSUME NEW n, NEW role,
                 req' = [req EXCEPT ![d].pc = "audit", ![d].name = n, ![d].role = role]
          PROVE  FALSE
      BY <2>2 DEF TypeOK, Request
    <2> QED  BY <1>7, <2>1, <2>2 DEF CreateUser
  <1>8. ASSUME NEW d \in Clients, Middleware(d)  PROVE Allowed(c)
    <2>1. CASE Allowed(d) /\ Goto(d, "handler")
      BY <1>2, <2>1 DEF Goto, Pcs
    <2> QED  BY <1>1, <1>8, <2>1 DEF Middleware, Finish
  <1>9. ASSUME Restart  PROVE FALSE
    BY <1>0, <1>9 DEF Restart
  <1>10. ASSUME UNCHANGED req  PROVE FALSE
    BY <1>10
  <1> QED
    BY <1>3, <1>4, <1>5, <1>6, <1>7, <1>8, <1>9, <1>10
       DEF Next, Step, Tick, Disable, vars

-----------------------------------------------------------------------------
(* The throttle.                                                           *)

\* Nobody is locked out when the server starts.
LEMMA LockInvInit == Init => LockInv
  BY DEF Init, LockInv

\* Every step keeps the invariant of the throttle.
LEMMA LockInvStep == TypeOK /\ SessionsInv /\ LockInv /\ [Next]_vars => LockInv'
  <1> SUFFICES ASSUME TypeOK, SessionsInv, LockInv, [Next]_vars PROVE LockInv'
    OBVIOUS
  <1> USE SessionsAssumption
  <1>1. CASE UNCHANGED <<attempts, lockedFor>>
    BY <1>1 DEF LockInv, Locked, Exhausted
  <1>2. ASSUME NEW c \in Clients, CheckThrottle(c)  PROVE LockInv'
    <2>1. CASE UNCHANGED <<attempts, lockedFor>>  BY <1>1, <2>1
    <2>2. CASE ~Locked(req[c].name) /\ attempts' = Unlocked(req[c].name)
      <3>1. UNCHANGED lockedFor  BY <1>2 DEF CheckThrottle, history
      <3>2. \A n \in Names \ {req[c].name} : attempts'[n] = attempts[n]
        BY <2>2 DEF Unlocked, TypeOK
      <3>3. req[c].name \in Names => ~(lockedFor[req[c].name] > 0)
        BY <2>2 DEF LockInv
      <3> QED  BY <3>1, <3>2, <3>3 DEF LockInv, Locked, Exhausted
    <2> QED  BY <1>2, <2>1, <2>2 DEF CheckThrottle, history
  <1>3. ASSUME NEW c \in Clients, RecordFailedLogin(c)  PROVE LockInv'
    <2>1. PICK m \in Names : m = req[c].name
      BY <1>3 DEF RecordFailedLogin, At, SessionsInv, LoginsKnown
    <2>2. /\ UNCHANGED lockedFor
          /\ attempts' = [attempts EXCEPT ![m] = OneMore(attempts[m])]
      BY <1>3, <2>1 DEF RecordFailedLogin, history
    <2>3. ASSUME Locked(m)
          PROVE  Locked(m)' /\ attempts'[m].age = attempts[m].age
      <3>1. attempts[m] # None /\ attempts[m] \in Attempt
        BY <2>1, <2>3 DEF Locked, Exhausted, TypeOK
      <3>2. attempts'[m] = [count |-> attempts[m].count + 1, age |-> attempts[m].age]
        BY <2>1, <2>2, <3>1 DEF OneMore, TypeOK
      <3>3. attempts'[m] \in Attempt  BY <3>1, <3>2 DEF Attempt
      <3>4. attempts'[m] # None  BY <3>3
      <3> QED  BY <2>3, <3>1, <3>2, <3>4 DEF Locked, Exhausted, Attempt
    <2>4. \A n \in Names \ {m} : attempts'[n] = attempts[n]
      BY <2>2 DEF TypeOK
    <2> QED  BY <2>1, <2>2, <2>3, <2>4 DEF LockInv, Locked, Exhausted
  <1>4. ASSUME NEW c \in Clients, ClearFailedLogin(c)  PROVE LockInv'
    <2>1. PICK m \in Names : m = req[c].name
      BY <1>4 DEF ClearFailedLogin, At, SessionsInv, LoginsKnown
    <2>2. /\ lockedFor'[m] = 0
          /\ \A n \in Names \ {m} : /\ attempts'[n] = attempts[n]
                                     /\ lockedFor'[n] = lockedFor[n]
      BY <1>4, <2>1 DEF ClearFailedLogin, TypeOK
    <2> QED  BY <2>2 DEF LockInv, Locked, Exhausted
  <1>5. ASSUME Tick  PROVE LockInv'
    <2> SUFFICES ASSUME NEW n \in Names, lockedFor'[n] > 0
                 PROVE  Locked(n)' /\ lockedFor'[n] <= attempts'[n].age
      BY DEF LockInv
    <2>1. Locked(n)'  BY <1>5 DEF Tick
    <2>2. attempts'[n] = Older(attempts[n]) /\ attempts'[n] # None
          /\ attempts'[n].age < Lockout
      BY <1>5, <2>1 DEF Tick, Locked, Exhausted
    <2>3. attempts[n] \in Attempt /\ attempts'[n].age = attempts[n].age + 1
      <3>1. attempts[n] # None /\ attempts[n].age # Lockout
        BY <2>2 DEF Older
      <3>2. attempts[n] \in Attempt  BY <3>1 DEF TypeOK
      <3> QED  BY <2>2, <3>1, <3>2 DEF Older, Attempt
    <2>4. lockedFor[n] \in Nat /\ lockedFor[n] <= attempts[n].age
      BY <2>3 DEF LockInv, TypeOK, Attempt
    <2>5. lockedFor'[n] <= lockedFor[n] + 1
      BY <1>5, <2>4 DEF Tick, TypeOK
    <2>6. lockedFor'[n] \in Int  BY <1>5, <2>4 DEF Tick, TypeOK
    <2> QED  BY <2>1, <2>3, <2>4, <2>5, <2>6 DEF Attempt
  <1>6. ASSUME Restart  PROVE LockInv'
    BY <1>6 DEF Restart, LockInv
  <1>7. \/ UNCHANGED <<attempts, lockedFor>> \/ Tick \/ Restart
        \/ \E c \in Clients : CheckThrottle(c) \/ RecordFailedLogin(c) \/ ClearFailedLogin(c)
    BY DEF Next, Step, LoginArrives, LogoutArrives, GuardedArrives, Arrive,
           LoginSelect, SelectFails, RegisterSession, LogAudit, Logout, Middleware,
           Operate, ElectronicSignature, CreateUser, HangUp, Disable, vars, history
  <1> QED  BY <1>1, <1>2, <1>3, <1>4, <1>5, <1>6, <1>7

-----------------------------------------------------------------------------
(* How many wrong passwords can be counted.                                *)

\* What the throttle has counted against a name.
Counted(n) == IF attempts[n] = None THEN 0 ELSE attempts[n].count

GuessesBoundedFor(n) ==
    Counted(n) + Cardinality(Unrecorded(n)) < MaxAttempts + Cardinality(Clients)

LEMMA GuessesBoundedForAll == GuessesBounded <=> \A n \in Names : GuessesBoundedFor(n)
  BY DEF GuessesBounded, GuessesBoundedFor, Counted

\* Logins are requests, so there are at most as many.
LEMMA UnrecordedSize ==
    ASSUME NEW S \in SUBSET Clients
    PROVE  /\ IsFiniteSet(S) /\ Cardinality(S) \in Nat /\ Cardinality(Clients) \in Nat
           /\ Cardinality(S) <= Cardinality(Clients)
  BY SessionsAssumption, FS_Subset, FS_CardinalityType

LEMMA CountedType ==
    ASSUME TypeOK, NEW n \in Names
    PROVE  Counted(n) \in Nat
  BY DEF TypeOK, Counted, Attempt

\* Nothing more is counted and nobody else may be.
LEMMA FewerGuesses ==
    ASSUME TypeOK, TypeOK', NEW n \in Names, GuessesBoundedFor(n),
           Counted(n)' <= Counted(n), Unrecorded(n)' \subseteq Unrecorded(n)
    PROVE  GuessesBoundedFor(n)'
  <1>1. Unrecorded(n) \in SUBSET Clients /\ Unrecorded(n)' \in SUBSET Clients
    BY DEF Unrecorded
  <1>2. /\ Cardinality(Unrecorded(n)) \in Nat /\ Cardinality(Unrecorded(n)') \in Nat
        /\ Cardinality(Clients) \in Nat
    BY <1>1, UnrecordedSize
  <1>3. Cardinality(Unrecorded(n)') <= Cardinality(Unrecorded(n))
    BY <1>1, UnrecordedSize, FS_Subset
  <1>4. Counted(n) \in Nat /\ Counted(n)' \in Nat
    BY CountedType DEF TypeOK, Counted, Attempt
  <1> QED  BY <1>2, <1>3, <1>4, SessionsAssumption DEF GuessesBoundedFor

\* As long as the limit is not reached, everybody may be about to be counted.
LEMMA BelowTheLimit ==
    ASSUME NEW n \in Names, Counted(n)' \in Nat, Counted(n)' < MaxAttempts
    PROVE  GuessesBoundedFor(n)'
  <1>1. Unrecorded(n)' \in SUBSET Clients
    BY DEF Unrecorded
  <1>2. /\ Cardinality(Unrecorded(n)') \in Nat /\ Cardinality(Clients) \in Nat
        /\ Cardinality(Unrecorded(n)') <= Cardinality(Clients)
    BY <1>1, UnrecordedSize
  <1> QED  BY <1>2, SessionsAssumption DEF GuessesBoundedFor

\* A request that goes on is still about to be counted, or no more.
LEMMA UnrecordedShrinks ==
    ASSUME TypeOK, NEW c \in Clients,
           \A d \in Clients \ {c} : req'[d] = req[d],
           req'[c].op = "login" /\ req'[c].pc \in {"select", "record"} =>
               /\ req[c].op = "login" /\ req[c].pc \in {"select", "record"}
               /\ req'[c].name = req[c].name,
           NEW n \in Names
    PROVE  Unrecorded(n)' \subseteq Unrecorded(n)
  BY DEF Unrecorded

LEMMA IdleFields == Idle.op = None /\ Idle.pc = "idle"
  BY DEF Idle

\* Only check_login_throttle lets a login come so far, and it does so below
\* the limit only.
LEMMA GuessesStep ==
    TypeOK /\ TypeOK' /\ GuessesBounded /\ [Next]_vars => GuessesBounded'
  <1> SUFFICES ASSUME TypeOK, TypeOK', GuessesBounded, [Next]_vars, NEW n \in Names
               PROVE  GuessesBoundedFor(n)'
    BY GuessesBoundedForAll DEF GuessesBounded, GuessesBoundedFor, Counted
  <1>0. /\ GuessesBoundedFor(n) /\ Counted(n) \in Nat
        /\ req \in [Clients -> Request] /\ attempts \in [Names -> Attempt \cup {None}]
    BY GuessesBoundedForAll, CountedType DEF TypeOK
  <1>a. UNCHANGED attempts => Counted(n)' <= Counted(n)
    BY <1>0 DEF Counted
  <1>f. ASSUME NEW c \in Clients, Finish(c)
        PROVE  Unrecorded(n)' \subseteq Unrecorded(n)
    <2>1. req' = [req EXCEPT ![c] = Idle]
      BY <1>f DEF Finish
    <2>2. req'[c] = Idle /\ \A d \in Clients \ {c} : req'[d] = req[d]
      BY <1>0, <2>1
    <2> QED  BY <2>2, IdleFields, UnrecordedShrinks
  <1>g. ASSUME NEW c \in Clients, NEW pc, Goto(c, pc),
               pc \in {"select", "record"} => req[c].pc \in {"select", "record"}
        PROVE  Unrecorded(n)' \subseteq Unrecorded(n)
    <2> DEFINE y == [req[c] EXCEPT !.pc = pc]
    <2>1. req[c] \in Request
      BY <1>0
    <2>2. y.pc = pc /\ y.op = req[c].op /\ y.name = req[c].name
      BY <2>1 DEF Request
    <2>3. req' = [req EXCEPT ![c] = y]
      BY <1>g DEF Goto
    <2> HIDE DEF y
    <2>4. req'[c] = y /\ \A d \in Clients \ {c} : req'[d] = req[d]
      BY <1>0, <2>3
    <2> QED  BY <1>g, <2>2, <2>4, UnrecordedShrinks
  <1>1. ASSUME NEW c \in Clients, NEW r, r.pc \notin {"select", "record"}, Arrive(c, r)
        PROVE  GuessesBoundedFor(n)'
    <2>1. req' = [req EXCEPT ![c] = r] /\ UNCHANGED attempts
      BY <1>1 DEF Arrive
    <2>2. req'[c] = r /\ \A d \in Clients \ {c} : req'[d] = req[d]
      BY <1>0, <2>1
    <2>3. Unrecorded(n)' \subseteq Unrecorded(n)
      BY <1>1, <2>2, UnrecordedShrinks
    <2> QED  BY <1>0, <1>a, <2>1, <2>3, FewerGuesses
  <1>2. ASSUME NEW c \in Clients, LoginArrives(c) \/ LogoutArrives(c) \/ GuardedArrives(c)
        PROVE  GuessesBoundedFor(n)'
    <2>1. CASE LoginArrives(c)
      <3>1. PICK m \in Names, right \in BOOLEAN :
                Arrive(c, [Idle EXCEPT !.op = "login", !.pc = "throttle",
                                       !.name = m, !.right = right])
        BY <2>1 DEF LoginArrives
      <3> DEFINE r == [Idle EXCEPT !.op = "login", !.pc = "throttle",
                                   !.name = m, !.right = right]
      <3>2. r.pc = "throttle"
        BY DEF Idle
      <3>3. Arrive(c, r)
        BY <3>1
      <3> HIDE DEF r
      <3> QED  BY <1>1, <3>2, <3>3
    <2>2. CASE LogoutArrives(c)
      <3>1. PICK sid \in delivered :
                Arrive(c, [Idle EXCEPT !.op = "logout", !.pc = "revoke", !.sid = sid])
        BY <2>2 DEF LogoutArrives
      <3> DEFINE r == [Idle EXCEPT !.op = "logout", !.pc = "revoke", !.sid = sid]
      <3>2. r.pc = "revoke"
        BY DEF Idle
      <3>3. Arrive(c, r)
        BY <3>1
      <3> HIDE DEF r
      <3> QED  BY <1>1, <3>2, <3>3
    <2>3. CASE GuardedArrives(c)
      <3>1. PICK sid \in delivered, op \in DOMAIN Guarded :
                Arrive(c, [Idle EXCEPT !.op = op, !.pc = "session", !.sid = sid])
        BY <2>3 DEF GuardedArrives
      <3> DEFINE r == [Idle EXCEPT !.op = op, !.pc = "session", !.sid = sid]
      <3>2. r.pc = "session"
        BY DEF Idle
      <3>3. Arrive(c, r)
        BY <3>1
      <3> HIDE DEF r
      <3> QED  BY <1>1, <3>2, <3>3
    <2> QED  BY <1>2, <2>1, <2>2, <2>3
  <1>3. ASSUME NEW c \in Clients, CheckThrottle(c)
        PROVE  GuessesBoundedFor(n)'
    <2>1. CASE Finish(c) /\ UNCHANGED attempts
      BY <1>0, <1>a, <1>f, <2>1, FewerGuesses
    <2>2. CASE /\ ~Locked(req[c].name) /\ Goto(c, "select")
               /\ attempts' = Unlocked(req[c].name) /\ n = req[c].name
      <3>1. Counted(n)' \in Nat /\ Counted(n)' < MaxAttempts
        BY <1>0, <2>2, SessionsAssumption DEF Unlocked, Exhausted, Counted, Attempt
      <3> QED  BY <3>1, BelowTheLimit
    <2>3. CASE /\ Goto(c, "select") /\ attempts' = Unlocked(req[c].name)
               /\ n # req[c].name
      <3>1. Counted(n)' = Counted(n)
        BY <1>0, <2>3 DEF Unlocked, Counted
      <3>2. Unrecorded(n)' \subseteq Unrecorded(n)
        <4>1. req[c] \in Request
          BY <1>0
        <4>2. req'[c].name = req[c].name /\ \A d \in Clients \ {c} : req'[d] = req[d]
          BY <1>0, <2>3, <4>1 DEF Goto, Request
        <4> QED  BY <2>3, <4>2 DEF Unrecorded
      <3> QED  BY <1>0, <3>1, <3>2, FewerGuesses
    <2> QED  BY <1>3, <2>1, <2>2, <2>3 DEF CheckThrottle
  <1>4. ASSUME NEW c \in Clients, RecordFailedLogin(c)
        PROVE  GuessesBoundedFor(n)'
    <2>1. /\ req[c].op = "login" /\ req[c].pc = "record" /\ req' = [req EXCEPT ![c] = Idle]
          /\ attempts' = [attempts EXCEPT ![req[c].name] = OneMore(attempts[req[c].name])]
      BY <1>4 DEF RecordFailedLogin, At, Finish
    <2>2. Unrecorded(n)' \subseteq Unrecorded(n)
      BY <1>4, <1>f DEF RecordFailedLogin
    <2>3. CASE n # req[c].name
      <3>1. Counted(n)' = Counted(n)
        BY <1>0, <2>1, <2>3 DEF Counted
      <3> QED  BY <1>0, <2>2, <3>1, FewerGuesses
    <2>4. CASE n = req[c].name
      <3>1. Counted(n)' = Counted(n) + 1
        <4>1. attempts[n] \in Attempt \cup {None} /\ attempts'[n] = OneMore(attempts[n])
          BY <1>0, <2>1, <2>4
        <4>2. OneMore(attempts[n]) # None
          BY TypeOK', <4>1, SessionsAssumption DEF OneMore, Attempt
        <4> QED  BY <4>1, <4>2 DEF OneMore, Counted, Attempt
      <3>2. c \in Unrecorded(n) /\ Unrecorded(n) \in SUBSET Clients
        BY <2>1, <2>4 DEF Unrecorded
      <3>3. Unrecorded(n)' = Unrecorded(n) \ {c}
        <4>1. req'[c] = Idle /\ \A d \in Clients \ {c} : req'[d] = req[d]
          BY <1>0, <2>1
        <4> QED  BY <4>1, IdleFields DEF Unrecorded
      <3>4. /\ Cardinality(Unrecorded(n)') = Cardinality(Unrecorded(n)) - 1
            /\ Cardinality(Unrecorded(n)) \in Nat /\ Cardinality(Clients) \in Nat
        BY <3>2, <3>3, UnrecordedSize, FS_RemoveElement
      <3> QED  BY <1>0, <3>1, <3>4, SessionsAssumption DEF GuessesBoundedFor
    <2> QED  BY <2>3, <2>4
  <1>5. ASSUME NEW c \in Clients, ClearFailedLogin(c)
        PROVE  GuessesBoundedFor(n)'
    <2>1. attempts' = [attempts EXCEPT ![req[c].name] = None]
      BY <1>5 DEF ClearFailedLogin
    <2>2. Counted(n)' <= Counted(n)
      BY <1>0, <2>1 DEF Counted
    <2>3. req[c] \in Request /\ \E sid : req' = [req EXCEPT ![c].pc = "register", ![c].sid = sid]
      BY <1>0, <1>5 DEF ClearFailedLogin
    <2>4. req'[c].pc = "register" /\ \A d \in Clients \ {c} : req'[d] = req[d]
      BY <1>0, <2>3 DEF Request
    <2>5. Unrecorded(n)' \subseteq Unrecorded(n)
      BY <2>4, UnrecordedShrinks
    <2> QED  BY <1>0, <2>2, <2>5, FewerGuesses
  <1>6. ASSUME NEW c \in Clients, LoginSelect(c)
        PROVE  GuessesBoundedFor(n)'
    <2>1. UNCHANGED attempts /\ req[c].pc = "select"
          /\ (Finish(c) \/ Goto(c, "clear") \/ Goto(c, "record"))
      BY <1>6 DEF LoginSelect, At
    <2>2. Unrecorded(n)' \subseteq Unrecorded(n)
      BY <2>1, <1>f, <1>g
    <2> QED  BY <1>0, <1>a, <2>1, <2>2, FewerGuesses
  <1>7. ASSUME NEW c \in Clients,
               \/ SelectFails(c) \/ RegisterSession(c) \/ LogAudit(c) \/ Logout(c)
               \/ Middleware(c) \/ Operate(c) \/ ElectronicSignature(c) \/ HangUp(c)
        PROVE  GuessesBoundedFor(n)'
    <2>1. UNCHANGED attempts /\ (Finish(c) \/ Goto(c, "audit") \/ Goto(c, "handler"))
      BY <1>7 DEF SelectFails, RegisterSession, LogAudit, Logout, Middleware, Operate,
                  ElectronicSignature, HangUp
    <2>2. Unrecorded(n)' \subseteq Unrecorded(n)
      BY <2>1, <1>f, <1>g
    <2> QED  BY <1>0, <1>a, <2>1, <2>2, FewerGuesses
  <1>8. ASSUME NEW c \in Clients, CreateUser(c)
        PROVE  GuessesBoundedFor(n)'
    <2>1. UNCHANGED attempts
      BY <1>8 DEF CreateUser
    <2>2. CASE Finish(c)
      BY <1>0, <1>a, <1>f, <2>1, <2>2, FewerGuesses
    <2>3. CASE \E m, role : req' = [req EXCEPT ![c].pc = "audit", ![c].name = m, ![c].role = role]
      <3>1. req[c] \in Request
        BY <1>0
      <3>2. req'[c].pc = "audit" /\ \A d \in Clients \ {c} : req'[d] = req[d]
        BY <1>0, <2>3, <3>1 DEF Request
      <3>3. Unrecorded(n)' \subseteq Unrecorded(n)
        BY <3>2, UnrecordedShrinks
      <3> QED  BY <1>0, <1>a, <2>1, <3>3, FewerGuesses
    <2> QED  BY <1>8, <2>2, <2>3 DEF CreateUser
  <1>9. CASE Tick
    <2>1. UNCHANGED req /\ attempts'[n] = Older(attempts[n])
      BY <1>9 DEF Tick
    <2>2. Counted(n)' <= Counted(n)
      BY <1>0, <2>1, SessionsAssumption DEF Counted, Older, Attempt
    <2> QED  BY <1>0, <2>1, <2>2, FewerGuesses DEF Unrecorded
  <1>10. CASE Restart
    <2>1. Counted(n)' = 0
      BY <1>10 DEF Restart, Counted
    <2> QED  BY <2>1, SessionsAssumption, BelowTheLimit
  <1>11. CASE (\E m \in Disableable : Disable(m)) \/ UNCHANGED vars
    <2>1. UNCHANGED <<attempts, req>>
      BY <1>11 DEF Disable, vars
    <2> QED  BY <1>0, <1>a, <2>1, FewerGuesses DEF Unrecorded
  <1> QED
    BY <1>2, <1>3, <1>4, <1>5, <1>6, <1>7, <1>8, <1>9, <1>10, <1>11 DEF Next, Step

LEMMA GuessesInit == Init => GuessesBounded
  <1> SUFFICES ASSUME Init, NEW n \in Names PROVE GuessesBoundedFor(n)
    BY GuessesBoundedForAll
  <1>1. Counted(n) = 0
    BY DEF Init, Counted
  <1>2. Unrecorded(n) \in SUBSET Clients
    BY DEF Unrecorded
  <1>3. /\ Cardinality(Unrecorded(n)) \in Nat /\ Cardinality(Clients) \in Nat
        /\ Cardinality(Unrecorded(n)) <= Cardinality(Clients)
    BY <1>2, UnrecordedSize
  <1> QED  BY <1>1, <1>3, SessionsAssumption DEF GuessesBoundedFor

-----------------------------------------------------------------------------
(* The theorems.                                                           *)

\* All of it together, for every behaviour.
THEOREM SessionsInductive == Spec => [](TypeOK /\ SessionsInv /\ AccountsInv)
  <1>1. Init => TypeOK /\ SessionsInv /\ AccountsInv
    BY TypeInit, SessionsInvInit, AccountsInvInit
  <1>2. TypeOK /\ SessionsInv /\ AccountsInv /\ [Next]_vars
          => (TypeOK /\ SessionsInv /\ AccountsInv)'
    BY TypeStep, SessionsInvStep, AccountsInvStep
  <1> QED  BY <1>1, <1>2, PTL DEF Spec

\* The tables of auth.rs keep their types.
THEOREM SessionsTypeCorrect == Spec => []TypeOK
  BY SessionsInductive, PTL

\* The session store holds exactly the sessions that were handed out and
\* neither logged out nor ended by a restart, for any number of clients and
\* sessions: register_session before the answer of login is what it takes.
THEOREM SessionStoreExact == Spec => []SessionsExact
  <1>1. SessionsInv => SessionsExact  BY DEF SessionsInv
  <1> QED  BY <1>1, SessionsInductive, PTL

\* What the audit trail says about created users is and stays true.
THEOREM AuditedCreationsTrue == Spec => []CreationsTrue
  <1>1. AccountsInv => CreationsTrue  BY DEF AccountsInv
  <1> QED  BY <1>1, SessionsInductive, PTL

\* A lockout is over LOCKOUT_DURATION_SECS after the first failure, whatever
\* arrives meanwhile.
THEOREM LockoutIsBounded == Spec => []LockoutEnds
  <1>1. TypeOK /\ LockInv => LockoutEnds
    <2> SUFFICES ASSUME TypeOK, LockInv, NEW n \in Names PROVE lockedFor[n] < Lockout
      BY DEF LockoutEnds
    <2>1. lockedFor[n] \in 0..Lockout  BY DEF TypeOK
    <2>2. CASE lockedFor[n] = 0  BY <2>2, SessionsAssumption
    <2>3. CASE lockedFor[n] > 0
      <3>1. attempts[n] \in Attempt
        BY <2>3 DEF LockInv, Locked, Exhausted, TypeOK
      <3> QED  BY <2>1, <2>3, <3>1, SessionsAssumption DEF LockInv, Locked, Attempt
    <2> QED  BY <2>1, <2>2, <2>3, SessionsAssumption
  <1> QED  BY <1>1, LockInvInit, LockInvStep, SessionsInductive, PTL DEF Spec

\* Beyond the limit of the throttle there are at most as many guesses as there
\* are other requests side by side with the one that reaches it.
THEOREM GuessesAreBounded == Spec => []GuessesBounded
  BY GuessesInit, GuessesStep, SessionsInductive, PTL DEF Spec

\* The middleware serves only tokens whose session is live and whose account
\* has the role that the route asks for.
THEOREM OnlyLiveServed == Spec => ServedIsLive
  <1> DEFINE Served == \A c \in Clients :
                 req[c].pc = "session" /\ req'[c].pc = "handler" => LiveToken(c)
  <1>1. ASSUME TypeOK, SessionsInv, AccountsInv, [Next]_vars
        PROVE  Served
    <2> SUFFICES ASSUME NEW c \in Clients, req[c].pc = "session", req'[c].pc = "handler"
                 PROVE  LiveToken(c)
      OBVIOUS
    <2>1. Allowed(c)  BY <1>1, PassesMiddleware
    <2> DEFINE sid == req[c].sid
    <2>2. sid \in delivered  BY <1>1 DEF SessionsInv, TokensPresented
    <2>3. sid \in sessions /\ tokens[sid].ttl > 0
      BY <2>1 DEF Allowed, is_session_valid
    <2>4. sid \notin loggedOut \cup stale
      BY <1>1, <2>2, <2>3 DEF SessionsInv, SessionsExact
    <2>5. sid \in Issued  BY <1>1, <2>2 DEF SessionsInv, StoreKnown
    <2>6. tokens[sid].role = users[tokens[sid].user].role
      BY <1>1, <2>5 DEF AccountsInv, RolesKept
    <2> QED  BY <2>1, <2>2, <2>3, <2>4, <2>6 DEF LiveToken, Allowed
  <1>2. TypeOK /\ SessionsInv /\ AccountsInv /\ [Next]_vars => [Served]_vars
    BY <1>1
  <1> QED  BY <1>2, SessionsInductive, PTL DEF Spec, ServedIsLive
=============================================================================
