--------------------------- MODULE LiveFeedProofs ---------------------------
(***************************************************************************)
(* Proofs about LiveFeed, for every number of stores, sockets and readings *)
(* and every capacity: types and bounds, only the store on the screen has  *)
(* or seeks a connection, and its screen never goes back.                  *)
(***************************************************************************)
EXTENDS LiveFeed, SequenceTheorems, TLAPS

USE DEF Stages, Sending

(* Sequences of numbers.                                                   *)

\* What is heard one after the other does not fall (an error ends it).
Rising(q) ==
    \A i, j \in 1..Len(q) : i <= j /\ q[j] # AuthError => q[i] <= q[j]
AtMost(q, n) == \A i \in 1..Len(q) : q[i] <= n
AtLeast(q, n) == \A i \in 1..Len(q) : q[i] \in Readings => n <= q[i]
Before(p, q) == \A i \in 1..Len(p), j \in 1..Len(q) : p[i] <= q[j]

LEMMA AppendFacts ==
    ASSUME NEW S, NEW q \in Seq(S), NEW m \in S
    PROVE  /\ Append(q, m) \in Seq(S)
           /\ Len(Append(q, m)) = Len(q) + 1
           /\ \A i \in 1..Len(q) : Append(q, m)[i] = q[i]
           /\ Append(q, m)[Len(q) + 1] = m
OBVIOUS

LEMMA TailFacts ==
    ASSUME NEW S, NEW q \in Seq(S), q # <<>>
    PROVE  /\ Tail(q) \in Seq(S) /\ Head(q) \in S /\ Head(q) = q[1]
           /\ Len(q) \in Nat /\ Len(q) >= 1 /\ Len(Tail(q)) = Len(q) - 1
           /\ \A i \in 1..(Len(q) - 1) : Tail(q)[i] = q[i + 1]
OBVIOUS

LEMMA EmptyOrder ==
    /\ Rising(<<>>)
    /\ \A n : AtMost(<<>>, n) /\ AtLeast(<<>>, n)
    /\ \A q : Before(<<>>, q) /\ Before(q, <<>>)
BY DEF Rising, AtMost, AtLeast, Before

LEMMA AppendOrder ==
    ASSUME NEW q \in Seq(Int), NEW m \in Int
    PROVE  /\ Rising(q) /\ (m # AuthError => AtMost(q, m)) => Rising(Append(q, m))
           /\ \A n \in Int : AtMost(q, n) /\ m <= n => AtMost(Append(q, m), n)
           /\ \A n \in Int : AtLeast(q, n) /\ (m \in Readings => n <= m)
                                => AtLeast(Append(q, m), n)
           /\ \A p \in Seq(Int) : Before(p, q) /\ AtMost(p, m) => Before(p, Append(q, m))
           /\ \A p \in Seq(Int) :
                 Before(q, p) /\ (\A i \in 1..Len(p) : m <= p[i]) => Before(Append(q, m), p)
<1>1. /\ Len(Append(q, m)) = Len(q) + 1 /\ Len(q) \in Nat
      /\ \A i \in 1..Len(q) : Append(q, m)[i] = q[i] /\ q[i] \in Int
      /\ Append(q, m)[Len(q) + 1] = m
  OBVIOUS
<1> DEFINE a == Append(q, m)
           l == Len(q)
<1>2. \A i \in 1..(l + 1) : i \in 1..l \/ i = l + 1
  BY <1>1
<1> HIDE DEF a, l
<1>3. /\ Len(a) = l + 1 /\ l \in Nat
      /\ \A i \in 1..l : a[i] = q[i] /\ q[i] \in Int
      /\ a[l + 1] = m /\ l = Len(q)
  BY <1>1 DEF a, l
<1>4. Rising(q) /\ (m # AuthError => AtMost(q, m)) => Rising(a)
  BY <1>2, <1>3 DEF Rising, AtMost
<1>5. \A n \in Int : AtMost(q, n) /\ m <= n => AtMost(a, n)
  BY <1>2, <1>3 DEF AtMost
<1>6. \A n \in Int : AtLeast(q, n) /\ (m \in Readings => n <= m) => AtLeast(a, n)
  BY <1>2, <1>3 DEF AtLeast
<1>7. \A p \in Seq(Int) : Before(p, q) /\ AtMost(p, m) => Before(p, a)
  BY <1>2, <1>3 DEF Before, AtMost
<1>8. \A p \in Seq(Int) :
        Before(q, p) /\ (\A i \in 1..Len(p) : m <= p[i]) => Before(a, p)
  BY <1>2, <1>3 DEF Before
<1> QED BY <1>4, <1>5, <1>6, <1>7, <1>8 DEF a

LEMMA TailOrder ==
    ASSUME NEW q \in Seq(Int), q # <<>>
    PROVE  /\ Rising(q) => Rising(Tail(q))
           /\ \A n : AtMost(q, n) => AtMost(Tail(q), n)
           /\ \A n : AtLeast(q, n) => AtLeast(Tail(q), n)
           /\ \A p : Before(p, q) => Before(p, Tail(q))
           /\ \A p : Before(q, p) => Before(Tail(q), p)
           /\ Rising(q) => \A i \in 1..Len(Tail(q)) :
                              Tail(q)[i] # AuthError => Head(q) <= Tail(q)[i]
           /\ \A n : AtMost(q, n) => Head(q) <= n
           /\ \A p : Before(p, q) => AtMost(p, Head(q))
<1> DEFINE b == Tail(q)
           l == Len(q)
<1>1. /\ Len(b) = l - 1 /\ l \in Nat /\ l >= 1
      /\ \A i \in 1..(l - 1) : b[i] = q[i + 1]
      /\ Head(q) = q[1] /\ l = Len(q)
  BY TailFacts
<1> HIDE DEF b, l
<1>2. \A i \in 1..(l - 1) : i + 1 \in 1..l /\ 1 <= i + 1
  BY <1>1
<1>3. 1 \in 1..l
  BY <1>1
<1>4. Rising(q) => Rising(b)
  <2>1. ASSUME Rising(q), NEW i \in 1..(l - 1), NEW j \in 1..(l - 1), i <= j, b[j] # AuthError
        PROVE  b[i] <= b[j]
    <3>1. i + 1 \in 1..l /\ j + 1 \in 1..l /\ i + 1 <= j + 1 /\ q[j + 1] # AuthError
      BY <1>1, <2>1
    <3>2. q[i + 1] <= q[j + 1]
      BY <1>1, <2>1, <3>1 DEF Rising
    <3> QED BY <1>1, <3>2
  <2> QED BY <1>1, <2>1 DEF Rising
<1>5. \A n : AtMost(q, n) => AtMost(b, n)
  BY <1>1, <1>2, <1>3 DEF AtMost
<1>10. \A n : AtMost(q, n) => Head(q) <= n
  BY <1>1, <1>2, <1>3 DEF AtMost
<1>6. \A n : AtLeast(q, n) => AtLeast(b, n)
  BY <1>1, <1>2 DEF AtLeast
<1>7. \A p : Before(p, q) => Before(p, b)
  BY <1>1, <1>2, <1>3 DEF Before
<1>11. \A p : Before(p, q) => AtMost(p, Head(q))
  BY <1>1, <1>2, <1>3 DEF Before, AtMost
<1>8. \A p : Before(q, p) => Before(b, p)
  BY <1>1, <1>2 DEF Before
<1>9. Rising(q) => \A i \in 1..Len(b) : b[i] # AuthError => Head(q) <= b[i]
  BY <1>1, <1>2, <1>3 DEF Rising
<1> QED BY <1>4, <1>5, <1>6, <1>7, <1>8, <1>9, <1>10, <1>11, Zenon DEF b

-----------------------------------------------------------------------------
(* A store and its service.                                                *)

LEMMA MessageFacts ==
    /\ Message \subseteq Int /\ Readings \subseteq Int
    /\ Readings \subseteq Message /\ AuthOk \in Message /\ AuthError \in Message
    /\ AuthOk \notin Readings /\ AuthError \notin Readings
    /\ \A m \in Message : m # AuthOk /\ m # AuthError => m \in Readings
BY FeedAssumption DEF Message, Readings, AuthOk, AuthError

LEMMA IdleState ==
    /\ Idle \in ServiceState /\ Idle.phase = "none" /\ Idle.sock = None
    /\ NewStore \in ServiceState /\ NewStore.phase = "init" /\ NewStore.sock = None
    /\ Idle.shown = 0 /\ NewStore.shown = 0
<1>1. 0 \in 0..MaxReading
  BY FeedAssumption
<1>2. /\ Idle \in ServiceState /\ Idle.phase = "none" /\ Idle.sock = None
      /\ Idle.shown = 0
  BY <1>1 DEF Idle, ServiceState
<1>3. /\ NewStore \in ServiceState /\ NewStore.phase = "init"
      /\ NewStore.sock = Idle.sock /\ NewStore.shown = Idle.shown
  BY <1>2 DEF NewStore, ServiceState
<1> QED BY <1>2, <1>3

LEMMA DisconnectedState ==
    ASSUME NEW r \in ServiceState
    PROVE  /\ Disconnected(r) \in ServiceState
           /\ Disconnected(r).phase = "timer" /\ Disconnected(r).sock = None
           /\ Disconnected(r).shown = r.shown /\ Disconnected(r).dead = r.dead
BY DEF Disconnected, ServiceState

LEMMA DisposedState ==
    ASSUME NEW r \in ServiceState
    PROVE  /\ Disposed(r) \in ServiceState
           /\ Disposed(r).phase \in {"none", "init", "handshake"}
           /\ Disposed(r).phase = "none" \/ Disposed(r).dead
           /\ Disposed(r).sock = None /\ Disposed(r).shown = 0
<1>1. CASE r.phase \in {"init", "handshake"}
  <2>1. Disposed(r) = [phase |-> r.phase, dead |-> TRUE, sock |-> None,
                       shown |-> 0]
    BY <1>1 DEF Disposed, Idle
  <2> QED BY <1>1, <2>1, FeedAssumption DEF ServiceState
<1>2. CASE r.phase \notin {"init", "handshake"}
  BY <1>2, IdleState DEF Disposed
<1> QED BY <1>1, <1>2

\* A service has a socket while its connection is open and not otherwise.
SockPart == \A k \in Stores : svc[k].sock # None <=> svc[k].phase = "open"

\* What is on its way to the app is on its way to a service that listens, and
\* nothing is before the answer to the token.
WirePart == \A s \in Sockets : ~Held(s) \/ srv[s] = "auth" => down[s] = <<>>

TypeInv == TypeOK /\ SockPart /\ WirePart

LEMMA TypeInit == Init => TypeInv
<1> SUFFICES ASSUME Init PROVE TypeInv
  OBVIOUS
<1>1. cur \in Stores
  BY FeedAssumption DEF Init, Pick
<1>2. svc \in [Stores -> ServiceState] /\ SockPart
  BY <1>1, IdleState DEF Init, SockPart
<1>3. now \in Readings
  BY FeedAssumption DEF Init, Readings
<1>4. valid \subseteq Stores /\ screen \in {"login", "main"}
  BY <1>1 DEF Init
<1>5. /\ rx \in [Sockets -> Seq(Readings)] /\ down \in [Sockets -> Seq(Message)]
      /\ \A s \in Sockets : Len(rx[s]) <= Cap /\ Len(down[s]) <= Wire
  BY FeedAssumption DEF Init
<1>6. /\ srv \in [Sockets -> Stages]
      /\ net \in [Sockets -> {"up", "cut", "gone"}]
      /\ up \in [Sockets -> Stores \cup {None}]
      /\ lost \subseteq Stores
  BY DEF Init
<1>7. WirePart
  BY DEF Init, WirePart
<1> QED BY <1>1, <1>2, <1>3, <1>4, <1>5, <1>6, <1>7 DEF TypeInv, TypeOK

\* The end of a handler.
LEMMA EndType ==
    ASSUME TypeOK, NEW s \in Sockets, End(s)
    PROVE  /\ srv' \in [Sockets -> Stages]
           /\ rx' \in [Sockets -> Seq(Readings)]
           /\ \A t \in Sockets : Len(rx'[t]) <= Cap
           /\ up' \in [Sockets -> Stores \cup {None}]
           /\ net' \in [Sockets -> {"up", "cut", "gone"}]
           /\ \A t \in Sockets : srv'[t] = srv[t] \/ srv'[t] = "none"
<1>1. rx' \in [Sockets -> Seq(Readings)] /\ \A t \in Sockets : rx'[t] = rx[t] \/ rx'[t] = <<>>
  BY DEF End, TypeOK
<1>2. \A t \in Sockets : Len(rx'[t]) <= Cap
  BY <1>1, FeedAssumption DEF TypeOK
<1>3. net' \in [Sockets -> {"up", "cut", "gone"}]
  <2>1. CASE Held(s)
    BY <2>1 DEF End, TypeOK
  <2>2. CASE ~Held(s)
    BY <2>2 DEF End, TypeOK
  <2> QED BY <2>1, <2>2
<1> QED BY <1>1, <1>2, <1>3 DEF End, TypeOK

\* An answer of the handler, before it or at the end: it is the first message.
LEMMA AnswerType ==
    ASSUME TypeInv, NEW s \in Sockets, srv[s] = "auth",
           NEW m \in {AuthOk, AuthError}, Emit(s, m)
    PROVE  /\ down' \in [Sockets -> Seq(Message)]
           /\ \A t \in Sockets : Len(down'[t]) <= Wire
           /\ \A t \in Sockets : down'[t] = down[t] \/ (t = s /\ Held(s) /\ down'[t] = <<m>>)
<1>1. down[s] = <<>>
  BY DEF TypeInv, WirePart
<1>2. m \in Message
  BY MessageFacts
<1>3. Append(<<>>, m) = <<m>> /\ <<m>> \in Seq(Message) /\ Len(<<m>>) = 1
  BY <1>2
<1>4. CASE Held(s) /\ net[s] = "up"
  <2>1. down' = [down EXCEPT ![s] = <<m>>]
    BY <1>1, <1>3, <1>4 DEF Emit
  <2> QED BY <1>3, <1>4, <2>1, FeedAssumption DEF TypeInv, TypeOK
<1>5. CASE ~(Held(s) /\ net[s] = "up")
  BY <1>5 DEF Emit, TypeInv, TypeOK
<1> QED BY <1>4, <1>5

LEMMA PushType ==
    ASSUME NEW q \in Seq(Readings), Len(q) <= Cap, NEW m \in Readings
    PROVE  Push(q, m) \in Seq(Readings) /\ Len(Push(q, m)) <= Cap
<1>1. Len(q) \in Nat /\ Cap \in Nat \ {0}
  BY FeedAssumption
<1>2. CASE Len(q) < Cap
  BY <1>1, <1>2, AppendFacts DEF Push
<1>3. CASE ~(Len(q) < Cap)
  <2>1. q # <<>>
    BY <1>1, <1>3
  <2>2. Tail(q) \in Seq(Readings) /\ Len(Tail(q)) = Len(q) - 1
    BY <2>1, TailFacts
  <2>3. Append(Tail(q), m) \in Seq(Readings) /\ Len(Append(Tail(q), m)) = Len(q)
    BY <1>1, <2>2, AppendFacts
  <2> QED BY <1>3, <2>3 DEF Push
<1> QED BY <1>2, <1>3

LEMMA CloseType ==
    ASSUME TypeOK, NEW S, CloseSockets(S)
    PROVE  /\ down' \in [Sockets -> Seq(Message)]
           /\ net' \in [Sockets -> {"up", "cut", "gone"}]
           /\ \A s \in Sockets : /\ Len(down'[s]) <= Wire
                                 /\ down'[s] = down[s] \/ down'[s] = <<>>
                                 /\ s \in S => down'[s] = <<>>
<1>1. /\ down' \in [Sockets -> Seq(Message)]
      /\ \A s \in Sockets : /\ down'[s] = down[s] \/ down'[s] = <<>>
                            /\ s \in S => down'[s] = <<>>
  BY DEF CloseSockets, TypeOK
<1>2. net' \in [Sockets -> {"up", "cut", "gone"}]
  BY DEF CloseSockets, TypeOK
<1>3. \A s \in Sockets : Len(down'[s]) <= Wire
  BY <1>1, FeedAssumption DEF TypeOK
<1> QED BY <1>1, <1>2, <1>3

\* A step of the app that closes the sockets it no longer holds.
LEMMA AppStepType ==
    ASSUME TypeInv, NEW S, CloseSockets(S) \/ UNCHANGED <<down, net>>,
           UNCHANGED <<srv, rx, up, now>>,
           valid' \subseteq Stores, lost' \subseteq Stores, cur' \in Stores, screen' \in {"login", "main"},
           svc' \in [Stores -> ServiceState],
           \A k \in Stores : svc'[k].sock # None <=> svc'[k].phase = "open",
           \A k \in Stores : \/ svc'[k].sock = svc[k].sock
                             \/ svc[k].sock = None /\ svc'[k].sock = None
                             \/ svc[k].sock \in Sockets => down'[svc[k].sock] = <<>>
    PROVE  TypeInv'
<1>1. /\ down' \in [Sockets -> Seq(Message)]
      /\ net' \in [Sockets -> {"up", "cut", "gone"}]
      /\ \A s \in Sockets : /\ Len(down'[s]) <= Wire
                            /\ down'[s] = down[s] \/ down'[s] = <<>>
  BY CloseType DEF TypeInv, TypeOK
<1>2. TypeOK'
  BY <1>1 DEF TypeInv, TypeOK
<1>3. SockPart'
  BY DEF SockPart
<1>4. WirePart'
  <2>1. SUFFICES ASSUME NEW s \in Sockets, ~Held(s)' \/ srv[s] = "auth", down'[s] # <<>>
                 PROVE  FALSE
    BY DEF WirePart
  <2>2. down[s] # <<>>
    BY <1>1, <2>1
  <2>3. Held(s) /\ srv[s] # "auth"
    BY <2>2 DEF TypeInv, WirePart
  <2>4. PICK k \in Stores : svc[k].sock = s
    BY <2>3 DEF Held
  <2>5. svc'[k].sock # s
    BY <2>1, <2>3 DEF Held
  <2>6. s # None
    BY FeedAssumption
  <2> QED BY <2>1, <2>4, <2>5, <2>6
<1> QED BY <1>2, <1>3, <1>4 DEF TypeInv

\* A step of the server or of the network.
LEMMA ServerStepType ==
    ASSUME TypeInv, UNCHANGED <<svc, cur, screen, lost>>,
           valid' \subseteq Stores, now' \in Readings,
           srv' \in [Sockets -> Stages],
           rx' \in [Sockets -> Seq(Readings)],
           net' \in [Sockets -> {"up", "cut", "gone"}],
           up' \in [Sockets -> Stores \cup {None}],
           down' \in [Sockets -> Seq(Message)],
           \A s \in Sockets : Len(rx'[s]) <= Cap /\ Len(down'[s]) <= Wire,
           \A s \in Sockets : srv'[s] = "auth" => srv[s] = "auth",
           \A s \in Sockets : \/ down'[s] = down[s] \/ down'[s] = <<>>
                              \/ Held(s) /\ srv'[s] # "auth"
    PROVE  TypeInv'
<1>1. TypeOK'
  BY DEF TypeInv, TypeOK
<1>2. SockPart'
  BY DEF TypeInv, SockPart
<1>3. WirePart'
  BY DEF TypeInv, WirePart, Held
<1> QED BY <1>1, <1>2, <1>3 DEF TypeInv

\* The log-ins that one frame sees make stores, and the last is the current one.
LEMMA LoginMakes ==
    LoginSuccess =>
        \E made \in SUBSET {j \in Stores : svc[j].phase = "none"} :
            /\ cur' \in made /\ valid' = valid \cup made
            /\ lost' = (lost \cup made) \ {cur'}
            /\ svc' = [j \in Stores |-> IF j \in made THEN NewStore ELSE svc[j]]
<1> SUFFICES ASSUME LoginSuccess
             PROVE  \E made \in SUBSET {j \in Stores : svc[j].phase = "none"} :
                       /\ cur' \in made /\ valid' = valid \cup made
                       /\ lost' = (lost \cup made) \ {cur'}
                       /\ svc' = [j \in Stores |-> IF j \in made THEN NewStore ELSE svc[j]]
  OBVIOUS
<1>1. PICK unused \in SUBSET {j \in Stores : svc[j].phase = "none"} :
         /\ Pick(unused) \in unused /\ cur' = Pick(unused)
         /\ \E before \in SUBSET (unused \ {Pick(unused)}) :
               /\ valid' = valid \cup before \cup {Pick(unused)}
               /\ svc' = [j \in Stores |-> IF j \in before \cup {Pick(unused)}
                                         THEN NewStore ELSE svc[j]]
               /\ lost' = (lost \cup before) \ {Pick(unused)}
  <2> DEFINE u == {k \in Stores : svc[k].phase = "none" /\ \A s \in Sockets : up[s] # k}
  <2>1. u \in SUBSET {j \in Stores : svc[j].phase = "none"}
    OBVIOUS
  <2>2. u # {}
    BY DEF LoginSuccess
  <2>3. Pick(u) \in u
    BY <2>2 DEF Pick
  <2> QED BY <2>1, <2>3 DEF LoginSuccess
<1>2. PICK k \in unused, before \in SUBSET unused :
         /\ cur' = k
         /\ valid' = valid \cup before \cup {k}
         /\ svc' = [j \in Stores |-> IF j \in before \cup {k} THEN NewStore ELSE svc[j]]
         /\ lost' = (lost \cup before) \ {k}
  BY <1>1
<1>3. before \cup {k} \in SUBSET {j \in Stores : svc[j].phase = "none"}
  BY <1>2
<1>4. valid' = valid \cup (before \cup {k}) /\ lost' = (lost \cup (before \cup {k})) \ {k}
  BY <1>2
<1> QED BY <1>2, <1>3, <1>4

LEMMA TypeStep == TypeInv /\ [Next]_vars => TypeInv'
<1> SUFFICES ASSUME TypeInv, [Next]_vars PROVE TypeInv'
  OBVIOUS
<1>0. TypeOK /\ SockPart /\ WirePart
  BY DEF TypeInv
<1> USE DEF server, network, app
<1>1. CASE UNCHANGED vars
  BY <1>1, <1>0 DEF vars, TypeOK, SockPart, WirePart, Held, TypeInv
<1>2. CASE Publish
  <2>1. \A s \in Sockets : rx'[s] \in Seq(Readings) /\ Len(rx'[s]) <= Cap
    BY <1>0, <1>2, PushType DEF Publish, TypeOK
  <2>2. rx' \in [Sockets -> Seq(Readings)]
    BY <1>2, <2>1 DEF Publish
  <2> QED BY <1>0, <1>2, <2>1, <2>2, ServerStepType DEF Publish, TypeOK
<1>3. CASE NewReading
  <2>1. now' \in Readings
    BY <1>0, <1>3, FeedAssumption DEF NewReading, TypeOK, Readings
  <2> QED BY <1>0, <1>3, <2>1, ServerStepType DEF NewReading, TypeOK
<1>4. CASE Restart
  <2>1. net' \in [Sockets -> {"up", "cut", "gone"}]
    BY <1>0, <1>4 DEF Restart, TypeOK
  <2>2. /\ rx' \in [Sockets -> Seq(Readings)] /\ \A s \in Sockets : Len(rx'[s]) <= Cap
        /\ up' \in [Sockets -> Stores \cup {None}]
        /\ srv' \in [Sockets -> Stages]
        /\ \A s \in Sockets : srv'[s] # "auth"
    BY <1>4, FeedAssumption DEF Restart
  <2>3. valid' \subseteq Stores /\ UNCHANGED <<now, down, app>>
    BY <1>4 DEF Restart
  <2> QED BY <1>0, <2>1, <2>2, <2>3, ServerStepType DEF TypeOK
<1>6. ASSUME NEW s \in Sockets, Handle(s) PROVE TypeInv'
  <2>1. CASE Accept(s)
    <3>1. srv' = [srv EXCEPT ![s] = "subscribe"] /\ up' = [up EXCEPT ![s] = None]
          /\ srv[s] = "auth" /\ Emit(s, AuthOk)
          /\ UNCHANGED <<valid, rx, now, net, app>>
      BY <2>1 DEF Accept
    <3>2. srv' \in [Sockets -> Stages]
          /\ up' \in [Sockets -> Stores \cup {None}]
          /\ srv'[s] = "subscribe" /\ \A t \in Sockets \ {s} : srv'[t] = srv[t]
      BY <1>0, <3>1 DEF TypeOK
    <3>3. /\ down' \in [Sockets -> Seq(Message)]
          /\ \A t \in Sockets : Len(down'[t]) <= Wire
          /\ \A t \in Sockets : down'[t] = down[t] \/ (t = s /\ Held(s))
      BY <3>1, AnswerType
    <3> QED BY <1>0, <3>1, <3>2, <3>3, ServerStepType DEF TypeOK
  <2>2. CASE Reject(s) \/ AuthTimeout(s)
    <3>1. srv[s] = "auth" /\ Emit(s, AuthError) /\ End(s)
          /\ UNCHANGED <<valid, now, app>>
      BY <2>2 DEF Reject, AuthTimeout
    <3>2. /\ down' \in [Sockets -> Seq(Message)]
          /\ \A t \in Sockets : Len(down'[t]) <= Wire
          /\ \A t \in Sockets : down'[t] = down[t] \/ (t = s /\ Held(s))
      BY <3>1, AnswerType
    <3>3. srv'[s] = "none"
      BY <1>0, <3>1 DEF End, TypeOK
    <3> QED BY <1>0, <3>1, <3>2, <3>3, EndType, ServerStepType DEF TypeOK
  <2>3. ASSUME End(s), UNCHANGED <<valid, now, down, app>> PROVE TypeInv'
    BY <1>0, <2>3, EndType, ServerStepType DEF TypeOK
  <2>6. CASE AuthClosed(s) \/ Abort(s)
    BY <2>3, <2>6 DEF AuthClosed, Abort
  <2>7. CASE SendEnds(s)
    <3>1. CASE srv[s] = "feed"
      <4>1. /\ srv' = [srv EXCEPT ![s] = "recvOnly"] /\ rx' = [rx EXCEPT ![s] = <<>>]
            /\ UNCHANGED <<valid, now, network, app>>
        BY <2>7, <3>1 DEF SendEnds
      <4>2. /\ srv' \in [Sockets -> Stages]
            /\ rx' \in [Sockets -> Seq(Readings)]
            /\ \A t \in Sockets : (rx'[t] = rx[t] \/ rx'[t] = <<>>)
                                  /\ (srv'[t] = srv[t] \/ srv'[t] = "recvOnly")
        BY <1>0, <4>1 DEF TypeOK
      <4>3. \A t \in Sockets : Len(rx'[t]) <= Cap
        BY <1>0, <4>2, FeedAssumption DEF TypeOK
      <4> QED BY <1>0, <4>1, <4>2, <4>3, ServerStepType DEF TypeOK
    <3>2. CASE srv[s] # "feed"
      BY <2>3, <2>7, <3>2 DEF SendEnds
    <3> QED BY <3>1, <3>2
  <2>8. CASE RecvEnds(s)
    <3>1. CASE srv[s] = "feed"
      <4>1. /\ srv' = [srv EXCEPT ![s] = "sendOnly"]
            /\ UNCHANGED <<valid, rx, now, network, app>>
        BY <2>8, <3>1 DEF RecvEnds
      <4>2. /\ srv' \in [Sockets -> Stages]
            /\ \A t \in Sockets : srv'[t] = srv[t] \/ srv'[t] = "sendOnly"
        BY <1>0, <4>1 DEF TypeOK
      <4> QED BY <1>0, <4>1, <4>2, ServerStepType DEF TypeOK
    <3>2. CASE srv[s] # "feed"
      BY <2>3, <2>8, <3>2 DEF RecvEnds
    <3> QED BY <3>1, <3>2
  <2>4. CASE Subscribe(s)
    <3>1. /\ srv' = [srv EXCEPT ![s] = "feed"] /\ rx' = [rx EXCEPT ![s] = <<>>]
          /\ UNCHANGED <<valid, now, network, app>>
      BY <2>4 DEF Subscribe, FromNow
    <3>2. /\ srv' \in [Sockets -> Stages]
          /\ rx' \in [Sockets -> Seq(Readings)]
          /\ \A t \in Sockets : (rx'[t] = rx[t] \/ rx'[t] = <<>>)
                                /\ (srv'[t] = srv[t] \/ srv'[t] = "feed")
      BY <1>0, <3>1 DEF TypeOK
    <3>3. \A t \in Sockets : Len(rx'[t]) <= Cap
      BY <1>0, <3>2, FeedAssumption DEF TypeOK
    <3> QED BY <1>0, <3>1, <3>2, <3>3, ServerStepType DEF TypeOK
  <2>5. CASE Send(s)
    <3>1. /\ Sending(s) /\ rx[s] # <<>> /\ Held(s) /\ Len(down[s]) < Wire
          /\ down' = [down EXCEPT ![s] = Append(@, Head(rx[s]))]
          /\ rx' = [rx EXCEPT ![s] = Tail(@)]
          /\ UNCHANGED <<valid, srv, now, net, up, app>>
      BY <2>5 DEF Send, Emit
    <3>2. /\ Tail(rx[s]) \in Seq(Readings) /\ Len(Tail(rx[s])) <= Cap
          /\ Head(rx[s]) \in Message
      <4>1. rx[s] \in Seq(Readings) /\ Len(rx[s]) <= Cap
        BY <1>0 DEF TypeOK
      <4>2. /\ Tail(rx[s]) \in Seq(Readings) /\ Head(rx[s]) \in Readings
            /\ Len(rx[s]) \in Nat /\ Len(Tail(rx[s])) = Len(rx[s]) - 1
        BY <3>1, <4>1, TailFacts
      <4>3. Len(Tail(rx[s])) <= Cap
        BY <4>1, <4>2, FeedAssumption
      <4> QED BY <4>2, <4>3, MessageFacts
    <3>3. /\ Append(down[s], Head(rx[s])) \in Seq(Message)
          /\ Len(Append(down[s], Head(rx[s]))) <= Wire
      <4>1. down[s] \in Seq(Message) /\ Len(down[s]) \in Nat
        BY <1>0 DEF TypeOK
      <4>2. /\ Append(down[s], Head(rx[s])) \in Seq(Message)
            /\ Len(Append(down[s], Head(rx[s]))) = Len(down[s]) + 1
        BY <3>2, <4>1, AppendFacts
      <4> QED BY <3>1, <4>1, <4>2, FeedAssumption
    <3>4. /\ rx' \in [Sockets -> Seq(Readings)] /\ down' \in [Sockets -> Seq(Message)]
          /\ \A t \in Sockets : Len(rx'[t]) <= Cap /\ Len(down'[t]) <= Wire
          /\ \A t \in Sockets \ {s} : down'[t] = down[t]
      BY <1>0, <3>1, <3>2, <3>3 DEF TypeOK
    <3> QED BY <1>0, <3>1, <3>4, ServerStepType DEF TypeOK
  <2> QED BY <1>6, <2>1, <2>2, <2>4, <2>5, <2>6, <2>7, <2>8 DEF Handle
<1>7. ASSUME NEW s \in Sockets, LinkFails(s) PROVE TypeInv'
  <2>1. /\ up' = [up EXCEPT ![s] = None] /\ down' = [down EXCEPT ![s] = <<>>]
        /\ UNCHANGED <<valid, srv, rx, now, app>>
        /\ net' = [net EXCEPT ![s] = "cut"] \/ net' = [net EXCEPT ![s] = "gone"]
    BY <1>7 DEF LinkFails
  <2>2. /\ down' \in [Sockets -> Seq(Message)]
        /\ \A t \in Sockets : down'[t] = down[t] \/ down'[t] = <<>>
        /\ net' \in [Sockets -> {"up", "cut", "gone"}]
        /\ up' \in [Sockets -> Stores \cup {None}]
    <3>1. <<>> \in Seq(Message)
      OBVIOUS
    <3>2. /\ down' \in [Sockets -> Seq(Message)]
          /\ \A t \in Sockets : down'[t] = down[t] \/ down'[t] = <<>>
      BY <1>0, <2>1, <3>1 DEF TypeOK
    <3>3. net' \in [Sockets -> {"up", "cut", "gone"}]
      BY <1>0, <2>1 DEF TypeOK
    <3>4. up' \in [Sockets -> Stores \cup {None}]
      BY <1>0, <2>1 DEF TypeOK
    <3> QED BY <3>2, <3>3, <3>4
  <2>3. \A t \in Sockets : Len(down'[t]) <= Wire
    <3>1. Len(<<>>) <= Wire /\ \A t \in Sockets : Len(down[t]) <= Wire
      BY <1>0, FeedAssumption DEF TypeOK
    <3> QED BY <2>2, <3>1
  <2> QED BY <1>0, <2>1, <2>2, <2>3, ServerStepType DEF TypeOK
<1>8. ASSUME NEW k \in Stores, SessionEnds(k) PROVE TypeInv'
  BY <1>0, <1>8, ServerStepType DEF SessionEnds, TypeOK
<1>9. ASSUME NEW k \in Stores, Service(k) \/ HandshakeFails(k) PROVE TypeInv'
  <2> DEFINE r == svc[k]
  <2>0. r \in ServiceState /\ (r.sock # None <=> r.phase = "open")
    BY <1>0 DEF TypeOK, SockPart
  <2>1. CASE InitDone(k) \/ TimerFires(k) \/ HandshakeFails(k)
    <3>1. /\ r.phase # "open"
          /\ UNCHANGED <<server, now, network, cur, screen, lost>>
          /\ \E x \in {Idle, [r EXCEPT !.phase = "handshake"], Disconnected(r)} :
                svc' = [svc EXCEPT ![k] = x]
      BY <2>1 DEF InitDone, TimerFires, HandshakeFails
    <3>2. PICK x \in {Idle, [r EXCEPT !.phase = "handshake"], Disconnected(r)} :
             svc' = [svc EXCEPT ![k] = x]
      BY <3>1
    <3>3. x \in ServiceState /\ x.sock = None /\ x.phase # "open"
      BY <2>0, <3>1, IdleState, DisconnectedState DEF ServiceState
    <3>4. /\ svc' \in [Stores -> ServiceState]
          /\ svc'[k] = x /\ \A j \in Stores \ {k} : svc'[j] = svc[j]
      BY <1>0, <3>2, <3>3 DEF TypeOK
    <3>5. r.sock = None
      BY <2>0, <3>1
    <3> QED BY <1>0, <3>1, <3>3, <3>4, <3>5, AppStepType DEF TypeOK, SockPart
  <2>2. CASE SocketDone(k)
    <3>1. /\ svc' = [svc EXCEPT ![k] = Disconnected(@)] /\ CloseSockets({r.sock})
          /\ UNCHANGED <<server, now, up, cur, screen, lost>>
      BY <2>2 DEF SocketDone
    <3>2. /\ svc' \in [Stores -> ServiceState] /\ svc'[k] = Disconnected(r)
          /\ \A j \in Stores \ {k} : svc'[j] = svc[j]
      BY <1>0, <3>1, DisconnectedState DEF TypeOK
    <3>3. r.sock \in Sockets => down'[r.sock] = <<>>
      BY <1>0, <3>1, CloseType
    <3> QED BY <1>0, <2>0, <3>1, <3>2, <3>3, DisconnectedState, AppStepType DEF TypeOK, SockPart
  <2>3. CASE HearError(k)
    <3>1. /\ svc' = [[svc EXCEPT ![k] = Idle] EXCEPT ![cur] = Disposed(@)]
          /\ CloseSockets({r.sock, svc[cur].sock})
          /\ screen' = "login" /\ lost' = lost \ {k}
          /\ UNCHANGED <<server, now, up, cur>>
      BY <2>3 DEF HearError
    <3>2. cur \in Stores /\ svc[cur] \in ServiceState
      BY <1>0 DEF TypeOK
    <3>3. /\ svc' \in [Stores -> ServiceState]
          /\ \A j \in {k, cur} : svc'[j].sock = None /\ svc'[j].phase # "open"
          /\ \A j \in Stores \ {k, cur} : svc'[j] = svc[j]
      <4> DEFINE closed == [svc EXCEPT ![k] = Idle]
      <4>1. /\ closed \in [Stores -> ServiceState] /\ closed[k] = Idle
            /\ \A j \in Stores \ {k} : closed[j] = svc[j]
        BY <1>0, IdleState DEF TypeOK
      <4>2. svc' = [closed EXCEPT ![cur] = Disposed(closed[cur])]
        BY <3>1
      <4> HIDE DEF closed
      <4>3. closed[cur] \in ServiceState
        BY <3>2, <4>1
      <4>4. /\ svc' \in [Stores -> ServiceState] /\ svc'[cur] = Disposed(closed[cur])
            /\ \A j \in Stores \ {cur} : svc'[j] = closed[j]
        BY <3>2, <4>1, <4>2, <4>3, DisposedState
      <4>5. svc'[cur].sock = None /\ svc'[cur].phase # "open"
        BY <4>3, <4>4, DisposedState
      <4>6. k # cur => svc'[k].sock = None /\ svc'[k].phase # "open"
        BY <4>1, <4>4, IdleState
      <4> QED BY <4>1, <4>4, <4>5, <4>6
    <3>4. /\ r.sock \in Sockets => down'[r.sock] = <<>>
          /\ svc[cur].sock \in Sockets => down'[svc[cur].sock] = <<>>
      BY <1>0, <3>1, CloseType
    <3> QED BY <1>0, <3>1, <3>2, <3>3, <3>4, AppStepType DEF TypeOK, SockPart
  <2>4. CASE Hear(k)
    <3> DEFINE s == r.sock
               m == Head(down[s])
    <3>1. /\ r.phase = "open" /\ down[s] # <<>> /\ m # AuthError
          /\ svc' = [svc EXCEPT ![k] = IF m = AuthOk THEN @
                                                 ELSE [@ EXCEPT !.shown = m]]
          /\ down' = [down EXCEPT ![s] = Tail(@)]
          /\ UNCHANGED <<server, now, net, up, cur, screen, lost>>
      BY <2>4 DEF Hear
    <3>2. s \in Sockets
      BY <2>0, <3>1 DEF ServiceState
    <3>3. down[s] \in Seq(Message) /\ Len(down[s]) <= Wire
      BY <1>0, <3>2 DEF TypeOK
    <3>4. /\ m \in Message /\ Tail(down[s]) \in Seq(Message)
          /\ Len(Tail(down[s])) = Len(down[s]) - 1 /\ Len(down[s]) \in Nat
      BY <3>1, <3>3, TailFacts
    <3>5. PICK x \in ServiceState : /\ svc' = [svc EXCEPT ![k] = x]
                                    /\ x.sock = s /\ x.phase = "open"
      <4>1. CASE m = AuthOk
        BY <1>0, <2>0, <3>1, <4>1 DEF TypeOK
      <4>2. CASE m # AuthOk
        <5>1. m \in 0..MaxReading
          BY <3>1, <3>4, <4>2, MessageFacts, FeedAssumption DEF Readings
        <5>2. /\ [r EXCEPT !.shown = m] \in ServiceState
              /\ [r EXCEPT !.shown = m].sock = s
              /\ [r EXCEPT !.shown = m].phase = "open"
          BY <2>0, <3>1, <5>1 DEF ServiceState
        <5> QED BY <3>1, <4>2, <5>2
      <4> QED BY <4>1, <4>2
    <3>6. /\ svc' \in [Stores -> ServiceState] /\ svc'[k] = x
          /\ \A j \in Stores \ {k} : svc'[j] = svc[j]
      BY <1>0, <3>5 DEF TypeOK
    <3>7. /\ down' \in [Sockets -> Seq(Message)]
          /\ \A t \in Sockets : Len(down'[t]) <= Wire
          /\ \A t \in Sockets \ {s} : down'[t] = down[t]
      BY <1>0, <3>1, <3>2, <3>3, <3>4, FeedAssumption DEF TypeOK
    <3>8. TypeOK'
      BY <1>0, <3>1, <3>6, <3>7 DEF TypeOK
    <3>9. SockPart'
      <4>1. s # None
        BY <3>2, FeedAssumption
      <4> QED BY <1>0, <3>5, <3>6, <4>1 DEF SockPart
    <3>10. WirePart'
      <4>1. \A t \in Sockets : Held(t)' <=> Held(t)
        BY <3>5, <3>6 DEF Held
      <4>2. Held(s) /\ srv[s] # "auth"
        BY <1>0, <3>1, <3>2 DEF WirePart
      <4> QED BY <1>0, <3>1, <3>7, <4>1, <4>2 DEF WirePart
    <3> QED BY <3>8, <3>9, <3>10 DEF TypeInv
  <2>5. CASE Handshaked(k)
    <3>1. PICK s \in Sockets :
             /\ Free(s)
             /\ srv' = [srv EXCEPT ![s] = "auth"]
             /\ IF r.dead THEN svc' = [svc EXCEPT ![k] = Idle] /\ UNCHANGED up
                ELSE /\ svc' = [svc EXCEPT ![k].phase = "open", ![k].sock = s]
                     /\ up' = [up EXCEPT ![s] = k]
      <4>1. Pick({s \in Sockets : Free(s)}) \in {s \in Sockets : Free(s)}
        BY <2>5 DEF Handshaked, Pick
      <4> QED BY <2>5, <4>1 DEF Handshaked
    <3>2. r.phase = "handshake" /\ UNCHANGED <<valid, rx, now, net, down, cur, screen, lost>>
      BY <2>5 DEF Handshaked
    <3>3. r.sock = None /\ s # None
      BY <2>0, <3>2, FeedAssumption
    <3>4. PICK x \in ServiceState :
             /\ svc' = [svc EXCEPT ![k] = x] /\ x.sock \in {s, None}
             /\ x.sock # None <=> x.phase = "open"
      <4>1. CASE r.dead
        BY <3>1, <4>1, IdleState
      <4>2. CASE ~r.dead
        <5> DEFINE y == [r EXCEPT !.phase = "open", !.sock = s]
        <5>1. y \in ServiceState /\ y.sock = s /\ y.phase = "open"
          BY <2>0 DEF ServiceState
        <5>2. svc' = [svc EXCEPT ![k] = y]
          BY <1>0, <3>1, <4>2 DEF TypeOK
        <5> QED BY <3>3, <5>1, <5>2
      <4> QED BY <4>1, <4>2
    <3>5. /\ svc' \in [Stores -> ServiceState] /\ svc'[k] = x
          /\ \A j \in Stores \ {k} : svc'[j] = svc[j]
      BY <1>0, <3>4 DEF TypeOK
    <3>6. up' \in [Sockets -> Stores \cup {None}]
      BY <1>0, <3>1 DEF TypeOK
    <3>7. /\ srv' \in [Sockets -> Stages]
          /\ \A t \in Sockets \ {s} : srv'[t] = srv[t]
      BY <1>0, <3>1 DEF TypeOK
    <3>8. TypeOK'
      BY <1>0, <3>2, <3>5, <3>6, <3>7 DEF TypeOK
    <3>9. SockPart'
      BY <1>0, <3>4, <3>5 DEF SockPart
    <3>10. WirePart'
      <4>1. \A t \in Sockets : Held(t) => Held(t)'
        <5>1. ASSUME NEW t \in Sockets, NEW j \in Stores, svc[j].sock = t PROVE svc'[j].sock = t
          <6>1. j # k
            BY <3>3, <5>1, FeedAssumption
          <6> QED BY <3>5, <5>1, <6>1
        <5> QED BY <5>1 DEF Held
      <4>2. down[s] = <<>>
        BY <1>0, <3>1 DEF Free, WirePart
      <4> QED BY <1>0, <3>2, <3>7, <4>1, <4>2 DEF WirePart
    <3> QED BY <3>8, <3>9, <3>10 DEF TypeInv
  <2> QED BY <1>9, <2>1, <2>2, <2>3, <2>4, <2>5 DEF Service
<1>10. CASE LoginSuccess
  <2>1. PICK made \in SUBSET {j \in Stores : svc[j].phase = "none"} :
           /\ cur' \in made /\ valid' = valid \cup made /\ lost' \subseteq lost \cup made
           /\ svc' = [j \in Stores |-> IF j \in made THEN NewStore ELSE svc[j]]
    BY <1>10, LoginMakes
  <2>2. screen' = "main" /\ UNCHANGED <<srv, rx, now, network>>
    BY <1>10 DEF LoginSuccess
  <2>3. svc' \in [Stores -> ServiceState]
    BY <1>0, <2>1, IdleState DEF TypeOK
  <2>4. \A j \in Stores : \/ svc'[j] = svc[j]
                          \/ svc[j].sock = None /\ svc'[j] = NewStore
    BY <1>0, <2>1 DEF SockPart
  <2> QED BY <1>0, <2>1, <2>2, <2>3, <2>4, IdleState, AppStepType DEF TypeOK, SockPart
<1>11. CASE Logout
  <2>1. /\ screen' = "login" /\ svc' = [svc EXCEPT ![cur] = Disposed(@)]
        /\ CloseSockets({svc[cur].sock}) /\ UNCHANGED <<server, now, up, cur, lost>>
    BY <1>11 DEF Logout
  <2>2. cur \in Stores /\ svc[cur] \in ServiceState
    BY <1>0 DEF TypeOK
  <2>3. /\ svc' \in [Stores -> ServiceState] /\ svc'[cur] = Disposed(svc[cur])
        /\ \A j \in Stores \ {cur} : svc'[j] = svc[j]
    BY <1>0, <2>1, <2>2, DisposedState DEF TypeOK
  <2>4. svc[cur].sock \in Sockets => down'[svc[cur].sock] = <<>>
    BY <1>0, <2>1, CloseType
  <2> QED BY <1>0, <2>1, <2>2, <2>3, <2>4, DisposedState, AppStepType DEF TypeOK, SockPart
<1> QED
  BY <1>1, <1>2, <1>3, <1>4, <1>6, <1>7, <1>8, <1>9, <1>10, <1>11 DEF Next

\* Types and bounds: no receiver keeps more than the capacity of the channel,
\* and no message comes before the answer to the token.
THEOREM FeedTypeCorrect == Spec => []TypeOK
<1>1. TypeInv => TypeOK
  BY DEF TypeInv
<1> QED BY <1>1, TypeInit, TypeStep, PTL DEF Spec

-----------------------------------------------------------------------------
(* One store.                                                              *)

LEMMA OneStoreStep == TypeInv /\ OneStore /\ [Next]_vars => OneStore'
<1> SUFFICES ASSUME TypeInv, OneStore, [Next]_vars PROVE OneStore'
  OBVIOUS
<1>0. cur \in Stores /\ \A k \in Stores : svc[k] \in ServiceState
  BY DEF TypeInv, TypeOK
<1>d. svc \in [Stores -> ServiceState]
  BY DEF TypeInv, TypeOK
\* A step that brings no store to life, with the same store on the screen.
<1>1. ASSUME UNCHANGED <<cur, screen, lost>>,
             \A k \in Stores : Alive(k)' => Alive(k)
      PROVE  OneStore'
  BY <1>1 DEF OneStore
<1>2. CASE UNCHANGED svc /\ UNCHANGED <<cur, screen, lost>>
  BY <1>1, <1>2 DEF Alive
<1>3. CASE UNCHANGED vars
  BY <1>2, <1>3 DEF vars, app
<1>4. CASE \/ Publish \/ NewReading \/ Restart
           \/ \E s \in Sockets : Handle(s) \/ LinkFails(s)
           \/ \E k \in Stores : SessionEnds(k)
  BY <1>2, <1>4 DEF Publish, NewReading, Restart, Handle, LinkFails, SessionEnds,
     Accept, Reject, AuthTimeout, AuthClosed, Subscribe, Send, SendEnds, RecvEnds, Abort, app
<1>5. ASSUME NEW k \in Stores, Service(k) \/ HandshakeFails(k), ~HearError(k) PROVE OneStore'
  <2> DEFINE r == svc[k]
  <2>1. /\ UNCHANGED <<cur, screen, lost>>
        /\ \A j \in Stores \ {k} : svc'[j] = svc[j]
    BY <1>5, <1>d DEF Service, InitDone, SocketDone, Handshaked, TimerFires, Hear, HandshakeFails
  <2>2. r.phase # "none"
    BY <1>5 DEF Service, InitDone, SocketDone, Handshaked, TimerFires, Hear, HandshakeFails
  <2>3. svc'[k].phase = "none" \/ svc'[k].dead = r.dead
    <3>1. CASE InitDone(k) \/ TimerFires(k) \/ HandshakeFails(k) \/ SocketDone(k)
      <4>1. PICK x \in {Idle, [r EXCEPT !.phase = "handshake"], Disconnected(r)} :
               svc' = [svc EXCEPT ![k] = x]
        BY <3>1 DEF InitDone, TimerFires, HandshakeFails, SocketDone
      <4>2. x.phase = "none" \/ x.dead = r.dead
        BY <1>0, IdleState, DisconnectedState DEF ServiceState
      <4> QED BY <1>d, <4>1, <4>2
    <3>2. CASE Hear(k)
      <4> DEFINE y == [r EXCEPT !.shown = Head(down[r.sock])]
      <4>1. svc' = [svc EXCEPT ![k] = r] \/ svc' = [svc EXCEPT ![k] = y]
        BY <3>2 DEF Hear
      <4>2. y.dead = r.dead
        BY <1>0 DEF ServiceState
      <4> QED BY <1>d, <4>1, <4>2
    <3>3. CASE Handshaked(k)
      <4>1. PICK s : \/ svc' = [svc EXCEPT ![k] = Idle]
                     \/ svc' = [svc EXCEPT ![k].phase = "open", ![k].sock = s]
        BY <3>3 DEF Handshaked
      <4> DEFINE y == [r EXCEPT !.phase = "open", !.sock = s]
      <4>2. svc' = [svc EXCEPT ![k] = Idle] \/ svc' = [svc EXCEPT ![k] = y]
        BY <1>d, <4>1
      <4>3. y.dead = r.dead
        BY <1>0 DEF ServiceState
      <4> QED BY <1>d, <4>2, <4>3, IdleState
    <3> QED BY <1>5, <3>1, <3>2, <3>3 DEF Service
  <2> QED BY <1>1, <2>1, <2>2, <2>3 DEF Alive
<1>6. ASSUME NEW k \in Stores, HearError(k) PROVE OneStore'
  <2> DEFINE closed == [svc EXCEPT ![k] = Idle]
  <2>1. /\ closed \in [Stores -> ServiceState] /\ closed[k] = Idle
        /\ \A j \in Stores \ {k} : closed[j] = svc[j]
    BY <1>d, IdleState
  <2>2. /\ svc' = [closed EXCEPT ![cur] = Disposed(closed[cur])]
        /\ cur' = cur /\ lost' = lost \ {k}
    BY <1>6 DEF HearError
  <2> HIDE DEF closed
  <2>3. /\ svc'[cur] = Disposed(closed[cur]) /\ closed[cur] \in ServiceState
        /\ \A j \in Stores \ {cur} : svc'[j] = closed[j]
    BY <1>0, <2>1, <2>2
  <2>4. svc'[cur].phase = "none" \/ svc'[cur].dead
    BY <2>3, DisposedState
  <2>5. \A j \in Stores \ {cur} : svc'[j].phase = "none" \/ (svc'[j] = svc[j] /\ j # k)
    BY <2>1, <2>3, IdleState
  <2>6. \A j \in Stores \ {cur} : Alive(j) => j \in lost
    BY DEF OneStore
  <2>7. \A j \in Stores : Alive(j)' => j \in lost'
    BY <2>2, <2>4, <2>5, <2>6 DEF Alive
  <2> QED BY <2>7 DEF OneStore
<1>7. CASE LoginSuccess
  <2>1. PICK made \in SUBSET {j \in Stores : svc[j].phase = "none"} :
           /\ cur' \in made /\ lost' = (lost \cup made) \ {cur'}
           /\ svc' = [j \in Stores |-> IF j \in made THEN NewStore ELSE svc[j]]
    BY <1>7, LoginMakes
  <2>2. screen = "login" /\ screen' = "main"
    BY <1>7 DEF LoginSuccess
  <2>3. \A j \in Stores : Alive(j) => j \in lost
    BY <2>2 DEF OneStore
  <2>4. ASSUME NEW j \in Stores, Alive(j)' PROVE j = cur' \/ j \in lost'
    <3>1. CASE j \in made
      BY <2>1, <3>1
    <3>2. CASE j \notin made
      <4>1. svc'[j] = svc[j]
        BY <2>1, <3>2
      <4>2. j \in lost
        BY <2>3, <2>4, <4>1 DEF Alive
      <4> QED BY <2>1, <4>2
    <3> QED BY <3>1, <3>2
  <2> QED BY <2>2, <2>4 DEF OneStore
<1>8. CASE Logout
  <2>1. svc' = [svc EXCEPT ![cur] = Disposed(svc[cur])] /\ UNCHANGED <<cur, lost>>
    BY <1>8 DEF Logout
  <2>2. /\ svc'[cur] = Disposed(svc[cur])
        /\ \A j \in Stores \ {cur} : svc'[j] = svc[j]
    BY <1>0, <1>d, <2>1
  <2>3. svc'[cur].phase = "none" \/ svc'[cur].dead
    BY <1>0, <2>2, DisposedState
  <2>4. \A j \in Stores : Alive(j)' => j \in lost
    BY <2>2, <2>3 DEF Alive, OneStore
  <2> QED BY <2>1, <2>4 DEF OneStore
<1> QED BY <1>3, <1>4, <1>5, <1>6, <1>7, <1>8 DEF Next, Service

\* main.dart's _onLoginSuccess, _onLogout and _onWsAuthFailed in any order,
\* whatever awaits: beside the store on the screen only those have or seek a
\* connection that a second log-in in the same frame has overwritten.
THEOREM OnlyOneStore == Spec => []OneStore
<1>1. Init => OneStore
  <2> SUFFICES ASSUME Init, NEW k \in Stores, Alive(k) PROVE k = cur /\ screen = "main"
    BY DEF OneStore
  <2>1. CASE screen = "login"
    BY <2>1, IdleState DEF Init, Alive
  <2>2. CASE screen = "main"
    BY <2>2, IdleState DEF Init, Alive
  <2> QED BY <2>1, <2>2 DEF Init
<1> QED BY <1>1, TypeInit, TypeStep, OneStoreStep, PTL DEF Spec

-----------------------------------------------------------------------------
(* The screen never goes back.                                             *)

\* What is on its way to the app (d) and what is not read yet (r).
Ordered(d, r, n) ==
    /\ Rising(d) /\ Rising(r) /\ Before(d, r)
    /\ AtMost(d, n) /\ AtMost(r, n)

OrderPart == \A s \in Sockets : Ordered(down[s], rx[s], now)
ReadPart == \A s \in Sockets : ~Sending(s) => rx[s] = <<>>
ShownPart ==
    \A k \in Stores :
        /\ svc[k].shown <= now
        /\ \A s \in Sockets : svc[k].sock = s => /\ AtLeast(down[s], svc[k].shown)
                                                 /\ AtLeast(rx[s], svc[k].shown)
OrderInv == OrderPart /\ ReadPart /\ ShownPart

LEMMA TypeSimple ==
    ASSUME TypeInv
    PROVE  /\ now \in Int /\ now \in Readings /\ now >= 1
           /\ \A k \in Stores : svc[k] \in ServiceState /\ svc[k].shown \in Int
           /\ \A s \in Sockets : /\ down[s] \in Seq(Message) /\ down[s] \in Seq(Int)
                                 /\ rx[s] \in Seq(Readings) /\ rx[s] \in Seq(Int)
<1>1. now \in Int /\ now \in Readings /\ now >= 1
  BY FeedAssumption DEF TypeInv, TypeOK, Readings
<1>2. \A k \in Stores : svc[k] \in ServiceState /\ svc[k].shown \in Int
  BY FeedAssumption DEF TypeInv, TypeOK, ServiceState
<1>3. \A s \in Sockets : down[s] \in Seq(Message) /\ rx[s] \in Seq(Readings)
  BY DEF TypeInv, TypeOK
<1>4. \A q \in Seq(Message) : q \in Seq(Int)
  BY MessageFacts, SeqMonotonic
<1>5. \A q \in Seq(Readings) : q \in Seq(Int)
  BY MessageFacts, SeqMonotonic
<1> QED BY <1>1, <1>2, <1>3, <1>4, <1>5

LEMMA AnswerOrder ==
    ASSUME NEW m \in {AuthOk, AuthError}, NEW n \in Int, n >= 1
    PROVE  Ordered(<<m>>, <<>>, n) /\ \A x \in Int : AtLeast(<<m>>, x)
<1>1. m \in Int /\ m <= 0 /\ m \notin Readings
  BY MessageFacts DEF AuthOk, AuthError
<1>2. \A i \in 1..Len(<<m>>) : <<m>>[i] = m
  OBVIOUS
<1>3. Rising(<<m>>) /\ AtMost(<<m>>, n) /\ \A x \in Int : AtLeast(<<m>>, x)
  BY <1>1, <1>2 DEF Rising, AtMost, AtLeast
<1> QED BY <1>3, EmptyOrder DEF Ordered

LEMMA LaterOrder ==
    ASSUME NEW d \in Seq(Int), NEW r \in Seq(Int), NEW n \in Int, NEW m \in Int, n <= m,
           Ordered(d, r, n)
    PROVE  Ordered(d, r, m)
<1>1. \A q \in Seq(Int) : AtMost(q, n) => AtMost(q, m)
  <2> SUFFICES ASSUME NEW q \in Seq(Int), AtMost(q, n), NEW i \in 1..Len(q) PROVE q[i] <= m
    BY DEF AtMost
  <2>1. q[i] \in Int /\ q[i] <= n
    BY DEF AtMost
  <2> QED BY <2>1
<1> QED BY <1>1 DEF Ordered

\* A step that puts no reading anywhere.
LEMMA QuietOrder ==
    ASSUME TypeInv, OrderInv, now' \in Int, now' >= now,
           \A s \in Sockets : rx'[s] \in {rx[s], <<>>},
           \A s \in Sockets : ~Sending(s)' => rx'[s] = <<>>,
           \A s \in Sockets : \/ down'[s] \in {down[s], <<>>}
                              \/ down'[s] \in {<<AuthOk>>, <<AuthError>>} /\ rx'[s] = <<>>,
           \A k \in Stores : /\ svc'[k].shown \in {svc[k].shown, 0}
                             /\ \/ svc'[k].sock = svc[k].sock
                                \/ \A s \in Sockets : svc'[k].sock # s
    PROVE  OrderInv'
<1>0. /\ now \in Int /\ now >= 1 /\ <<>> \in Seq(Int)
      /\ \A k \in Stores : svc[k].shown \in Int
      /\ \A s \in Sockets : down[s] \in Seq(Int) /\ rx[s] \in Seq(Int)
  BY TypeSimple
<1>1. ASSUME NEW s \in Sockets PROVE Ordered(down'[s], rx'[s], now')
  <2>1. Ordered(down[s], rx[s], now)
    BY DEF OrderInv, OrderPart
  <2>2. CASE down'[s] \in {down[s], <<>>}
    <3>1. Ordered(down'[s], rx'[s], now)
      <4>1. Rising(down'[s]) /\ AtMost(down'[s], now)
        BY <2>1, <2>2, EmptyOrder DEF Ordered
      <4>2. Rising(rx'[s]) /\ AtMost(rx'[s], now)
        BY <2>1, EmptyOrder DEF Ordered
      <4>3. Before(down'[s], rx'[s])
        BY <2>1, <2>2, EmptyOrder DEF Ordered
      <4> QED BY <4>1, <4>2, <4>3 DEF Ordered
    <3>2. down'[s] \in Seq(Int) /\ rx'[s] \in Seq(Int)
      BY <1>0, <2>2
    <3> QED BY <1>0, <3>1, <3>2, LaterOrder
  <2>3. CASE down'[s] \in {<<AuthOk>>, <<AuthError>>} /\ rx'[s] = <<>>
    <3>1. now' >= 1
      BY <1>0
    <3> QED BY <2>3, <3>1, AnswerOrder
  <2> QED BY <2>2, <2>3
<1>2. ASSUME NEW k \in Stores PROVE svc'[k].shown <= now'
  <2>1. svc[k].shown <= now
    BY DEF OrderInv, ShownPart
  <2> QED BY <1>0, <2>1
<1>3. ASSUME NEW k \in Stores, NEW s \in Sockets, svc'[k].sock = s
      PROVE  AtLeast(down'[s], svc'[k].shown) /\ AtLeast(rx'[s], svc'[k].shown)
  <2>1. svc[k].sock = s
    BY <1>3
  <2>2. AtLeast(down[s], svc[k].shown) /\ AtLeast(rx[s], svc[k].shown)
    BY <2>1 DEF OrderInv, ShownPart
  <2>3. \A q : AtLeast(q, 0)
    BY FeedAssumption DEF AtLeast, Readings
  <2>4. AtLeast(down[s], svc'[k].shown) /\ AtLeast(rx[s], svc'[k].shown)
    BY <2>2, <2>3
  <2>5. svc'[k].shown \in Int
    BY <1>0
  <2>6. AtLeast(rx'[s], svc'[k].shown)
    BY <2>4, EmptyOrder
  <2>7. AtLeast(down'[s], svc'[k].shown)
    BY <1>0, <2>4, <2>5, EmptyOrder, AnswerOrder
  <2> QED BY <2>6, <2>7
<1> QED BY <1>1, <1>2, <1>3 DEF OrderInv, OrderPart, ReadPart, ShownPart

LEMMA PushOrder ==
    ASSUME NEW d \in Seq(Int), NEW q \in Seq(Int), NEW m \in Int, Ordered(d, q, m)
    PROVE  /\ Ordered(d, Push(q, m), m)
           /\ \A n \in Int : AtLeast(q, n) /\ n <= m => AtLeast(Push(q, m), n)
<1>1. PICK p \in Seq(Int) : /\ Push(q, m) = Append(p, m)
                            /\ Rising(p) /\ AtMost(p, m) /\ Before(d, p)
                            /\ \A n \in Int : AtLeast(q, n) => AtLeast(p, n)
  <2>1. CASE Len(q) < Cap
    BY <2>1 DEF Push, Ordered
  <2>2. CASE ~(Len(q) < Cap)
    <3>1. q # <<>>
      BY <2>2, FeedAssumption
    <3>2. Tail(q) \in Seq(Int)
      BY <3>1
    <3> QED BY <2>2, <3>1, <3>2, TailOrder DEF Push, Ordered
  <2> QED BY <2>1, <2>2
<1> QED BY <1>1, AppendOrder DEF Ordered

LEMMA OrderInit == Init => OrderInv
<1> SUFFICES ASSUME Init PROVE OrderInv
  OBVIOUS
<1>1. OrderPart
  <2>1. \A s \in Sockets : down[s] = <<>> /\ rx[s] = <<>>
    BY DEF Init
  <2>2. Ordered(<<>>, <<>>, now)
    BY EmptyOrder DEF Ordered
  <2> QED BY <2>1, <2>2 DEF OrderPart
<1>2. ReadPart
  BY DEF Init, ReadPart
<1>3. \A k \in Stores : svc[k].shown = 0
  BY IdleState DEF Init
<1>4. ShownPart
  <2>1. \A k \in Stores, s \in Sockets : svc[k].sock # s
    BY IdleState, FeedAssumption DEF Init
  <2>2. 0 <= now
    BY DEF Init
  <2> QED BY <1>3, <2>1, <2>2 DEF ShownPart
<1> QED BY <1>1, <1>2, <1>4 DEF OrderInv

\* The end of a handler.
LEMMA EndOrder ==
    ASSUME TypeInv, OrderInv, NEW s \in Sockets, End(s), UNCHANGED <<now, svc>>,
           \A t \in Sockets \ {s} : down'[t] = down[t],
           down'[s] \in {down[s], <<AuthOk>>, <<AuthError>>}
    PROVE  OrderInv'
<1>1. /\ srv'[s] = "none" /\ rx'[s] = <<>>
      /\ \A t \in Sockets \ {s} : srv'[t] = srv[t] /\ rx'[t] = rx[t]
  BY DEF End, TypeInv, TypeOK
<1>2. \A t \in Sockets : ~Sending(t) => rx[t] = <<>>
  BY DEF OrderInv, ReadPart
<1>3. now' \in Int /\ now' >= now
  BY TypeSimple
<1>4. \A t \in Sockets :
        /\ rx'[t] \in {rx[t], <<>>}
        /\ ~Sending(t)' => rx'[t] = <<>>
        /\ \/ down'[t] \in {down[t], <<>>}
           \/ down'[t] \in {<<AuthOk>>, <<AuthError>>} /\ rx'[t] = <<>>
  <2> SUFFICES ASSUME NEW t \in Sockets
               PROVE  /\ rx'[t] \in {rx[t], <<>>}
                      /\ ~Sending(t)' => rx'[t] = <<>>
                      /\ \/ down'[t] \in {down[t], <<>>}
                         \/ down'[t] \in {<<AuthOk>>, <<AuthError>>} /\ rx'[t] = <<>>
    OBVIOUS
  <2>1. CASE t = s
    BY <1>1, <2>1
  <2>2. CASE t # s
    BY <1>1, <1>2, <2>2
  <2> QED BY <2>1, <2>2
<1> QED BY <1>3, <1>4, QuietOrder

\* A step of the app that puts no reading on the screen.
LEMMA AppOrder ==
    ASSUME TypeInv, OrderInv, UNCHANGED <<now, srv, rx>>,
           (\E S : CloseSockets(S)) \/ UNCHANGED down,
           \A k \in Stores : /\ svc'[k].shown \in {svc[k].shown, 0}
                             /\ \/ svc'[k].sock = svc[k].sock
                                \/ svc'[k].sock = None
    PROVE  OrderInv'
<1>1. \A s \in Sockets : down'[s] = down[s] \/ down'[s] = <<>>
  BY DEF CloseSockets
<1>2. \A s \in Sockets : ~Sending(s) => rx[s] = <<>>
  BY DEF OrderInv, ReadPart
<1>3. now' \in Int /\ now' >= now
  BY TypeSimple
<1>4. \A s \in Sockets : s # None
  BY FeedAssumption
<1> QED BY <1>1, <1>2, <1>3, <1>4, QuietOrder

LEMMA PublishOrder ==
    ASSUME TypeInv, OrderInv, Publish
    PROVE  OrderInv'
<1>0. /\ now \in Int /\ \A k \in Stores : svc[k].shown \in Int
      /\ \A s \in Sockets : down[s] \in Seq(Int) /\ rx[s] \in Seq(Int)
  BY TypeSimple
<1>1. /\ UNCHANGED <<srv, now, down, svc>>
      /\ \A s \in Sockets : rx'[s] = IF Sending(s) THEN Push(rx[s], now) ELSE rx[s]
  BY DEF Publish, network, app
<1>2. OrderPart'
  <2> SUFFICES ASSUME NEW s \in Sockets PROVE Ordered(down[s], rx'[s], now)
    BY <1>1 DEF OrderPart
  <2>1. Ordered(down[s], rx[s], now)
    BY DEF OrderInv, OrderPart
  <2>2. Ordered(down[s], Push(rx[s], now), now)
    BY <1>0, <2>1, PushOrder
  <2> QED BY <1>1, <2>1, <2>2
<1>3. ReadPart'
  BY <1>1 DEF OrderInv, ReadPart
<1>4. ShownPart'
  <2> SUFFICES ASSUME NEW k \in Stores, NEW s \in Sockets, svc[k].sock = s
               PROVE  AtLeast(rx'[s], svc[k].shown)
    BY <1>1 DEF OrderInv, ShownPart
  <2>1. AtLeast(rx[s], svc[k].shown) /\ svc[k].shown <= now
    BY DEF OrderInv, ShownPart
  <2>2. Ordered(down[s], rx[s], now)
    BY DEF OrderInv, OrderPart
  <2>3. AtLeast(Push(rx[s], now), svc[k].shown)
    BY <1>0, <2>1, <2>2, PushOrder
  <2> QED BY <1>1, <2>1, <2>3
<1> QED BY <1>2, <1>3, <1>4 DEF OrderInv

LEMMA SendOrder ==
    ASSUME TypeInv, OrderInv, NEW s \in Sockets, Send(s)
    PROVE  OrderInv'
<1> DEFINE d == down[s]
           r == rx[s]
           m == Head(rx[s])
<1>1. /\ Sending(s) /\ r # <<>>
      /\ down' = [down EXCEPT ![s] = Append(@, m)]
      /\ rx' = [rx EXCEPT ![s] = Tail(@)]
      /\ UNCHANGED <<srv, now, svc>>
  BY DEF Send, Emit, app
<1>2. /\ down'[s] = Append(d, m) /\ rx'[s] = Tail(r)
      /\ \A t \in Sockets \ {s} : down'[t] = down[t] /\ rx'[t] = rx[t]
  BY <1>1 DEF TypeInv, TypeOK
<1>3. /\ d \in Seq(Int) /\ r \in Seq(Int) /\ r \in Seq(Readings) /\ now \in Int
      /\ \A k \in Stores : svc[k].shown \in Int
  BY TypeSimple
<1>4. m \in Readings /\ m \in Int /\ m # AuthError /\ Tail(r) \in Seq(Readings)
      /\ Tail(r) \in Seq(Int) /\ r[1] = m /\ 1 \in 1..Len(r)
  <2>1. m \in Readings /\ Tail(r) \in Seq(Readings) /\ r[1] = m /\ 1 \in 1..Len(r)
    BY <1>1, <1>3, TailFacts
  <2>2. Tail(r) \in Seq(Int)
    BY <1>1, <1>3
  <2> QED BY <2>1, <2>2, MessageFacts
<1>5. Ordered(d, r, now)
  BY DEF OrderInv, OrderPart
<1>6. /\ Rising(Tail(r)) /\ AtMost(Tail(r), now) /\ Before(d, Tail(r))
      /\ m <= now /\ AtMost(d, m)
      /\ \A i \in 1..Len(Tail(r)) : Tail(r)[i] # AuthError => m <= Tail(r)[i]
  BY <1>1, <1>3, <1>5, TailOrder DEF Ordered
<1>7. \A i \in 1..Len(Tail(r)) : m <= Tail(r)[i]
  <2>1. \A i \in 1..Len(Tail(r)) : Tail(r)[i] \in Readings
    BY <1>4
  <2> QED BY <1>6, <2>1, MessageFacts
<1>8. /\ Rising(Append(d, m)) /\ AtMost(Append(d, m), now) /\ Before(Append(d, m), Tail(r))
      /\ \A n \in Int : AtLeast(d, n) /\ n <= m => AtLeast(Append(d, m), n)
  BY <1>3, <1>4, <1>5, <1>6, <1>7, AppendOrder DEF Ordered
<1>9. OrderPart'
  BY <1>1, <1>2, <1>6, <1>8 DEF OrderInv, OrderPart, Ordered
<1>10. ReadPart'
  BY <1>1, <1>2 DEF OrderInv, ReadPart
<1>11. ShownPart'
  <2> SUFFICES ASSUME NEW k \in Stores, NEW t \in Sockets, svc[k].sock = t
               PROVE  AtLeast(down'[t], svc[k].shown) /\ AtLeast(rx'[t], svc[k].shown)
    BY <1>1 DEF OrderInv, ShownPart
  <2>1. AtLeast(down[t], svc[k].shown) /\ AtLeast(rx[t], svc[k].shown)
    BY DEF OrderInv, ShownPart
  <2>2. CASE t = s
    <3>1. svc[k].shown <= m
      BY <1>4, <2>1, <2>2 DEF AtLeast
    <3>2. AtLeast(Tail(r), svc[k].shown)
      BY <1>1, <1>3, <2>1, <2>2, TailOrder
    <3> QED BY <1>2, <1>3, <1>8, <2>1, <2>2, <3>1, <3>2
  <2>3. CASE t # s
    BY <1>2, <2>1, <2>3
  <2> QED BY <2>2, <2>3
<1> QED BY <1>9, <1>10, <1>11 DEF OrderInv

\* A new socket has nothing under way.
LEMMA HandshakedOrder ==
    ASSUME TypeInv, OrderInv, NEW k \in Stores, Handshaked(k)
    PROVE  OrderInv'
<1> DEFINE r == svc[k]
<1>0. /\ svc \in [Stores -> ServiceState] /\ srv \in [Sockets -> Stages]
      /\ r \in ServiceState /\ now \in Int /\ now >= 1
  BY TypeSimple DEF TypeInv, TypeOK
<1>1. PICK s \in Sockets :
         /\ Free(s) /\ srv' = [srv EXCEPT ![s] = "auth"]
         /\ \/ svc' = [svc EXCEPT ![k] = Idle]
            \/ svc' = [svc EXCEPT ![k].phase = "open", ![k].sock = s]
  <2>1. Pick({s \in Sockets : Free(s)}) \in {s \in Sockets : Free(s)}
    BY DEF Handshaked, Pick
  <2> QED BY <2>1 DEF Handshaked
<1>2. UNCHANGED <<rx, down, now>>
  BY DEF Handshaked
<1>3. down[s] = <<>> /\ rx[s] = <<>>
  BY <1>1 DEF TypeInv, WirePart, OrderInv, ReadPart, Free
<1>4. OrderPart'
  BY <1>2 DEF OrderInv, OrderPart
<1>5. ReadPart'
  BY <1>0, <1>1, <1>2, <1>3 DEF OrderInv, ReadPart
<1>6. /\ svc'[k] = Idle \/ (svc'[k].sock = s /\ svc'[k].shown = r.shown)
      /\ \A j \in Stores \ {k} : svc'[j] = svc[j]
  <2>1. CASE svc' = [svc EXCEPT ![k] = Idle]
    BY <1>0, <2>1
  <2>2. CASE svc' = [svc EXCEPT ![k].phase = "open", ![k].sock = s]
    <3> DEFINE y == [r EXCEPT !.phase = "open", !.sock = s]
    <3>1. svc' = [svc EXCEPT ![k] = y]
      BY <1>0, <2>2
    <3>2. y.sock = s /\ y.shown = r.shown
      BY <1>0 DEF ServiceState
    <3> QED BY <1>0, <3>1, <3>2
  <2> QED BY <1>1, <2>1, <2>2
<1>8. svc'[k].shown <= now
  <2>1. CASE svc'[k] = Idle
    BY <1>0, <2>1, IdleState
  <2>2. CASE svc'[k].shown = r.shown
    BY <2>2 DEF OrderInv, ShownPart
  <2> QED BY <1>6, <2>1, <2>2
<1>9. ShownPart'
  <2> SUFFICES ASSUME NEW j \in Stores
               PROVE  /\ svc'[j].shown <= now
                      /\ \A t \in Sockets : svc'[j].sock = t =>
                             AtLeast(down[t], svc'[j].shown) /\ AtLeast(rx[t], svc'[j].shown)
    BY <1>2 DEF ShownPart
  <2>1. CASE j = k
    <3>1. \A t \in Sockets : svc'[j].sock = t => t = s
      BY <1>6, <2>1, IdleState, FeedAssumption
    <3> QED BY <1>3, <1>8, <2>1, <3>1, EmptyOrder
  <2>2. CASE j # k
    BY <1>6, <2>2 DEF OrderInv, ShownPart
  <2> QED BY <2>1, <2>2
<1> QED BY <1>4, <1>5, <1>9 DEF OrderInv

\* What is heard is not older than what is on the screen, and not newer than
\* what comes after it.
LEMMA HearOrder ==
    ASSUME TypeInv, OrderInv, NEW k \in Stores, Hear(k)
    PROVE  OrderInv' /\ svc'[k].shown >= svc[k].shown
<1> DEFINE r == svc[k]
           s == svc[k].sock
           d == down[s]
           m == Head(down[s])
<1>1. /\ svc \in [Stores -> ServiceState] /\ r \in ServiceState /\ now \in Int
      /\ \A j \in Stores : svc[j].shown \in Int
  BY TypeSimple DEF TypeInv, TypeOK
<1>2. /\ r.phase = "open" /\ d # <<>> /\ m # AuthError
      /\ svc' = [svc EXCEPT ![k] = IF m = AuthOk THEN @
                                                 ELSE [@ EXCEPT !.shown = m]]
      /\ down' = [down EXCEPT ![s] = Tail(@)]
      /\ UNCHANGED <<srv, rx, now>>
  BY DEF Hear, server
<1>3. s \in Sockets
  BY <1>1, <1>2 DEF TypeInv, SockPart, ServiceState
<1>4. d \in Seq(Int) /\ d \in Seq(Message)
  BY <1>3, TypeSimple
<1>5. m \in Message /\ m = d[1] /\ 1 \in 1..Len(d) /\ m \in Int
  BY <1>2, <1>4, TailFacts, MessageFacts
<1>6. down'[s] = Tail(d) /\ \A t \in Sockets \ {s} : down'[t] = down[t]
  BY <1>2, <1>3 DEF TypeInv, TypeOK
<1>7. Ordered(d, rx[s], now)
  BY <1>3 DEF OrderInv, OrderPart
<1>8. /\ Rising(Tail(d)) /\ AtMost(Tail(d), now) /\ Before(Tail(d), rx[s]) /\ m <= now
      /\ \A i \in 1..Len(Tail(d)) : Tail(d)[i] # AuthError => m <= Tail(d)[i]
      /\ \A n : AtLeast(d, n) => AtLeast(Tail(d), n)
  BY <1>2, <1>4, <1>7, TailOrder DEF Ordered
<1>9. AtLeast(Tail(d), m) /\ AtLeast(rx[s], m)
  <2>1. AtLeast(Tail(d), m)
    BY <1>8, MessageFacts DEF AtLeast
  <2>2. AtLeast(rx[s], m)
    BY <1>5, <1>7 DEF Ordered, Before, AtLeast
  <2> QED BY <2>1, <2>2
<1>10. AtLeast(d, r.shown) /\ AtLeast(rx[s], r.shown) /\ r.shown <= now
  BY <1>3 DEF OrderInv, ShownPart
<1>11. PICK x : /\ svc' = [svc EXCEPT ![k] = x] /\ x.sock = s
                /\ \/ x.shown = r.shown
                   \/ x.shown = m /\ m \in Readings
  <2>1. CASE m = AuthOk
    <3>1. svc' = [svc EXCEPT ![k] = r]
      BY <1>2, <2>1
    <3> QED BY <3>1
  <2>2. CASE m # AuthOk
    <3> DEFINE y == [r EXCEPT !.shown = m]
    <3>1. y.sock = s /\ y.shown = m
      BY <1>1 DEF ServiceState
    <3>2. svc' = [svc EXCEPT ![k] = y]
      BY <1>2, <2>2
    <3>3. m \in Readings
      BY <1>2, <1>5, <2>2, MessageFacts
    <3> QED BY <3>1, <3>2, <3>3
  <2> QED BY <2>1, <2>2
<1>12. svc'[k] = x /\ \A j \in Stores \ {k} : svc'[j] = svc[j]
  BY <1>1, <1>11
<1>13. x.shown >= r.shown /\ x.shown <= now
  <2>1. m \in Readings => m >= r.shown
    BY <1>5, <1>10 DEF AtLeast
  <2> QED BY <1>1, <1>5, <1>8, <1>10, <1>11, <2>1
<1>14. AtLeast(Tail(d), x.shown) /\ AtLeast(rx[s], x.shown)
  BY <1>8, <1>9, <1>10, <1>11
<1>15. OrderPart'
  BY <1>2, <1>6, <1>7, <1>8 DEF OrderInv, OrderPart, Ordered
<1>16. ReadPart'
  BY <1>2 DEF OrderInv, ReadPart
<1>17. ShownPart'
  <2> SUFFICES ASSUME NEW j \in Stores
               PROVE  /\ svc'[j].shown <= now
                      /\ \A t \in Sockets : svc'[j].sock = t =>
                             AtLeast(down'[t], svc'[j].shown) /\ AtLeast(rx[t], svc'[j].shown)
    BY <1>2 DEF ShownPart
  <2>1. CASE j = k
    BY <1>6, <1>11, <1>12, <1>13, <1>14, <2>1
  <2>2. CASE j # k
    <3>1. svc'[j] = svc[j]
      BY <1>12, <2>2
    <3>2. /\ svc[j].shown <= now
          /\ \A t \in Sockets : svc[j].sock = t => /\ AtLeast(down[t], svc[j].shown)
                                                   /\ AtLeast(rx[t], svc[j].shown)
      BY DEF OrderInv, ShownPart
    <3>3. \A t \in Sockets : AtLeast(down[t], svc[j].shown) => AtLeast(down'[t], svc[j].shown)
      BY <1>6, <1>8
    <3> QED BY <3>1, <3>2, <3>3
  <2> QED BY <2>1, <2>2
<1> QED BY <1>12, <1>13, <1>15, <1>16, <1>17 DEF OrderInv

LEMMA OrderStep == TypeInv /\ OrderInv /\ [Next]_vars => OrderInv'
<1> SUFFICES ASSUME TypeInv, OrderInv, [Next]_vars PROVE OrderInv'
  OBVIOUS
<1>0. /\ TypeOK /\ SockPart /\ svc \in [Stores -> ServiceState]
      /\ cur \in Stores /\ \A k \in Stores : svc[k] \in ServiceState
  BY DEF TypeInv, TypeOK
<1>r. \A s \in Sockets : ~Sending(s) => rx[s] = <<>>
  BY DEF OrderInv, ReadPart
<1>n. now \in Int
  BY TypeSimple
<1>1. ASSUME UNCHANGED <<now, srv, rx, down, svc>> PROVE OrderInv'
  BY <1>1 DEF OrderInv, OrderPart, ReadPart, ShownPart
<1>2. CASE UNCHANGED vars \/ \E k \in Stores : SessionEnds(k)
  BY <1>1, <1>2 DEF vars, server, network, app, SessionEnds
<1>3. CASE Publish
  BY <1>3, PublishOrder
<1>4. CASE NewReading
  <2>1. UNCHANGED <<srv, rx, down, svc>> /\ now' \in Int /\ now' >= now
    BY <1>4, <1>n DEF NewReading, server, network, app
  <2> QED BY <1>r, <2>1, QuietOrder
<1>5. CASE Restart
  <2>1. UNCHANGED <<down, svc, now>> /\ \A s \in Sockets : rx'[s] = <<>>
    BY <1>5 DEF Restart, app
  <2> QED BY <1>n, <2>1, QuietOrder
<1>6. ASSUME NEW s \in Sockets, Handle(s) PROVE OrderInv'
  <2>1. CASE Accept(s)
    <3>1. /\ srv[s] = "auth" /\ srv' = [srv EXCEPT ![s] = "subscribe"] /\ Emit(s, AuthOk)
          /\ UNCHANGED <<rx, now, svc>>
      BY <2>1 DEF Accept, app
    <3>2. \A t \in Sockets : \/ down'[t] = down[t]
                             \/ t = s /\ down'[t] = <<AuthOk>>
      BY <3>1, AnswerType
    <3>3. \A t \in Sockets : ~Sending(t)' => rx[t] = <<>>
      BY <1>0, <1>r, <3>1 DEF TypeOK
    <3>4. rx[s] = <<>>
      BY <1>r, <3>1
    <3>5. \A t \in Sockets :
            \/ down'[t] \in {down[t], <<>>}
            \/ down'[t] \in {<<AuthOk>>, <<AuthError>>} /\ rx[t] = <<>>
      BY <3>2, <3>4
    <3> QED BY <1>n, <3>1, <3>3, <3>5, QuietOrder
  <2>2. CASE Reject(s) \/ AuthTimeout(s)
    <3>1. srv[s] = "auth" /\ Emit(s, AuthError) /\ End(s) /\ UNCHANGED <<now, svc>>
      BY <2>2 DEF Reject, AuthTimeout, app
    <3>2. \A t \in Sockets : \/ down'[t] = down[t]
                             \/ t = s /\ down'[t] = <<AuthError>>
      BY <3>1, AnswerType
    <3> QED BY <3>1, <3>2, EndOrder
  <2>3. ASSUME End(s), UNCHANGED <<now, down, svc>> PROVE OrderInv'
    BY <2>3, EndOrder
  <2>6. CASE AuthClosed(s) \/ Abort(s)
    BY <2>3, <2>6 DEF AuthClosed, Abort, app
  <2>7. CASE SendEnds(s)
    <3>1. CASE srv[s] = "feed"
      <4>1. /\ srv' = [srv EXCEPT ![s] = "recvOnly"] /\ rx' = [rx EXCEPT ![s] = <<>>]
            /\ UNCHANGED <<now, down, svc>>
        BY <2>7, <3>1 DEF SendEnds, app
      <4>2. \A t \in Sockets : /\ rx'[t] \in {rx[t], <<>>}
                               /\ ~Sending(t)' => rx'[t] = <<>>
        BY <1>0, <1>r, <4>1 DEF TypeOK
      <4> QED BY <1>n, <4>1, <4>2, QuietOrder
    <3>2. CASE srv[s] # "feed"
      BY <2>3, <2>7, <3>2 DEF SendEnds, app
    <3> QED BY <3>1, <3>2
  <2>8. CASE RecvEnds(s)
    <3>1. CASE srv[s] = "feed"
      <4>1. srv' = [srv EXCEPT ![s] = "sendOnly"] /\ UNCHANGED <<rx, now, down, svc>>
        BY <2>8, <3>1 DEF RecvEnds, app
      <4>2. \A t \in Sockets : ~Sending(t)' => rx[t] = <<>>
        BY <1>0, <1>r, <4>1 DEF TypeOK
      <4> QED BY <1>n, <4>1, <4>2, QuietOrder
    <3>2. CASE srv[s] # "feed"
      BY <2>3, <2>8, <3>2 DEF RecvEnds, app
    <3> QED BY <3>1, <3>2
  <2>4. CASE Subscribe(s)
    <3>1. /\ srv' = [srv EXCEPT ![s] = "feed"] /\ rx' = [rx EXCEPT ![s] = <<>>]
          /\ UNCHANGED <<now, down, svc>>
      BY <2>4 DEF Subscribe, FromNow, network, app
    <3>2. \A t \in Sockets : /\ rx'[t] \in {rx[t], <<>>}
                             /\ ~Sending(t)' => rx'[t] = <<>>
      BY <1>0, <1>r, <3>1 DEF TypeOK
    <3> QED BY <1>n, <3>1, <3>2, QuietOrder
  <2>5. CASE Send(s)
    BY <2>5, SendOrder
  <2> QED BY <1>6, <2>1, <2>2, <2>4, <2>5, <2>6, <2>7, <2>8 DEF Handle
<1>7. ASSUME NEW s \in Sockets, LinkFails(s) PROVE OrderInv'
  <2>1. down' = [down EXCEPT ![s] = <<>>] /\ UNCHANGED <<srv, rx, now, svc>>
    BY <1>7 DEF LinkFails, server, app
  <2>2. \A t \in Sockets : down'[t] \in {down[t], <<>>}
    BY <1>0, <2>1 DEF TypeOK
  <2> QED BY <1>n, <1>r, <2>1, <2>2, QuietOrder
<1>8. ASSUME NEW k \in Stores, Service(k) \/ HandshakeFails(k) PROVE OrderInv'
  <2> DEFINE r == svc[k]
  <2>1. CASE InitDone(k) \/ TimerFires(k) \/ HandshakeFails(k) \/ SocketDone(k)
    <3>1. /\ UNCHANGED <<now, srv, rx>>
          /\ (\E S : CloseSockets(S)) \/ UNCHANGED down
      BY <2>1 DEF InitDone, TimerFires, HandshakeFails, SocketDone, server, network
    <3>2. PICK x \in {Idle, [r EXCEPT !.phase = "handshake"], Disconnected(r)} :
             svc' = [svc EXCEPT ![k] = x]
      BY <2>1 DEF InitDone, TimerFires, HandshakeFails, SocketDone
    <3>3. x.shown \in {r.shown, 0} /\ (x.sock = r.sock \/ x.sock = None)
      <4>1. r \in ServiceState
        BY <1>0
      <4>2. [r EXCEPT !.phase = "handshake"].shown = r.shown
            /\ [r EXCEPT !.phase = "handshake"].sock = r.sock
        BY <4>1 DEF ServiceState
      <4> QED BY <3>2, <4>1, <4>2, IdleState, DisconnectedState
    <3>4. svc'[k] = x /\ \A j \in Stores \ {k} : svc'[j] = svc[j]
      BY <1>0, <3>2
    <3> QED BY <3>1, <3>3, <3>4, AppOrder
  <2>2. CASE Hear(k)
    BY <2>2, HearOrder
  <2>3. CASE Handshaked(k)
    BY <2>3, HandshakedOrder
  <2>4. CASE HearError(k)
    <3> DEFINE closed == [svc EXCEPT ![k] = Idle]
    <3>1. /\ UNCHANGED <<now, srv, rx>> /\ \E S : CloseSockets(S)
          /\ svc' = [closed EXCEPT ![cur] = Disposed(closed[cur])]
      BY <2>4 DEF HearError, server
    <3>2. /\ closed \in [Stores -> ServiceState] /\ closed[k] = Idle
          /\ \A j \in Stores \ {k} : closed[j] = svc[j]
      BY <1>0, IdleState
    <3> HIDE DEF closed
    <3>3. /\ svc'[cur] = Disposed(closed[cur]) /\ closed[cur] \in ServiceState
          /\ \A j \in Stores \ {cur} : svc'[j] = closed[j]
      BY <1>0, <3>1, <3>2
    <3>4. svc'[cur].shown = 0 /\ svc'[cur].sock = None
      BY <3>3, DisposedState
    <3>5. \A j \in Stores \ {cur} : svc'[j] = svc[j] \/ svc'[j] = Idle
      BY <3>2, <3>3
    <3>6. \A j \in Stores : /\ svc'[j].shown \in {svc[j].shown, 0}
                            /\ svc'[j].sock = svc[j].sock \/ svc'[j].sock = None
      BY <3>4, <3>5, IdleState
    <3> QED BY <3>1, <3>6, AppOrder
  <2> QED BY <1>8, <2>1, <2>2, <2>3, <2>4 DEF Service
<1>9. CASE LoginSuccess
  <2>1. \A j \in Stores : svc'[j] = svc[j] \/ svc'[j] = NewStore
    BY <1>9, LoginMakes
  <2>2. UNCHANGED <<now, srv, rx, down>>
    BY <1>9 DEF LoginSuccess, network
  <2> QED BY <2>1, <2>2, IdleState, AppOrder
<1>10. CASE Logout
  <2>1. /\ UNCHANGED <<now, srv, rx>> /\ \E S : CloseSockets(S)
        /\ svc' = [svc EXCEPT ![cur] = Disposed(svc[cur])]
    BY <1>10 DEF Logout, server
  <2>2. \A j \in Stores : svc'[j] = svc[j] \/ svc'[j] = Disposed(svc[j])
    BY <1>0, <2>1
  <2> QED BY <1>0, <2>1, <2>2, DisposedState, AppOrder
<1> QED
  BY <1>2, <1>3, <1>4, <1>5, <1>6, <1>7, <1>8, <1>9, <1>10 DEF Next

\* The screen of a store does not go back: what is heard is not older than
\* what is shown, and no other step of a store that lives changes it.
LEMMA ForwardStep ==
    ASSUME TypeInv, OrderInv, [Next]_vars, NEW k \in Stores, Alive(k), Alive(k)'
    PROVE  svc'[k].shown >= svc[k].shown
<1>0. /\ svc \in [Stores -> ServiceState] /\ cur \in Stores
      /\ \A j \in Stores : svc[j] \in ServiceState /\ svc[j].shown \in Int
  BY TypeSimple DEF TypeInv, TypeOK
<1>1. ASSUME svc'[k].shown = svc[k].shown PROVE svc'[k].shown >= svc[k].shown
  BY <1>0, <1>1
<1>2. CASE svc'[k] = svc[k]
  BY <1>1, <1>2
<1>3. CASE UNCHANGED svc
  BY <1>2, <1>3
<1>4. CASE \/ Publish \/ NewReading \/ Restart \/ UNCHANGED vars
           \/ \E s \in Sockets : Handle(s) \/ LinkFails(s)
           \/ \E j \in Stores : SessionEnds(j)
  BY <1>3, <1>4 DEF Publish, NewReading, Restart, Handle, LinkFails, SessionEnds,
     Accept, Reject, AuthTimeout, AuthClosed, Subscribe, Send, SendEnds, RecvEnds, Abort, app, vars
<1>5. ASSUME NEW j \in Stores, Service(j) \/ HandshakeFails(j), ~HearError(j)
      PROVE  svc'[k].shown >= svc[k].shown
  <2> DEFINE r == svc[j]
  <2>1. CASE j # k
    <3>1. \A i \in Stores \ {j} : svc'[i] = svc[i]
      BY <1>5, <1>0 DEF Service, InitDone, SocketDone, Handshaked, TimerFires, Hear, HandshakeFails
    <3> QED BY <1>2, <2>1, <3>1
  <2>2. CASE j = k /\ Hear(j)
    BY <2>2, HearOrder
  <2>3. CASE j = k /\ ~Hear(j)
    <3> DEFINE away == [r EXCEPT !.phase = "handshake"]
    <3>1. \/ svc' = [svc EXCEPT ![j] = Idle]
          \/ svc' = [svc EXCEPT ![j] = away]
          \/ svc' = [svc EXCEPT ![j] = Disconnected(r)]
          \/ \E s \in Sockets : svc' = [svc EXCEPT ![j].phase = "open", ![j].sock = s]
      <4>1. CASE Handshaked(j)
        <5>1. Pick({s \in Sockets : Free(s)}) \in {s \in Sockets : Free(s)}
          BY <4>1 DEF Handshaked, Pick
        <5> QED BY <4>1, <5>1 DEF Handshaked
      <4>2. CASE InitDone(j) \/ TimerFires(j) \/ HandshakeFails(j) \/ SocketDone(j)
        BY <1>0, <4>2 DEF InitDone, TimerFires, HandshakeFails, SocketDone
      <4> QED BY <1>5, <2>3, <4>1, <4>2 DEF Service
    <3>2. svc'[j] # Idle
      BY <2>3, IdleState DEF Alive
    <3>3. CASE svc' = [svc EXCEPT ![j] = away]
      <4>1. away.shown = r.shown
        BY <1>0 DEF ServiceState
      <4> QED BY <1>0, <1>1, <2>3, <3>3, <4>1
    <3>4. CASE svc' = [svc EXCEPT ![j] = Disconnected(r)]
      BY <1>0, <1>1, <2>3, <3>4, DisconnectedState
    <3>5. ASSUME NEW s \in Sockets, svc' = [svc EXCEPT ![j].phase = "open", ![j].sock = s]
          PROVE  svc'[k].shown >= svc[k].shown
      <4> DEFINE y == [r EXCEPT !.phase = "open", !.sock = s]
      <4>1. y.shown = r.shown
        BY <1>0 DEF ServiceState
      <4>2. svc' = [svc EXCEPT ![j] = y]
        BY <1>0, <3>5
      <4> QED BY <1>0, <1>1, <2>3, <4>1, <4>2
    <3> QED BY <1>0, <3>1, <3>2, <3>3, <3>4, <3>5
  <2> QED BY <2>1, <2>2, <2>3
<1>6. ASSUME NEW j \in Stores, HearError(j) PROVE svc'[k].shown >= svc[k].shown
  <2> DEFINE closed == [svc EXCEPT ![j] = Idle]
  <2>1. /\ closed \in [Stores -> ServiceState] /\ closed[j] = Idle
        /\ \A i \in Stores \ {j} : closed[i] = svc[i]
    BY <1>0, IdleState
  <2>2. svc' = [closed EXCEPT ![cur] = Disposed(closed[cur])]
    BY <1>6 DEF HearError
  <2> HIDE DEF closed
  <2>3. /\ svc'[cur] = Disposed(closed[cur]) /\ closed[cur] \in ServiceState
        /\ \A i \in Stores \ {cur} : svc'[i] = closed[i]
    BY <1>0, <2>1, <2>2
  <2>4. k # cur
    BY <2>3, DisposedState DEF Alive
  <2>5. k # j
    BY <2>1, <2>3, <2>4, IdleState DEF Alive
  <2> QED BY <1>2, <2>1, <2>3, <2>4, <2>5
<1>7. CASE LoginSuccess
  <2>1. PICK made \in SUBSET {j \in Stores : svc[j].phase = "none"} :
           svc' = [j \in Stores |-> IF j \in made THEN NewStore ELSE svc[j]]
    BY <1>7, LoginMakes
  <2>2. svc'[k] = svc[k]
    BY <2>1 DEF Alive
  <2> QED BY <1>2, <2>2
<1>8. CASE Logout
  <2>1. svc' = [svc EXCEPT ![cur] = Disposed(svc[cur])]
    BY <1>8 DEF Logout
  <2>2. k # cur
    BY <1>0, <2>1, DisposedState DEF Alive
  <2>3. svc'[k] = svc[k]
    BY <1>0, <2>1, <2>2
  <2> QED BY <1>2, <2>3
<1> QED BY <1>4, <1>5, <1>6, <1>7, <1>8 DEF Next, Service

\* websocket_service.dart and ws.rs: lost and skipped messages, reconnects and
\* new subscriptions never take the screen back to an older reading.
THEOREM ScreenGoesForward == Spec => Forward
<1>1. TypeInv /\ OrderInv /\ [Next]_vars =>
        [\A k \in Stores : Alive(k) /\ Alive(k)' => svc'[k].shown >= svc[k].shown]_vars
  BY ForwardStep
<1> QED BY <1>1, TypeInit, TypeStep, OrderInit, OrderStep, PTL DEF Spec, Forward
=============================================================================
