-------------------------- MODULE WritePathProofs --------------------------
(***************************************************************************)
(* Proofs about WritePath, for every set of writes and every capacity of   *)
(* the channel: what the audit trail says was executed was executed, once, *)
(* and the whole path implements the queue of WriteQueue.                  *)
(***************************************************************************)
EXTENDS WritePath, FiniteSetTheorems, SequenceTheorems, TLAPS

(* Sequences of requests.                                                  *)

Among(x, q) == \E i \in DOMAIN q : q[i] = x
Distinct(q) == \A i, j \in DOMAIN q : q[i] = q[j] => i = j

LEMMA AppendAmong ==
    ASSUME NEW S, NEW q \in Seq(S), NEW m \in S
    PROVE  /\ Append(q, m) \in Seq(S) /\ Len(Append(q, m)) = Len(q) + 1
           /\ \A x : Among(x, Append(q, m)) <=> Among(x, q) \/ x = m
           /\ Distinct(q) /\ ~Among(m, q) => Distinct(Append(q, m))
<1> DEFINE a == Append(q, m)
           n == Len(q)
<1>1. /\ a \in Seq(S) /\ n \in Nat /\ Len(a) = n + 1
      /\ DOMAIN q = 1..n /\ DOMAIN a = 1..(n + 1)
      /\ a[n + 1] = m /\ \A i \in 1..n : a[i] = q[i]
  OBVIOUS
<1>2. \A i \in 1..(n + 1) : i \in 1..n \/ i = n + 1
  BY <1>1
<1>3. n + 1 \in 1..(n + 1) /\ \A i \in 1..n : i \in 1..(n + 1)
  BY <1>1
<1> HIDE DEF a, n
<1>4. \A x : Among(x, a) <=> Among(x, q) \/ x = m
  BY <1>1, <1>2, <1>3 DEF Among
<1>5. ASSUME Distinct(q), ~Among(m, q) PROVE Distinct(a)
  BY <1>1, <1>2, <1>5 DEF Distinct, Among
<1> QED BY <1>1, <1>4, <1>5 DEF a, n

LEMMA TailAmong ==
    ASSUME NEW S, NEW q \in Seq(S), q # <<>>
    PROVE  /\ Tail(q) \in Seq(S) /\ Head(q) \in S /\ Len(Tail(q)) = Len(q) - 1
           /\ \A x : Among(x, q) <=> x = Head(q) \/ Among(x, Tail(q))
           /\ Distinct(q) => Distinct(Tail(q)) /\ ~Among(Head(q), Tail(q))
<1> DEFINE a == Tail(q)
           n == Len(q)
<1>1. /\ a \in Seq(S) /\ n \in Nat /\ n >= 1 /\ Len(a) = n - 1
      /\ DOMAIN q = 1..n /\ DOMAIN a = 1..(n - 1)
      /\ Head(q) = q[1] /\ Head(q) \in S /\ \A i \in 1..(n - 1) : a[i] = q[i + 1]
  OBVIOUS
<1>2. \A i \in 1..(n - 1) : i + 1 \in 1..n /\ i + 1 # 1
  BY <1>1
<1>3. 1 \in 1..n /\ \A i \in 1..n : i = 1 \/ (i - 1 \in 1..(n - 1) /\ (i - 1) + 1 = i)
  BY <1>1
<1> HIDE DEF a, n
<1>4. \A x : Among(x, q) <=> x = Head(q) \/ Among(x, a)
  <2>1. ASSUME NEW x, Among(x, q) PROVE x = Head(q) \/ Among(x, a)
    <3>1. PICK i \in 1..n : q[i] = x
      BY <1>1, <2>1 DEF Among
    <3>2. CASE i = 1
      BY <1>1, <3>1, <3>2
    <3>3. CASE i # 1
      <4>1. i - 1 \in 1..(n - 1) /\ a[i - 1] = x
        BY <1>1, <1>3, <3>1, <3>3
      <4> QED BY <1>1, <4>1 DEF Among
    <3> QED BY <3>2, <3>3
  <2>2. ASSUME NEW x, x = Head(q) \/ Among(x, a) PROVE Among(x, q)
    <3>1. CASE x = Head(q)
      BY <1>1, <1>3, <3>1 DEF Among
    <3>2. CASE Among(x, a)
      <4>1. PICK i \in 1..(n - 1) : a[i] = x
        BY <1>1, <3>2 DEF Among
      <4>2. i + 1 \in 1..n /\ q[i + 1] = x
        BY <1>1, <1>2, <4>1
      <4> QED BY <1>1, <4>2 DEF Among
    <3> QED BY <2>2, <3>1, <3>2
  <2> QED BY <2>1, <2>2
<1>5. ASSUME Distinct(q) PROVE Distinct(a) /\ ~Among(Head(q), a)
  <2>1. ASSUME NEW i \in 1..(n - 1), NEW j \in 1..(n - 1), a[i] = a[j] PROVE i = j
    <3>1. q[i + 1] = q[j + 1] /\ i + 1 \in 1..n /\ j + 1 \in 1..n
      BY <1>1, <1>2, <2>1
    <3>2. i + 1 = j + 1
      BY <1>1, <1>5, <3>1 DEF Distinct
    <3> QED BY <3>2
  <2>2. ASSUME NEW i \in 1..(n - 1), a[i] = Head(q) PROVE FALSE
    <3>1. q[i + 1] = q[1] /\ i + 1 \in 1..n /\ 1 \in 1..n
      BY <1>1, <1>2, <1>3, <2>2
    <3>2. i + 1 = 1
      BY <1>1, <1>5, <3>1 DEF Distinct
    <3> QED BY <3>2
  <2> QED BY <1>1, <2>1, <2>2 DEF Distinct, Among
<1> QED BY <1>1, <1>4, <1>5 DEF a, n

\* The others move up.
LEMMA WithoutAmong ==
    ASSUME NEW S, NEW q \in Seq(S), NEW p \in DOMAIN q
    PROVE  /\ Without(q, p) \in Seq(S)
           /\ \A x : Among(x, Without(q, p)) => Among(x, q)
           /\ Distinct(q) => Distinct(Without(q, p)) /\ ~Among(q[p], Without(q, p))
<1> DEFINE n == Len(q)
           a == Without(q, p)
           up(i) == IF i < p THEN i ELSE i + 1
<1>1. n \in Nat /\ DOMAIN q = 1..n /\ p \in 1..n /\ n - 1 \in Nat /\ \A i \in 1..n : q[i] \in S
  OBVIOUS
<1>2. \A i \in 1..(n - 1) : up(i) \in 1..n /\ up(i) # p
  BY <1>1
<1>3. \A i, j \in 1..(n - 1) : up(i) = up(j) => i = j
  BY <1>1
<1>4. DOMAIN a = 1..(n - 1) /\ \A i \in 1..(n - 1) : a[i] = q[up(i)]
  BY DEF Without
<1>5. a \in Seq(S)
  <2>1. a \in [1..(n - 1) -> S]
    BY <1>1, <1>2 DEF Without
  <2> QED BY <1>1, <2>1, SeqDef
<1> HIDE DEF a, n, up
<1>6. \A x : Among(x, a) => Among(x, q)
  BY <1>1, <1>2, <1>4 DEF Among
<1>7. ASSUME Distinct(q) PROVE Distinct(a) /\ ~Among(q[p], a)
  BY <1>1, <1>2, <1>3, <1>4, <1>7 DEF Distinct, Among
<1> QED BY <1>5, <1>6, <1>7 DEF a

LEMMA EmptyAmong == Distinct(<<>>) /\ \A x : ~Among(x, <<>>)
BY DEF Distinct, Among

\* A value that is there, in a sequence without repetitions, is there once.
LEMMA Once ==
    ASSUME NEW q \in Seq(Writes), Distinct(q), NEW x, Among(x, q)
    PROVE  Cardinality({i \in DOMAIN q : q[i] = x}) = 1
<1>1. PICK i \in DOMAIN q : q[i] = x
  BY DEF Among
<1>2. {j \in DOMAIN q : q[j] = x} = {i}
  BY <1>1 DEF Distinct
<1> QED BY <1>2, FS_Singleton

-----------------------------------------------------------------------------
(* The invariant.  A write is with its handler, then in the channel, then  *)
(* with the polling task, then executed, and never in two of these places. *)

Sent(w) == Among(w, chan) \/ poller.cmd = w \/ Among(w, applied)

\* Who waits for the lock is there once, and nowhere else.
LockPart ==
    /\ Distinct(lockq)
    /\ \A r \in Writes \cup {Admin} : Among(r, lockq) => req[r] = "lock"

\* A write is sent once ...
NewPart == \A w \in Writes : req[w] \in {"new", "lock", "send"} => ~Sent(w)

\* ... and executed at most once.
OncePart ==
    /\ Distinct(chan) /\ Distinct(applied)
    /\ \A w \in Writes : Among(w, chan) => poller.cmd # w /\ ~Among(w, applied)
    /\ Outgoing => ~Among(poller.cmd, applied)

CmdPart ==
    /\ poller.pc \in {"write", "reply"} => poller.cmd # None
    /\ poller.pc \in {"connect", "loop", "read"} => poller.cmd = None
    /\ poller.pc = "reply" => Among(poller.cmd, applied)

\* "ok" is answered only after the write was executed.
AnswerPart ==
    \A w \in Writes :
        /\ resp[w] = "ok" \/ req[w] \in {"audit", "ok"} \/ w \in audit => Among(w, applied)
        /\ req[w] \in {"send", "await", "audit", "ok"} \/ w \in audit => w \notin ReadOnly

WriteInv == TypeOK /\ LockPart /\ NewPart /\ OncePart /\ CmdPart /\ AnswerPart

LEMMA WriteInit == Init => WriteInv
<1> SUFFICES ASSUME Init PROVE WriteInv
  OBVIOUS
<1>1. /\ lockq = <<>> /\ chan = <<>> /\ applied = <<>> /\ audit = {} /\ readers = {}
      /\ poller = [pc |-> "connect", cmd |-> None, aborted |-> FALSE]
      /\ req = [r \in Writes \cup {Admin} |-> "new"]
      /\ resp = [w \in Writes |-> "none"]
  BY DEF Init
<1>2. TypeOK
  <2>1. <<>> \in Seq(Writes) /\ <<>> \in Seq(Writes \cup {Admin}) /\ Len(<<>>) <= Capacity
    BY WritePathAssumption
  <2> QED BY <1>1, <2>1 DEF Init, TypeOK, ReqPcs
<1>3. LockPart /\ OncePart
  BY <1>1, EmptyAmong DEF LockPart, OncePart, Outgoing
<1>4. NewPart /\ CmdPart
  BY <1>1, EmptyAmong, WritePathAssumption DEF NewPart, CmdPart, Sent
<1>5. AnswerPart
  BY <1>1 DEF AnswerPart
<1> QED BY <1>2, <1>3, <1>4, <1>5 DEF WriteInv

\* The request r goes on to pc: neither is it sent nor is it new again.
LEMMA RequestStep ==
    ASSUME WriteInv, NEW r \in Writes \cup {Admin}, NEW pc \in ReqPcs,
           req' = [req EXCEPT ![r] = pc],
           pc \in {"new", "lock", "send"} => req[r] \in {"new", "lock", "send"},
           r \in Writes /\ pc \in {"send", "await", "audit", "ok"} => r \notin ReadOnly,
           r \in Writes /\ pc \in {"audit", "ok"} => Among(r, applied),
           UNCHANGED <<chan, resp, applied, audit>>,
           poller'.pc = poller.pc /\ poller'.cmd = poller.cmd
    PROVE  /\ req' \in [Writes \cup {Admin} -> ReqPcs]
           /\ NewPart' /\ OncePart' /\ CmdPart' /\ AnswerPart'
<1>1. req \in [Writes \cup {Admin} -> ReqPcs]
  BY DEF WriteInv, TypeOK
<1>2. /\ req' \in [Writes \cup {Admin} -> ReqPcs]
      /\ \A w \in Writes : req'[w] = IF w = r THEN pc ELSE req[w]
  BY <1>1
<1>3. NewPart'
  BY <1>2 DEF WriteInv, NewPart, Sent
<1>4. OncePart' /\ CmdPart'
  BY DEF WriteInv, OncePart, CmdPart, Outgoing
<1>5. AnswerPart'
  BY <1>2 DEF WriteInv, AnswerPart
<1> QED BY <1>2, <1>3, <1>4, <1>5

\* Nothing of what the invariant speaks about changes.
LEMMA QuietStep ==
    ASSUME WriteInv, UNCHANGED <<lockq, readers, writer, chan, req, resp, applied, audit>>,
           plc' \in BOOLEAN, link' \in {"none", "up", "cut", "half"},
           entry' \in {"polled", "stopped", "none"},
           poller' \in [pc : {"connect", "loop", "read", "write", "reply", "dead"},
                        cmd : Writes \cup {None}, aborted : BOOLEAN],
           poller'.cmd = poller.cmd,
           \/ poller'.pc = poller.pc
           \/ poller.cmd = None /\ poller'.pc \in {"connect", "loop", "read"}
    PROVE  WriteInv'
<1>1. TypeOK'
  BY DEF WriteInv, TypeOK
<1>2. LockPart' /\ NewPart'
  BY DEF WriteInv, LockPart, NewPart, Sent
<1>3. OncePart' /\ CmdPart'
  BY DEF WriteInv, OncePart, CmdPart, Outgoing
<1>4. AnswerPart'
  BY DEF WriteInv, AnswerPart
<1> QED BY <1>1, <1>2, <1>3, <1>4 DEF WriteInv

\* What the polling task answers.
LEMMA RespondStep ==
    ASSUME WriteInv, NEW answer \in {"ok", "err"}, NEW pc \in {"loop", "connect"},
           poller.pc \in {"write", "reply"}, answer = "ok" => poller.pc = "reply",
           Respond(answer, pc)
    PROVE  WriteInv'
<1>1. /\ resp' = [resp EXCEPT ![poller.cmd] = answer]
      /\ poller' = [poller EXCEPT !.pc = pc, !.cmd = None]
      /\ link' \in {"none", link}
      /\ UNCHANGED <<plc, entry, lockq, readers, writer, chan, req, applied, audit>>
  BY DEF Respond
<1>2. poller.cmd \in Writes
  BY DEF WriteInv, CmdPart, TypeOK
<1>3. /\ resp' \in [Writes -> {"none", "ok", "err", "dropped"}]
      /\ \A w \in Writes : resp'[w] = resp[w] \/ (w = poller.cmd /\ resp'[w] = answer)
  BY <1>1, <1>2 DEF WriteInv, TypeOK
<1>4. /\ poller' \in [pc : {"connect", "loop", "read", "write", "reply", "dead"},
                      cmd : Writes \cup {None}, aborted : BOOLEAN]
      /\ poller'.pc = pc /\ poller'.cmd = None
  BY <1>1 DEF WriteInv, TypeOK
<1>5. TypeOK'
  BY <1>1, <1>3, <1>4 DEF WriteInv, TypeOK
<1>6. LockPart' /\ OncePart' /\ CmdPart'
  BY <1>1, <1>4, WritePathAssumption DEF WriteInv, LockPart, OncePart, CmdPart, Outgoing
<1>7. NewPart'
  BY <1>1, <1>4, WritePathAssumption DEF WriteInv, NewPart, Sent
<1>8. AnswerPart'
  BY <1>1, <1>3 DEF WriteInv, AnswerPart, CmdPart
<1> QED BY <1>5, <1>6, <1>7, <1>8 DEF WriteInv

\* The lock is given to the first in the queue.
LEMMA GrantStep ==
    ASSUME WriteInv, NEW r \in Writes \cup {Admin}, IsNext(r), NEW pc \in ReqPcs \ {"lock"},
           req' = [req EXCEPT ![r] = pc], lockq' = Tail(lockq)
    PROVE  lockq' \in Seq(Writes \cup {Admin}) /\ LockPart' /\ req[r] = "lock"
<1>1. /\ lockq \in Seq(Writes \cup {Admin}) /\ lockq # <<>> /\ Head(lockq) = r
      /\ Distinct(lockq) /\ \A x \in Writes \cup {Admin} : Among(x, lockq) => req[x] = "lock"
      /\ req \in [Writes \cup {Admin} -> ReqPcs]
  BY DEF IsNext, WriteInv, LockPart, TypeOK
<1>2. /\ lockq' \in Seq(Writes \cup {Admin})
      /\ \A x : Among(x, lockq) <=> x = r \/ Among(x, lockq')
      /\ Distinct(lockq') /\ ~Among(r, lockq')
  BY <1>1, TailAmong
<1>3. \A x \in Writes \cup {Admin} : Among(x, lockq') => req'[x] = "lock"
  BY <1>1, <1>2
<1> QED BY <1>1, <1>2, <1>3 DEF LockPart

\* A request that waits for nothing any more leaves the queue as it is.
LEMMA SameQueue ==
    ASSUME WriteInv, NEW r \in Writes \cup {Admin}, NEW pc \in ReqPcs, req[r] # "lock",
           req' = [req EXCEPT ![r] = pc], UNCHANGED lockq
    PROVE  LockPart'
<1>1. req \in [Writes \cup {Admin} -> ReqPcs]
  BY DEF WriteInv, TypeOK
<1> QED BY <1>1 DEF WriteInv, LockPart

LEMMA WriteStep == WriteInv /\ [Next]_vars => WriteInv'
<1> SUFFICES ASSUME WriteInv, [Next]_vars PROVE WriteInv'
  OBVIOUS
<1>0. /\ TypeOK /\ LockPart /\ NewPart /\ OncePart /\ CmdPart /\ AnswerPart
      /\ req \in [Writes \cup {Admin} -> ReqPcs]
  BY DEF WriteInv, TypeOK
<1>p. /\ poller \in [pc : {"connect", "loop", "read", "write", "reply", "dead"},
                     cmd : Writes \cup {None}, aborted : BOOLEAN]
  BY <1>0 DEF TypeOK
<1>1. CASE UNCHANGED vars
  <2>1. TypeOK'
    BY <1>0, <1>1 DEF TypeOK, vars
  <2> QED BY <1>0, <1>1, <1>p, <2>1, QuietStep DEF vars, TypeOK
<1>2. ASSUME NEW r \in Writes \cup {Admin}, Arrive(r) PROVE WriteInv'
  <2>1. /\ req[r] = "new" /\ req' = [req EXCEPT ![r] = "lock"] /\ lockq' = Append(lockq, r)
        /\ UNCHANGED <<plc, link, entry, readers, writer, chan, poller, resp, applied, audit>>
    BY <1>2 DEF Arrive
  <2>2. lockq \in Seq(Writes \cup {Admin}) /\ ~Among(r, lockq) /\ Distinct(lockq)
    BY <1>0, <2>1 DEF TypeOK, LockPart
  <2>3. lockq' \in Seq(Writes \cup {Admin}) /\ LockPart'
    <3>1. /\ lockq' \in Seq(Writes \cup {Admin}) /\ Distinct(lockq')
          /\ \A x : Among(x, lockq') <=> Among(x, lockq) \/ x = r
      BY <2>1, <2>2, AppendAmong
    <3> QED BY <1>0, <2>1, <3>1 DEF LockPart
  <2>4. req' \in [Writes \cup {Admin} -> ReqPcs] /\ NewPart' /\ OncePart' /\ CmdPart' /\ AnswerPart'
    BY <2>1, RequestStep DEF ReqPcs
  <2>5. TypeOK'
    BY <1>0, <2>1, <2>3, <2>4 DEF TypeOK
  <2> QED BY <2>3, <2>4, <2>5 DEF WriteInv
<1>3. ASSUME NEW w \in Writes, Examine(w) PROVE WriteInv'
  <2>1. PICK pc \in {"send", "failed"} :
          /\ IsNext(w) /\ req' = [req EXCEPT ![w] = pc] /\ lockq' = Tail(lockq)
          /\ readers' \subseteq Writes
          /\ pc = "send" => w \notin ReadOnly
          /\ UNCHANGED <<plc, link, entry, writer, chan, poller, resp, applied, audit>>
    BY <1>0, <1>3 DEF Examine, Accepted, TypeOK
  <2>2. lockq' \in Seq(Writes \cup {Admin}) /\ LockPart' /\ req[w] = "lock"
    BY <2>1, GrantStep DEF ReqPcs
  <2>3. req' \in [Writes \cup {Admin} -> ReqPcs] /\ NewPart' /\ OncePart' /\ CmdPart' /\ AnswerPart'
    BY <2>1, <2>2, RequestStep DEF ReqPcs
  <2>4. TypeOK'
    BY <1>0, <2>1, <2>2, <2>3 DEF TypeOK
  <2> QED BY <2>2, <2>3, <2>4 DEF WriteInv
<1>4. ASSUME NEW w \in Writes, Send(w) PROVE WriteInv'
  <2>0. req[w] = "send" /\ w \notin ReadOnly /\ ~Sent(w) /\ readers' \subseteq Writes
        /\ UNCHANGED <<plc, link, entry, lockq, writer, poller, resp, applied, audit>>
    BY <1>0, <1>4 DEF Send, NewPart, AnswerPart, TypeOK
  <2>1. CASE /\ Len(chan) < Capacity /\ chan' = Append(chan, w)
             /\ req' = [req EXCEPT ![w] = "await"]
    <3>1. LockPart'
      BY <2>0, <2>1, SameQueue DEF ReqPcs
    <3>2. /\ chan' \in Seq(Writes) /\ Len(chan') = Len(chan) + 1 /\ Distinct(chan')
          /\ \A x : Among(x, chan') <=> Among(x, chan) \/ x = w
      <4>1. chan \in Seq(Writes) /\ Distinct(chan) /\ ~Among(w, chan)
        BY <1>0, <2>0 DEF TypeOK, OncePart, Sent
      <4> QED BY <2>1, <4>1, AppendAmong
    <3>3. Len(chan') <= Capacity
      <4>1. Len(chan) \in Nat /\ Capacity \in Nat
        BY <1>0, WritePathAssumption DEF TypeOK
      <4> QED BY <2>1, <3>2, <4>1
    <3>4. /\ req' \in [Writes \cup {Admin} -> ReqPcs]
          /\ \A v \in Writes : req'[v] = IF v = w THEN "await" ELSE req[v]
      BY <1>0, <2>1 DEF ReqPcs
    <3>5. TypeOK'
      BY <1>0, <2>0, <3>2, <3>3, <3>4 DEF TypeOK
    <3>6. NewPart'
      BY <1>0, <2>0, <3>2, <3>4 DEF NewPart, Sent
    <3>7. OncePart' /\ CmdPart'
      BY <1>0, <2>0, <3>2 DEF OncePart, CmdPart, Sent, Outgoing
    <3>8. AnswerPart'
      BY <1>0, <2>0, <3>4 DEF AnswerPart
    <3> QED BY <3>1, <3>5, <3>6, <3>7, <3>8 DEF WriteInv
  <2>2. CASE req' = [req EXCEPT ![w] = "failed"] /\ UNCHANGED chan
    <3>1. LockPart'
      BY <2>0, <2>2, SameQueue DEF ReqPcs
    <3>2. req' \in [Writes \cup {Admin} -> ReqPcs] /\ NewPart' /\ OncePart' /\ CmdPart' /\ AnswerPart'
      BY <2>0, <2>2, RequestStep DEF ReqPcs
    <3>3. TypeOK'
      BY <1>0, <2>0, <2>2, <3>2 DEF TypeOK
    <3> QED BY <3>1, <3>2, <3>3 DEF WriteInv
  <2> QED BY <1>4, <2>1, <2>2 DEF Send
<1>5. ASSUME NEW w \in Writes, Answered(w) PROVE WriteInv'
  <2>1. PICK pc \in {"audit", "failed"} :
          /\ req[w] = "await" /\ req' = [req EXCEPT ![w] = pc]
          /\ pc = "audit" => resp[w] = "ok"
          /\ UNCHANGED <<plc, link, entry, lockq, readers, writer, chan, poller, resp, applied, audit>>
    BY <1>5 DEF Answered, Succeeded
  <2>2. LockPart'
    BY <2>1, SameQueue DEF ReqPcs
  <2>3. pc = "audit" => Among(w, applied) /\ w \notin ReadOnly
    BY <1>0, <2>1 DEF AnswerPart
  <2>4. req' \in [Writes \cup {Admin} -> ReqPcs] /\ NewPart' /\ OncePart' /\ CmdPart' /\ AnswerPart'
    BY <2>1, <2>3, RequestStep DEF ReqPcs
  <2>5. TypeOK'
    BY <1>0, <2>1, <2>4 DEF TypeOK
  <2> QED BY <2>2, <2>4, <2>5 DEF WriteInv
<1>6. ASSUME NEW w \in Writes, LogAudit(w) PROVE WriteInv'
  <2>1. /\ req[w] = "audit" /\ req' = [req EXCEPT ![w] = "ok"] /\ audit' = audit \cup {w}
        /\ UNCHANGED <<plc, link, entry, lockq, readers, writer, chan, poller, resp, applied>>
    BY <1>6 DEF LogAudit
  <2>2. LockPart'
    BY <2>1, SameQueue DEF ReqPcs
  <2>3. /\ req' \in [Writes \cup {Admin} -> ReqPcs]
        /\ \A v \in Writes : req'[v] = IF v = w THEN "ok" ELSE req[v]
    BY <1>0, <2>1 DEF ReqPcs
  <2>4. NewPart' /\ OncePart' /\ CmdPart'
    BY <1>0, <2>1, <2>3 DEF NewPart, Sent, OncePart, CmdPart, Outgoing
  <2>5. AnswerPart'
    BY <1>0, <2>1, <2>3 DEF AnswerPart
  <2>6. TypeOK'
    BY <1>0, <2>1, <2>3 DEF TypeOK
  <2> QED BY <2>2, <2>4, <2>5, <2>6 DEF WriteInv
<1>7. ASSUME NEW w \in Writes, HangUp(w) PROVE WriteInv'
  <2>1. /\ req[w] \in {"lock", "send", "await", "audit"} /\ req' = [req EXCEPT ![w] = "gone"]
        /\ readers' \subseteq Writes
        /\ UNCHANGED <<plc, link, entry, writer, chan, poller, resp, applied, audit>>
    BY <1>0, <1>7 DEF HangUp, TypeOK
  <2>2. lockq' \in Seq(Writes \cup {Admin}) /\ LockPart'
    <3>1. CASE req[w] = "lock"
      <4>1. PICK p \in DOMAIN lockq : lockq[p] = w /\ lockq' = Without(lockq, p)
        BY <1>7, <3>1 DEF HangUp
      <4>2. lockq \in Seq(Writes \cup {Admin}) /\ Distinct(lockq)
        BY <1>0 DEF TypeOK, LockPart
      <4>3. /\ lockq' \in Seq(Writes \cup {Admin}) /\ Distinct(lockq') /\ ~Among(w, lockq')
            /\ \A x : Among(x, lockq') => Among(x, lockq)
        BY <4>1, <4>2, WithoutAmong
      <4> QED BY <1>0, <2>1, <4>3 DEF LockPart
    <3>2. CASE req[w] # "lock"
      <4>1. UNCHANGED lockq
        BY <1>7, <3>2 DEF HangUp
      <4>2. LockPart'
        BY <2>1, <3>2, <4>1, SameQueue DEF ReqPcs
      <4> QED BY <1>0, <4>1, <4>2 DEF TypeOK
    <3> QED BY <3>1, <3>2
  <2>3. req' \in [Writes \cup {Admin} -> ReqPcs] /\ NewPart' /\ OncePart' /\ CmdPart' /\ AnswerPart'
    BY <2>1, RequestStep DEF ReqPcs
  <2>4. TypeOK'
    BY <1>0, <2>1, <2>2, <2>3 DEF TypeOK
  <2> QED BY <2>2, <2>3, <2>4 DEF WriteInv
<1>8. CASE Connect \/ Tick \/ ReadReturns \/ ReadFails
  <2>1. PICK pc \in {"loop", "connect", "read"} :
          /\ poller.pc \in {"connect", "loop", "read"} /\ poller' = [poller EXCEPT !.pc = pc]
          /\ link' \in {"none", "up", link}
          /\ UNCHANGED <<plc, entry, lockq, readers, writer, chan, req, resp, applied, audit>>
    BY <1>8 DEF Connect, Tick, ReadReturns, ReadFails
  <2>2. /\ poller' \in [pc : {"connect", "loop", "read", "write", "reply", "dead"},
                        cmd : Writes \cup {None}, aborted : BOOLEAN]
        /\ poller'.pc = pc /\ poller'.cmd = poller.cmd /\ poller.cmd = None
    BY <1>0, <1>p, <2>1 DEF CmdPart
  <2> QED BY <1>0, <2>1, <2>2, QuietStep DEF TypeOK
<1>9. CASE Receive
  <2>1. /\ poller.pc = "loop" /\ chan # <<>>
        /\ poller' = [poller EXCEPT !.pc = "write", !.cmd = Head(chan)] /\ chan' = Tail(chan)
        /\ UNCHANGED <<plc, link, entry, lockq, readers, writer, req, resp, applied, audit>>
    BY <1>9 DEF Receive
  <2>2. chan \in Seq(Writes) /\ Len(chan) <= Capacity /\ Distinct(chan)
    BY <1>0 DEF TypeOK, OncePart
  <2>3. /\ chan' \in Seq(Writes) /\ Head(chan) \in Writes /\ Len(chan') = Len(chan) - 1
        /\ \A x : Among(x, chan) <=> x = Head(chan) \/ Among(x, chan')
        /\ Distinct(chan') /\ ~Among(Head(chan), chan')
    BY <2>1, <2>2, TailAmong
  <2>4. /\ poller' \in [pc : {"connect", "loop", "read", "write", "reply", "dead"},
                        cmd : Writes \cup {None}, aborted : BOOLEAN]
        /\ poller'.pc = "write" /\ poller'.cmd = Head(chan)
    BY <1>p, <2>1, <2>3
  <2>5. TypeOK'
    <3>1. Len(chan) \in Nat /\ Capacity \in Nat
      BY <2>2, WritePathAssumption
    <3>2. Len(chan') <= Capacity
      BY <2>2, <2>3, <3>1
    <3> QED BY <1>0, <2>1, <2>3, <2>4, <3>2 DEF TypeOK
  <2>6. LockPart' /\ AnswerPart'
    BY <1>0, <2>1 DEF LockPart, AnswerPart
  <2>7. NewPart'
    BY <1>0, <2>1, <2>3, <2>4 DEF NewPart, Sent
  <2>8. OncePart'
    BY <1>0, <2>1, <2>3, <2>4 DEF OncePart, Outgoing
  <2>9. CmdPart'
    BY <2>3, <2>4, WritePathAssumption DEF CmdPart
  <2> QED BY <2>5, <2>6, <2>7, <2>8, <2>9 DEF WriteInv
<1>10. CASE WriteOk \/ WriteErr
  <2>1. PICK answer \in {"ok", "err"}, pc \in {"loop", "connect"} :
          /\ poller.pc \in {"write", "reply"} /\ (answer = "ok" => poller.pc = "reply")
          /\ Respond(answer, pc)
    BY <1>10 DEF WriteOk, WriteErr
  <2> QED BY <2>1, RespondStep
<1>11. CASE PlcApplies
  <2>1. /\ poller.pc = "write" /\ applied' = Append(applied, poller.cmd)
        /\ poller' = [poller EXCEPT !.pc = "reply"]
        /\ UNCHANGED <<plc, link, entry, lockq, readers, writer, chan, req, resp, audit>>
    BY <1>11 DEF PlcApplies
  <2>2. poller.cmd \in Writes /\ applied \in Seq(Writes)
        /\ Distinct(applied) /\ ~Among(poller.cmd, applied)
    BY <1>0, <1>p, <2>1 DEF CmdPart, OncePart, Outgoing, TypeOK
  <2>3. /\ applied' \in Seq(Writes) /\ Distinct(applied')
        /\ \A x : Among(x, applied') <=> Among(x, applied) \/ x = poller.cmd
    BY <2>1, <2>2, AppendAmong
  <2>4. /\ poller' \in [pc : {"connect", "loop", "read", "write", "reply", "dead"},
                        cmd : Writes \cup {None}, aborted : BOOLEAN]
        /\ poller'.pc = "reply" /\ poller'.cmd = poller.cmd
    BY <1>p, <2>1
  <2>5. TypeOK'
    BY <1>0, <2>1, <2>3, <2>4 DEF TypeOK
  <2>6. LockPart' /\ CmdPart'
    BY <1>0, <2>1, <2>3, <2>4 DEF LockPart, CmdPart
  <2>7. NewPart'
    BY <1>0, <2>1, <2>3, <2>4 DEF NewPart, Sent
  <2>8. OncePart'
    BY <1>0, <2>1, <2>3, <2>4 DEF OncePart, Outgoing
  <2>9. AnswerPart'
    BY <1>0, <2>1, <2>3 DEF AnswerPart
  <2> QED BY <2>5, <2>6, <2>7, <2>8, <2>9 DEF WriteInv
<1>12. CASE TaskStops
  <2>1. PICK left \in {None} \cup (IF poller.pc = "write" THEN {poller.cmd} ELSE {}) :
           poller' = [poller EXCEPT !.pc = "dead", !.cmd = left]
    BY <1>12 DEF TaskStops
  <2>0. /\ chan' = <<>> /\ link' = "none"
        /\ resp' = [w \in Writes |-> IF w \in Held THEN "dropped" ELSE resp[w]]
        /\ UNCHANGED <<plc, entry, lockq, readers, writer, req, applied, audit>>
    BY <1>12 DEF TaskStops, DroppedResponses
  <2>2. /\ poller' \in [pc : {"connect", "loop", "read", "write", "reply", "dead"},
                        cmd : Writes \cup {None}, aborted : BOOLEAN]
        /\ poller'.pc = "dead" /\ poller'.cmd = left
        /\ left \in {None, poller.cmd} /\ (left # None => poller.pc = "write")
    BY <1>p, <2>1
  <2>3. /\ resp' \in [Writes -> {"none", "ok", "err", "dropped"}]
        /\ \A w \in Writes : resp'[w] = resp[w] \/ resp'[w] = "dropped"
    BY <1>0, <2>0 DEF TypeOK
  <2>4. chan' \in Seq(Writes) /\ Len(chan') <= Capacity
    BY <2>0, WritePathAssumption
  <2>5. TypeOK'
    BY <1>0, <2>0, <2>2, <2>3, <2>4 DEF TypeOK
  <2>6. LockPart' /\ OncePart' /\ CmdPart'
    BY <1>0, <2>0, <2>2, EmptyAmong DEF LockPart, OncePart, CmdPart, Outgoing
  <2>7. NewPart'
    BY <1>0, <2>0, <2>2, EmptyAmong, WritePathAssumption DEF NewPart, Sent
  <2>8. AnswerPart'
    BY <1>0, <2>0, <2>3 DEF AnswerPart
  <2> QED BY <2>5, <2>6, <2>7, <2>8 DEF WriteInv
<1>13. CASE AdminLocks
  <2>1. /\ IsNext(Admin) /\ req' = [req EXCEPT ![Admin] = "send"] /\ lockq' = Tail(lockq)
        /\ writer' = Admin
        /\ UNCHANGED <<plc, link, entry, readers, chan, poller, resp, applied, audit>>
    BY <1>13 DEF AdminLocks
  <2>2. lockq' \in Seq(Writes \cup {Admin}) /\ LockPart' /\ req[Admin] = "lock"
    BY <2>1, GrantStep DEF ReqPcs
  <2>3. req' \in [Writes \cup {Admin} -> ReqPcs] /\ NewPart' /\ OncePart' /\ CmdPart' /\ AnswerPart'
    BY <2>1, <2>2, RequestStep, WritePathAssumption DEF ReqPcs
  <2>4. TypeOK'
    BY <1>0, <2>1, <2>2, <2>3 DEF TypeOK
  <2> QED BY <2>2, <2>3, <2>4 DEF WriteInv
<1>14. CASE AdminStops
  <2>1. /\ req[Admin] = "send" /\ req' = [req EXCEPT ![Admin] = "ok"]
        /\ entry' \in {"stopped", "none"} /\ writer' = None
        /\ poller' = [poller EXCEPT !.aborted = TRUE]
        /\ UNCHANGED <<plc, link, lockq, readers, chan, resp, applied, audit>>
    BY <1>14 DEF AdminStops
  <2>2. LockPart'
    BY <2>1, SameQueue DEF ReqPcs
  <2>3. /\ poller' \in [pc : {"connect", "loop", "read", "write", "reply", "dead"},
                        cmd : Writes \cup {None}, aborted : BOOLEAN]
        /\ poller'.pc = poller.pc /\ poller'.cmd = poller.cmd
    BY <1>p, <2>1
  <2>4. req' \in [Writes \cup {Admin} -> ReqPcs] /\ NewPart' /\ OncePart' /\ CmdPart' /\ AnswerPart'
    BY <2>1, <2>3, RequestStep, WritePathAssumption DEF ReqPcs
  <2>5. TypeOK'
    BY <1>0, <2>1, <2>3, <2>4 DEF TypeOK
  <2> QED BY <2>2, <2>4, <2>5 DEF WriteInv
<1>15. CASE PlcGoesOrComes \/ LinkBreaks
  <2>1. plc' \in BOOLEAN /\ link' \in {"none", "up", "cut", "half"}
    BY <1>0, <1>15 DEF PlcGoesOrComes, LinkBreaks, Broken, TypeOK
  <2> QED BY <1>0, <1>p, <1>15, <2>1, QuietStep DEF PlcGoesOrComes, LinkBreaks, TypeOK
<1>16. CASE PlcAppliesLate
  <2>1. /\ poller.pc = "dead" /\ poller.cmd # None /\ applied' = Append(applied, poller.cmd)
        /\ poller' = [poller EXCEPT !.cmd = None]
        /\ UNCHANGED <<plc, link, entry, lockq, readers, writer, chan, req, resp, audit>>
    BY <1>16 DEF PlcAppliesLate
  <2>2. poller.cmd \in Writes /\ applied \in Seq(Writes)
        /\ Distinct(applied) /\ ~Among(poller.cmd, applied)
    BY <1>0, <1>p, <2>1 DEF OncePart, Outgoing, TypeOK
  <2>3. /\ applied' \in Seq(Writes) /\ Distinct(applied')
        /\ \A x : Among(x, applied') <=> Among(x, applied) \/ x = poller.cmd
    BY <2>1, <2>2, AppendAmong
  <2>4. /\ poller' \in [pc : {"connect", "loop", "read", "write", "reply", "dead"},
                        cmd : Writes \cup {None}, aborted : BOOLEAN]
        /\ poller'.pc = "dead" /\ poller'.cmd = None
    BY <1>p, <2>1
  <2>5. TypeOK'
    BY <1>0, <2>1, <2>3, <2>4 DEF TypeOK
  <2>6. LockPart' /\ CmdPart'
    BY <1>0, <2>1, <2>4 DEF LockPart, CmdPart
  <2>7. NewPart'
    BY <1>0, <2>1, <2>2, <2>3, <2>4, WritePathAssumption DEF NewPart, Sent
  <2>8. OncePart'
    BY <1>0, <2>1, <2>2, <2>3, <2>4, WritePathAssumption DEF OncePart, Outgoing
  <2>9. AnswerPart'
    BY <1>0, <2>1, <2>3 DEF AnswerPart
  <2> QED BY <2>5, <2>6, <2>7, <2>8, <2>9 DEF WriteInv
<1> QED
  BY <1>1, <1>2, <1>3, <1>4, <1>5, <1>6, <1>7, <1>8, <1>9, <1>10, <1>11, <1>12, <1>13,
     <1>14, <1>15, <1>16 DEF Next, HandlerStep, PollerStep, PlcStep, AdminStep

\* Types, and the capacity of the channel.
THEOREM WriteTypeCorrect == Spec => []TypeOK
<1>1. WriteInv => TypeOK
  BY DEF WriteInv
<1> QED BY <1>1, WriteInit, WriteStep, PTL DEF Spec

\* A write_register entry of the audit trail (post_write, log_audit) is about
\* a command that the PLC executed exactly once, to a writable register,
\* whatever is lost, refused, aborted or hung up.
THEOREM AuditTrailIsTrue == Spec => []AuditIsTrue
<1>1. WriteInv => AuditIsTrue
  <2> SUFFICES ASSUME WriteInv, NEW w \in audit PROVE w \notin ReadOnly /\ Times(w) = 1
    BY DEF AuditIsTrue
  <2>1. w \notin ReadOnly /\ Among(w, applied) /\ Distinct(applied) /\ applied \in Seq(Writes)
    BY DEF WriteInv, AnswerPart, OncePart, TypeOK
  <2>2. Cardinality({i \in DOMAIN applied : applied[i] = w}) = 1
    BY <2>1, Once
  <2> QED BY <2>1, <2>2 DEF Times
<1> QED BY <1>1, WriteInit, WriteStep, PTL DEF Spec

-----------------------------------------------------------------------------
(* The path implements the queue.                                          *)

LEMMA QueueAmong == \A x, q : Queue!Among(x, q) <=> Among(x, q)
BY DEF Queue!Among, Among

\* The command at the polling task is in front of those in the channel.
LEMMA FrontOfQueue ==
    ASSUME NEW S, NEW q \in Seq(S), NEW m \in S
    PROVE  /\ <<m>> \o q \in Seq(S) /\ <<m>> \o q # <<>>
           /\ Head(<<m>> \o q) = m /\ Tail(<<m>> \o q) = q
           /\ \A x : Among(x, <<m>> \o q) <=> x = m \/ Among(x, q)
<1> DEFINE a == <<m>> \o q
           n == Len(q)
<1>1. <<m>> \in Seq(S) /\ Len(<<m>>) = 1 /\ <<m>>[1] = m
  OBVIOUS
<1>2. /\ a \in Seq(S) /\ n \in Nat /\ Len(a) = 1 + n
      /\ \A i \in 1..(1 + n) : a[i] = IF i <= 1 THEN <<m>>[i] ELSE q[i - 1]
  BY <1>1, ConcatProperties
<1> HIDE DEF a
<1>3. a # <<>> /\ Head(a) = m
  <2>1. a[1] = m
    BY <1>1, <1>2
  <2> QED BY <1>2, <2>1
<1>4. Tail(a) = q
  <2>1. /\ Tail(a) \in Seq(S) /\ Len(Tail(a)) = Len(a) - 1
        /\ \A i \in 1..(Len(a) - 1) : Tail(a)[i] = a[i + 1]
    BY <1>2, <1>3
  <2>2. Len(Tail(a)) = n
    BY <1>2, <2>1
  <2>3. \A i \in 1..n : Tail(a)[i] = q[i]
    <3> TAKE i \in 1..n
    <3>1. i \in 1..(Len(a) - 1) /\ i + 1 \in 1..(1 + n) /\ ~(i + 1 <= 1) /\ (i + 1) - 1 = i
      BY <1>2
    <3> QED BY <1>2, <2>1, <3>1
  <2> QED BY <2>1, <2>2, <2>3, SeqEqual
<1>5. \A x : Among(x, a) <=> x = m \/ Among(x, q)
  BY <1>2, <1>3, <1>4, TailAmong
<1> QED BY <1>2, <1>3, <1>4, <1>5 DEF a

LEMMA PendingFacts ==
    ASSUME WriteInv
    PROVE  /\ Outgoing => poller.cmd \in Writes /\ Pending = <<poller.cmd>> \o chan
           /\ ~Outgoing => Pending = chan
           /\ poller.pc = "write" => Outgoing
           /\ Pending \in Seq(Writes)
           /\ \A w \in Writes : ~Sent(w) => ~Among(w, Pending)
<1>1. /\ chan \in Seq(Writes) /\ (Outgoing => poller.cmd \in Writes)
      /\ poller.pc = "write" => Outgoing
  BY DEF WriteInv, TypeOK, CmdPart, Outgoing
<1>2. CASE Outgoing
  BY <1>1, <1>2, FrontOfQueue DEF Pending, Sent
<1>3. CASE ~Outgoing
  BY <1>1, <1>3 DEF Pending, Sent
<1> QED BY <1>1, <1>2, <1>3

\* What a client is told, when its request goes on to pc.
Answer(pc) == IF pc = "ok" THEN "success" ELSE IF pc = "failed" THEN "failure" ELSE "nothing"

LEMMA ToldFacts ==
    ASSUME WriteInv, NEW w \in Writes, NEW pc, req' = [req EXCEPT ![w] = pc]
    PROVE  /\ Told[w] = Answer(req[w])
           /\ Told' = [Told EXCEPT ![w] = Answer(pc)]
<1>1. req \in [Writes \cup {Admin} -> ReqPcs]
  BY DEF WriteInv, TypeOK
<1>2. Told = [v \in Writes |-> Answer(req[v])] /\ Told' = [v \in Writes |-> Answer(req'[v])]
  BY DEF Told, Answer
<1>3. \A v \in Writes : req'[v] = IF v = w THEN pc ELSE req[v]
  BY <1>1
<1> HIDE DEF Told, Answer
<1> QED BY <1>2, <1>3

\* A request that goes on without an answer tells nobody anything.
LEMMA NothingTold ==
    ASSUME WriteInv, NEW r \in Writes \cup {Admin}, NEW pc, req' = [req EXCEPT ![r] = pc],
           r \in Writes => Answer(pc) = Answer(req[r])
    PROVE  UNCHANGED Told
<1>1. req \in [Writes \cup {Admin} -> ReqPcs]
  BY DEF WriteInv, TypeOK
<1>2. Told = [v \in Writes |-> Answer(req[v])] /\ Told' = [v \in Writes |-> Answer(req'[v])]
  BY DEF Told, Answer
<1>3. \A v \in Writes : Answer(req'[v]) = Answer(req[v])
  BY <1>1
<1> HIDE DEF Told, Answer
<1> QED BY <1>2, <1>3

LEMMA QueueInit == Init => Queue!Init
<1> SUFFICES ASSUME Init PROVE Queue!Init
  OBVIOUS
<1>1. Pending = <<>> /\ applied = <<>>
  BY WritePathAssumption DEF Init, Pending, Outgoing
<1>2. Told = [w \in Writes |-> "nothing"]
  BY DEF Init, Told
<1> QED BY <1>1, <1>2 DEF Queue!Init

LEMMA QueueStep == WriteInv /\ WriteInv' /\ [Next]_vars => [Queue!Next]_Queue!queueVars
<1> SUFFICES ASSUME WriteInv, WriteInv', [Next]_vars PROVE [Queue!Next]_Queue!queueVars
  OBVIOUS
<1>0. /\ chan \in Seq(Writes)
      /\ poller \in [pc : {"connect", "loop", "read", "write", "reply", "dead"},
                     cmd : Writes \cup {None}, aborted : BOOLEAN]
  BY DEF WriteInv, TypeOK
<1>s. ASSUME UNCHANGED <<Pending, applied, Told>> PROVE [Queue!Next]_Queue!queueVars
  BY <1>s DEF Queue!queueVars
\* Neither the channel nor the command at the polling task.
<1>q. ASSUME UNCHANGED <<chan, poller>> PROVE UNCHANGED Pending
  BY <1>q DEF Pending, Outgoing
<1>1. CASE UNCHANGED vars
  BY <1>1, <1>s DEF vars, Pending, Outgoing, Told
<1>2. ASSUME NEW r \in Writes \cup {Admin}, Arrive(r) PROVE [Queue!Next]_Queue!queueVars
  <2>1. req[r] = "new" /\ req' = [req EXCEPT ![r] = "lock"] /\ UNCHANGED <<chan, poller, applied>>
    BY <1>2 DEF Arrive
  <2>2. UNCHANGED Told
    BY <2>1, NothingTold DEF Answer
  <2> QED BY <1>s, <1>q, <2>1, <2>2
<1>3. ASSUME NEW w \in Writes, NEW pc, req' = [req EXCEPT ![w] = pc],
             UNCHANGED <<chan, poller, applied>>,
             Answer(req[w]) = "nothing",
             Answer(pc) = "success" => Among(w, applied)
      PROVE  [Queue!Next]_Queue!queueVars
  <2>1. UNCHANGED Pending
    BY <1>3, <1>q
  <2>2. CASE Answer(pc) = "nothing"
    <3>1. UNCHANGED Told
      BY <1>3, <2>2, NothingTold
    <3> QED BY <1>3, <1>s, <2>1, <3>1
  <2>3. CASE Answer(pc) \in {"success", "failure"}
    <3>1. Told[w] = "nothing" /\ Told' = [Told EXCEPT ![w] = Answer(pc)]
      BY <1>3, ToldFacts
    <3>2. Queue!Tell(w, Answer(pc))
      BY <1>3, <2>1, <3>1, QueueAmong DEF Queue!Tell
    <3> QED BY <2>3, <3>2 DEF Queue!Next
  <2> QED BY <2>2, <2>3 DEF Answer
<1>4. ASSUME NEW w \in Writes, Examine(w) PROVE [Queue!Next]_Queue!queueVars
  <2>1. PICK pc \in {"send", "failed"} :
          /\ IsNext(w) /\ req' = [req EXCEPT ![w] = pc] /\ lockq' = Tail(lockq)
          /\ UNCHANGED <<chan, poller, applied>>
    BY <1>4 DEF Examine
  <2>2. req[w] = "lock"
    BY <2>1, GrantStep DEF ReqPcs
  <2> QED BY <1>3, <2>1, <2>2 DEF Answer
<1>5. ASSUME NEW w \in Writes, Answered(w) \/ LogAudit(w) PROVE [Queue!Next]_Queue!queueVars
  <2>1. PICK pc \in {"audit", "failed", "ok"} :
          /\ req[w] \in {"await", "audit"} /\ req' = [req EXCEPT ![w] = pc]
          /\ pc = "ok" => req[w] = "audit"
          /\ UNCHANGED <<chan, poller, applied>>
    BY <1>5 DEF Answered, LogAudit
  <2>2. pc = "ok" => Among(w, applied)
    BY <2>1 DEF WriteInv, AnswerPart
  <2> QED BY <1>3, <2>1, <2>2 DEF Answer
<1>6. ASSUME NEW w \in Writes, HangUp(w) PROVE [Queue!Next]_Queue!queueVars
  BY <1>3, <1>6 DEF HangUp, Answer
<1>7. ASSUME NEW w \in Writes, Send(w) PROVE [Queue!Next]_Queue!queueVars
  <2>1. req[w] = "send" /\ ~Sent(w) /\ UNCHANGED <<poller, applied>>
    BY <1>7 DEF Send, WriteInv, NewPart
  <2>2. CASE chan' = Append(chan, w) /\ req' = [req EXCEPT ![w] = "await"]
    <3>1. UNCHANGED Told
      BY <2>1, <2>2, NothingTold DEF Answer
    <3>2. Pending' = Append(Pending, w)
      <4>0. Outgoing' = Outgoing
        BY <2>1 DEF Outgoing
      <4>1. CASE Outgoing
        <5>1. poller.cmd \in Writes
          BY <4>1, PendingFacts
        <5>2. <<poller.cmd>> \o Append(chan, w) = Append(<<poller.cmd>> \o chan, w)
          BY <1>0, <5>1
        <5> QED BY <2>1, <2>2, <4>0, <4>1, <5>2 DEF Pending
      <4>2. CASE ~Outgoing
        BY <2>1, <2>2, <4>0, <4>2 DEF Pending
      <4> QED BY <4>1, <4>2
    <3>3. Told[w] = "nothing" /\ ~Among(w, Pending) /\ ~Among(w, applied)
      BY <2>1, <2>2, ToldFacts, PendingFacts DEF Answer, Sent
    <3>4. Queue!Take(w)
      BY <2>1, <3>1, <3>2, <3>3, QueueAmong DEF Queue!Take
    <3> QED BY <3>4 DEF Queue!Next
  <2>3. CASE req' = [req EXCEPT ![w] = "failed"] /\ UNCHANGED chan
    BY <1>3, <2>1, <2>3 DEF Answer
  <2> QED BY <1>7, <2>2, <2>3 DEF Send
<1>8. CASE Connect \/ Tick \/ ReadReturns \/ ReadFails
  <2>1. ~Outgoing /\ ~Outgoing' /\ UNCHANGED <<chan, applied, req>>
    BY <1>0, <1>8 DEF Connect, Tick, ReadReturns, ReadFails, Outgoing
  <2> QED BY <1>s, <2>1 DEF Pending, Told
<1>9. CASE Receive
  <2>1. /\ poller.pc = "loop" /\ chan # <<>>
        /\ poller' = [poller EXCEPT !.pc = "write", !.cmd = Head(chan)] /\ chan' = Tail(chan)
        /\ UNCHANGED <<req, applied>>
    BY <1>9 DEF Receive
  <2>2. poller'.cmd = Head(chan) /\ ~Outgoing /\ Outgoing'
    <3>1. Head(chan) \in Writes
      BY <1>0, <2>1
    <3> QED BY <1>0, <2>1, <3>1, WritePathAssumption DEF Outgoing
  <2>3. <<Head(chan)>> \o Tail(chan) = chan
    BY <1>0, <2>1
  <2>4. UNCHANGED Pending
    BY <2>1, <2>2, <2>3 DEF Pending
  <2> QED BY <1>s, <2>1, <2>4 DEF Told
<1>10. ASSUME NEW answer, NEW pc \in {"loop", "connect"}, Respond(answer, pc),
              poller.pc = "write" \/ poller.pc = "reply"
       PROVE  [Queue!Next]_Queue!queueVars
  <2>1. poller'.pc = pc /\ ~Outgoing' /\ UNCHANGED <<chan, req, applied>>
    BY <1>0, <1>10 DEF Respond, Outgoing
  <2>2. Pending' = chan /\ UNCHANGED Told
    BY <2>1 DEF Pending, Told
  <2>3. CASE poller.pc = "write"
    <3>1. Pending # <<>> /\ Tail(Pending) = chan
      BY <1>0, <2>3, PendingFacts, FrontOfQueue
    <3>2. Queue!LoseOne
      BY <2>1, <2>2, <3>1 DEF Queue!LoseOne
    <3> QED BY <3>2 DEF Queue!Next
  <2>4. CASE poller.pc = "reply"
    BY <1>s, <2>1, <2>2, <2>4 DEF Pending, Outgoing
  <2> QED BY <1>10, <2>3, <2>4
<1>11. CASE WriteOk \/ WriteErr
  <2>1. PICK answer \in {"ok", "err"}, pc \in {"loop", "connect"} :
          Respond(answer, pc) /\ poller.pc \in {"write", "reply"}
    BY <1>11 DEF WriteOk, WriteErr
  <2> QED BY <1>10, <2>1
<1>12. CASE PlcApplies \/ PlcAppliesLate
  <2>1. /\ Outgoing /\ applied' = Append(applied, poller.cmd)
        /\ ~Outgoing' /\ UNCHANGED <<chan, req>>
    BY <1>0, <1>12, PendingFacts DEF PlcApplies, PlcAppliesLate, Outgoing
  <2>2. Pending' = chan
    BY <2>1 DEF Pending
  <2>3. Pending # <<>> /\ Head(Pending) = poller.cmd /\ Tail(Pending) = chan
    BY <1>0, <2>1, PendingFacts, FrontOfQueue
  <2>4. Queue!Execute
    BY <2>1, <2>2, <2>3 DEF Queue!Execute, Told
  <2> QED BY <2>4 DEF Queue!Next
<1>13. CASE TaskStops
  <2>1. PICK left \in {None} \cup (IF poller.pc = "write" THEN {poller.cmd} ELSE {}) :
           poller' = [poller EXCEPT !.pc = "dead", !.cmd = left]
    BY <1>13 DEF TaskStops
  <2>2. chan' = <<>> /\ UNCHANGED <<applied, Told>>
    BY <1>13 DEF TaskStops, Told
  <2>3. CASE left = None
    <3>1. Pending' = <<>>
      BY <1>0, <2>1, <2>2, <2>3 DEF Pending, Outgoing
    <3> QED BY <2>2, <3>1 DEF Queue!LoseAll, Queue!Next
  <2>4. CASE left # None
    <3>1. poller.pc = "write" /\ left = poller.cmd /\ left \in Writes
      BY <1>0, <2>1, <2>4, PendingFacts
    <3>2. Pending # <<>> /\ Head(Pending) = left
      BY <1>0, <3>1, PendingFacts, FrontOfQueue
    <3>3. Pending' = <<left>>
      <4>1. poller'.pc = "dead" /\ poller'.cmd = left
        BY <1>0, <2>1
      <4>2. <<left>> \o <<>> = <<left>>
        BY <3>1
      <4> QED BY <2>2, <2>4, <4>1, <4>2 DEF Pending, Outgoing
    <3> QED BY <2>2, <3>2, <3>3 DEF Queue!LoseAll, Queue!Next
  <2> QED BY <2>3, <2>4
<1>14. CASE AdminLocks \/ AdminStops
  <2>1. PICK pc : /\ req' = [req EXCEPT ![Admin] = pc] /\ UNCHANGED <<chan, applied>>
                  /\ poller'.pc = poller.pc /\ poller'.cmd = poller.cmd
    BY <1>0, <1>14 DEF AdminLocks, AdminStops
  <2>2. UNCHANGED Told
    BY <2>1, NothingTold, WritePathAssumption
  <2> QED BY <1>s, <2>1, <2>2 DEF Pending, Outgoing
<1>15. CASE PlcGoesOrComes \/ LinkBreaks
  BY <1>15, <1>s, <1>q DEF PlcGoesOrComes, LinkBreaks, Told
<1> QED
  BY <1>1, <1>2, <1>4, <1>5, <1>6, <1>7, <1>8, <1>9, <1>11, <1>12, <1>13, <1>14, <1>15
  DEF Next, HandlerStep, PollerStep, PlcStep, AdminStep

\* post_write, the lock, the channel, the write branch of the polling loop and
\* the oneshot channel implement WriteQueue: what is taken is executed at most
\* once, in order, or lost, and success is told only of what was executed.
THEOREM PathImplementsQueue == Spec => ImplementsQueue
<1> QED BY WriteInit, WriteStep, QueueInit, QueueStep, PTL DEF Spec, ImplementsQueue, Queue!Spec
=============================================================================
