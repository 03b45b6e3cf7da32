-------------------------- MODULE RateLimiterProofs --------------------------
(***************************************************************************)
(* Proofs about RateLimiter for any burst, rate, cost and cutoff that      *)
(* satisfy the module's assumptions, and any number of clients.            *)
(***************************************************************************)
EXTENDS RateLimiter, TLAPS

\* Multiplication by a constant: what the steps below need of it.
LEMMA TimesNat ==
    ASSUME NEW c \in Nat, NEW x \in Nat
    PROVE  c * x \in Nat /\ c * (x + 1) = c * x + c /\ c * 0 = 0
  OBVIOUS

\* A rate times a longer time gives no fewer tokens.
LEMMA TimesMonotone ==
    ASSUME NEW c \in Nat, NEW x \in Nat, NEW y \in Nat, x <= y
    PROVE  c * x <= c * y
  <1>1. PICK z \in Nat : y = x + z
    <2>1. y - x \in Nat /\ y = x + (y - x)  OBVIOUS
    <2> QED  BY <2>1
  <1>2. c * (x + z) = c * x + c * z  OBVIOUS
  <1>3. c * x \in Nat /\ c * z \in Nat  BY TimesNat
  <1> QED  BY <1>1, <1>2, <1>3

\* A request never finds more than a full bucket.
LEMMA AvailableTyped ==
    ASSUME TypeOK, NEW ip \in Ips
    PROVE  Available(ip) \in 0..MaxTokens
  <1>1. CASE buckets[ip] = None
    BY <1>1, LimiterAssumption DEF Available
  <1>2. CASE buckets[ip] # None
    <2>1. buckets[ip] \in Bucket /\ buckets[ip].last_refill <= now /\ now \in Nat
      BY <1>2 DEF TypeOK
    <2>2. buckets[ip].tokens \in 0..MaxTokens
          /\ now - buckets[ip].last_refill \in Nat
      BY <2>1 DEF Bucket
    <2>3. Rate * (now - buckets[ip].last_refill) \in Nat
      BY <2>2, LimiterAssumption, TimesNat
    <2> QED
      BY <1>2, <2>2, <2>3, LimiterAssumption DEF Available, Refilled, AtMost
  <1> QED  BY <1>1, <1>2

\* After check() took `taken` units, just those are missing.
LEMMA AfterCheck ==
    ASSUME TypeOK, NEW ip \in Ips, NEW taken \in Nat, taken <= Available(ip),
           buckets' = [buckets EXCEPT ![ip] = CheckedBucket(ip, taken)],
           now' = now
    PROVE  /\ CheckedBucket(ip, taken) \in Bucket
           /\ Available(ip)' = Available(ip) - taken
           /\ \A e \in Ips \ {ip} : Available(e)' = Available(e)
  <1>1. Available(ip) \in 0..MaxTokens  BY AvailableTyped
  <1>2. now \in Nat /\ buckets \in [Ips -> Bucket \cup {None}]  BY DEF TypeOK
  <1>3. CheckedBucket(ip, taken) \in Bucket
    BY <1>1, <1>2, LimiterAssumption DEF CheckedBucket, Bucket
  <1>4. buckets'[ip] = CheckedBucket(ip, taken)  BY <1>2
  <1>5. CheckedBucket(ip, taken).tokens = Available(ip) - taken
        /\ CheckedBucket(ip, taken).last_refill = now
    BY DEF CheckedBucket
  <1>6. CheckedBucket(ip, taken) # None  BY <1>3, LimiterAssumption
  <1>7. Available(ip)' = Available(ip) - taken
    BY <1>1, <1>2, <1>4, <1>5, <1>6, LimiterAssumption
       DEF Available, Refilled, AtMost
  <1>8. ASSUME NEW e \in Ips \ {ip} PROVE Available(e)' = Available(e)
    BY <1>2 DEF Available, Refilled
  <1> QED  BY <1>3, <1>7, <1>8

-----------------------------------------------------------------------------
(* The invariant: types, the paid window, and what a refused client is     *)
(* promised, in the form a step can preserve: since the refusal its bucket *)
(* has only been refilled, or dropped when it was full.                    *)

RefusedWaits ==
    \A ip \in Ips :
        refused[ip] # None =>
            /\ refused[ip] <= now
            /\ Available(ip) >= AtMost(Rate * (now - refused[ip]), MaxTokens)

LimiterInv == TypeOK /\ WindowPaid /\ RefusedWaits

\* A new limiter, with no buckets, satisfies the invariant.
LEMMA InitLimiter == Init => LimiterInv
  <1> SUFFICES ASSUME Init PROVE LimiterInv  OBVIOUS
  <1>1. TypeOK  BY LimiterAssumption DEF Init, TypeOK, Mark
  <1>2. WindowPaid
    <2> SUFFICES ASSUME NEW ip \in Ips
                 PROVE  Cost * (admitted[ip] - mark[ip].admitted) + Available(ip)
                           <= MaxTokens + Rate * (now - mark[ip].time)
      BY DEF WindowPaid
    <2>1. admitted[ip] = 0 /\ mark[ip].admitted = 0 /\ mark[ip].time = 0 /\ now = 0
          /\ Available(ip) = MaxTokens
      BY DEF Init, Available
    <2>2. Cost * 0 = 0 /\ Rate * 0 = 0  BY LimiterAssumption, TimesNat
    <2> QED  BY <2>1, <2>2, LimiterAssumption
  <1>3. RefusedWaits  BY DEF RefusedWaits, Init
  <1> QED  BY <1>1, <1>2, <1>3 DEF LimiterInv

\* The numbers of one client that the steps below reason about.
LEMMA Numbers ==
    ASSUME TypeOK, NEW ip \in Ips
    PROVE  /\ now \in Nat /\ admitted[ip] \in Nat
           /\ mark[ip].admitted \in Nat /\ mark[ip].time \in Nat
           /\ admitted[ip] - mark[ip].admitted \in Nat
           /\ now - mark[ip].time \in Nat
           /\ Cost * (admitted[ip] - mark[ip].admitted) \in Nat
           /\ Rate * (now - mark[ip].time) \in Nat
  <1>1. /\ now \in Nat /\ admitted[ip] \in Nat
        /\ mark[ip].admitted \in Nat /\ mark[ip].time \in Nat
        /\ admitted[ip] - mark[ip].admitted \in Nat
        /\ now - mark[ip].time \in Nat
    BY DEF TypeOK, Mark
  <1> QED  BY <1>1, LimiterAssumption, TimesNat

\* check() with a token left keeps it: the request is paid for.
LEMMA AdmitPreserves ==
    ASSUME LimiterInv, NEW ip \in Ips, Admit(ip)
    PROVE  LimiterInv'
  <1>1. TypeOK /\ WindowPaid /\ RefusedWaits  BY DEF LimiterInv
  <1>2. Cost \in Nat /\ Cost <= Available(ip)
        /\ buckets' = [buckets EXCEPT ![ip] = CheckedBucket(ip, Cost)]
        /\ now' = now /\ mark' = mark
        /\ admitted' = [admitted EXCEPT ![ip] = @ + 1]
        /\ refused' = [refused EXCEPT ![ip] = None]
    BY <1>1, AvailableTyped, LimiterAssumption DEF Admit
  <1>3. /\ CheckedBucket(ip, Cost) \in Bucket
        /\ Available(ip)' = Available(ip) - Cost
        /\ \A e \in Ips \ {ip} : Available(e)' = Available(e)
    BY <1>1, <1>2, AfterCheck
  <1>4. CheckedBucket(ip, Cost).last_refill = now  BY DEF CheckedBucket
  <1>5. TypeOK'
    BY <1>1, <1>2, <1>3, <1>4 DEF TypeOK, Mark
  <1>6. WindowPaid'
    <2> SUFFICES ASSUME NEW e \in Ips
                 PROVE  Cost * (admitted'[e] - mark[e].admitted) + Available(e)'
                           <= MaxTokens + Rate * (now - mark[e].time)
      BY <1>2 DEF WindowPaid
    <2>1. CASE e # ip  BY <1>1, <1>2, <1>3, <2>1 DEF WindowPaid, TypeOK
    <2>2. CASE e = ip
      <3> DEFINE x == admitted[e] - mark[e].admitted
      <3>1. x \in Nat /\ Cost * x \in Nat /\ Rate * (now - mark[e].time) \in Nat
            /\ mark[e].admitted \in Nat /\ admitted[e] \in Nat
        BY <1>1, Numbers
      <3>2. admitted'[e] = admitted[e] + 1
        BY <1>1, <1>2, <2>2 DEF TypeOK
      <3>3. admitted'[e] - mark[e].admitted = x + 1  BY <3>1, <3>2
      <3>4. Cost * (x + 1) = Cost * x + Cost
        BY <3>1, LimiterAssumption, TimesNat
      <3>5. Cost * x + Available(e) <= MaxTokens + Rate * (now - mark[e].time)
        BY <1>1 DEF WindowPaid
      <3>6. Available(e) \in Nat /\ Available(e)' = Available(e) - Cost
        BY <1>1, <1>3, <2>2, AvailableTyped
      <3> HIDE DEF x
      <3> QED  BY <1>2, <3>1, <3>3, <3>4, <3>5, <3>6, LimiterAssumption
    <2> QED  BY <2>1, <2>2
  <1>7. RefusedWaits'
    BY <1>1, <1>2, <1>3 DEF RefusedWaits, TypeOK
  <1> QED  BY <1>5, <1>6, <1>7 DEF LimiterInv

\* check() without a token left keeps it.
LEMMA RefusePreserves ==
    ASSUME LimiterInv, NEW ip \in Ips, Refuse(ip)
    PROVE  LimiterInv'
  <1>1. TypeOK /\ WindowPaid /\ RefusedWaits  BY DEF LimiterInv
  <1>2. /\ buckets' = [buckets EXCEPT ![ip] = CheckedBucket(ip, 0)]
        /\ now' = now /\ mark' = mark /\ admitted' = admitted
        /\ refused' = [refused EXCEPT ![ip] = now]
    BY DEF Refuse
  <1>3. Available(ip) \in 0..MaxTokens /\ 0 \in Nat /\ 0 <= Available(ip)
    BY <1>1, AvailableTyped
  <1>4. /\ CheckedBucket(ip, 0) \in Bucket
        /\ Available(ip)' = Available(ip) - 0
        /\ \A e \in Ips \ {ip} : Available(e)' = Available(e)
    BY <1>1, <1>2, <1>3, AfterCheck
  <1>5. CheckedBucket(ip, 0).last_refill = now  BY DEF CheckedBucket
  <1>6. \A e \in Ips : Available(e)' = Available(e)  BY <1>3, <1>4
  <1>7. TypeOK'  BY <1>1, <1>2, <1>4, <1>5 DEF TypeOK
  <1>8. WindowPaid'  BY <1>1, <1>2, <1>6 DEF WindowPaid
  <1>9. RefusedWaits'
    <2> SUFFICES ASSUME NEW e \in Ips, refused'[e] # None
                 PROVE  refused'[e] <= now /\
                        Available(e)' >= AtMost(Rate * (now - refused'[e]), MaxTokens)
      BY <1>2 DEF RefusedWaits
    <2>1. CASE e # ip
      BY <1>1, <1>2, <1>6, <2>1 DEF RefusedWaits, TypeOK
    <2>2. CASE e = ip
      <3>1. refused'[e] = now /\ now \in Nat  BY <1>1, <1>2, <2>2 DEF TypeOK
      <3>2. now - refused'[e] = 0 /\ Rate * 0 = 0
        BY <3>1, LimiterAssumption, TimesNat
      <3>3. AtMost(0, MaxTokens) = 0  BY LimiterAssumption DEF AtMost
      <3> QED  BY <1>3, <1>6, <2>2, <3>1, <3>2, <3>3
    <2> QED  BY <2>1, <2>2
  <1> QED  BY <1>7, <1>8, <1>9 DEF LimiterInv

\* One tick refills every bucket by Rate, up to the burst.
LEMMA TickRefills ==
    ASSUME TypeOK, NEW ip \in Ips, buckets' = buckets, now' = now + 1
    PROVE  Available(ip)' = AtMost(Available(ip) + Rate, MaxTokens)
  <1>1. CASE buckets[ip] = None
    BY <1>1, LimiterAssumption DEF Available, AtMost
  <1>2. CASE buckets[ip] # None
    <2> DEFINE b == buckets[ip]
               x == now - b.last_refill
    <2>1. b \in Bucket /\ b.last_refill <= now /\ now \in Nat
      BY <1>2 DEF TypeOK
    <2>2. b.tokens \in Nat /\ x \in Nat /\ now + 1 - b.last_refill = x + 1
      BY <2>1, LimiterAssumption DEF Bucket
    <2>3. Rate * (x + 1) = Rate * x + Rate /\ Rate * x \in Nat
      BY <2>2, LimiterAssumption, TimesNat
    <2>4. Available(ip) = AtMost(b.tokens + Rate * x, MaxTokens)
      BY <1>2 DEF Available, Refilled
    <2>5. Available(ip)' =
             AtMost(buckets'[ip].tokens + Rate * (now' - buckets'[ip].last_refill),
                    MaxTokens)
      BY <1>2 DEF Available, Refilled
    <2>6. now' - buckets'[ip].last_refill = x + 1 /\ buckets'[ip].tokens = b.tokens
      BY <2>1 DEF Bucket
    <2>7. Available(ip)' = AtMost(b.tokens + Rate * (x + 1), MaxTokens)
      BY <2>5, <2>6
    <2> HIDE DEF b, x
    <2> QED  BY <2>2, <2>3, <2>4, <2>7, LimiterAssumption DEF AtMost
  <1> QED  BY <1>1, <1>2

\* Time keeps it: both sides grow by at most the rate.
LEMMA TickPreserves ==
    ASSUME LimiterInv, Tick
    PROVE  LimiterInv'
  <1>1. TypeOK /\ WindowPaid /\ RefusedWaits  BY DEF LimiterInv
  <1>2. now' = now + 1 /\ now \in Nat
        /\ UNCHANGED <<buckets, admitted, mark, refused>>
    BY <1>1 DEF Tick, TypeOK
  <1>3. TypeOK'
    <2>1. \A ip \in Ips : /\ mark[ip].time <= now + 1
                          /\ buckets[ip] # None => buckets[ip].last_refill <= now + 1
      BY <1>1, <1>2 DEF TypeOK, Mark, Bucket
    <2> QED  BY <1>1, <1>2, <2>1 DEF TypeOK
  <1>4. \A ip \in Ips : /\ Available(ip)' = AtMost(Available(ip) + Rate, MaxTokens)
                        /\ Available(ip) \in 0..MaxTokens
    BY <1>1, <1>2, TickRefills, AvailableTyped
  <1>5. WindowPaid'
    <2> SUFFICES ASSUME NEW e \in Ips
                 PROVE  Cost * (admitted'[e] - mark'[e].admitted) + Available(e)'
                           <= MaxTokens + Rate * (now' - mark'[e].time)
      BY DEF WindowPaid
    <2> DEFINE x == now - mark[e].time
               paid == Cost * (admitted[e] - mark[e].admitted)
    <2>1. x \in Nat /\ paid \in Nat /\ Rate * x \in Nat
          /\ now' - mark'[e].time = x + 1
      BY <1>1, <1>2, Numbers
    <2>2. Rate * (x + 1) = Rate * x + Rate
      BY <2>1, LimiterAssumption, TimesNat
    <2>3. paid + Available(e) <= MaxTokens + Rate * x
      BY <1>1 DEF WindowPaid
    <2>4. Available(e)' \in Nat /\ Available(e)' <= Available(e) + Rate
          /\ Available(e) \in Nat
      BY <1>4, LimiterAssumption DEF AtMost
    <2>6. Cost * (admitted'[e] - mark'[e].admitted) = paid  BY <1>2
    <2> HIDE DEF x, paid
    <2>5. paid + Available(e)' <= MaxTokens + Rate * (x + 1)
      BY <2>1, <2>2, <2>3, <2>4, LimiterAssumption
    <2> QED  BY <2>1, <2>5, <2>6
  <1>6. RefusedWaits'
    <2> SUFFICES ASSUME NEW e \in Ips, refused'[e] # None
                 PROVE  refused'[e] <= now' /\
                        Available(e)' >= AtMost(Rate * (now' - refused'[e]), MaxTokens)
      BY DEF RefusedWaits
    <2> DEFINE x == now - refused[e]
    <2>1. refused[e] \in Nat /\ refused[e] <= now
          /\ Available(e) >= AtMost(Rate * x, MaxTokens)
      BY <1>1, <1>2 DEF RefusedWaits, TypeOK
    <2>2. x \in Nat /\ now' - refused'[e] = x + 1 /\ refused'[e] <= now'
      BY <1>2, <2>1
    <2>3. Rate * (x + 1) = Rate * x + Rate /\ Rate * x \in Nat
      BY <2>2, LimiterAssumption, TimesNat
    <2> HIDE DEF x
    <2>4. Available(e)' >= AtMost(Rate * (x + 1), MaxTokens)
      BY <1>4, <2>1, <2>3, LimiterAssumption DEF AtMost
    <2> QED  BY <2>2, <2>4
  <1> QED  BY <1>3, <1>5, <1>6 DEF LimiterInv

\* cleanup() drops only buckets that are full again: this is where the cutoff
\* of 300 s matters.
LEMMA CleanupNeutral ==
    ASSUME TypeOK, Cleanup, NEW ip \in Ips
    PROVE  Available(ip)' = Available(ip)
  <1>1. now' = now /\ buckets'[ip] = IF buckets[ip] # None /\ Expired(buckets[ip])
                                       THEN None ELSE buckets[ip]
    BY DEF Cleanup
  <1>2. CASE buckets[ip] # None /\ Expired(buckets[ip])
    <2> DEFINE b == buckets[ip]
               x == now - b.last_refill
    <2>1. b \in Bucket /\ b.last_refill <= now /\ now \in Nat
      BY <1>2 DEF TypeOK
    <2>2. b.tokens \in Nat /\ x \in Nat /\ Cutoff <= x
      BY <1>2, <2>1, LimiterAssumption DEF Bucket, Expired
    <2>3. Rate * Cutoff <= Rate * x /\ Rate * x \in Nat /\ Rate * Cutoff \in Nat
      BY <2>2, LimiterAssumption, TimesMonotone, TimesNat
    <2>4. Available(ip) = AtMost(b.tokens + Rate * x, MaxTokens)
      BY <1>2 DEF Available, Refilled
    <2>5. Available(ip)' = MaxTokens
      BY <1>1, <1>2 DEF Available
    <2> HIDE DEF b, x
    <2> QED
      BY <2>2, <2>3, <2>4, <2>5, LimiterAssumption, CutoffAssumption DEF AtMost
  <1>3. CASE ~(buckets[ip] # None /\ Expired(buckets[ip]))
    BY <1>1, <1>3 DEF Available, Refilled
  <1> QED  BY <1>2, <1>3

\* cleanup() keeps it: a bucket that old is full anyway.
LEMMA CleanupPreserves ==
    ASSUME LimiterInv, Cleanup
    PROVE  LimiterInv'
  <1>1. TypeOK /\ WindowPaid /\ RefusedWaits  BY DEF LimiterInv
  <1>2. UNCHANGED <<now, admitted, mark, refused>>  BY DEF Cleanup
  <1>3. TypeOK'  BY <1>1 DEF TypeOK, Cleanup
  <1>4. \A ip \in Ips : Available(ip)' = Available(ip)
    BY <1>1, CleanupNeutral
  <1>5. WindowPaid'  BY <1>1, <1>2, <1>4 DEF WindowPaid
  <1>6. RefusedWaits'  BY <1>1, <1>2, <1>4 DEF RefusedWaits
  <1> QED  BY <1>3, <1>5, <1>6 DEF LimiterInv

\* Wherever a window begins, it begins paid for.
LEMMA WindowPreserves ==
    ASSUME LimiterInv, NEW ip \in Ips, OpenWindow(ip)
    PROVE  LimiterInv'
  <1>1. TypeOK /\ WindowPaid /\ RefusedWaits  BY DEF LimiterInv
  <1>2. /\ UNCHANGED <<buckets, now, admitted, refused>>
        /\ mark' = [mark EXCEPT ![ip] = [time |-> now, admitted |-> admitted[ip]]]
    BY DEF OpenWindow
  <1>3. now \in Nat /\ admitted[ip] \in Nat  BY <1>1 DEF TypeOK
  <1>4. [time |-> now, admitted |-> admitted[ip]] \in Mark  BY <1>3 DEF Mark
  <1>5. \A e \in Ips : Available(e)' = Available(e)
    BY <1>2 DEF Available, Refilled
  <1>6. TypeOK'  BY <1>1, <1>2, <1>3, <1>4 DEF TypeOK
  <1>7. WindowPaid'
    <2> SUFFICES ASSUME NEW e \in Ips
                 PROVE  Cost * (admitted[e] - mark'[e].admitted) + Available(e)
                           <= MaxTokens + Rate * (now - mark'[e].time)
      BY <1>2, <1>5 DEF WindowPaid
    <2>1. CASE e # ip  BY <1>1, <1>2, <2>1 DEF WindowPaid, TypeOK
    <2>2. CASE e = ip
      <3>1. mark'[e].admitted = admitted[e] /\ mark'[e].time = now
        BY <1>1, <1>2, <2>2 DEF TypeOK
      <3>2. admitted[e] - mark'[e].admitted = 0 /\ now - mark'[e].time = 0
        BY <1>3, <2>2, <3>1
      <3>3. Cost * 0 = 0 /\ Rate * 0 = 0  BY LimiterAssumption, TimesNat
      <3>4. Available(e) \in 0..MaxTokens  BY <1>1, AvailableTyped
      <3> QED  BY <3>2, <3>3, <3>4, LimiterAssumption
    <2> QED  BY <2>1, <2>2
  <1>8. RefusedWaits'  BY <1>1, <1>2, <1>5 DEF RefusedWaits
  <1> QED  BY <1>6, <1>7, <1>8 DEF LimiterInv

\* Every step keeps the invariant.
LEMMA StepLimiter == LimiterInv /\ [Next]_vars => LimiterInv'
  <1> SUFFICES ASSUME LimiterInv, [Next]_vars PROVE LimiterInv'  OBVIOUS
  <1>1. CASE UNCHANGED vars
    <2>1. \A e \in Ips : Available(e)' = Available(e)
      BY <1>1 DEF vars, Available, Refilled
    <2> QED
      BY <1>1, <2>1 DEF vars, LimiterInv, TypeOK, WindowPaid, RefusedWaits
  <1> QED
    BY <1>1, TickPreserves, CleanupPreserves, AdmitPreserves, RefusePreserves,
       WindowPreserves DEF Next

-----------------------------------------------------------------------------
\* Buckets, clock and the observers' marks keep their types; no bucket holds
\* more than the burst.
THEOREM LimiterTypeCorrect == Spec => []TypeOK
  <1>1. LimiterInv => TypeOK  BY DEF LimiterInv
  <1> QED  BY <1>1, InitLimiter, StepLimiter, PTL DEF Spec

\* Whatever the client does and whenever the observation starts, it gets no
\* more than burst plus rate times time, with or without cleanup.
THEOREM WindowIsBounded == Spec => []WindowBounded
  <1>1. ASSUME LimiterInv PROVE WindowBounded
    <2> SUFFICES ASSUME NEW ip \in Ips
                 PROVE  Cost * (admitted[ip] - mark[ip].admitted)
                           <= MaxTokens + Rate * (now - mark[ip].time)
      BY DEF WindowBounded
    <2>1. TypeOK /\ WindowPaid  BY <1>1 DEF LimiterInv
    <2>2. Available(ip) \in 0..MaxTokens  BY <2>1, AvailableTyped
    <2>3. Cost * (admitted[ip] - mark[ip].admitted) \in Nat
          /\ Rate * (now - mark[ip].time) \in Nat
      BY <2>1, Numbers
    <2>4. Cost * (admitted[ip] - mark[ip].admitted) + Available(ip)
             <= MaxTokens + Rate * (now - mark[ip].time)
      BY <2>1 DEF WindowPaid
    <2> QED  BY <2>2, <2>3, <2>4, LimiterAssumption
  <1> QED  BY <1>1, InitLimiter, StepLimiter, PTL DEF Spec

\* A refused client that waits for the time of the retry-after header is
\* served.
THEOREM RetryIsHonest == Spec => []RetryHonest
  <1>1. ASSUME LimiterInv PROVE RetryHonest
    <2> SUFFICES ASSUME NEW ip \in Ips, refused[ip] # None,
                        now >= refused[ip] + RetryAfter
                 PROVE  Available(ip) >= Cost
      BY DEF RetryHonest
    <2> DEFINE x == now - refused[ip]
    <2>1. TypeOK /\ RefusedWaits  BY <1>1 DEF LimiterInv
    <2>2. now \in Nat /\ refused[ip] \in Nat
          /\ Available(ip) >= AtMost(Rate * x, MaxTokens)
      BY <2>1 DEF TypeOK, RefusedWaits
    <2>3. x \in Nat /\ RetryAfter <= x  BY <2>2, LimiterAssumption
    <2>4. Rate * RetryAfter <= Rate * x /\ Rate * x \in Nat
          /\ Rate * RetryAfter \in Nat
      BY <2>3, LimiterAssumption, TimesMonotone, TimesNat
    <2>5. Available(ip) \in 0..MaxTokens  BY <2>1, AvailableTyped
    <2> HIDE DEF x
    <2> QED
      BY <2>2, <2>4, <2>5, LimiterAssumption, RetryAssumption DEF AtMost
  <1> QED  BY <1>1, InitLimiter, StepLimiter, PTL DEF Spec
=============================================================================
