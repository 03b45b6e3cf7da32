----------------------------- MODULE RateLimiter -----------------------------
(***************************************************************************)
(* The token bucket of server/src/rate_limit.rs.  The code keeps tokens    *)
(* and elapsed seconds as f64; here both are counted in a unit so small    *)
(* that they are naturals: a request costs Cost units, a bucket refills    *)
(* Rate units per tick.  With ticks of a millisecond the server's limiter  *)
(* (100 tokens, 20 per second, idle buckets dropped after 300 s) is        *)
(* Cost = 50, Rate = 1, Max = 5000, Cutoff = 300000.                       *)
(*                                                                         *)
(* check() and cleanup() hold the mutex from start to end, so each is one  *)
(* action.                                                                 *)
(***************************************************************************)
EXTENDS Integers

CONSTANTS
    Ips,            \* client addresses
    None,
    MaxTokens,      \* max_tokens, in units
    Rate,           \* refill_rate, units per tick
    Cost,           \* one token, in units
    Cutoff,         \* idle ticks after which cleanup drops a bucket
    RetryAfter,     \* the retry-after header of a refusal, in ticks
    MaxTime         \* bound: the clock

Bucket == [tokens : 0..MaxTokens, last_refill : Nat]

ASSUME LimiterAssumption ==
    /\ MaxTokens \in Nat /\ Rate \in Nat /\ Cost \in Nat \ {0}
    /\ Cutoff \in Nat /\ RetryAfter \in Nat /\ MaxTime \in Nat
    /\ None \notin Nat /\ None \notin Bucket

\* 20/s * 300 s >= 100: an idle bucket is full again before it is dropped.
ASSUME CutoffAssumption == Rate * Cutoff >= MaxTokens

\* 20/s * 5 s >= 1 token, and a full bucket holds a token.
ASSUME RetryAssumption == Rate * RetryAfter >= Cost /\ MaxTokens >= Cost

VARIABLES
    buckets,   \* buckets[ip]: [tokens, last_refill], or None
    now,       \* Instant::now()
    (* history, not state of the program: *)
    admitted,  \* admitted[ip]: requests let through
    mark,      \* mark[ip]: where an observation window of ip begins
    refused    \* refused[ip]: time of the last request if it was refused

vars == <<buckets, now, admitted, mark, refused>>

Mark == [time : Nat, admitted : Nat]

TypeOK ==
    /\ buckets \in [Ips -> Bucket \cup {None}]
    /\ now \in Nat
    /\ admitted \in [Ips -> Nat]
    /\ mark \in [Ips -> Mark]
    /\ refused \in [Ips -> Nat \cup {None}]
    /\ \A ip \in Ips : /\ mark[ip].time <= now
                       /\ mark[ip].admitted <= admitted[ip]
                       /\ buckets[ip] # None => buckets[ip].last_refill <= now

Init ==
    /\ buckets = [ip \in Ips |-> None]
    /\ now = 0
    /\ admitted = [ip \in Ips |-> 0]
    /\ mark = [ip \in Ips |-> [time |-> 0, admitted |-> 0]]
    /\ refused = [ip \in Ips |-> None]

AtMost(x, m) == IF x <= m THEN x ELSE m

\* Wrong: the refill is not capped.
RefilledUncapped(b) == b.tokens + Rate * (now - b.last_refill)

\* (tokens + elapsed * refill_rate).min(max_tokens)
Refilled(b) == AtMost(b.tokens + Rate * (now - b.last_refill), MaxTokens)

\* What a request of ip finds now: or_insert gives a new bucket all tokens.
Available(ip) ==
    IF buckets[ip] = None THEN MaxTokens ELSE Refilled(buckets[ip])

\* The bucket that check() leaves behind.
CheckedBucket(ip, taken) ==
    [tokens |-> Available(ip) - taken, last_refill |-> now]

\* check() returns true.
Admit(ip) ==
    /\ Available(ip) >= Cost
    /\ buckets' = [buckets EXCEPT ![ip] = CheckedBucket(ip, Cost)]
    /\ admitted' = [admitted EXCEPT ![ip] = @ + 1]
    /\ refused' = [refused EXCEPT ![ip] = None]
    /\ UNCHANGED <<now, mark>>

\* Wrong: a refused request is charged as well.
RefuseCharges(ip) ==
    /\ Available(ip) < Cost
    /\ buckets' = [buckets EXCEPT ![ip] = CheckedBucket(ip, Cost)]
    /\ refused' = [refused EXCEPT ![ip] = now]
    /\ UNCHANGED <<now, mark, admitted>>

\* check() returns false: 429 with retry-after.
Refuse(ip) ==
    /\ Available(ip) < Cost
    /\ buckets' = [buckets EXCEPT ![ip] = CheckedBucket(ip, 0)]
    /\ refused' = [refused EXCEPT ![ip] = now]
    /\ UNCHANGED <<now, mark, admitted>>

\* Wrong: drops every bucket that was not used in this instant.
ExpiredEarly(b) == now - b.last_refill >= 1

Expired(b) == now - b.last_refill >= Cutoff

\* cleanup(), which is there to be called from a background task.  (Nothing in
\* main.rs calls it: the behaviours of the server are those without it.)
Cleanup ==
    /\ buckets' = [ip \in Ips |->
                     IF buckets[ip] # None /\ Expired(buckets[ip])
                       THEN None ELSE buckets[ip]]
    /\ UNCHANGED <<now, admitted, mark, refused>>

Tick ==
    /\ now < MaxTime
    /\ now' = now + 1
    /\ UNCHANGED <<buckets, admitted, mark, refused>>

\* An observer starts to count the requests of ip.
OpenWindow(ip) ==
    /\ mark' = [mark EXCEPT ![ip] = [time |-> now, admitted |-> admitted[ip]]]
    /\ UNCHANGED <<buckets, now, admitted, refused>>

Next ==
    \/ Tick
    \/ Cleanup
    \/ \E ip \in Ips : Admit(ip) \/ Refuse(ip) \/ OpenWindow(ip)

Spec == Init /\ [][Next]_vars

-----------------------------------------------------------------------------
(* Properties.                                                             *)

\* In every window of time, wherever it begins, a client gets at most the
\* burst plus the sustained rate times the length of the window: "token-bucket
\* per IP (100 burst, 20/sec)".  Dropping idle buckets does not break it.
WindowBounded ==
    \A ip \in Ips :
        Cost * (admitted[ip] - mark[ip].admitted)
            <= MaxTokens + Rate * (now - mark[ip].time)

\* The strengthening that is inductive: what the client could still take now
\* is paid for as well.
WindowPaid ==
    \A ip \in Ips :
        Cost * (admitted[ip] - mark[ip].admitted) + Available(ip)
            <= MaxTokens + Rate * (now - mark[ip].time)

\* The retry-after header is honest: a client that was refused and then waits
\* as long as it says finds a token, even if its bucket was dropped meanwhile.
RetryHonest ==
    \A ip \in Ips :
        refused[ip] # None /\ now >= refused[ip] + RetryAfter
            => Available(ip) >= Cost
=============================================================================
