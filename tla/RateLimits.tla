----------------------------- MODULE RateLimits -----------------------------
(***************************************************************************)
(* The two rate limiters of the API (security/rate_limit.py): counters in  *)
(* the memory of a local or test process, and counters in Redis that the   *)
(* production replicas share.  The same requests are put to both, so that  *)
(* their answers can be compared; a deployment has one of the two.         *)
(***************************************************************************)
EXTENDS Integers

CONSTANTS
    Keys,           \* an actor and the bucket of its request
    MaxRequests,    \* of the bucket
    Window,         \* of the bucket, in ticks of the clock
    MaxTime         \* bound on the clock

VARIABLES
    now,
    memory,         \* _counters: key -> start of its window and requests admitted
    redis,          \* key -> the value of its counter and when it expires
    faultless       \* the keys for which Redis has always answered

rateVars == <<now, memory, redis, faultless>>

ASSUME RateAssumption ==
    /\ MaxRequests \in Nat \ {0}
    /\ Window \in Nat \ {0}
    /\ MaxTime \in Nat

Unused == [start |-> 0, count |-> 0]

Expired == [count |-> 0, expires |-> 0]

RateTypeOK ==
    /\ now \in Nat
    /\ memory \in [Keys -> [start : Nat, count : 0 .. MaxRequests]]
    /\ redis \in [Keys -> [count : 0 .. MaxRequests + 1, expires : Nat]]
    /\ faultless \subseteq Keys

RateInit ==
    /\ now = 0
    /\ memory = [k \in Keys |-> Unused]
    /\ redis = [k \in Keys |-> Expired]
    /\ faultless = Keys

Tick ==
    /\ now < MaxTime
    /\ now' = now + 1
    /\ UNCHANGED <<memory, redis, faultless>>
-----------------------------------------------------------------------------
\* RateLimiter.allow.
WindowIsOpen(k) == memory[k].count > 0 /\ now - memory[k].start < Window

MemoryAdmits(k) == ~WindowIsOpen(k) \/ memory[k].count < MaxRequests

Counted(k) ==
    IF ~MemoryAdmits(k)     THEN memory[k]
    ELSE IF WindowIsOpen(k) THEN [memory[k] EXCEPT !.count = @ + 1]
    ELSE [start |-> now, count |-> 1]

\* RedisRateLimiter.allow: INCR, and PEXPIRE for the first of a window.  The
\* counter goes on counting refused requests; one above the limit stands for
\* all the values there.
CounterLives(k) == redis[k].count > 0 /\ now < redis[k].expires

RedisAdmits(k) == ~CounterLives(k) \/ redis[k].count < MaxRequests

\* Mutant of Incremented: every request renews the expiry.
IncrementedAndRenewed(k) ==
    [count   |-> IF ~CounterLives(k) THEN 1
                 ELSE IF redis[k].count > MaxRequests THEN redis[k].count
                 ELSE redis[k].count + 1,
     expires |-> now + Window]

Incremented(k) ==
    IF ~CounterLives(k)                   THEN [count |-> 1, expires |-> now + Window]
    ELSE IF redis[k].count <= MaxRequests THEN [redis[k] EXCEPT !.count = @ + 1]
    ELSE redis[k]

Ask(k) ==
    /\ memory' = [memory EXCEPT ![k] = Counted(k)]
    /\ redis' = [redis EXCEPT ![k] = Incremented(k)]
    /\ UNCHANGED <<now, faultless>>

\* The request is refused; Redis may have counted it.
RedisFails(k) ==
    /\ memory' = [memory EXCEPT ![k] = Counted(k)]
    /\ redis' \in {redis, [redis EXCEPT ![k] = Incremented(k)]}
    /\ faultless' = faultless \ {k}
    /\ UNCHANGED now

RateNext == Tick \/ \E k \in Keys : Ask(k) \/ RedisFails(k)

RateSpec == RateInit /\ [][RateNext]_rateVars
-----------------------------------------------------------------------------
(***************************************************************************)
(* What is tested with counters in memory is what runs with counters in    *)
(* Redis: as long as Redis answers for a key, a request with it is         *)
(* admitted by both or by none, although the one never counts refused      *)
(* requests and the other never looks at a clock (RateLimiter,             *)
(* RedisRateLimiter).                                                      *)
(***************************************************************************)
LimitersAgree == \A k \in faultless : MemoryAdmits(k) <=> RedisAdmits(k)
=============================================================================
