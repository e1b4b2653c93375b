----------------------------- MODULE RateLimit -----------------------------
(***************************************************************************)
(* The fixed-window limiter of one route for one client, with the counter  *)
(* in Redis, where a hit is two round trips (INCR and TTL in one pipeline, *)
(* then EXPIRE) that other processes' hits, a crash and the expiry itself  *)
(* fall between, or in the memory of one process, where it is one step.    *)
(* Source: core/ratelimit.py.                                              *)
(***************************************************************************)
EXTENDS Integers, FiniteSets

CONSTANTS
    Callers,         \* requests that may be open at once
    Times, Window,   \* RateLimiter(times, seconds)
    Clock,           \* BOUND: seconds
    Hits,            \* BOUND: requests
    MaxRestarts      \* BOUND: processes killed between the two round trips

ASSUME RateAssumption ==
    /\ Times \in Nat \ {0} /\ Window \in Nat \ {0}
    /\ Clock \in Nat /\ Hits \in Nat /\ MaxRestarts \in Nat
    /\ IsFiniteSet(Callers)

VARIABLES
    backend,         \* REDIS_URL is set and redis was built, or not
    second,          \* the clock
    counter,         \* [count, end]: the key; count 0 when it does not exist
    hit,             \* per request: what the first round trip returned
    admitted,        \* requests let through since the key was created
    answered,        \* requests answered
    restarts

rateVars == <<backend, second, counter, hit, admitted, answered, restarts>>

NoExpiry == Clock + Window + 1       \* TTL -1: the key has no expiry
NoKey == [count |-> 0, end |-> 0]
InRedis == backend = "redis"
NoHit == [pc |-> "idle", count |-> 0, ttl |-> 0]

RateInit ==
    /\ backend \in {"redis", "memory"}       \* _build_backend
    /\ second = 0 /\ counter = NoKey
    /\ hit = [c \in Callers |-> NoHit]
    /\ admitted = 0 /\ answered = 0 /\ restarts = 0

\* The key as the store sees it now: an expired one does not exist.
Alive(key) == key.count > 0 /\ key.end > second
Now(key) == IF Alive(key) THEN key ELSE NoKey

InFlight == Cardinality({c \in Callers : hit[c].pc # "idle"})

Allowed(count) == count <= Times

\* The answer: through, or 429 with Retry-After.
Answer(count, fresh) ==
    /\ admitted' = (IF fresh THEN 0 ELSE admitted) + (IF Allowed(count) THEN 1 ELSE 0)
    /\ answered' = answered + 1

\* _MemoryBackend.hit
MemoryHit ==
    /\ ~InRedis /\ answered < Hits
    /\ LET expired == second >= counter.end
           count == IF expired THEN 1 ELSE counter.count + 1
       IN /\ counter' = [count |-> count, end |-> IF expired THEN second + Window ELSE counter.end]
          /\ Answer(count, expired)
    /\ UNCHANGED <<backend, second, hit, restarts>>

\* A plausible bug: only the first hit of a window sets the expiry.
SetsOnFirstHit(count, ttl) == count = 1

\* The first hit, or one that finds a key left without an expiry.
MustSetExpiry(count, ttl) == count = 1 \/ ttl < 0

\* _RedisBackend.hit: INCR and TTL; a key with an expiry is answered at once.
RedisIncr(c) ==
    LET key == Now(counter)
        count == key.count + 1
        ttl == IF key.count = 0 \/ key.end = NoExpiry THEN -1 ELSE key.end - second
    IN /\ InRedis /\ hit[c].pc = "idle" /\ answered + InFlight < Hits
       /\ counter' = [count |-> count, end |-> IF key.count = 0 THEN NoExpiry ELSE key.end]
       /\ IF MustSetExpiry(count, ttl)
          THEN /\ hit' = [hit EXCEPT ![c] = [pc |-> "expiring", count |-> count, ttl |-> Window]]
               /\ admitted' = IF count = 1 THEN 0 ELSE admitted
               /\ UNCHANGED answered
          ELSE /\ Answer(count, count = 1)
               /\ UNCHANGED hit
       /\ UNCHANGED <<backend, second, restarts>>

\* EXPIRE, which does nothing to a key that is gone; then the answer.
RedisExpire(c) ==
    /\ hit[c].pc = "expiring"
    /\ counter' = IF Alive(counter) THEN [counter EXCEPT !.end = second + Window] ELSE counter
    /\ hit' = [hit EXCEPT ![c] = NoHit]
    /\ Answer(hit[c].count, FALSE)
    /\ UNCHANGED <<backend, second, restarts>>

\* The process dies between the two round trips.
Killed(c) ==
    /\ hit[c].pc = "expiring" /\ restarts < MaxRestarts
    /\ restarts' = restarts + 1
    /\ hit' = [hit EXCEPT ![c] = NoHit]
    /\ UNCHANGED <<backend, second, counter, admitted, answered>>

\* A round trip takes less than a second.
SecondPasses ==
    /\ second < Clock /\ second' = second + 1
    /\ \A c \in Callers : hit[c].pc = "idle"
    /\ UNCHANGED <<backend, counter, hit, admitted, answered, restarts>>

RateNext ==
    \/ MemoryHit
    \/ \E c \in Callers : RedisIncr(c) \/ RedisExpire(c) \/ Killed(c)
    \/ SecondPasses

RateSpec == RateInit /\ [][RateNext]_rateVars

----------------------------------------------------------------------------
(* The counter, the requests and the clock have their types.               *)
RateTypeOK ==
    /\ second \in 0..Clock /\ restarts \in 0..MaxRestarts
    /\ counter.count \in 0..Hits + MaxRestarts /\ counter.end \in 0..NoExpiry
    /\ \A c \in Callers : hit[c].pc \in {"idle", "expiring"}

(* However the hits of several processes interleave and whichever of them  *)
(* dies: no more than Times requests go through while one key lives        *)
(* (RateLimiter.__call__), and nobody is locked out, since when no hit is   *)
(* under way and the last one was answered, the key expires by itself       *)
(* (ratelimit.py:66, the ttl < 0 of a hit repairs what a crash left).       *)
LimitsAndForgets ==
    /\ [](admitted <= Times)
    /\ [][answered' > answered /\ (\A c \in Callers : hit'[c].pc = "idle") => counter'.end # NoExpiry]_rateVars
=============================================================================
