---------------------------- MODULE RateLimiter ----------------------------
(***************************************************************************)
(* core/rate_limiter.py: one limiter key under one of the three dimensions *)
(* of rate_limit().  Sliding window and token bucket are Lua scripts, so a *)
(* request is one step; both are given the caller's clock, which may be    *)
(* behind that of Redis.  A limiter that meets an error lets the request   *)
(* pass.  A tick is the finest difference of time.time(); the members of   *)
(* the sliding window's sorted set are named by a coarser one, since Lua   *)
(* writes a number with 14 digits (Grain ticks, a tenth of a millisecond). *)
(***************************************************************************)
EXTENDS Integers, Sequences, FiniteSets

CONSTANTS
    Limit,       \* limit of the decorator, capacity of the bucket
    Window,      \* window of the decorator in ticks; rate is Limit/Window
    Grain,       \* ticks that share a member name
    Slack,       \* what is added to the TTL of the bucket (10 seconds)
    MaxTime,     \* bound: ticks
    MaxRequests, \* bound: requests let through, and requests counted
    MaxSkew      \* bound: how far a caller's clock is behind

ASSUME LimiterAssumption ==
    /\ Limit \in Nat \ {0}
    /\ Window \in Nat \ {0}
    /\ {Slack, MaxSkew} \subseteq Nat

Dimensions == {"sliding_window", "token_bucket", "fixed_window"}

VARIABLES
    dimension,  \* which limiter guards the key
    clock,      \* the time
    log,        \* sliding window: the sorted set, as records of name and score
    tokens,     \* token bucket: the fields of the hash
    refilled,
    exists,     \* the hash exists
    dies,       \* when the key of a script expires
    count,      \* fixed window: the counter
    passed,     \* history: the times of the requests let through
    blame       \* history: what has gone wrong so far

limiterVars == <<dimension, clock, log, tokens, refilled, exists, dies, count, passed, blame>>

LimiterInit ==
    /\ dimension \in Dimensions
    /\ clock = 0
    /\ log = {}
    /\ tokens = 0
    /\ refilled = 0
    /\ exists = FALSE
    /\ dies = 0
    /\ count = 0
    /\ passed = <<>>
    /\ blame = {}

\* What wrapper() does with the answer; a refusal raises RateLimitExceededError.
Answer(allowed) == passed' = IF allowed THEN Append(passed, clock) ELSE passed

\* The caller's time.time().
Reading(now) == now \in clock - MaxSkew..clock /\ now >= 0
Blamed(now, more) == blame' = blame \union more \union (IF now < clock THEN {"skew"} ELSE {})

-----------------------------------------------------------------------------
\* Mutant of Kept: the scores up to the window's end are removed.
KeptTooFew(now) == {e \in log : e.score > now - Window + 1}

\* ZREMRANGEBYSCORE of what is older than the window.
Kept(now) == {e \in log : e.score > now - Window}

\* _SLIDING_WINDOW_LUA.  The member is named by the time and the count, so that
\* ZADD may move a member instead of adding one.
SlidingWindow(now) ==
    LET kept == Kept(now)
        name == <<now \div Grain, Cardinality(kept)>>
        clash == {e \in kept : e.name = name}
        allowed == Cardinality(kept) < Limit
    IN  /\ dimension = "sliding_window"
        /\ log' = IF allowed THEN (kept \ clash) \union {[name |-> name, score |-> now]} ELSE kept
        /\ dies' = IF allowed THEN clock + Window ELSE dies
        /\ Answer(allowed)
        /\ Blamed(now, IF allowed /\ clash # {} THEN {"clash"} ELSE {})
        /\ UNCHANGED <<dimension, clock, tokens, refilled, exists, count>>

\* math.floor(elapsed * rate)
Made(span) == (span * Limit) \div Window

\* nothing for a clock that is behind, and no more than the capacity.
Filled(now) ==
    LET sum == tokens + (IF now > refilled THEN Made(now - refilled) ELSE 0)
    IN  IF ~exists \/ sum > Limit THEN Limit ELSE sum

\* _TOKEN_BUCKET_LUA for one token: refilled is the time of the last request,
\* also when the refill was rounded down to nothing.
TokenBucket(now) ==
    LET filled == Filled(now)
        allowed == filled >= 1
    IN  /\ dimension = "token_bucket"
        /\ tokens' = IF allowed THEN filled - 1 ELSE filled
        /\ refilled' = now
        /\ exists' = TRUE
        /\ dies' = clock + Window + Slack
        /\ Answer(allowed)
        /\ Blamed(now, IF exists /\ now > refilled /\ ((now - refilled) * Limit) % Window # 0
                       THEN {"rounding"} ELSE {})
        /\ UNCHANGED <<dimension, clock, log, count>>

\* is_allowed_fixed_window: cache_incr counts under the prefixed key, and
\* expire is called with the key itself, which does not exist.
FixedWindow ==
    /\ dimension = "fixed_window"
    /\ count' = count + 1
    /\ Answer(count' <= Limit)
    /\ UNCHANGED <<dimension, clock, log, tokens, refilled, exists, dies, blame>>

\* Redis fails, before or after the script or the INCRBY: the request passes.
Degraded ==
    /\ blame' = blame \union {"error"}
    /\ Answer(TRUE)
    /\ \/ UNCHANGED count
       \/ dimension = "fixed_window" /\ count' = count + 1
    /\ UNCHANGED <<dimension, clock, log, tokens, refilled, exists, dies>>

Request ==
    /\ Len(passed) < MaxRequests
    /\ count < MaxRequests
    /\ \/ \E now \in 0..clock : Reading(now) /\ (SlidingWindow(now) \/ TokenBucket(now))
       \/ FixedWindow
       \/ Degraded

\* Time passes; the key of a script goes when its TTL is over.
Tick ==
    /\ clock < MaxTime
    /\ clock' = clock + 1
    /\ log' = IF clock' >= dies THEN {} ELSE log
    /\ exists' = (exists /\ clock' < dies)
    /\ UNCHANGED <<dimension, tokens, refilled, dies, count, passed, blame>>

LimiterNext == Request \/ Tick

LimiterSpec == LimiterInit /\ [][LimiterNext]_limiterVars

-----------------------------------------------------------------------------
(***************************************************************************)
(* Properties                                                              *)
(***************************************************************************)

\* No window of a sliding window's length lets more than Limit requests pass,
\* unless Redis failed, a clock was behind, or two requests of one tenth of a
\* millisecond got the same member: the last of Limit + 1 requests passes when the
\* first is out of the window.
WindowBound ==
    dimension = "sliding_window" /\ blame = {} =>
        \A i, j \in DOMAIN passed : j >= i + Limit => passed[j] >= passed[i] + Window

\* Over any span of time a token bucket lets at most its capacity and what the
\* rate makes in that time pass; the TTL of the hash adds nothing to it.
BucketBound ==
    dimension = "token_bucket" /\ blame \subseteq {"rounding"} =>
        \A i, j \in DOMAIN passed :
            i <= j => j - i + 1 <= Limit + Made(passed[j] - passed[i])

\* A bucket that has given nothing away for a whole window has a token by now,
\* unless requests in between have had their part of a token rounded away.
TokensAreMade ==
    dimension = "token_bucket" /\ blame = {} /\ clock >= Window
        /\ (\A i \in DOMAIN passed : passed[i] <= clock - Window)
        => Filled(clock) >= 1

\* What the two scripts let through, and what they may be blamed for when they
\* let through more, or less.
LimitsExplained == WindowBound /\ BucketBound /\ TokensAreMade

\* What is_allowed_fixed_window is for: its first request gives the counter a
\* lifetime of one window, so that a key that let nothing pass for a window is
\* open again.  Violated: the lifetime is set for another key.
WindowReopens ==
    dimension = "fixed_window" /\ blame = {} /\ clock >= Window
        /\ (\A i \in DOMAIN passed : passed[i] <= clock - Window)
        => count < Limit
=============================================================================
