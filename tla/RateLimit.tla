----------------------------- MODULE RateLimit -----------------------------
(* The two rate limiters of ratelimit.py, given the same calls: in memory a  *)
(* deque of the times of a user's calls, in Redis one counter per user and   *)
(* window of the clock.  Both count the calls they refuse.  Time is whole    *)
(* seconds, and a call is kept by its age.                                   *)
EXTENDS Naturals, FiniteSets

CONSTANTS Callers,     \* users
          MaxCalls,    \* calls allowed in a window
          RlWindow,    \* the window, in seconds
          PerSecond    \* bound: calls of a user within a second

ASSUME RateLimitAssumption == {MaxCalls, RlWindow, PerSecond} \subseteq Nat \ {0}

VARIABLES recent,      \* caller -> the calls in the deque (_mem)
          counter,     \* caller -> the Redis counter of the running window
          phase,       \* seconds since the running window began
          passedMem,   \* ghost: caller -> the calls memory has let pass
          passedRedis  \* ghost: caller -> the calls Redis has let pass

rlVars == <<recent, counter, phase, passedMem, passedRedis>>

Ages == 0..(RlWindow - 1)

(* A call: its age, and the how manieth of its second it was.                *)
Calls == Ages \X (1..PerSecond)

NoCalls == [u \in Callers |-> {}]

RateLimitTypeOK ==
    /\ {recent, passedMem, passedRedis} \subseteq [Callers -> SUBSET Calls]
    /\ counter \in [Callers -> 0..(PerSecond * RlWindow)]
    /\ phase \in Ages

RlInit ==
    /\ recent = NoCalls /\ passedMem = NoCalls /\ passedRedis = NoCalls
    /\ counter = [u \in Callers |-> 0]
    /\ phase \in Ages

(* The calls a limiter finds in its window, the new one included.            *)
MemoryCount(u) == Cardinality(recent'[u])
RedisCount(u)  == counter'[u]

(* Mutant of Within: the count is held against the limit before the call.    *)
WithinBefore(count) == count - 1 <= MaxCalls

Within(count) == count <= MaxCalls

(* allow: the call is counted first, and let pass within the limit.          *)
Allow(u) ==
    LET nth  == Cardinality({c \in recent[u] : c[1] = 0}) + 1
        With(calls) == [calls EXCEPT ![u] = @ \cup {<<0, nth>>}]
    IN
    /\ nth <= PerSecond
    /\ recent' = With(recent)
    /\ counter' = [counter EXCEPT ![u] = @ + 1]
    /\ passedMem' = IF Within(MemoryCount(u)) THEN With(passedMem) ELSE passedMem
    /\ passedRedis' = IF Within(RedisCount(u)) THEN With(passedRedis) ELSE passedRedis
    /\ UNCHANGED phase

(* A call leaves the deque when its age reaches the window.                  *)
Aged(calls)  == {c \in Calls : c[1] > 0 /\ <<c[1] - 1, c[2]>> \in calls}
Older(calls) == [u \in Callers |-> Aged(calls[u])]

(* A second goes by; at the boundary another Redis key begins at nothing.    *)
RlTick ==
    /\ recent' = Older(recent)
    /\ passedMem' = Older(passedMem) /\ passedRedis' = Older(passedRedis)
    /\ phase' = (phase + 1) % RlWindow
    /\ counter' = IF phase' = 0 THEN [u \in Callers |-> 0] ELSE counter

RlNext == (\E u \in Callers : Allow(u)) \/ RlTick

RateLimitSpec == RlInit /\ [][RlNext]_rlVars
-----------------------------------------------------------------------------
(* "A ceiling on tool calls per time window" (ratelimit.py:1): in any window *)
(* memory lets no more than the limit pass, and Redis, whose count starts    *)
(* again at a boundary ("Fixed window, not sliding", :7), no more than twice *)
(* the limit.                                                                *)
Ceiling ==
    \A u \in Callers : /\ Cardinality(passedMem[u]) <= MaxCalls
                       /\ Cardinality(passedRedis[u]) <= 2 * MaxCalls
=============================================================================
