------------------------------ MODULE RateLimit ------------------------------
(***************************************************************************)
(* The per-identity request budget of the API (rate_limit.rs): a token     *)
(* bucket in the process's memory, or a sliding window in Redis that all   *)
(* replicas share.  MINUTE is the minute in clock ticks.  Tokens are       *)
(* counted in units of 1/MINUTE token, so that a tick refills exactly      *)
(* limit_per_min units (the code uses f64; its rounding is left out).      *)
(* The Redis script runs atomically, but the clock it is given was read    *)
(* before the round trip, by any replica.                                  *)
(***************************************************************************)
EXTENDS Integers, FiniteSets, SequencesExt

CONSTANTS
    Identities,
    RedisIdentities,  \* the ones asked about with Redis: their keys are disjoint
    Tasks,            \* requests inside a Redis check, on any replica
    limit_per_min,
    MINUTE,           \* clock ticks in a minute (60 s)
    PerShard,         \* identities a shard of the memory backend tracks
    fail_mode,        \* "Open" or "Closed"
    None,
    MaxTime           \* bound of the exploration

RateLimitAssumption ==
    /\ limit_per_min \in Nat \ {0} /\ MINUTE \in Nat \ {0} /\ PerShard \in Nat \ {0}
    /\ fail_mode \in {"Open", "Closed"} /\ MaxTime \in Nat
    /\ None \notin [id : Identities, stamp : Nat] /\ None \notin [at : Nat, retry_after : Int]

VARIABLES
    backend,     \* "memory" or "redis", RATE_LIMIT_BACKEND
    now,
    shard,       \* sequence of [id, tokens, last_refill], most recently used first
    zset,        \* [Identities -> set of entries, <<score, member>>]
    task,        \* [Tasks -> None or [id, stamp]]
    allowed,     \* [Identities -> requests allowed, <<stamp, member>>]
    denied,      \* [Identities -> None or the last refusal, [at, retry_after]]
    excused      \* identities evicted, or allowed by an outage or by late scripts

vars == <<backend, now, shard, zset, task, allowed, denied, excused>>

Times == 0..MaxTime
FULL  == limit_per_min * MINUTE
Least(a, b) == IF a < b THEN a ELSE b

Entries == Times \X (Nat \ {0})
State   == [id : Identities, tokens : 0..FULL, last_refill : Times]

(* Random members of the sorted set do not collide; here they are counted. *)
New(S, t) == <<t, CHOOSE n \in 1 .. Cardinality(S) + 1 : <<t, n>> \notin S>>

TypeOK ==
    /\ backend \in {"memory", "redis"} /\ now \in Times
    /\ shard \in Seq(State) /\ Len(shard) <= PerShard
    /\ \A i, j \in DOMAIN shard : shard[i].id = shard[j].id => i = j
    /\ \A i \in DOMAIN shard : shard[i].last_refill <= now
    /\ zset \in [Identities -> SUBSET Entries] /\ allowed \in [Identities -> SUBSET Entries]
    /\ \A id \in Identities : /\ IsFiniteSet(zset[id]) /\ IsFiniteSet(allowed[id])
                             /\ Cardinality(zset[id]) <= limit_per_min
    /\ task \in [Tasks -> [id : Identities, stamp : 0..now] \cup {None}]
    /\ denied \in [Identities -> [at : Times, retry_after : Int] \cup {None}]
    /\ excused \subseteq Identities

Init ==
    /\ backend \in {"memory", "redis"}
    /\ now = 0 /\ shard = <<>>
    /\ zset = [id \in Identities |-> {}]
    /\ task = [p \in Tasks |-> None]
    /\ allowed = [id \in Identities |-> {}]
    /\ denied = [id \in Identities |-> None]
    /\ excused = {}

Tick ==
    /\ now < MaxTime
    /\ now' = now + 1
    /\ UNCHANGED <<backend, shard, zset, task, allowed, denied, excused>>

(* The history of an excused identity says nothing and is not kept.        *)
Allow(id, e) ==
    /\ allowed' = [i \in Identities |->
                      IF i \in excused' THEN {} ELSE IF i = id THEN allowed[i] \cup {e} ELSE allowed[i]]
    /\ denied' = [denied EXCEPT ![id] = None]
Refuse(id, wait) ==
    /\ denied' = [denied EXCEPT ![id] = wait]
    /\ UNCHANGED allowed

-----------------------------------------------------------------------------
\* MemoryBackend::check.

(* The identity's bucket, refilled up to now.  A new one is full.          *)
RefilledTwice(b) ==
    [b EXCEPT !.tokens = Least(@ + (now - b.last_refill) * limit_per_min, FULL)]
Refilled(b) ==
    [b EXCEPT !.tokens = Least(@ + (now - b.last_refill) * limit_per_min, FULL),
              !.last_refill = now]

Places(id) == {i \in DOMAIN shard : shard[i].id = id}
Others(id) == IF Places(id) = {} THEN shard ELSE RemoveAt(shard, CHOOSE i \in Places(id) : TRUE)
Bucket(id) == IF Places(id) = {} THEN [id |-> id, tokens |-> FULL, last_refill |-> now]
              ELSE Refilled(shard[CHOOSE i \in Places(id) : TRUE])
HasToken(b) == b.tokens >= MINUTE

(* Time until the bucket holds a token, rounded up, at least 1.            *)
RoundedDown(b) == (MINUTE - b.tokens) \div limit_per_min
RetryAfter(b) == (MINUTE - b.tokens + limit_per_min - 1) \div limit_per_min

CheckMemory(id) ==
    /\ backend = "memory"
    /\ LET b    == Bucket(id)
           rest == Others(id)
           kept == SubSeq(rest, 1, Least(Len(rest), PerShard - 1))
       IN  /\ excused' = excused \cup {r.id : r \in ToSet(rest) \ ToSet(kept)}
           /\ IF HasToken(b)
              THEN /\ shard' = <<[b EXCEPT !.tokens = @ - MINUTE]>> \o kept
                   /\ Allow(id, New(allowed[id], now))
              ELSE /\ shard' = <<b>> \o kept
                   /\ Refuse(id, [at |-> now, retry_after |-> RetryAfter(b)])
    /\ UNCHANGED <<backend, now, zset, task>>

-----------------------------------------------------------------------------
\* RedisBackend::check.

(* A replica reads its clock and sends the script.                         *)
SendScript(p, id) ==
    /\ backend = "redis" /\ task[p] = None /\ id \in RedisIdentities
    /\ task' = [task EXCEPT ![p] = [id |-> id, stamp |-> now]]
    /\ UNCHANGED <<backend, now, shard, zset, allowed, denied, excused>>

(* ZREMRANGEBYSCORE -inf..stamp - 60; EXPIRE drops the whole set once its  *)
(* last entry is that old, which removes nothing the next script keeps.    *)
InWindow(t, stamp) == t > stamp - MINUTE
Window(id, stamp) == {e \in zset[id] : InWindow(e[1], stamp)}

(* A script that runs after one with a later stamp counts what that one    *)
(* left.                                                                   *)
RunsLate(id, stamp) == \E e \in zset[id] : e[1] > stamp

RunScript(p) ==
    LET id    == task[p].id
        stamp == task[p].stamp
        w     == Window(id, stamp)
        entry == New(w, stamp)
        oldest == CHOOSE t \in {e[1] : e \in w} : \A e \in w : t <= e[1]
    IN  /\ task[p] # None
        /\ task' = [task EXCEPT ![p] = None]
        /\ excused' = IF RunsLate(id, stamp) THEN excused \cup {id} ELSE excused
        /\ IF Cardinality(w) < limit_per_min
           THEN /\ zset' = [zset EXCEPT ![id] = w \cup {entry}]
                /\ Allow(id, entry)
           ELSE /\ zset' = [zset EXCEPT ![id] = w]
                /\ Refuse(id, [at |-> stamp, retry_after |-> MINUTE + 1 - (stamp - oldest)])
        /\ UNCHANGED <<backend, now, shard>>

(* The script fails: the fail mode decides, and nothing is counted.        *)
ScriptFails(p) ==
    /\ task[p] # None
    /\ task' = [task EXCEPT ![p] = None]
    /\ IF fail_mode = "Open"
       THEN excused' = excused \cup {task[p].id} /\ Allow(task[p].id, New({}, task[p].stamp))
       ELSE Refuse(task[p].id, None) /\ UNCHANGED excused
    /\ UNCHANGED <<backend, now, shard, zset>>

Next ==
    \/ Tick
    \/ \E id \in Identities : CheckMemory(id) \/ \E p \in Tasks : SendScript(p, id)
    \/ \E p \in Tasks : RunScript(p) \/ ScriptFails(p)

Spec == Init /\ [][Next]_vars

-----------------------------------------------------------------------------
(* An identity is never allowed more than a full bucket and what the time  *)
(* in between refills (memory), or than the limit in any minute (Redis),   *)
(* unless its bucket was evicted, or an outage or an overtaken script let  *)
(* requests through.                                                       *)
BudgetRespected ==
    \A id \in Identities \ excused, from \in Times, to \in Times :
        from <= to =>
            LET n == Cardinality({e \in allowed[id] : e[1] \in from..to})
            IN  IF backend = "memory"
                THEN n * MINUTE <= FULL + (to - from) * limit_per_min
                ELSE to - from < MINUTE => n <= limit_per_min

(* A refused identity that waits for Retry-After and asks again is served: *)
(* the hint is rounded up, never down.                                     *)
RetryHonest ==
    \A id \in Identities :
        (denied[id] # None /\ now >= denied[id].at + denied[id].retry_after) =>
            IF backend = "memory" THEN HasToken(Bucket(id))
            ELSE Cardinality(Window(id, now)) < limit_per_min
=============================================================================
