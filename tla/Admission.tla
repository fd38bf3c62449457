------------------------------ MODULE Admission ------------------------------
(***************************************************************************)
(* How one API process lets requests in.  A request first takes one of     *)
(* its client's concurrency slots (concurrency_limit.rs), then the route   *)
(* group's middleware resolves its API key through the process's key cache *)
(* (auth.rs, key_cache.rs), asks the rate limiter, runs the handler and    *)
(* queues an audit event for the batching writer.  The future may be       *)
(* dropped at any await: by the timeout layer, or because the client went  *)
(* away.  The rate limiter's own arithmetic is module RateLimit; here its  *)
(* answer is a choice.  The last_used_at column, which no code reads, and  *)
(* the response headers are left out.                                      *)
(***************************************************************************)
EXTENDS Naturals, FiniteSets, SequencesExt

CONSTANTS
    Requests,               \* request tasks that may run at once
    Keys,                   \* API keys clients present
    NoKey,                  \* a request without a key
    Ips,                    \* client addresses (see ClientIp)
    Arrivals,               \* the [route, key, ip] of requests clients send
    scopes,                 \* [Keys -> SUBSET scopes], the api_keys column
    expires_at,             \* [Keys -> time], the api_keys column
    require_auth, rpc_require_auth,
    ttl, neg_ttl,           \* API_KEY_CACHE_TTL_SECS, API_KEY_CACHE_NEG_TTL_SECS
    Capacity,               \* entries the key cache holds
    max_concurrent_per_ip,
    MAX_TRACKED_IPS,
    StaleAfter,             \* the 10 s inactivity threshold of the pruning
    AUDIT_QUEUE_CAPACITY, AUDIT_BATCH_ROWS,
    MaxTime, MaxArrivals    \* bounds of the exploration

(* The route groups, by the middleware in front of them: GETs and other    *)
(* methods of the webhook management routes are "list" and "manage".       *)
Routes == {"data", "rpc", "create", "list", "manage", "mount"}

ASSUME AdmissionAssumption ==
    /\ IsFiniteSet(Requests) /\ NoKey \notin Keys /\ Ips # {}
    /\ Arrivals \subseteq [route : Routes, key : Keys \cup {NoKey}, ip : Ips]
    /\ ttl \in Nat \ {0} /\ neg_ttl \in Nat \ {0}
    /\ Capacity \in Nat \ {0} /\ max_concurrent_per_ip \in Nat \ {0}
    /\ AUDIT_QUEUE_CAPACITY \in Nat /\ AUDIT_BATCH_ROWS \in Nat \ {0}
    /\ MaxTime \in Nat /\ MaxArrivals \in Nat

VARIABLES
    now,        \* the monotonic clock
    row,        \* [Keys -> "absent", "valid" or "revoked"], table api_keys
    changed,    \* [Keys -> when row last changed]
    cache,      \* the key cache, most recently used entry first
    raced,      \* keys whose last entry was stored although the row had changed since
    ips,        \* tracked client -> [in_flight, last_activity]
    forgotten,  \* clients whose entry was pruned with requests in flight that still run
    req,        \* [Requests -> [pc, route, key, ip, read]]
    arrivals,   \* requests that arrived so far
    queued, batch, written, dropped, lost,   \* audit events, by where they are
    audited     \* audit events requests gave rise to

authVars  == <<row, changed, cache, raced>>
slotVars  == <<ips, forgotten>>
auditVars == <<queued, batch, written, dropped, lost, audited>>
vars == <<now, authVars, slotVars, req, arrivals, auditVars>>

Idle   == [pc |-> "idle", route |-> "data", key |-> NoKey, ip |-> CHOOSE i \in Ips : TRUE,
           read |-> "absent"]
Live(ip) == {r \in Requests : req[r].pc # "idle" /\ req[r].ip = ip}

Entry   == [key : Keys, value : {"Valid", "Revoked", "NotFound"}, until : Nat]
Slots   == [in_flight : 0..max_concurrent_per_ip, last_activity : 0..MaxTime]
Request == [pc : {"idle", "auth", "query", "row", "budget", "run"}, route : Routes,
            key : Keys \cup {NoKey}, ip : Ips, read : {"absent", "valid", "revoked"}]

TypeOK ==
    /\ now \in 0..MaxTime
    /\ row \in [Keys -> {"absent", "valid", "revoked"}]
    /\ changed \in [Keys -> 0..MaxTime]
    /\ cache \in Seq(Entry) /\ Len(cache) <= Capacity
    /\ \A i, j \in DOMAIN cache : cache[i].key = cache[j].key => i = j
    /\ raced \subseteq Keys /\ forgotten \subseteq Ips
    /\ DOMAIN ips \subseteq Ips /\ ips \in [DOMAIN ips -> Slots]
    /\ req \in [Requests -> Request]
    /\ \A r \in Requests : req[r].pc \in {"query", "row"} => req[r].key # NoKey
    /\ arrivals \in 0..MaxArrivals
    /\ queued \in 0..AUDIT_QUEUE_CAPACITY /\ batch \in 0..(AUDIT_BATCH_ROWS - 1)
    /\ written \in Nat /\ dropped \in Nat /\ lost \in Nat /\ audited \in Nat

Init ==
    /\ now = 0
    /\ row \in [Keys -> {"absent", "valid"}] /\ changed = [k \in Keys |-> 0]
    /\ cache = <<>> /\ raced = {}
    /\ ips = <<>> /\ forgotten = {}
    /\ req = [r \in Requests |-> Idle] /\ arrivals = 0
    /\ queued = 0 /\ batch = 0 /\ written = 0 /\ dropped = 0 /\ lost = 0 /\ audited = 0

-----------------------------------------------------------------------------
\* The clock, and an operator's changes of table api_keys.

Tick ==
    /\ now < MaxTime
    /\ now' = now + 1
    /\ UNCHANGED <<authVars, slotVars, req, arrivals, auditVars>>

SetRow(k, from, to) ==
    /\ row[k] = from
    /\ row' = [row EXCEPT ![k] = to]
    /\ changed' = [changed EXCEPT ![k] = now]
    /\ UNCHANGED <<now, cache, raced, slotVars, req, arrivals, auditVars>>

CreateKey(k) == SetRow(k, "absent", "valid")
RevokeKey(k) == SetRow(k, "valid", "revoked")

-----------------------------------------------------------------------------
\* Concurrency slots.

(* Once the map is full, acquire keeps only the entries that are recent    *)
(* and in flight.                                                          *)
Kept(ip) == ips[ip].last_activity + StaleAfter > now /\ ips[ip].in_flight > 0
Pruned ==
    IF Cardinality(DOMAIN ips) < MAX_TRACKED_IPS THEN ips
    ELSE [ip \in {i \in DOMAIN ips : Kept(i)} |-> ips[ip]]

InFlight(m, ip) == IF ip \in DOMAIN m THEN m[ip].in_flight ELSE 0
Tracked(m, ip, n) == [i \in DOMAIN m \cup {ip} |->
                         IF i = ip THEN [in_flight |-> n, last_activity |-> now] ELSE m[i]]

(* concurrency_limit: take a slot for the client, or answer 429.           *)
Arrive(r, route, key, ip) ==
    /\ req[r].pc = "idle" /\ arrivals < MaxArrivals
    /\ arrivals' = arrivals + 1
    /\ LET m == Pruned
           n == InFlight(m, ip)
       IN  /\ forgotten' = forgotten \cup
                             {i \in DOMAIN ips \ DOMAIN m : ips[i].in_flight > 0}
           /\ IF n < max_concurrent_per_ip
              THEN /\ ips' = Tracked(m, ip, n + 1)
                   /\ req' = [req EXCEPT ![r] = [pc |-> "auth", route |-> route, key |-> key,
                                                 ip |-> ip, read |-> "absent"]]
              ELSE /\ ips' = Tracked(m, ip, n)
                   /\ UNCHANGED req
    /\ UNCHANGED <<now, authVars, auditVars>>

(* ConcurrencySlot is dropped, and release counts down unless the entry is *)
(* gone or at zero.                                                        *)
Release(r) ==
    LET ip == req[r].ip
    IN  /\ req' = [req EXCEPT ![r] = Idle]
        /\ ips' = IF InFlight(ips, ip) > 0
                  THEN [ips EXCEPT ![ip].in_flight = @ - 1] ELSE ips
        /\ forgotten' = IF Live(ip) = {r} THEN forgotten \ {ip} ELSE forgotten
        /\ UNCHANGED arrivals

-----------------------------------------------------------------------------
\* The audit queue and its writer.

(* A variant that does not count what it drops.                            *)
LogUncounted ==
    /\ audited' = audited + 1
    /\ queued' = IF queued < AUDIT_QUEUE_CAPACITY THEN queued + 1 ELSE queued
    /\ UNCHANGED <<batch, written, dropped, lost>>

(* log_audit_event: try_send never waits; a full queue drops the event.    *)
LogAudit ==
    /\ audited' = audited + 1
    /\ IF queued < AUDIT_QUEUE_CAPACITY
       THEN queued' = queued + 1 /\ UNCHANGED dropped
       ELSE dropped' = dropped + 1 /\ UNCHANGED queued
    /\ UNCHANGED <<batch, written, lost>>

(* flush_audit_batch: one INSERT; a failed one loses the batch.            *)
Flush(n, ok) ==
    /\ batch' = 0
    /\ written' = IF ok THEN written + n ELSE written
    /\ lost' = IF ok THEN lost ELSE lost + n

(* The writer takes one event and flushes a full batch at once.            *)
FlushDue(n) == n >= AUDIT_BATCH_ROWS
AuditRecv(ok) ==
    /\ queued > 0
    /\ queued' = queued - 1
    /\ IF FlushDue(batch + 1) THEN Flush(batch + 1, ok)
       ELSE batch' = batch + 1 /\ UNCHANGED <<written, lost>>
    /\ UNCHANGED <<now, authVars, slotVars, req, arrivals, dropped, audited>>

AuditTick(ok) ==
    /\ batch > 0
    /\ Flush(batch, ok)
    /\ UNCHANGED <<now, authVars, slotVars, req, arrivals, queued, dropped, audited>>

-----------------------------------------------------------------------------
\* Resolving the key.

(* The request is answered: with an audit event or without one.            *)
Answer(r, log) ==
    /\ Release(r)
    /\ IF log THEN LogAudit ELSE UNCHANGED auditVars

At(r, pc) == req' = [req EXCEPT ![r].pc = pc]

(* The scope each route group requires of a key.                           *)
Required(route) ==
    CASE route \in {"data", "list"} -> "read"
      [] route = "rpc" -> "rpc"
      [] OTHER -> "webhooks:write"

(* Whether the group serves callers without a key.                         *)
AnonymousOk(route) ==
    CASE route = "mount" -> TRUE
      [] route = "rpc" -> ~rpc_require_auth
      [] route \in {"data", "create"} -> ~require_auth
      [] OTHER -> FALSE

Authenticated(r) == req[r].key # NoKey /\ req[r].route # "mount"

EntryOf(k)  == {i \in DOMAIN cache : cache[i].key = k}
Without(k)  == IF EntryOf(k) = {} THEN cache
               ELSE RemoveAt(cache, CHOOSE i \in EntryOf(k) : TRUE)
NeverStale(e) == TRUE
IsFresh(e)  == now < e.until

(* insert_valid and insert_revoked, insert_not_found.                      *)
Lifetime(value) == IF value = "Valid" THEN ttl ELSE neg_ttl

(* LruCache::put: the entry goes to the front, the last one may go.        *)
Put(k, value) ==
    LET entries == <<[key |-> k, value |-> value, until |-> now + Lifetime(value)]>> \o Without(k)
    IN  SubSeq(entries, 1, IF Len(entries) > Capacity THEN Capacity ELSE Len(entries))

(* resolve_key's verdict and accept_key: expiry is checked on every use,   *)
(* then the scope, whose absence is answered without an audit event.       *)
Decide(r, value) ==
    IF value = "Valid" /\ now < expires_at[req[r].key]
    THEN IF {Required(req[r].route), "admin"} \cap scopes[req[r].key] # {}
         THEN At(r, "budget") /\ UNCHANGED <<slotVars, arrivals, auditVars>>
         ELSE Answer(r, FALSE)
    ELSE Answer(r, TRUE)

(* extract_key found none, or the route ignores keys.                      *)
Anonymous(r) ==
    /\ req[r].pc = "auth" /\ ~Authenticated(r)
    /\ IF AnonymousOk(req[r].route)
       THEN At(r, "budget") /\ UNCHANGED <<slotVars, arrivals, auditVars>>
       ELSE Answer(r, FALSE)
    /\ UNCHANGED <<now, authVars>>

(* KeyCache::get serves a fresh entry, which becomes the most recent one.  *)
CacheHit(r) ==
    /\ req[r].pc = "auth" /\ Authenticated(r)
    /\ \E i \in EntryOf(req[r].key) :
          /\ IsFresh(cache[i])
          /\ cache' = <<cache[i]>> \o Without(req[r].key)
          /\ Decide(r, cache[i].value)
    /\ UNCHANGED <<now, row, changed, raced>>

(* A stale entry is removed, and either way the row is asked for.          *)
CacheMiss(r) ==
    /\ req[r].pc = "auth" /\ Authenticated(r)
    /\ \A i \in EntryOf(req[r].key) : ~IsFresh(cache[i])
    /\ cache' = Without(req[r].key)
    /\ At(r, "query")
    /\ UNCHANGED <<now, row, changed, raced, slotVars, arrivals, auditVars>>

ReadRow(r) ==
    /\ req[r].pc = "query"
    /\ req' = [req EXCEPT ![r].pc = "row", ![r].read = row[req[r].key]]
    /\ UNCHANGED <<now, authVars, slotVars, arrivals, auditVars>>

(* The query fails: 500, nothing cached, nothing audited.                  *)
ReadFails(r) ==
    /\ req[r].pc = "query"
    /\ Answer(r, FALSE)
    /\ UNCHANGED <<now, authVars>>

(* The row arrives: it is cached as of now, and decided on.                *)
Verdict(read) == CASE read = "valid" -> "Valid" [] read = "revoked" -> "Revoked"
                   [] OTHER -> "NotFound"
Resolve(r) ==
    LET k == req[r].key
    IN  /\ req[r].pc = "row"
        /\ cache' = Put(k, Verdict(req[r].read))
        /\ raced' = IF req[r].read = row[k] THEN raced \ {k} ELSE raced \cup {k}
        /\ Decide(r, Verdict(req[r].read))
        /\ UNCHANGED <<now, row, changed>>

-----------------------------------------------------------------------------
\* The rate limiter's answer, the handler, and cancellation.

Budget(r, allowed) ==
    /\ req[r].pc = "budget"
    /\ IF allowed THEN At(r, "run") /\ UNCHANGED <<slotVars, arrivals, auditVars>>
       ELSE Answer(r, Authenticated(r))
    /\ UNCHANGED <<now, authVars>>

Respond(r) ==
    /\ req[r].pc = "run"
    /\ Answer(r, Authenticated(r))
    /\ UNCHANGED <<now, authVars>>

(* A variant whose cancelled requests keep their slot.                     *)
CancelLeaks(r) ==
    /\ req[r].pc \in {"query", "budget", "run"}
    /\ req' = [req EXCEPT ![r] = Idle]
    /\ UNCHANGED <<now, authVars, slotVars, arrivals, auditVars>>

(* The future is dropped at an await: nothing after it runs, but its slot  *)
(* is released.                                                            *)
Cancel(r) ==
    /\ req[r].pc \in {"query", "budget", "run"}
    /\ Release(r)
    /\ UNCHANGED <<now, authVars, auditVars>>

Serve(r) ==
    \/ Anonymous(r) \/ CacheHit(r) \/ CacheMiss(r) \/ ReadRow(r) \/ ReadFails(r)
    \/ Resolve(r) \/ Respond(r) \/ \E allowed \in BOOLEAN : Budget(r, allowed)

Next ==
    \/ Tick
    \/ \E k \in Keys : CreateKey(k) \/ RevokeKey(k)
    \/ \E r \in Requests :
          \/ \E a \in Arrivals : Arrive(r, a.route, a.key, a.ip)
          \/ Serve(r) \/ Cancel(r)
    \/ \E ok \in BOOLEAN : AuditRecv(ok) \/ AuditTick(ok)

Spec == Init /\ [][Next]_vars

-----------------------------------------------------------------------------
(* The limiter's count is the number of the client's requests in flight,   *)
(* however they end, and so at most max_concurrent_per_ip of them run.     *)
(* The exception is a client whose entry the pruning of a full map dropped *)
(* while its requests were in flight, until the last of them ends.         *)
SlotsExact ==
    \A ip \in Ips \ forgotten : InFlight(ips, ip) = Cardinality(Live(ip))

(* key_cache.rs: a key is decided on by an entry that disagrees with its   *)
(* row only within the entry's lifetime after the row's last change,       *)
(* unless a lookup that had read the row before that change stored it      *)
(* afterwards, which starts the lifetime afresh.                           *)
LagBounded ==
    [][\A r \in Requests :
          LET k == req[r].key
          IN  CacheHit(r) /\ k \notin raced =>
                \A i \in EntryOf(k) : \/ cache[i].value = Verdict(row[k])
                                      \/ now < changed[k] + Lifetime(cache[i].value)]_vars

(* Every audit event a request gave rise to is written, on its way to the  *)
(* writer, counted as dropped, or was in a batch whose INSERT failed.      *)
AuditConserved == audited = queued + batch + written + dropped + lost
=============================================================================
