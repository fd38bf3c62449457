-------------------------------- MODULE MCApi --------------------------------
(***************************************************************************)
(* The parts of an API process that share no state: letting requests in,   *)
(* the rate limiter, the interface and result caches, paging, statistics,  *)
(* the multi-network proxy and the rotation of webhook secrets.  A         *)
(* behaviour of their composition is an interleaving of theirs and each    *)
(* property is a conjunction of claims about single parts, so the run      *)
(* explores the parts one at a time: `focus` is the one that moves, the    *)
(* variables of the others rest.                                           *)
(***************************************************************************)
EXTENDS Admission, TLC

CONSTANTS k1, i1, i2, None,
          Identities, RedisIdentities, Tasks, limit_per_min, MINUTE, PerShard, fail_mode, MaxMinutes,
          Hashes, Sources, MAX_ENTRIES, MaxWrites,
          Ids, Ranks, Limits, max_limit, MaxChanges,
          Addrs, junk, balancer, front, Depths, SiblingHops, MaxLines, MaxEntries, MAX_BODY_BYTES,
          max_response_bytes, MaxBytes,
          MAX_GRACE_SECONDS, MaxGrace, tolerance, MaxSkew, MaxSecrets, MaxNow,
          History, Queries, Lower, Seconds, Span, statsNow, LEDGER_SPAN, MAX_BUCKETS

VARIABLES
    focus,
    rlBackend, rlNow, shard, zset, task, allowed, denied, rlExcused,
    specRow, specHashes, rolledBack, spec, others, calls, reads, seen, refresh,
    list, table, walk, steady, changes, pgExcused,
    cfg, client, peer, xff, platform, hops, joined, ip, resp, proxyPc,
    sub, issued, told, known, promise, withdrawn, message, skew, subNow,
    events, query, statsAnswer

limitVars  == <<rlBackend, rlNow, shard, zset, task, allowed, denied, rlExcused>>
readVars   == <<specRow, specHashes, rolledBack, spec, others, calls, reads, seen, refresh>>
pageVars   == <<list, table, walk, steady, changes, pgExcused>>
proxyVars  == <<cfg, client, peer, xff, platform, hops, joined, ip, resp, proxyPc>>
secretVars == <<sub, issued, told, known, promise, withdrawn, message, skew, subNow>>
statsVars  == <<events, query, statsAnswer>>

Graces == -1 .. MaxGrace
Skews  == -MaxSkew .. MaxSkew

RateLimits == INSTANCE RateLimit WITH
    backend <- rlBackend, now <- rlNow, excused <- rlExcused, MaxTime <- MaxMinutes
Reads == INSTANCE ReadLayer WITH
    row <- specRow, written <- specHashes, req <- reads
Pages == INSTANCE Pagination WITH excused <- pgExcused
Proxy == INSTANCE InstanceProxy WITH pc <- proxyPc
Secrets == INSTANCE SecretRotation WITH now <- subNow

Stats == INSTANCE StatsRoute WITH answer <- statsAnswer, Null <- None, now <- statsNow

MCArrivals == {[route |-> a[1], key |-> a[2], ip |-> a[3]] : a \in
    {<<"data", k1, i1>>, <<"rpc", NoKey, i1>>, <<"create", k1, i2>>, <<"list", NoKey, i2>>}}
MCScopes == k1 :> {"read"}
MCExpires == k1 :> 3

\* Five events, one of them later than now; units of 1 to 12 ticks.
Happened(id, at, ledger, name) == [id |-> id, at |-> at, ledger |-> ledger, name |-> name]
MCHistory == {Happened(1, 0, 1, "a"), Happened(2, 3, 2, "b"), Happened(3, 4, 2, "a"),
              Happened(4, 8, 3, None), Happened(5, 10, 5, "a")}
MCLower == [v \in {"1m", "hour", "day", "ledger", "bogus"} |-> v]
           @@ ("1M" :> "1m" @@ "Hour" :> "hour" @@ "LEDGER" :> "ledger")
MCQueries ==
    [resolution : {None, "1M", "1m", "Hour", "bogus"}, bucket : {"day"}, group_by : {None, "event_name"},
     window : {None, 0, 1, 3}, from : {None, 2, 6}, to : {None, 4, 9}, from_ledger : {None}, to_ledger : {None}]
    \cup
    [resolution : {None}, bucket : {"LEDGER"}, group_by : {None, "event_name", "ledger"},
     window : {None}, from : {None}, to : {None}, from_ledger : {None, 1, 3}, to_ledger : {None, 2, 5}]
MCSeconds == [minute |-> 1, hour |-> 2, day |-> 4, week |-> 8, month |-> 12]
MCSpan == [u \in {"minute", "hour", "day", "week", "month"} |-> IF u = "hour" THEN 5 ELSE 9]

ASSUME PartsAssumption == RateLimits!RateLimitAssumption /\ Reads!ReadLayerAssumption
                          /\ Pages!PaginationAssumption /\ Secrets!RotationAssumption
                          /\ Proxy!ProxyAssumption /\ Stats!StatsAssumption

-----------------------------------------------------------------------------
LimitAtRest ==
    /\ rlBackend = None /\ rlNow = None /\ shard = None /\ zset = None
    /\ task = None /\ allowed = None /\ denied = None /\ rlExcused = None
ReadAtRest ==
    /\ specRow = None /\ specHashes = None /\ rolledBack = None /\ spec = None
    /\ others = None /\ calls = None /\ reads = None /\ seen = None
    /\ refresh = None
PageAtRest ==
    /\ list = None /\ table = None /\ walk = None /\ steady = None
    /\ changes = None /\ pgExcused = None
ProxyAtRest ==
    /\ cfg = None /\ client = None /\ peer = None /\ xff = None
    /\ platform = None /\ hops = None /\ joined = None /\ ip = None /\ resp = None /\ proxyPc = None
SecretAtRest ==
    /\ sub = None /\ issued = None /\ told = None /\ known = None
    /\ promise = None /\ withdrawn = None /\ message = None /\ skew = None /\ subNow = None
StatsAtRest ==
    /\ events = None /\ query = None /\ statsAnswer = None

ApiInit ==
    /\ focus \in {"admission", "limits", "reads", "pages", "proxy", "secrets", "stats"}
    /\ Init /\ (focus # "admission" => row = [k \in Keys |-> "absent"])
    /\ IF focus = "limits" THEN RateLimits!Init ELSE LimitAtRest
    /\ IF focus = "reads" THEN Reads!Init ELSE ReadAtRest
    /\ IF focus = "pages" THEN Pages!Init ELSE PageAtRest
    /\ IF focus = "proxy" THEN Proxy!Init ELSE ProxyAtRest
    /\ IF focus = "secrets" THEN Secrets!Init ELSE SecretAtRest
    /\ IF focus = "stats" THEN Stats!Init ELSE StatsAtRest

ApiNext ==
    /\ UNCHANGED focus
    /\ \/ focus = "admission" /\ Next /\ UNCHANGED <<limitVars, readVars, pageVars, proxyVars, secretVars, statsVars>>
       \/ focus = "limits" /\ RateLimits!Next /\ UNCHANGED <<vars, readVars, pageVars, proxyVars, secretVars, statsVars>>
       \/ focus = "reads" /\ Reads!Next /\ UNCHANGED <<vars, limitVars, pageVars, proxyVars, secretVars, statsVars>>
       \/ focus = "pages" /\ Pages!Next /\ UNCHANGED <<vars, limitVars, readVars, proxyVars, secretVars, statsVars>>
       \/ focus = "proxy" /\ Proxy!Next /\ UNCHANGED <<vars, limitVars, readVars, pageVars, secretVars, statsVars>>
       \/ focus = "secrets" /\ Secrets!Next /\ UNCHANGED <<vars, limitVars, readVars, pageVars, proxyVars, statsVars>>
       \/ focus = "stats" /\ Stats!Next /\ UNCHANGED <<vars, limitVars, readVars, pageVars, proxyVars, secretVars>>

ApiSpec == ApiInit /\ [][ApiNext]_<<focus, vars, limitVars, readVars, pageVars, proxyVars, secretVars, statsVars>>

-----------------------------------------------------------------------------
(* concurrency_limit.rs and auth.rs: SlotsExact and AuditConserved of      *)
(* module Admission, however requests end.                                 *)
AdmissionSafe == TypeOK /\ SlotsExact /\ AuditConserved

(* rate_limit.rs: no identity exceeds its budget in either backend, and a  *)
(* refused one that waits as long as it is told is served (RateLimit).     *)
LimitsHonest ==
    focus = "limits" => RateLimits!TypeOK /\ RateLimits!BudgetRespected /\ RateLimits!RetryHonest

(* api/specs.rs and call_cache.rs: an interface or a result served from    *)
(* memory was current while the request was in flight (ReadLayer).         *)
ReadsCurrent == focus = "reads" => Reads!TypeOK /\ Reads!SpecCurrent /\ Reads!ResultCurrent

(* pagination.rs: a walk to the end returns every steady row exactly once, *)
(* in order (Pagination); stats.rs: counts add up whatever the range, the  *)
(* grouping and the unit (StatsRoute).                                     *)
QueriesExact ==
    /\ focus = "pages" => Pages!TypeOK /\ Pages!WalkExact
    /\ focus = "stats" => Stats!StatsAddUp

(* stats.rs:16: no answer has more than MAX_BUCKETS buckets (StatsRoute).  *)
StatsCapped == focus = "stats" => Stats!BucketsCapped

(* proxy.rs: the client's address is found behind balancers and platforms  *)
(* and handed on to a sibling that trusts this instance, and no oversized  *)
(* body is relayed (InstanceProxy).                                        *)
ProxyHonest == focus = "proxy" => Proxy!ProxyHonest

(* webhooks.rs and crypto.rs: receivers accept what they were promised,    *)
(* and nothing else (SecretRotation).                                      *)
SignaturesHonest == focus = "secrets" => Secrets!SignaturesHonest
=============================================================================
