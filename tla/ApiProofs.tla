----------------------------- MODULE ApiProofs ------------------------------
(***************************************************************************)
(* Proofs about the parts of an API process (MCApi): letting requests in   *)
(* (Admission), the interface and result caches (ReadLayer), the rotation  *)
(* of webhook secrets (SecretRotation), the multi-network proxy            *)
(* (InstanceProxy), the rate limiter (RateLimit), lists (Pagination) and   *)
(* statistics (StatsRoute), for any number of requests, keys, clients,     *)
(* hashes, secrets, hops, rows and events and any capacities.  Each part   *)
(* has an inductive invariant of its own; steps of the others leave its    *)
(* variables alone.                                                        *)
(***************************************************************************)
EXTENDS MCApi, FiniteSetTheorems, SequenceTheorems, WellFoundedInduction, TLAPS

-----------------------------------------------------------------------------
(* The invariant *)

AuthType ==
    /\ now \in 0..MaxTime
    /\ row \in [Keys -> {"absent", "valid", "revoked"}]
    /\ changed \in [Keys -> 0..MaxTime]
    /\ cache \in Seq(Entry) /\ Len(cache) <= Capacity
    /\ \A i, j \in DOMAIN cache : cache[i].key = cache[j].key => i = j
    /\ raced \subseteq Keys

SlotType ==
    /\ forgotten \subseteq Ips
    /\ DOMAIN ips \subseteq Ips /\ ips \in [DOMAIN ips -> Slots]
    /\ req \in [Requests -> Request]
    /\ \A r \in Requests : req[r].pc \in {"query", "row"} => req[r].key # NoKey
    /\ arrivals \in 0..MaxArrivals

AuditType ==
    /\ queued \in 0..AUDIT_QUEUE_CAPACITY /\ batch \in 0..(AUDIT_BATCH_ROWS - 1)
    /\ written \in Nat /\ dropped \in Nat /\ lost \in Nat /\ audited \in Nat

LEMMA TypeParts == TypeOK <=> AuthType /\ SlotType /\ AuditType
  BY DEF TypeOK, AuthType, SlotType, AuditType

(* A client's count never exceeds its requests in flight, also after its   *)
(* entry was pruned: when the last of them ends the count is zero again.   *)
SlotInv ==
    \A i \in Ips :
        /\ InFlight(ips, i) <= Cardinality(Live(i))
        /\ i \notin forgotten => InFlight(ips, i) = Cardinality(Live(i))

(* An entry that was stored while it agreed with the row agrees with it    *)
(* still, or ends within its lifetime after the row's last change.         *)
EntryOk(e) ==
    /\ e.until <= now + Lifetime(e.value)
    /\ e.key \notin raced => \/ e.value = Verdict(row[e.key])
                             \/ e.until <= changed[e.key] + Lifetime(e.value)
CacheInv ==
    /\ \A k \in Keys : changed[k] <= now
    /\ \A i \in DOMAIN cache : EntryOk(cache[i])

AdmissionInv == TypeOK /\ SlotInv /\ AuditConserved /\ CacheInv

-----------------------------------------------------------------------------
(* The cache as a sequence *)

LEMMA RemovedAt ==
    ASSUME NEW S, NEW s \in Seq(S), NEW i \in 1..Len(s)
    PROVE  /\ RemoveAt(s, i) \in Seq(S) /\ Len(RemoveAt(s, i)) = Len(s) - 1
           /\ \A j \in 1..(Len(s) - 1) : RemoveAt(s, i)[j] = s[IF j < i THEN j ELSE j + 1]
<1>0. Len(s) \in Nat /\ \A j \in 1..Len(s) : s[j] \in S
  OBVIOUS
<1>1. PICK m \in Int, n \in Int, k \in Int : m = i - 1 /\ n = i + 1 /\ k = Len(s)
  BY <1>0
<1> DEFINE a == SubSeq(s, 1, m)
           b == SubSeq(s, n, k)
<1>2. /\ a \in Seq(S) /\ Len(a) = IF 1 <= m THEN m - 1 + 1 ELSE 0
      /\ \A j \in 1..(m - 1 + 1) : a[j] = s[1 + j - 1]
  <2>1. \A j \in 1..m : s[j] \in S
    BY <1>0, <1>1
  <2> QED BY <2>1, SubSeqProperties
<1>3. /\ b \in Seq(S) /\ Len(b) = IF n <= k THEN k - n + 1 ELSE 0
      /\ \A j \in 1..(k - n + 1) : b[j] = s[n + j - 1]
  <2>1. \A j \in n..k : s[j] \in S
    BY <1>0, <1>1
  <2> QED BY <2>1, SubSeqProperties
<1>4. RemoveAt(s, i) = a \o b
  BY <1>1 DEF RemoveAt
<1> HIDE DEF a, b
<1>5. /\ Len(a) = i - 1 /\ \A j \in 1..(i - 1) : a[j] = s[j]
  <2>1. m - 1 + 1 = i - 1 /\ \A j \in 1..(i - 1) : 1 + j - 1 = j
    BY <1>0, <1>1
  <2>2. Len(a) = i - 1
    BY <1>0, <1>1, <1>2
  <2> QED BY <1>2, <2>1, <2>2
<1>6. /\ Len(b) = Len(s) - i /\ \A j \in 1..(Len(s) - i) : b[j] = s[i + j]
  <2>1. k - n + 1 = Len(s) - i /\ \A j \in 1..(Len(s) - i) : n + j - 1 = i + j
    BY <1>0, <1>1
  <2>2. Len(b) = Len(s) - i
    BY <1>0, <1>1, <1>3
  <2> QED BY <1>3, <2>1, <2>2
<1>7. /\ a \o b \in Seq(S) /\ Len(a \o b) = Len(a) + Len(b)
      /\ \A j \in 1..(Len(a) + Len(b)) :
            (a \o b)[j] = IF j <= Len(a) THEN a[j] ELSE b[j - Len(a)]
  BY <1>2, <1>3, ConcatProperties
<1>8. Len(a) + Len(b) = Len(s) - 1
  BY <1>0, <1>5, <1>6
<1>9. ASSUME NEW j \in 1..(Len(s) - 1) PROVE (a \o b)[j] = s[IF j < i THEN j ELSE j + 1]
  <2>1. CASE j < i
    <3>1. j \in 1..(i - 1) /\ j <= Len(a)
      BY <1>0, <1>5, <2>1
    <3> QED BY <1>5, <1>7, <1>8, <2>1, <3>1
  <2>2. CASE ~(j < i)
    <3>1. j - (i - 1) \in 1..(Len(s) - i) /\ ~(j <= Len(a)) /\ i + (j - (i - 1)) = j + 1
      BY <1>0, <1>5, <2>2
    <3>2. (a \o b)[j] = b[j - (i - 1)]
      BY <1>5, <1>7, <1>8, <3>1
    <3> QED BY <1>6, <2>2, <3>1, <3>2
  <2> QED BY <2>1, <2>2
<1> QED BY <1>4, <1>7, <1>8, <1>9

(* The cache without the entry of a key. *)
LEMMA WithoutKey ==
    ASSUME AuthType, NEW k
    PROVE  /\ Without(k) \in Seq(Entry)
           /\ Len(Without(k)) <= Len(cache)
           /\ EntryOf(k) # {} => Len(Without(k)) = Len(cache) - 1
           /\ \A j \in 1..Len(Without(k)) :
                /\ Without(k)[j].key # k
                /\ \E i \in 1..Len(cache) : Without(k)[j] = cache[i]
           /\ \A i, j \in 1..Len(Without(k)) :
                Without(k)[i].key = Without(k)[j].key => i = j
<1> DEFINE w == Without(k)
<1>0. /\ cache \in Seq(Entry) /\ Len(cache) \in Nat /\ DOMAIN cache = 1..Len(cache)
      /\ \A i, j \in 1..Len(cache) : cache[i].key = cache[j].key => i = j
  BY DEF AuthType
<1>1. CASE EntryOf(k) = {}
  <2>1. w = cache
    BY <1>1 DEF Without
  <2>2. \A j \in 1..Len(cache) : cache[j].key # k
    BY <1>0, <1>1 DEF EntryOf
  <2> HIDE DEF w
  <2>3. /\ w \in Seq(Entry) /\ Len(w) <= Len(cache)
        /\ \A j \in 1..Len(w) : w[j].key # k /\ \E i \in 1..Len(cache) : w[j] = cache[i]
        /\ \A i, j \in 1..Len(w) : w[i].key = w[j].key => i = j
    <3>1. \A j \in 1..Len(cache) : \E i \in 1..Len(cache) : cache[j] = cache[i]
      OBVIOUS
    <3>2. Len(w) <= Len(cache)
      BY <1>0, <2>1
    <3>3. \A j \in 1..Len(w) : w[j].key # k /\ \E i \in 1..Len(cache) : w[j] = cache[i]
      BY <2>1, <2>2, <3>1, Zenon
    <3> QED BY <1>0, <2>1, <3>2, <3>3, Zenon
  <2> QED BY <1>1, <2>3, Zenon DEF w
<1>2. CASE EntryOf(k) # {}
  <2>1. PICK e \in EntryOf(k) : w = RemoveAt(cache, e)
    BY <1>2 DEF Without
  <2>2. e \in 1..Len(cache) /\ cache[e].key = k
    BY <1>0 DEF EntryOf
  <2> HIDE DEF w
  <2>3. /\ w \in Seq(Entry) /\ Len(w) = Len(cache) - 1
        /\ \A j \in 1..(Len(cache) - 1) : w[j] = cache[IF j < e THEN j ELSE j + 1]
    <3>1. cache \in Seq(Entry)
      BY <1>0
    <3> QED BY <2>1, <2>2, <3>1, RemovedAt, Zenon
  <2> DEFINE at(j) == IF j < e THEN j ELSE j + 1
  <2>4. \A j \in 1..Len(w) : at(j) \in 1..Len(cache) /\ at(j) # e /\ w[j] = cache[at(j)]
    BY <1>0, <2>2, <2>3
  <2>5. \A i, j \in 1..Len(w) : at(i) = at(j) => i = j
    BY <1>0, <2>2, <2>3
  <2> HIDE DEF at
  <2>6. \A j \in 1..Len(w) : w[j].key # k
    BY <1>0, <2>2, <2>4
  <2>7. \A i, j \in 1..Len(w) : w[i].key = w[j].key => i = j
    BY <1>0, <2>4, <2>5
  <2>8. Len(w) <= Len(cache)
    BY <1>0, <2>3
  <2> QED BY <2>3, <2>4, <2>6, <2>7, <2>8 DEF w
<1> QED BY <1>1, <1>2

(* What the operations of the cache make of it: entries it had, and        *)
(* perhaps one more, e, in place of the one of its key.                    *)
Derived(c, e) ==
    /\ c \in Seq(Entry) /\ Len(c) <= Capacity
    /\ \A i, j \in 1..Len(c) : c[i].key = c[j].key => i = j
    /\ \A j \in 1..Len(c) : \/ c[j] = e
                            \/ c[j].key # e.key /\ \E i \in 1..Len(cache) : c[j] = cache[i]

LEMMA InFront ==
    ASSUME AuthType, NEW e \in Entry
    PROVE  LET c == <<e>> \o Without(e.key) IN
           /\ c \in Seq(Entry) /\ Len(c) = Len(Without(e.key)) + 1
           /\ \A i, j \in 1..Len(c) : c[i].key = c[j].key => i = j
           /\ \A j \in 1..Len(c) : \/ c[j] = e
                                   \/ c[j].key # e.key /\ \E i \in 1..Len(cache) : c[j] = cache[i]
<1> DEFINE w == Without(e.key)
           u == <<e>>
           c == u \o w
<1>1. /\ w \in Seq(Entry) /\ Len(w) \in Nat
      /\ \A j \in 1..Len(w) : w[j].key # e.key /\ \E i \in 1..Len(cache) : w[j] = cache[i]
      /\ \A i, j \in 1..Len(w) : w[i].key = w[j].key => i = j
  <2>1. /\ w \in Seq(Entry)
        /\ \A j \in 1..Len(w) : w[j].key # e.key /\ \E i \in 1..Len(cache) : w[j] = cache[i]
        /\ \A i, j \in 1..Len(w) : w[i].key = w[j].key => i = j
    BY WithoutKey, Zenon
  <2>2. \A s \in Seq(Entry) : Len(s) \in Nat
    OBVIOUS
  <2> QED BY <2>1, <2>2, Zenon
<1>2. u \in Seq(Entry) /\ Len(u) = 1 /\ u[1] = e
  OBVIOUS
<1> HIDE DEF w, u
<1>3. /\ c \in Seq(Entry) /\ Len(c) = Len(u) + Len(w)
      /\ \A j \in 1..(Len(u) + Len(w)) : c[j] = IF j <= Len(u) THEN u[j] ELSE w[j - Len(u)]
  <2>1. w \in Seq(Entry) /\ u \in Seq(Entry)
    BY <1>1, <1>2
  <2> QED BY <2>1, ConcatProperties, Zenon
<1>4. Len(c) = Len(w) + 1
  BY <1>1, <1>2, <1>3
<1> HIDE DEF c
<1>5. ASSUME NEW j \in 1..Len(c)
      PROVE  \/ j = 1 /\ c[j] = e
             \/ j # 1 /\ j - 1 \in 1..Len(w) /\ c[j] = w[j - 1]
  <2>1. j \in 1..(Len(u) + Len(w)) /\ (j = 1 \/ (~(j <= 1) /\ j - 1 \in 1..Len(w)))
    BY <1>1, <1>2, <1>4
  <2>2. c[j] = IF j <= Len(u) THEN u[j] ELSE w[j - Len(u)]
    BY <1>3, <2>1, Zenon
  <2>3. Len(u) = 1 /\ u[1] = e
    BY <1>2
  <2> QED BY <2>1, <2>2, <2>3
<1>6. ASSUME NEW i \in 1..Len(c), NEW j \in 1..Len(c), c[i].key = c[j].key PROVE i = j
  <2>0. \A l \in 1..Len(w) : w[l].key # e.key
    BY <1>1, Zenon
  <2>1. (i = 1) <=> (j = 1)
    BY <1>5, <1>6, <2>0, Zenon
  <2>2. ASSUME i # 1 PROVE i - 1 = j - 1
    <3>1. /\ i - 1 \in 1..Len(w) /\ c[i] = w[i - 1]
          /\ j - 1 \in 1..Len(w) /\ c[j] = w[j - 1]
      BY <1>5, <2>1, <2>2, Zenon
    <3>2. w[i - 1].key = w[j - 1].key
      BY <1>6, <3>1, Zenon
    <3> QED BY <1>1, <3>1, <3>2, Zenon
  <2> QED BY <1>1, <1>4, <2>1, <2>2
<1>7. \A j \in 1..Len(c) : \/ c[j] = e
                           \/ c[j].key # e.key /\ \E i \in 1..Len(cache) : c[j] = cache[i]
  BY <1>1, <1>5
<1> QED BY <1>3, <1>4, <1>6, <1>7 DEF c, u, w

LEMMA PutDerived ==
    ASSUME AuthType, NEW k \in Keys, NEW v \in {"Valid", "Revoked", "NotFound"}
    PROVE  Derived(Put(k, v), [key |-> k, value |-> v, until |-> now + Lifetime(v)])
<1> USE AdmissionAssumption
<1>0. PICK e \in Entry : e = [key |-> k, value |-> v, until |-> now + Lifetime(v)]
  <2>1. now + Lifetime(v) \in Nat
    BY DEF AuthType, Lifetime
  <2> QED BY <2>1 DEF Entry
<1>1. e.key = k
  BY <1>0
<1> DEFINE c == <<e>> \o Without(e.key)
           m == IF Len(c) > Capacity THEN Capacity ELSE Len(c)
<1>2. /\ c \in Seq(Entry) /\ Len(c) \in Nat
      /\ \A i, j \in 1..Len(c) : c[i].key = c[j].key => i = j
      /\ \A j \in 1..Len(c) : \/ c[j] = e
                              \/ c[j].key # e.key /\ \E i \in 1..Len(cache) : c[j] = cache[i]
  BY InFront
<1>3. Put(k, v) = SubSeq(c, 1, m)
  BY <1>0, <1>1 DEF Put
<1> HIDE DEF c
<1>4. m \in Nat /\ m <= Len(c) /\ m <= Capacity
  BY <1>2
<1> HIDE DEF m
<1> DEFINE p == SubSeq(c, 1, m)
<1>5. /\ p \in Seq(Entry) /\ Len(p) = m /\ \A j \in 1..m : p[j] = c[j]
  <2>1. \A j \in 1..m : c[j] \in Entry
    BY <1>2, <1>4
  <2>2. /\ p \in Seq(Entry) /\ Len(p) = IF 1 <= m THEN m - 1 + 1 ELSE 0
        /\ \A j \in 1..(m - 1 + 1) : p[j] = c[1 + j - 1]
    BY <1>4, <2>1, SubSeqProperties
  <2>3. m - 1 + 1 = m /\ \A j \in 1..m : 1 + j - 1 = j
    BY <1>4
  <2>4. Len(p) = m
    BY <1>4, <2>2
  <2> QED BY <2>2, <2>3, <2>4
<1> HIDE DEF p
<1>6. \A j \in 1..m : j \in 1..Len(c)
  BY <1>2, <1>4
<1>7. Derived(p, e)
  BY <1>2, <1>4, <1>5, <1>6 DEF Derived
<1> QED BY <1>0, <1>3, <1>7 DEF p

-----------------------------------------------------------------------------
(* What a request's steps do to its slot and to the audit queue *)

(* The request goes on, with its slot. *)
Moves(r) ==
    /\ req[r].pc # "idle"
    /\ \E x \in Request :
          /\ x.pc # "idle" /\ x.ip = req[r].ip
          /\ x.pc \in {"query", "row"} => x.key # NoKey
          /\ req' = [req EXCEPT ![r] = x]
    /\ UNCHANGED <<ips, forgotten, arrivals>>

(* It ends and its slot is released. *)
Ends(r) == req[r].pc # "idle" /\ Release(r)

Proceeds(r) == /\ Moves(r) \/ Ends(r)
               /\ LogAudit \/ UNCHANGED auditVars

LEMMA AtProceeds ==
    ASSUME SlotType, NEW r \in Requests, req[r].pc # "idle",
           NEW pc \in {"query", "row", "budget", "run"},
           pc \in {"query", "row"} => req[r].key # NoKey,
           At(r, pc), UNCHANGED <<slotVars, arrivals, auditVars>>
    PROVE  Proceeds(r)
<1> DEFINE x == [req[r] EXCEPT !.pc = pc]
<1>1. req[r] \in Request
  BY DEF SlotType
<1>2. x \in Request /\ x.pc = pc /\ x.ip = req[r].ip /\ x.key = req[r].key
  BY <1>1 DEF Request
<1>3. req' = [req EXCEPT ![r] = x]
  BY DEF At
<1> HIDE DEF x
<1>4. x.pc # "idle" /\ (x.pc \in {"query", "row"} => x.key # NoKey)
  BY <1>2
<1>5. UNCHANGED <<ips, forgotten, arrivals>>
  BY DEF slotVars
<1>6. Moves(r)
  BY <1>2, <1>3, <1>4, <1>5 DEF Moves
<1> QED BY <1>6 DEF Proceeds

LEMMA AnswerProceeds ==
    ASSUME NEW r, req[r].pc # "idle", NEW log, Answer(r, log)
    PROVE  Proceeds(r)
  BY DEF Answer, Proceeds, Ends

LEMMA DecideProceeds ==
    ASSUME SlotType, NEW r \in Requests, req[r].pc # "idle", NEW v, Decide(r, v)
    PROVE  Proceeds(r)
<1>1. CASE At(r, "budget") /\ UNCHANGED <<slotVars, arrivals, auditVars>>
  BY <1>1, AtProceeds
<1>2. CASE Answer(r, FALSE) \/ Answer(r, TRUE)
  BY <1>2, AnswerProceeds
<1> QED BY <1>1, <1>2 DEF Decide

LEMMA ServeProceeds ==
    ASSUME AuthType, SlotType, NEW r \in Requests, Serve(r) \/ Cancel(r)
    PROVE  Proceeds(r)
<1>1. CASE Anonymous(r)
  <2>1. req[r].pc # "idle"
    BY <1>1 DEF Anonymous
  <2>2. CASE At(r, "budget") /\ UNCHANGED <<slotVars, arrivals, auditVars>>
    BY <2>1, <2>2, AtProceeds
  <2> QED BY <1>1, <2>1, <2>2, AnswerProceeds DEF Anonymous
<1>2. CASE CacheHit(r)
  BY <1>2, DecideProceeds DEF CacheHit
<1>3. CASE CacheMiss(r)
  BY <1>3, AtProceeds DEF CacheMiss, Authenticated
<1>4. CASE ReadRow(r)
  <2> DEFINE x == [req[r] EXCEPT !.pc = "row", !.read = row[req[r].key]]
  <2>0. req[r] \in Request /\ req[r].key # NoKey /\ req[r].pc = "query"
    BY <1>4 DEF SlotType, ReadRow
  <2>1. row[req[r].key] \in {"absent", "valid", "revoked"}
    BY <2>0 DEF AuthType, Request
  <2>2. x \in Request /\ x.pc = "row" /\ x.ip = req[r].ip /\ x.key = req[r].key
    BY <2>0, <2>1 DEF Request
  <2>3. req' = [req EXCEPT ![r] = x]
    BY <1>4 DEF ReadRow, SlotType
  <2> HIDE DEF x
  <2>4. UNCHANGED <<ips, forgotten, arrivals, auditVars>>
    BY <1>4 DEF ReadRow, slotVars
  <2> QED BY <2>0, <2>2, <2>3, <2>4 DEF Proceeds, Moves
<1>5. CASE ReadFails(r)
  BY <1>5, AnswerProceeds DEF ReadFails
<1>6. CASE Resolve(r)
  BY <1>6, DecideProceeds DEF Resolve
<1>7. CASE Respond(r)
  BY <1>7, AnswerProceeds DEF Respond
<1>8. CASE \E ok \in BOOLEAN : Budget(r, ok)
  <2>1. req[r].pc # "idle"
    BY <1>8 DEF Budget
  <2>2. CASE At(r, "run") /\ UNCHANGED <<slotVars, arrivals, auditVars>>
    BY <2>1, <2>2, AtProceeds
  <2> QED BY <1>8, <2>1, <2>2, AnswerProceeds DEF Budget
<1>9. CASE Cancel(r)
  BY <1>9 DEF Cancel, Proceeds, Ends
<1> QED BY <1>1, <1>2, <1>3, <1>4, <1>5, <1>6, <1>7, <1>8, <1>9 DEF Serve

-----------------------------------------------------------------------------
(* Concurrency slots *)

LEMMA LiveCount ==
    ASSUME NEW i
    PROVE  IsFiniteSet(Live(i)) /\ Cardinality(Live(i)) \in Nat
<1>1. Live(i) \subseteq Requests
  BY DEF Live
<1>2. IsFiniteSet(Live(i))
  BY <1>1, AdmissionAssumption, FS_Subset
<1> QED BY <1>2, FS_CardinalityType

LEMMA CountNat ==
    ASSUME SlotType, NEW i
    PROVE  InFlight(ips, i) \in Nat
<1>1. i \in DOMAIN ips => ips[i].in_flight \in Nat
  BY AdmissionAssumption DEF SlotType, Slots
<1> QED BY <1>1 DEF InFlight

LEMMA MovesSlots ==
    ASSUME SlotType, SlotInv, NEW r \in Requests, Moves(r)
    PROVE  SlotType' /\ SlotInv'
<1>1. PICK x \in Request :
         /\ x.pc # "idle" /\ x.ip = req[r].ip
         /\ x.pc \in {"query", "row"} => x.key # NoKey
         /\ req' = [req EXCEPT ![r] = x]
  BY DEF Moves
<1>2. req \in [Requests -> Request] /\ req[r].pc # "idle" /\ UNCHANGED <<ips, forgotten, arrivals>>
  BY DEF Moves, SlotType
<1>3. SlotType'
  BY <1>1, <1>2 DEF SlotType
<1>4. ASSUME NEW q \in Requests
      PROVE  (req'[q].pc # "idle") = (req[q].pc # "idle") /\ req'[q].ip = req[q].ip
  BY <1>1, <1>2
<1>5. \A i : Live(i)' = Live(i)
  BY <1>4 DEF Live
<1> QED BY <1>2, <1>3, <1>5 DEF SlotInv

LEMMA EndsSlots ==
    ASSUME SlotType, SlotInv, NEW r \in Requests, Ends(r)
    PROVE  SlotType' /\ SlotInv'
<1>a. PICK c \in Ips : c = req[r].ip
  BY DEF SlotType, Request
<1>0. req \in [Requests -> Request] /\ req[r].pc # "idle" /\ r \in Live(c)
  BY <1>a DEF SlotType, Ends, Live
<1>1. /\ req' = [req EXCEPT ![r] = Idle]
      /\ ips' = IF InFlight(ips, c) > 0 THEN [ips EXCEPT ![c].in_flight = @ - 1] ELSE ips
      /\ forgotten' = IF Live(c) = {r} THEN forgotten \ {c} ELSE forgotten
      /\ arrivals' = arrivals
  BY <1>a DEF Ends, Release
<1>2. Idle \in Request /\ Idle.pc = "idle"
  <2>1. (CHOOSE i \in Ips : TRUE) \in Ips
    BY AdmissionAssumption
  <2> QED BY <2>1 DEF Idle, Request, Routes
<1>3. Live(c)' = Live(c) \ {r} /\ \A i : i # c => Live(i)' = Live(i)
  <2>1. \A q \in Requests : req'[q] = IF q = r THEN Idle ELSE req[q]
    BY <1>0, <1>1
  <2> QED BY <1>0, <1>2, <2>1 DEF Live
<1>4. Cardinality(Live(c)') = Cardinality(Live(c)) - 1
  BY <1>0, <1>3, LiveCount, FS_RemoveElement
<1>5. /\ InFlight(ips', c) = IF InFlight(ips, c) > 0 THEN InFlight(ips, c) - 1 ELSE 0
      /\ \A i : i # c => InFlight(ips', i) = InFlight(ips, i)
      /\ DOMAIN ips' = DOMAIN ips /\ ips' \in [DOMAIN ips -> Slots]
  <2>0. DOMAIN ips \subseteq Ips /\ ips \in [DOMAIN ips -> Slots]
    BY DEF SlotType
  <2>1. CASE InFlight(ips, c) > 0
    <3>1. c \in DOMAIN ips /\ ips[c].in_flight = InFlight(ips, c)
      BY <2>1 DEF InFlight
    <3> DEFINE x == [ips[c] EXCEPT !.in_flight = @ - 1]
    <3>2. x \in Slots /\ x.in_flight = ips[c].in_flight - 1
      BY <2>0, <2>1, <3>1, AdmissionAssumption DEF Slots
    <3>3. ips' = [ips EXCEPT ![c] = x]
      BY <1>1, <2>1
    <3> HIDE DEF x
    <3>4. /\ DOMAIN ips' = DOMAIN ips /\ ips' \in [DOMAIN ips -> Slots] /\ ips'[c] = x
          /\ \A i \in DOMAIN ips : i # c => ips'[i] = ips[i]
      BY <2>0, <3>1, <3>2, <3>3
    <3> QED BY <2>1, <3>1, <3>2, <3>4 DEF InFlight
  <2>2. CASE ~(InFlight(ips, c) > 0)
    <3>1. InFlight(ips, c) = 0
      BY <2>2, CountNat
    <3> QED BY <1>1, <2>0, <2>2, <3>1
  <2> QED BY <2>1, <2>2
<1>6. SlotType'
  <2>1. forgotten' \subseteq Ips /\ req' \in [Requests -> Request] /\ arrivals' \in 0..MaxArrivals
    BY <1>0, <1>1, <1>2 DEF SlotType
  <2>2. \A q \in Requests : req'[q].pc \in {"query", "row"} => req'[q].key # NoKey
    BY <1>0, <1>1, <1>2 DEF SlotType
  <2>3. DOMAIN ips' \subseteq Ips /\ ips' \in [DOMAIN ips' -> Slots]
    BY <1>5 DEF SlotType
  <2> QED BY <2>1, <2>2, <2>3 DEF SlotType
<1>7. ASSUME NEW i \in Ips
      PROVE  /\ InFlight(ips', i) <= Cardinality(Live(i)')
             /\ i \notin forgotten' => InFlight(ips', i) = Cardinality(Live(i)')
  <2>1. /\ InFlight(ips, i) <= Cardinality(Live(i)) /\ InFlight(ips, i) \in Nat
        /\ i \notin forgotten => InFlight(ips, i) = Cardinality(Live(i))
        /\ Cardinality(Live(i)) \in Nat
    BY CountNat, LiveCount DEF SlotInv
  <2>2. CASE i # c
    <3>1. i \notin forgotten' => i \notin forgotten
      BY <1>1, <2>2
    <3> QED BY <1>3, <1>5, <2>1, <2>2, <3>1
  <2>3. CASE i = c
    <3>1. Live(i) = {r} => Cardinality(Live(i)) = 1
      BY FS_Singleton
    <3>2. Live(i) # {r} => (i \notin forgotten' => i \notin forgotten)
      BY <1>1, <2>3
    <3>3. Cardinality(Live(i)) >= 1
      <4>1. Live(i) # {}
        BY <1>0, <2>3
      <4>2. Cardinality(Live(i)) # 0
        BY <4>1, LiveCount, FS_EmptySet
      <4> QED BY <2>1, <4>2
    <3> QED BY <1>4, <1>5, <2>1, <2>3, <3>1, <3>2, <3>3
  <2> QED BY <2>2, <2>3
<1> QED BY <1>6, <1>7 DEF SlotInv

LEMMA PrunedSlots ==
    ASSUME SlotType
    PROVE  /\ DOMAIN Pruned \subseteq DOMAIN ips
           /\ \A i \in DOMAIN Pruned : Pruned[i] = ips[i]
<1>1. CASE Cardinality(DOMAIN ips) < MAX_TRACKED_IPS
  BY <1>1 DEF Pruned
<1>2. CASE ~(Cardinality(DOMAIN ips) < MAX_TRACKED_IPS)
  <2> DEFINE D == {i \in DOMAIN ips : Kept(i)}
  <2>1. Pruned = [i \in D |-> ips[i]]
    BY <1>2 DEF Pruned
  <2>2. D \subseteq DOMAIN ips
    OBVIOUS
  <2> HIDE DEF D
  <2> QED BY <2>1, <2>2
<1> QED BY <1>1, <1>2

LEMMA TrackedSlots ==
    ASSUME NEW m, DOMAIN m \subseteq Ips, m \in [DOMAIN m -> Slots], now \in 0..MaxTime,
           NEW c \in Ips, NEW n \in 0..max_concurrent_per_ip
    PROVE  LET t == Tracked(m, c, n) IN
           /\ DOMAIN t \subseteq Ips /\ t \in [DOMAIN t -> Slots]
           /\ \A i : InFlight(t, i) = IF i = c THEN n ELSE InFlight(m, i)
<1> DEFINE x == [in_flight |-> n, last_activity |-> now]
           t == Tracked(m, c, n)
<1>1. x \in Slots /\ x.in_flight = n
  BY DEF Slots
<1>2. t = [i \in DOMAIN m \cup {c} |-> IF i = c THEN x ELSE m[i]]
  BY DEF Tracked
<1> HIDE DEF x, t
<1>3. /\ DOMAIN t = DOMAIN m \cup {c} /\ t \in [DOMAIN t -> Slots] /\ t[c] = x
      /\ \A i \in DOMAIN m : i # c => t[i] = m[i]
  BY <1>1, <1>2
<1>4. \A i : InFlight(t, i) = IF i = c THEN n ELSE InFlight(m, i)
  BY <1>1, <1>3 DEF InFlight
<1> QED BY <1>3, <1>4 DEF t

LEMMA ArriveSlots ==
    ASSUME AuthType, SlotType, SlotInv, NEW r \in Requests, NEW a \in Arrivals,
           Arrive(r, a.route, a.key, a.ip)
    PROVE  SlotType' /\ SlotInv'
<1> USE AdmissionAssumption
<1>0. /\ a.route \in Routes /\ a.key \in Keys \cup {NoKey} /\ a.ip \in Ips
      /\ req \in [Requests -> Request] /\ now \in 0..MaxTime
      /\ DOMAIN ips \subseteq Ips /\ ips \in [DOMAIN ips -> Slots] /\ forgotten \subseteq Ips
  BY DEF SlotType, AuthType
<1>1. PICK c \in Ips : c = a.ip
  BY <1>0
<1>2. PICK m : m = Pruned
  OBVIOUS
<1>3. PICK n : n = InFlight(m, c)
  OBVIOUS
<1>4. /\ DOMAIN m \subseteq DOMAIN ips /\ \A i \in DOMAIN m : m[i] = ips[i]
      /\ DOMAIN m \subseteq Ips /\ m \in [DOMAIN m -> Slots]
  <2>1. DOMAIN m \subseteq DOMAIN ips /\ \A i \in DOMAIN m : m[i] = ips[i]
    BY <1>2, PrunedSlots
  <2>2. m = [i \in DOMAIN m |-> m[i]]
    <3>1. CASE m = ips
      BY <1>0, <3>1
    <3>2. CASE m = [i \in {j \in DOMAIN ips : Kept(j)} |-> ips[i]]
      BY <3>2
    <3> QED BY <1>2, <3>1, <3>2 DEF Pruned
  <2> QED BY <1>0, <2>1, <2>2
<1>5. /\ req[r].pc = "idle" /\ arrivals < MaxArrivals /\ arrivals' = arrivals + 1
      /\ forgotten' = forgotten \cup {i \in DOMAIN ips \ DOMAIN m : ips[i].in_flight > 0}
      /\ IF n < max_concurrent_per_ip
         THEN /\ ips' = Tracked(m, c, n + 1)
              /\ req' = [req EXCEPT ![r] = [pc |-> "auth", route |-> a.route, key |-> a.key,
                                            ip |-> c, read |-> "absent"]]
         ELSE ips' = Tracked(m, c, n) /\ req' = req
  BY <1>1, <1>2, <1>3 DEF Arrive
<1>6. ASSUME NEW i \in Ips
      PROVE  /\ InFlight(m, i) \in 0..max_concurrent_per_ip /\ InFlight(m, i) <= Cardinality(Live(i))
             /\ i \notin forgotten' => InFlight(m, i) = Cardinality(Live(i))
             /\ Cardinality(Live(i)) \in Nat
  <2>1. /\ InFlight(ips, i) \in Nat /\ Cardinality(Live(i)) \in Nat
        /\ InFlight(ips, i) <= Cardinality(Live(i))
        /\ i \notin forgotten => InFlight(ips, i) = Cardinality(Live(i))
    BY CountNat, LiveCount DEF SlotInv
  <2>2. CASE i \in DOMAIN m
    <3>1. InFlight(m, i) = InFlight(ips, i) /\ m[i] \in Slots
      BY <1>4, <2>2 DEF InFlight
    <3>2. InFlight(m, i) \in 0..max_concurrent_per_ip
      BY <2>2, <3>1 DEF InFlight, Slots
    <3> QED BY <1>5, <2>1, <3>1, <3>2
  <2>3. CASE i \notin DOMAIN m
    <3>1. InFlight(m, i) = 0
      BY <2>3 DEF InFlight
    <3>2. i \notin forgotten' => InFlight(ips, i) = 0
      <4>1. i \notin forgotten' => ~(i \in DOMAIN ips /\ ips[i].in_flight > 0)
        BY <1>5, <2>3
      <4> QED BY <2>1, <4>1 DEF InFlight
    <3>3. i \notin forgotten' => i \notin forgotten
      BY <1>5
    <3> QED BY <2>1, <3>1, <3>2, <3>3
  <2> QED BY <2>2, <2>3
<1>7. n \in 0..max_concurrent_per_ip
  BY <1>3, <1>6
<1>8. forgotten' \subseteq Ips /\ arrivals' \in 0..MaxArrivals
  <2>1. arrivals \in 0..MaxArrivals
    BY DEF SlotType
  <2> QED BY <1>0, <1>5, <2>1
<1>9. CASE n < max_concurrent_per_ip
  <2> DEFINE x == [pc |-> "auth", route |-> a.route, key |-> a.key, ip |-> c, read |-> "absent"]
  <2>1. x \in Request /\ x.pc = "auth" /\ x.ip = c
    BY <1>0, <1>1 DEF Request
  <2>2. req' = [req EXCEPT ![r] = x] /\ ips' = Tracked(m, c, n + 1)
    BY <1>5, <1>9
  <2> HIDE DEF x
  <2>3. n + 1 \in 0..max_concurrent_per_ip
    BY <1>7, <1>9
  <2>4. /\ DOMAIN ips' \subseteq Ips /\ ips' \in [DOMAIN ips' -> Slots]
        /\ \A i : InFlight(ips', i) = IF i = c THEN n + 1 ELSE InFlight(m, i)
    BY <1>0, <1>4, <2>2, <2>3, TrackedSlots
  <2>5. Live(c)' = Live(c) \cup {r} /\ r \notin Live(c) /\ \A i : i # c => Live(i)' = Live(i)
    <3>1. \A q \in Requests : req'[q] = IF q = r THEN x ELSE req[q]
      BY <1>0, <2>2
    <3> QED BY <1>5, <2>1, <3>1 DEF Live
  <2>6. Cardinality(Live(c)') = Cardinality(Live(c)) + 1
    BY <2>5, LiveCount, FS_AddElement
  <2>7. SlotType'
    <3>1. req' \in [Requests -> Request]
      BY <1>0, <2>1, <2>2
    <3>2. \A q \in Requests : req'[q].pc \in {"query", "row"} => req'[q].key # NoKey
      BY <1>0, <2>1, <2>2 DEF SlotType
    <3> QED BY <1>8, <2>4, <3>1, <3>2 DEF SlotType
  <2>8. ASSUME NEW i \in Ips
        PROVE  /\ InFlight(ips', i) <= Cardinality(Live(i)')
               /\ i \notin forgotten' => InFlight(ips', i) = Cardinality(Live(i)')
    <3>1. CASE i = c
      <4>1. InFlight(ips', i) = InFlight(m, i) + 1
        BY <1>3, <2>4, <3>1
      <4>2. Cardinality(Live(i)') = Cardinality(Live(i)) + 1
        BY <2>6, <3>1
      <4> QED BY <1>6, <4>1, <4>2
    <3>2. CASE i # c
      <4>1. InFlight(ips', i) = InFlight(m, i) /\ Live(i)' = Live(i)
        BY <2>4, <2>5, <3>2
      <4> QED BY <1>6, <4>1
    <3> QED BY <3>1, <3>2
  <2> QED BY <2>7, <2>8 DEF SlotInv
<1>10. CASE ~(n < max_concurrent_per_ip)
  <2>1. req' = req /\ ips' = Tracked(m, c, n)
    BY <1>5, <1>10
  <2>2. /\ DOMAIN ips' \subseteq Ips /\ ips' \in [DOMAIN ips' -> Slots]
        /\ \A i : InFlight(ips', i) = IF i = c THEN n ELSE InFlight(m, i)
    BY <1>0, <1>4, <1>7, <2>1, TrackedSlots
  <2>3. \A i : Live(i)' = Live(i)
    BY <2>1 DEF Live
  <2>4. SlotType'
    BY <1>8, <2>1, <2>2 DEF SlotType
  <2>5. SlotInv'
    BY <1>3, <1>6, <2>2, <2>3 DEF SlotInv
  <2> QED BY <2>4, <2>5
<1> QED BY <1>9, <1>10

-----------------------------------------------------------------------------
(* The audit queue *)

LEMMA AuditStep ==
    ASSUME AuditType, AuditConserved,
           \/ LogAudit \/ UNCHANGED auditVars
           \/ \E ok \in BOOLEAN : AuditRecv(ok) \/ AuditTick(ok)
    PROVE  AuditType' /\ AuditConserved'
<1> USE AdmissionAssumption DEF AuditType, AuditConserved
<1>1. CASE LogAudit
  BY <1>1 DEF LogAudit
<1>2. CASE UNCHANGED auditVars
  BY <1>2 DEF auditVars
<1>3. CASE \E ok \in BOOLEAN : AuditRecv(ok)
  BY <1>3 DEF AuditRecv, Flush, FlushDue
<1>4. CASE \E ok \in BOOLEAN : AuditTick(ok)
  BY <1>4 DEF AuditTick, Flush
<1> QED BY <1>1, <1>2, <1>3, <1>4

-----------------------------------------------------------------------------
(* The key cache *)

LEMMA LifetimeNat == \A v : Lifetime(v) \in Nat
  BY AdmissionAssumption DEF Lifetime

LEMMA EntryFields ==
    ASSUME AuthType, NEW i \in 1..Len(cache)
    PROVE  cache[i] \in Entry /\ i \in DOMAIN cache
  BY DEF AuthType

(* The cache operations keep CacheInv: an entry that was there is left as  *)
(* it was, and the new one satisfies EntryOk.                              *)
LEMMA DerivedStep ==
    ASSUME AuthType, CacheInv, NEW e, Derived(cache', e), EntryOk(e)',
           UNCHANGED <<now, row, changed>>,
           raced' \subseteq Keys, \A k \in Keys : k # e.key => (k \in raced <=> k \in raced')
    PROVE  AuthType' /\ CacheInv'
<1>1. AuthType'
  <2>1. cache' \in Seq(Entry) /\ Len(cache') <= Capacity /\ DOMAIN cache' = 1..Len(cache')
    BY DEF Derived
  <2>2. \A i, j \in DOMAIN cache' : cache'[i].key = cache'[j].key => i = j
    BY <2>1 DEF Derived
  <2> QED BY <2>1, <2>2 DEF AuthType
<1>2. ASSUME NEW j \in 1..Len(cache') PROVE EntryOk(cache[j])'
  <2>1. CASE cache'[j] = e
    BY <2>1 DEF EntryOk
  <2>2. CASE cache'[j].key # e.key /\ \E i \in 1..Len(cache) : cache'[j] = cache[i]
    <3>1. PICK i \in 1..Len(cache) : cache'[j] = cache[i]
      BY <2>2
    <3>2. EntryOk(cache[i]) /\ cache[i] \in Entry
      BY EntryFields DEF CacheInv
    <3>3. cache[i].key \in Keys
      BY <3>2 DEF Entry
    <3>4. cache[i].key \notin raced' => cache[i].key \notin raced
      BY <2>2, <3>1, <3>3
    <3> QED BY <3>1, <3>2, <3>4 DEF EntryOk
  <2> QED BY <2>1, <2>2 DEF Derived
<1>3. DOMAIN cache' = 1..Len(cache')
  BY <1>1 DEF AuthType
<1> QED BY <1>1, <1>2, <1>3 DEF CacheInv

LEMMA UnchangedAuth ==
    ASSUME AuthType, CacheInv, UNCHANGED <<now, authVars>>
    PROVE  AuthType' /\ CacheInv'
<1>1. UNCHANGED <<now, row, changed, cache, raced>>
  BY DEF authVars
<1>2. AuthType'
  BY <1>1 DEF AuthType
<1>3. CacheInv'
  BY <1>1 DEF CacheInv, EntryOk
<1> QED BY <1>2, <1>3

(* Time only shortens what is left of an entry's life. *)
LEMMA TickAuth ==
    ASSUME AuthType, CacheInv, Tick
    PROVE  AuthType' /\ CacheInv'
<1>1. now' = now + 1 /\ now < MaxTime /\ UNCHANGED <<row, changed, cache, raced>>
  BY DEF Tick, authVars
<1>2. AuthType'
  BY <1>1, AdmissionAssumption DEF AuthType
<1>3. ASSUME NEW i \in DOMAIN cache PROVE EntryOk(cache[i])'
  <2>1. EntryOk(cache[i]) /\ cache[i] \in Entry /\ Lifetime(cache[i].value) \in Nat /\ now \in Nat
    BY LifetimeNat DEF CacheInv, AuthType
  <2>2. cache[i].until \in Nat
    BY <2>1 DEF Entry
  <2>3. cache[i].until <= now' + Lifetime(cache[i].value)
    BY <1>1, <2>1, <2>2 DEF EntryOk
  <2> QED BY <1>1, <2>1, <2>3 DEF EntryOk
<1>4. \A k \in Keys : changed'[k] <= now'
  <2>1. \A k \in Keys : changed[k] <= now /\ changed[k] \in Nat /\ now \in Nat
    BY DEF CacheInv, AuthType
  <2> QED BY <1>1, <2>1
<1> QED BY <1>1, <1>2, <1>3, <1>4 DEF CacheInv

(* When a row changes every entry of its key ends within its lifetime.     *)
LEMMA SetRowAuth ==
    ASSUME AuthType, CacheInv, NEW k \in Keys, NEW from, NEW to \in {"absent", "valid", "revoked"},
           SetRow(k, from, to)
    PROVE  AuthType' /\ CacheInv'
<1>1. /\ row' = [row EXCEPT ![k] = to] /\ changed' = [changed EXCEPT ![k] = now]
      /\ UNCHANGED <<now, cache, raced>>
  BY DEF SetRow
<1>2. AuthType'
  BY <1>1 DEF AuthType
<1>3. ASSUME NEW i \in DOMAIN cache PROVE EntryOk(cache[i])'
  <2>1. /\ EntryOk(cache[i]) /\ cache[i] \in Entry
        /\ row \in [Keys -> {"absent", "valid", "revoked"}] /\ changed \in [Keys -> 0..MaxTime]
    BY DEF CacheInv, AuthType
  <2>2. cache[i].key \in Keys
    BY <2>1 DEF Entry
  <2>3. CASE cache[i].key = k
    <3>1. changed'[cache[i].key] = now
      BY <1>1, <2>1, <2>3
    <3> QED BY <1>1, <2>1, <3>1 DEF EntryOk
  <2>4. CASE cache[i].key # k
    <3>1. row'[cache[i].key] = row[cache[i].key] /\ changed'[cache[i].key] = changed[cache[i].key]
      BY <1>1, <2>1, <2>2, <2>4
    <3> QED BY <1>1, <2>1, <3>1 DEF EntryOk
  <2> QED BY <2>3, <2>4
<1>4. \A j \in Keys : changed'[j] <= now'
  <2>1. \A j \in Keys : changed[j] <= now
    BY DEF CacheInv
  <2>2. now \in Nat /\ changed \in [Keys -> 0..MaxTime]
    BY DEF AuthType
  <2> QED BY <1>1, <2>1, <2>2
<1> QED BY <1>1, <1>2, <1>3, <1>4 DEF CacheInv

LEMMA CacheHitAuth ==
    ASSUME AuthType, CacheInv, NEW r \in Requests, CacheHit(r)
    PROVE  AuthType' /\ CacheInv'
<1>1. PICK i \in EntryOf(req[r].key) : cache' = <<cache[i]>> \o Without(req[r].key)
  BY DEF CacheHit
<1>2. i \in 1..Len(cache) /\ cache[i].key = req[r].key /\ cache[i] \in Entry /\ i \in DOMAIN cache
  BY DEF EntryOf, AuthType
<1>3. PICK e \in Entry : e = cache[i]
  BY <1>2
<1>4. cache' = <<e>> \o Without(e.key) /\ EntryOf(e.key) # {}
  BY <1>1, <1>2, <1>3
<1>5. UNCHANGED <<now, row, changed, raced>>
  BY DEF CacheHit
<1>6. Derived(cache', e)
  <2>1. Len(Without(e.key)) = Len(cache) - 1
    BY <1>4, WithoutKey, Zenon
  <2>2. Len(cache) \in Nat /\ Len(cache) <= Capacity
    BY DEF AuthType
  <2>3. /\ cache' \in Seq(Entry) /\ Len(cache') = Len(Without(e.key)) + 1
        /\ \A l, j \in 1..Len(cache') : cache'[l].key = cache'[j].key => l = j
        /\ \A j \in 1..Len(cache') :
              \/ cache'[j] = e
              \/ cache'[j].key # e.key /\ \E l \in 1..Len(cache) : cache'[j] = cache[l]
    BY <1>4, InFront, Zenon
  <2>4. Len(cache') <= Capacity
    BY <2>1, <2>2, <2>3
  <2> QED BY <2>3, <2>4, Zenon DEF Derived
<1>7. EntryOk(e)'
  <2>1. EntryOk(e)
    BY <1>2, <1>3 DEF CacheInv
  <2> QED BY <1>5, <2>1 DEF EntryOk
<1>8. raced' \subseteq Keys /\ \A k \in Keys : k # e.key => (k \in raced <=> k \in raced')
  BY <1>5 DEF AuthType
<1> QED BY <1>5, <1>6, <1>7, <1>8, DerivedStep

LEMMA CacheMissAuth ==
    ASSUME AuthType, CacheInv, NEW r \in Requests, CacheMiss(r)
    PROVE  AuthType' /\ CacheInv'
<1>1. PICK k : k = req[r].key
  OBVIOUS
<1>2. PICK w : w = Without(k)
  OBVIOUS
<1>3. cache' = w /\ UNCHANGED <<now, row, changed, raced>>
  BY <1>1, <1>2 DEF CacheMiss
<1>4. /\ w \in Seq(Entry) /\ Len(w) <= Len(cache)
      /\ \A j \in 1..Len(w) : \E i \in 1..Len(cache) : w[j] = cache[i]
      /\ \A i, j \in 1..Len(w) : w[i].key = w[j].key => i = j
  BY <1>2, WithoutKey, Zenon
<1>5. Len(w) <= Capacity
  BY <1>4, AdmissionAssumption DEF AuthType
<1>6. AuthType'
  <2>0. \A s \in Seq(Entry) : DOMAIN s = 1..Len(s)
    OBVIOUS
  <2>1. \A i, j \in DOMAIN w : w[i].key = w[j].key => i = j
    BY <1>4, <2>0, Zenon
  <2> QED BY <1>3, <1>4, <1>5, <2>1, Zenon DEF AuthType
<1>7. ASSUME NEW j \in DOMAIN w PROVE EntryOk(w[j])'
  <2>1. PICK i \in 1..Len(cache) : w[j] = cache[i]
    BY <1>4
  <2>2. EntryOk(cache[i])
    BY EntryFields DEF CacheInv
  <2> QED BY <1>3, <2>1, <2>2 DEF EntryOk
<1>8. \A j \in DOMAIN cache' : EntryOk(cache[j])'
  BY <1>3, <1>7 DEF EntryOk
<1> QED BY <1>3, <1>6, <1>8 DEF CacheInv

(* An entry stored by a lookup agrees with the row, or its key is raced.   *)
LEMMA ResolveAuth ==
    ASSUME AuthType, SlotType, CacheInv, NEW r \in Requests, Resolve(r)
    PROVE  AuthType' /\ CacheInv'
<1>1. /\ req[r] \in Request /\ req[r].key \in Keys
      /\ req[r].read \in {"absent", "valid", "revoked"}
  <2>1. req[r] \in Request /\ req[r].key # NoKey
    BY DEF Resolve, SlotType
  <2> QED BY <2>1 DEF Request
<1>2. PICK k \in Keys : k = req[r].key
  BY <1>1
<1>3. PICK v \in {"Valid", "Revoked", "NotFound"} : v = Verdict(req[r].read)
  BY <1>1 DEF Verdict
<1>4. PICK e : e = [key |-> k, value |-> v, until |-> now + Lifetime(v)]
  OBVIOUS
<1>5. /\ cache' = Put(k, v) /\ UNCHANGED <<now, row, changed>>
      /\ raced' = IF req[r].read = row[k] THEN raced \ {k} ELSE raced \cup {k}
  BY <1>2, <1>3 DEF Resolve
<1>6. Derived(cache', e)
  BY <1>4, <1>5, PutDerived
<1>7. e.key = k /\ e.value = v /\ e.until = now + Lifetime(v)
  BY <1>4
<1>8. EntryOk(e)'
  <2>1. k \notin raced' => v = Verdict(row[k])
    BY <1>3, <1>5
  <2>2. now + Lifetime(v) \in Nat
    BY LifetimeNat DEF AuthType
  <2> QED BY <1>5, <1>7, <2>1, <2>2 DEF EntryOk
<1>9. raced' \subseteq Keys /\ \A j \in Keys : j # e.key => (j \in raced <=> j \in raced')
  BY <1>5, <1>7 DEF AuthType
<1> QED BY <1>5, <1>6, <1>8, <1>9, DerivedStep

-----------------------------------------------------------------------------
(* The theorems *)

LEMMA AuthStep ==
    ASSUME AuthType, SlotType, CacheInv, Next
    PROVE  AuthType' /\ CacheInv'
<1>1. CASE Tick
  BY <1>1, TickAuth
<1>2. CASE \E k \in Keys : CreateKey(k) \/ RevokeKey(k)
  BY <1>2, SetRowAuth DEF CreateKey, RevokeKey
<1>3. ASSUME NEW r \in Requests, CacheHit(r) \/ CacheMiss(r) \/ Resolve(r)
      PROVE  AuthType' /\ CacheInv'
  BY <1>3, CacheHitAuth, CacheMissAuth, ResolveAuth
<1>4. ASSUME NEW r \in Requests,
             \/ \E a \in Arrivals : Arrive(r, a.route, a.key, a.ip)
             \/ Anonymous(r) \/ ReadRow(r) \/ ReadFails(r) \/ Respond(r)
             \/ \E ok \in BOOLEAN : Budget(r, ok)
             \/ Cancel(r)
      PROVE  AuthType' /\ CacheInv'
  <2>1. UNCHANGED <<now, authVars>>
    BY <1>4 DEF Arrive, Anonymous, ReadRow, ReadFails, Respond, Budget, Cancel
  <2> QED BY <2>1, UnchangedAuth
<1>5. CASE \E ok \in BOOLEAN : AuditRecv(ok) \/ AuditTick(ok)
  <2>1. UNCHANGED <<now, authVars>>
    BY <1>5 DEF AuditRecv, AuditTick
  <2> QED BY <2>1, UnchangedAuth
<1> QED BY <1>1, <1>2, <1>3, <1>4, <1>5 DEF Next, Serve

LEMMA UnchangedSlots ==
    ASSUME SlotType, SlotInv, UNCHANGED <<slotVars, req, arrivals>>
    PROVE  SlotType' /\ SlotInv'
<1>1. UNCHANGED <<ips, forgotten, req, arrivals>>
  BY DEF slotVars
<1>2. \A i : Live(i)' = Live(i)
  BY <1>1 DEF Live
<1>3. SlotType'
  BY <1>1 DEF SlotType
<1> QED BY <1>1, <1>2, <1>3 DEF SlotInv

LEMMA SlotAuditStep ==
    ASSUME AuthType, SlotType, SlotInv, AuditType, AuditConserved, Next
    PROVE  SlotType' /\ SlotInv' /\ AuditType' /\ AuditConserved'
<1>1. CASE Tick \/ \E k \in Keys : CreateKey(k) \/ RevokeKey(k)
  <2>1. UNCHANGED <<slotVars, req, arrivals, auditVars>>
    BY <1>1 DEF Tick, CreateKey, RevokeKey, SetRow
  <2> QED BY <2>1, UnchangedSlots, AuditStep
<1>2. ASSUME NEW r \in Requests, NEW a \in Arrivals, Arrive(r, a.route, a.key, a.ip)
      PROVE  SlotType' /\ SlotInv' /\ AuditType' /\ AuditConserved'
  <2>1. UNCHANGED auditVars
    BY <1>2 DEF Arrive
  <2> QED BY <1>2, <2>1, ArriveSlots, AuditStep
<1>3. ASSUME NEW r \in Requests, Serve(r) \/ Cancel(r)
      PROVE  SlotType' /\ SlotInv' /\ AuditType' /\ AuditConserved'
  <2>1. Proceeds(r)
    BY <1>3, ServeProceeds
  <2>2. SlotType' /\ SlotInv'
    BY <2>1, MovesSlots, EndsSlots DEF Proceeds
  <2>3. AuditType' /\ AuditConserved'
    BY <2>1, AuditStep DEF Proceeds
  <2> QED BY <2>2, <2>3
<1>4. CASE \E ok \in BOOLEAN : AuditRecv(ok) \/ AuditTick(ok)
  <2>1. UNCHANGED <<slotVars, req, arrivals>>
    BY <1>4 DEF AuditRecv, AuditTick
  <2> QED BY <1>4, <2>1, UnchangedSlots, AuditStep
<1> QED BY <1>1, <1>2, <1>3, <1>4 DEF Next

LEMMA AdmissionInitially == Init => AdmissionInv
<1> SUFFICES ASSUME Init PROVE AdmissionInv
  OBVIOUS
<1> USE AdmissionAssumption
<1>1. AuthType
  <2>1. cache \in Seq(Entry) /\ Len(cache) = 0 /\ DOMAIN cache = {}
    BY DEF Init
  <2> QED BY <2>1 DEF Init, AuthType
<1>2. SlotType
  <2>1. Idle \in Request /\ Idle.pc = "idle"
    <3>1. (CHOOSE i \in Ips : TRUE) \in Ips
      OBVIOUS
    <3> QED BY <3>1 DEF Idle, Request, Routes
  <2>2. DOMAIN ips = {} /\ ips \in [DOMAIN ips -> Slots]
    BY DEF Init
  <2> QED BY <2>1, <2>2 DEF Init, SlotType
<1>3. AuditType /\ AuditConserved
  BY DEF Init, AuditType, AuditConserved
<1>4. SlotInv
  <2>1. \A i : Live(i) = {}
    BY DEF Init, Live, Idle
  <2>2. \A i : InFlight(ips, i) = 0
    BY DEF Init, InFlight
  <2> QED BY <2>1, <2>2, FS_EmptySet DEF SlotInv
<1>5. CacheInv
  BY DEF Init, CacheInv
<1> QED BY <1>1, <1>2, <1>3, <1>4, <1>5, TypeParts DEF AdmissionInv

LEMMA AdmissionStep == AdmissionInv /\ [Next]_vars => AdmissionInv'
<1> SUFFICES ASSUME AdmissionInv, [Next]_vars PROVE AdmissionInv'
  OBVIOUS
<1>1. AuthType /\ SlotType /\ AuditType /\ SlotInv /\ AuditConserved /\ CacheInv
  BY TypeParts DEF AdmissionInv
<1>2. AuthType' /\ SlotType' /\ AuditType' /\ SlotInv' /\ AuditConserved' /\ CacheInv'
  <2>1. CASE Next
    BY <1>1, <2>1, AuthStep, SlotAuditStep
  <2>2. CASE UNCHANGED vars
    <3>1. UNCHANGED <<now, authVars>> /\ UNCHANGED <<slotVars, req, arrivals>> /\ UNCHANGED auditVars
      BY <2>2 DEF vars
    <3> QED BY <1>1, <3>1, UnchangedAuth, UnchangedSlots, AuditStep
  <2> QED BY <2>1, <2>2
<1>3. TypeOK'
  BY <1>2 DEF TypeOK, AuthType, SlotType, AuditType
<1> QED BY <1>2, <1>3 DEF AdmissionInv

(* The parts move one at a time and share no variable, so a step of the    *)
(* process is a step of Admission or leaves its variables alone.           *)
LEMMA ApiStep ==
    [ApiNext]_<<focus, vars, limitVars, readVars, pageVars, proxyVars, secretVars, statsVars>>
        => [Next]_vars
  BY DEF ApiNext

LEMMA AdmissionInvariant == ApiSpec => []AdmissionInv
<1>1. ApiInit => AdmissionInv
  BY AdmissionInitially DEF ApiInit
<1> QED BY <1>1, ApiStep, AdmissionStep, PTL DEF ApiSpec

(* concurrency_limit.rs and auth.rs: at most max_concurrent_per_ip of a    *)
(* client's requests run, its count returns to zero however they end, and  *)
(* every audit event is accounted for.                                     *)
THEOREM AdmissionSafeHolds == ApiSpec => []AdmissionSafe
<1>1. AdmissionInv => AdmissionSafe
  BY DEF AdmissionInv, AdmissionSafe, SlotInv, SlotsExact
<1> QED BY <1>1, AdmissionInvariant, PTL

(* key_cache.rs: a revoked or newly created key is decided on by an        *)
(* outdated entry for at most the entry's lifetime after its row changed,  *)
(* unless a lookup that overlapped the change stored the entry.            *)
THEOREM LagBoundedHolds == ApiSpec => LagBounded
<1>1. ASSUME AdmissionInv, NEW r \in Requests, CacheHit(r), req[r].key \notin raced,
             NEW i \in EntryOf(req[r].key)
      PROVE  \/ cache[i].value = Verdict(row[req[r].key])
             \/ now < changed[req[r].key] + Lifetime(cache[i].value)
  <2>1. AuthType /\ CacheInv
    BY <1>1, TypeParts DEF AdmissionInv
  <2>2. i \in DOMAIN cache /\ cache[i].key = req[r].key /\ cache[i] \in Entry /\ now \in Nat
    BY <2>1 DEF EntryOf, AuthType
  <2>3. PICK j \in EntryOf(req[r].key) : IsFresh(cache[j])
    BY <1>1 DEF CacheHit
  <2>4. i = j
    BY <2>1, <2>2, <2>3 DEF EntryOf, AuthType
  <2>5. now < cache[i].until
    BY <2>3, <2>4 DEF IsFresh
  <2>6. /\ cache[i].until \in Nat /\ Lifetime(cache[i].value) \in Nat
        /\ changed[req[r].key] \in Nat
    BY <2>1, <2>2, LifetimeNat DEF Entry, AuthType
  <2>7. EntryOk(cache[i])
    BY <2>1, <2>2 DEF CacheInv
  <2> QED BY <1>1, <2>2, <2>5, <2>6, <2>7 DEF EntryOk
<1>2. AdmissionInv =>
        [\A r \in Requests :
            LET k == req[r].key
            IN  CacheHit(r) /\ k \notin raced =>
                  \A i \in EntryOf(k) : \/ cache[i].value = Verdict(row[k])
                                        \/ now < changed[k] + Lifetime(cache[i].value)]_vars
  BY <1>1
<1> QED BY <1>2, AdmissionInvariant, PTL DEF LagBounded

-----------------------------------------------------------------------------
(* The read layer *)

ReadRequest ==
    [pc : {"idle", "check", "section", "have", "simulate", "done"}, kind : Reads!Kinds,
     source : Sources, hash : Hashes \cup {None}, at : 0..MaxWrites,
     section : Hashes \cup {None}, result : Hashes \cup {None}]
CachedSpec == [hash : Hashes, at : 0..MaxWrites, section : Hashes]
CachedCall == [hash : Hashes, source : Sources, iface : Hashes]
Held == IF spec = None THEN 0 ELSE 1

ReadType ==
    /\ specRow \in [hash : Hashes, at : 0..MaxWrites]
    /\ specHashes \subseteq Hashes /\ specRow.hash \in specHashes
    /\ rolledBack \in BOOLEAN
    /\ spec = None \/ spec \in CachedSpec
    /\ others \in Nat /\ others + Held <= MAX_ENTRIES
    /\ calls \subseteq CachedCall
    /\ \A c, d \in calls : c.hash = d.hash /\ c.source = d.source => c = d
    /\ reads \in [Requests -> ReadRequest]
    /\ seen \in [Requests -> SUBSET Hashes]

Busy == {r \in Requests : reads[r].pc # "idle"}

(* What a request has read and was given, against what the row has had.    *)
RequestOk(r) ==
    /\ reads[r].section # None => reads[r].section \in seen[r]
    /\ reads[r].result # None /\ ~rolledBack => reads[r].result \in seen[r]
    /\ reads[r].pc \in {"have", "simulate"} => reads[r].section # None
    /\ r \in Busy => /\ reads[r].hash \in specHashes /\ reads[r].at <= specRow.at
                     /\ specRow.hash \in seen[r]
    /\ r \notin Busy => reads[r].section = None /\ reads[r].result = None

(* The cached section is the row's, or the row is newer than the entry;    *)
(* and requests the entry is good enough for have seen the section.        *)
SpecEntryOk ==
    spec # None =>
        /\ spec.at <= specRow.at
        /\ spec.at = specRow.at => spec.section = specRow.hash
        /\ \A r \in Busy : spec.at >= reads[r].at => spec.section \in seen[r]

(* As long as no earlier hash came back a hash stands for one stretch of   *)
(* time: requests that read the same one have seen the same ones since.    *)
OneStretch ==
    /\ \A r \in Busy : reads[r].hash = specRow.hash => seen[r] = {specRow.hash}
    /\ \A q, r \in Busy : reads[q].hash = reads[r].hash => seen[q] = seen[r]
    /\ \A c \in calls : c.hash = specRow.hash => c.iface = specRow.hash
    /\ \A c \in calls, r \in Busy : c.hash = reads[r].hash => c.iface \in seen[r]

ReadInv ==
    /\ ReadType /\ SpecEntryOk
    /\ \A r \in Requests : RequestOk(r)
    /\ \A c \in calls : c.hash \in specHashes
    /\ ~rolledBack => OneStretch

LEMMA ReadConstants ==
    None \notin Hashes /\ Sources # {} /\ MAX_ENTRIES \in Nat \ {0} /\ MaxWrites \in Nat
  BY PartsAssumption DEF Reads!ReadLayerAssumption

LEMMA ReadParts ==
    ASSUME ReadType
    PROVE  /\ specRow.hash \in Hashes /\ specRow.at \in Nat
           /\ \A r \in Requests : /\ reads[r] \in ReadRequest /\ reads[r].at \in Nat
                                   /\ seen[r] \subseteq Hashes
           /\ spec # None => spec.at \in Nat
<1>1. specRow.hash \in Hashes /\ specRow.at \in Nat
  BY DEF ReadType
<1>2. ASSUME NEW r \in Requests
      PROVE  reads[r] \in ReadRequest /\ reads[r].at \in Nat /\ seen[r] \subseteq Hashes
  <2>1. reads[r] \in ReadRequest /\ seen[r] \subseteq Hashes
    BY DEF ReadType
  <2> QED BY <2>1 DEF ReadRequest
<1>3. spec # None => spec.at \in Nat
  BY DEF ReadType, CachedSpec
<1> QED BY <1>1, <1>2, <1>3

(* The row changes, by the indexer or by a refresh.                        *)
LEMMA WriteKeeps ==
    ASSUME ReadInv, NEW h \in Hashes, Reads!Write(h), UNCHANGED <<spec, others, calls, reads>>
    PROVE  ReadInv'
<1>1. /\ specRow.at < MaxWrites /\ specRow' = [hash |-> h, at |-> specRow.at + 1]
      /\ specHashes' = specHashes \cup {h}
      /\ rolledBack' = (rolledBack \/ (h # specRow.hash /\ h \in specHashes))
      /\ seen' = [r \in Requests |-> IF reads[r].pc = "idle" THEN {} ELSE seen[r] \cup {h}]
  BY DEF Reads!Write
<1>2. /\ ReadType /\ SpecEntryOk /\ (~rolledBack => OneStretch)
      /\ \A r \in Requests : RequestOk(r)
      /\ \A c \in calls : c.hash \in specHashes
  BY DEF ReadInv
<1>3. /\ specRow'.hash = h /\ specRow'.at = specRow.at + 1
      /\ specRow' \in [hash : Hashes, at : 0..MaxWrites]
  <2>1. specRow.at \in 0..MaxWrites
    BY <1>2 DEF ReadType
  <2>2. specRow.at + 1 \in 0..MaxWrites
    BY <1>1, <2>1, ReadConstants
  <2> QED BY <1>1, <2>2
<1>4. Busy' = Busy /\ \A r \in Busy : seen'[r] = seen[r] \cup {h}
  BY <1>1 DEF Busy
<1>5. ReadType'
  <2>1. seen' \in [Requests -> SUBSET Hashes]
    BY <1>1, <1>2 DEF ReadType
  <2>2. specHashes' \subseteq Hashes /\ h \in specHashes' /\ rolledBack' \in BOOLEAN
    BY <1>1, <1>2 DEF ReadType
  <2>3. Held' = Held
    BY DEF Held
  <2> QED BY <1>2, <1>3, <2>1, <2>2, <2>3 DEF ReadType
<1>6. SpecEntryOk'
  <2>1. specRow.at \in Nat /\ (spec # None => spec.at \in Nat)
    BY <1>2, ReadParts
  <2>2. ASSUME spec # None PROVE spec.at < specRow'.at
    BY <1>2, <1>3, <2>1, <2>2 DEF SpecEntryOk
  <2>3. ASSUME spec # None, NEW r \in Busy, spec.at >= reads[r].at PROVE spec.section \in seen'[r]
    BY <1>2, <1>4, <2>3 DEF SpecEntryOk
  <2>4. ASSUME spec # None PROVE spec.at <= specRow'.at /\ spec.at # specRow'.at
    BY <1>3, <2>1, <2>2, <2>4
  <2> QED BY <1>4, <2>3, <2>4 DEF SpecEntryOk
<1>7. ASSUME NEW r \in Requests PROVE RequestOk(r)'
  <2>1. RequestOk(r) /\ specRow.at \in Nat /\ reads[r].at \in Nat
    BY <1>2, ReadParts
  <2>2. CASE r \in Busy
    <3>1. reads[r].at <= specRow'.at
      BY <1>3, <2>1, <2>2 DEF RequestOk
    <3> QED BY <1>1, <1>3, <1>4, <2>1, <2>2, <3>1 DEF RequestOk
  <2>3. CASE r \notin Busy
    <3>1. reads[r].section = None /\ reads[r].result = None
      BY <2>1, <2>3 DEF RequestOk
    <3> QED BY <1>4, <2>1, <2>3, <3>1 DEF RequestOk
  <2> QED BY <2>2, <2>3
<1>8. \A c \in calls' : c.hash \in specHashes'
  BY <1>1, <1>2
<1>9. ASSUME ~rolledBack' PROVE OneStretch'
  <2>1. ~rolledBack /\ OneStretch /\ (h = specRow.hash \/ h \notin specHashes)
    BY <1>1, <1>2, <1>9
  <2>2. ASSUME NEW r \in Busy, reads[r].hash = h PROVE seen'[r] = {h}
    <3>1. reads[r].hash \in specHashes
      BY <1>2 DEF RequestOk, Busy
    <3>2. h = specRow.hash
      BY <2>1, <2>2, <3>1
    <3> QED BY <1>4, <2>1, <2>2, <3>2 DEF OneStretch
  <2>3. ASSUME NEW q \in Busy, NEW r \in Busy, reads[q].hash = reads[r].hash PROVE seen'[q] = seen'[r]
    BY <1>4, <2>1, <2>3 DEF OneStretch
  <2>4. ASSUME NEW c \in calls, c.hash = h PROVE c.iface = h
    <3>1. h = specRow.hash
      BY <1>2, <2>1, <2>4
    <3> QED BY <2>1, <2>4, <3>1 DEF OneStretch
  <2>5. ASSUME NEW c \in calls, NEW r \in Busy, c.hash = reads[r].hash PROVE c.iface \in seen'[r]
    BY <1>4, <2>1, <2>5 DEF OneStretch
  <2> QED BY <1>3, <1>4, <2>2, <2>3, <2>4, <2>5 DEF OneStretch
<1> QED BY <1>5, <1>6, <1>7, <1>8, <1>9 DEF ReadInv

(* Entries go: a refresh begins, a full map is cleared, a result expires.  *)
LEMMA ForgetKeeps ==
    ASSUME ReadInv, spec' = spec \/ spec' = None, calls' \subseteq calls,
           others' \in Nat, others' + Held' <= MAX_ENTRIES,
           UNCHANGED <<specRow, specHashes, rolledBack, reads, seen>>
    PROVE  ReadInv'
<1>1. /\ ReadType /\ SpecEntryOk /\ (~rolledBack => OneStretch)
      /\ \A r \in Requests : RequestOk(r)
      /\ \A c \in calls : c.hash \in specHashes
  BY DEF ReadInv
<1>2. Busy' = Busy
  BY DEF Busy
<1>3. ReadType'
  BY <1>1 DEF ReadType
<1>4. SpecEntryOk'
  BY <1>1, <1>2 DEF SpecEntryOk
<1>5. \A r \in Requests : RequestOk(r)'
  BY <1>1, <1>2 DEF RequestOk
<1>6. ~rolledBack => OneStretch'
  BY <1>1, <1>2 DEF OneStretch
<1> QED BY <1>1, <1>3, <1>4, <1>5, <1>6 DEF ReadInv

LEMMA IdleRead ==
    /\ Reads!Idle \in ReadRequest /\ Reads!Idle.pc = "idle"
    /\ Reads!Idle.section = None /\ Reads!Idle.result = None
<1>1. (CHOOSE x \in Sources : TRUE) \in Sources
  BY ReadConstants
<1> QED BY <1>1, ReadConstants DEF Reads!Idle, ReadRequest, Reads!Kinds

(* A request ends. *)
LEMMA FinishKeeps ==
    ASSUME ReadInv, NEW r \in Requests, Reads!Finish(r),
           UNCHANGED <<specRow, specHashes, rolledBack, spec, others, calls>>
    PROVE  ReadInv'
<1>1. /\ ReadType /\ SpecEntryOk /\ (~rolledBack => OneStretch)
      /\ \A q \in Requests : RequestOk(q)
      /\ \A c \in calls : c.hash \in specHashes
  BY DEF ReadInv
<1>2. /\ reads' = [reads EXCEPT ![r] = Reads!Idle] /\ seen' = [seen EXCEPT ![r] = {}]
      /\ reads \in [Requests -> ReadRequest] /\ seen \in [Requests -> SUBSET Hashes]
  BY <1>1 DEF Reads!Finish, ReadType
<1>3. /\ reads'[r] = Reads!Idle
      /\ \A q \in Requests : q # r => reads'[q] = reads[q] /\ seen'[q] = seen[q]
  BY <1>2
<1>4. Busy' = Busy \ {r}
  BY <1>3, IdleRead DEF Busy
<1>5. ReadType'
  <2>1. reads' \in [Requests -> ReadRequest] /\ seen' \in [Requests -> SUBSET Hashes]
    BY <1>2, IdleRead
  <2>2. Held' = Held
    BY DEF Held
  <2> QED BY <1>1, <2>1, <2>2 DEF ReadType
<1>6. \A q \in Busy' : q \in Busy /\ q \in Requests /\ q # r /\ reads'[q] = reads[q] /\ seen'[q] = seen[q]
  BY <1>3, <1>4 DEF Busy
<1>7. SpecEntryOk'
  BY <1>1, <1>6 DEF SpecEntryOk
<1>8. ASSUME NEW q \in Requests PROVE RequestOk(q)'
  <2>1. CASE q = r
    BY <1>3, <1>4, <2>1, IdleRead DEF RequestOk
  <2>2. CASE q # r
    <3>1. RequestOk(q) /\ (q \in Busy' <=> q \in Busy) /\ reads'[q] = reads[q] /\ seen'[q] = seen[q]
      BY <1>1, <1>3, <1>4, <2>2
    <3> QED BY <3>1 DEF RequestOk
  <2> QED BY <2>1, <2>2
<1>9. ~rolledBack => OneStretch'
  BY <1>1, <1>6 DEF OneStretch
<1> QED BY <1>1, <1>5, <1>7, <1>8, <1>9 DEF ReadInv

(* A request reads hash and time of the row. *)
LEMMA ValidateKeeps ==
    ASSUME ReadInv, NEW r \in Requests, NEW kind \in Reads!Kinds, NEW s \in Sources,
           Reads!Validate(r, kind, s)
    PROVE  ReadInv'
<1>1. /\ ReadType /\ SpecEntryOk /\ (~rolledBack => OneStretch)
      /\ \A q \in Requests : RequestOk(q)
      /\ \A c \in calls : c.hash \in specHashes
  BY DEF ReadInv
<1> DEFINE x == [Reads!Idle EXCEPT !.pc = "check", !.kind = kind, !.source = s,
                                   !.hash = specRow.hash, !.at = specRow.at]
<1>2. /\ reads' = [reads EXCEPT ![r] = x] /\ seen' = [seen EXCEPT ![r] = {specRow.hash}]
      /\ reads \in [Requests -> ReadRequest] /\ seen \in [Requests -> SUBSET Hashes]
      /\ UNCHANGED <<specRow, specHashes, rolledBack, spec, others, calls>>
  BY <1>1 DEF Reads!Validate, Reads!tables, Reads!caches, ReadType
<1>3. /\ x \in ReadRequest /\ x.pc = "check" /\ x.hash = specRow.hash /\ x.at = specRow.at
      /\ x.section = None /\ x.result = None
  <2>1. specRow.hash \in Hashes /\ specRow.at \in 0..MaxWrites
    BY <1>1 DEF ReadType
  <2> QED BY <2>1, IdleRead DEF ReadRequest
<1> HIDE DEF x
<1>4. /\ reads'[r] = x /\ seen'[r] = {specRow.hash}
      /\ \A q \in Requests : q # r => reads'[q] = reads[q] /\ seen'[q] = seen[q]
  BY <1>2
<1>5. Busy' = Busy \cup {r}
  BY <1>3, <1>4 DEF Busy
<1>6. /\ specRow.hash \in Hashes /\ specRow.at \in Nat /\ (spec # None => spec.at \in Nat)
      /\ specRow.hash \in specHashes
  BY <1>1, ReadParts DEF ReadType
<1>7. ReadType'
  <2>1. reads' \in [Requests -> ReadRequest] /\ seen' \in [Requests -> SUBSET Hashes]
    BY <1>2, <1>3, <1>6
  <2>2. Held' = Held
    BY <1>2 DEF Held
  <2> QED BY <1>1, <1>2, <2>1, <2>2 DEF ReadType
<1>8. \A q \in Busy' : q # r => q \in Busy /\ reads'[q] = reads[q] /\ seen'[q] = seen[q]
  BY <1>4, <1>5 DEF Busy
<1>9. SpecEntryOk'
  <2>1. ASSUME spec # None, NEW q \in Busy', spec.at >= reads'[q].at PROVE spec.section \in seen'[q]
    <3>1. CASE q = r
      <4>1. spec.at = specRow.at
        BY <1>1, <1>3, <1>4, <1>6, <2>1, <3>1 DEF SpecEntryOk
      <4> QED BY <1>1, <1>4, <2>1, <3>1, <4>1 DEF SpecEntryOk
    <3>2. CASE q # r
      BY <1>1, <1>8, <2>1, <3>2 DEF SpecEntryOk
    <3> QED BY <3>1, <3>2
  <2> QED BY <1>1, <1>2, <2>1 DEF SpecEntryOk
<1>10. ASSUME NEW q \in Requests PROVE RequestOk(q)'
  <2>1. CASE q = r
    BY <1>2, <1>3, <1>4, <1>5, <1>6, <2>1 DEF RequestOk
  <2>2. CASE q # r
    <3>1. RequestOk(q) /\ (q \in Busy' <=> q \in Busy) /\ reads'[q] = reads[q] /\ seen'[q] = seen[q]
      BY <1>1, <1>4, <1>5, <2>2
    <3> QED BY <1>2, <3>1 DEF RequestOk
  <2> QED BY <2>1, <2>2
<1>11. ASSUME ~rolledBack PROVE OneStretch'
  <2>1. OneStretch
    BY <1>1, <1>11
  <2>2. ASSUME NEW q \in Busy', reads'[q].hash = specRow.hash PROVE seen'[q] = {specRow.hash}
    BY <1>4, <1>8, <2>1, <2>2 DEF OneStretch
  <2>3. ASSUME NEW p \in Busy', NEW q \in Busy', reads'[p].hash = reads'[q].hash PROVE seen'[p] = seen'[q]
    <3>1. CASE p = r \/ q = r
      BY <1>3, <1>4, <2>2, <2>3, <3>1
    <3>2. CASE p # r /\ q # r
      BY <1>8, <2>1, <2>3, <3>2 DEF OneStretch
    <3> QED BY <3>1, <3>2
  <2>4. ASSUME NEW c \in calls, NEW q \in Busy', c.hash = reads'[q].hash PROVE c.iface \in seen'[q]
    <3>1. CASE q = r
      BY <1>3, <1>4, <2>1, <2>4, <3>1 DEF OneStretch
    <3>2. CASE q # r
      BY <1>8, <2>1, <2>4, <3>2 DEF OneStretch
    <3> QED BY <3>1, <3>2
  <2> QED BY <1>2, <2>1, <2>2, <2>3, <2>4 DEF OneStretch
<1> QED BY <1>1, <1>2, <1>7, <1>9, <1>10, <1>11 DEF ReadInv

(* What a request's other steps do to the requests: x is its new state.    *)
GoesOn(r, x) ==
    /\ x \in ReadRequest /\ x.pc # "idle"
    /\ x.hash = reads[r].hash /\ x.at = reads[r].at
    /\ x.section # None => x.section \in seen[r]
    /\ x.result # None /\ ~rolledBack => x.result \in seen[r]
    /\ x.pc \in {"have", "simulate"} => x.section # None
    /\ reads' = [reads EXCEPT ![r] = x]
    /\ UNCHANGED <<specRow, specHashes, rolledBack, seen>>

LEMMA GoesOnKeeps ==
    ASSUME ReadInv, NEW r \in Busy, NEW x, GoesOn(r, x)
    PROVE  /\ reads' \in [Requests -> ReadRequest] /\ Busy' = Busy
           /\ \A q \in Busy : reads'[q].hash = reads[q].hash /\ reads'[q].at = reads[q].at
           /\ \A q \in Requests : RequestOk(q)'
<1>1. /\ r \in Requests /\ reads \in [Requests -> ReadRequest]
      /\ \A q \in Requests : RequestOk(q)
  BY DEF ReadInv, ReadType, Busy
<1>2. /\ reads' = [reads EXCEPT ![r] = x] /\ x \in ReadRequest /\ x.pc # "idle"
      /\ x.hash = reads[r].hash /\ x.at = reads[r].at
      /\ UNCHANGED <<specRow, specHashes, rolledBack, seen>>
  BY DEF GoesOn
<1>3. reads'[r] = x /\ \A q \in Requests : q # r => reads'[q] = reads[q]
  BY <1>1, <1>2
<1>4. Busy' = Busy
  BY <1>2, <1>3 DEF Busy
<1>5. ASSUME NEW q \in Requests PROVE RequestOk(q)'
  <2>1. RequestOk(q)
    BY <1>1
  <2>2. CASE q = r
    BY <1>2, <1>3, <1>4, <2>1, <2>2 DEF RequestOk, GoesOn
  <2>3. CASE q # r
    BY <1>2, <1>3, <1>4, <2>1, <2>3 DEF RequestOk
  <2> QED BY <2>2, <2>3
<1>6. \A q \in Busy : reads'[q].hash = reads[q].hash /\ reads'[q].at = reads[q].at
  BY <1>2, <1>3 DEF Busy
<1> QED BY <1>1, <1>2, <1>4, <1>5, <1>6

LEMMA GoesOnAlone ==
    ASSUME ReadInv, NEW r \in Busy, NEW x, GoesOn(r, x), UNCHANGED <<spec, others, calls>>
    PROVE  ReadInv'
<1>1. /\ ReadType /\ SpecEntryOk /\ (~rolledBack => OneStretch)
      /\ \A c \in calls : c.hash \in specHashes
  BY DEF ReadInv
<1>2. /\ reads' \in [Requests -> ReadRequest] /\ Busy' = Busy
      /\ \A q \in Busy : reads'[q].hash = reads[q].hash /\ reads'[q].at = reads[q].at
      /\ \A q \in Requests : RequestOk(q)'
  BY GoesOnKeeps
<1>3. UNCHANGED <<specRow, specHashes, rolledBack, seen>>
  BY DEF GoesOn
<1>4. ReadType'
  <2>1. Held' = Held
    BY DEF Held
  <2> QED BY <1>1, <1>2, <1>3, <2>1 DEF ReadType
<1>5. SpecEntryOk'
  BY <1>1, <1>2, <1>3 DEF SpecEntryOk
<1>6. ~rolledBack => OneStretch'
  BY <1>1, <1>2, <1>3 DEF OneStretch
<1> QED BY <1>1, <1>2, <1>3, <1>4, <1>5, <1>6 DEF ReadInv

LEMMA RequestFacts ==
    ASSUME ReadInv, NEW r \in Requests
    PROVE  reads[r] \in ReadRequest /\ reads \in [Requests -> ReadRequest] /\ RequestOk(r)
  BY DEF ReadInv, ReadType

(* An entry that is good enough for the request holds a section the row    *)
(* has had since the request read it.                                      *)
LEMMA CheckEntryKeeps ==
    ASSUME ReadInv, NEW r \in Requests, Reads!CheckEntry(r)
    PROVE  ReadInv'
<1>1. r \in Busy /\ reads[r] \in ReadRequest /\ RequestOk(r) /\ reads[r].pc = "check"
      /\ reads \in [Requests -> ReadRequest]
  BY RequestFacts DEF Reads!CheckEntry, Busy
<1>2. UNCHANGED <<specRow, specHashes, rolledBack, spec, others, calls, seen>>
  BY DEF Reads!CheckEntry, Reads!tables, Reads!caches
<1>3. CASE Reads!Hit(r)
  <2> DEFINE x == [reads[r] EXCEPT !.pc = "have", !.section = spec.section]
  <2>1. spec # None /\ spec.at >= reads[r].at /\ spec.section \in Hashes
    BY <1>3 DEF Reads!Hit, ReadInv, ReadType, CachedSpec
  <2>2. spec.section \in seen[r]
    BY <1>1, <2>1 DEF ReadInv, SpecEntryOk
  <2>3. /\ x \in ReadRequest /\ x.pc = "have" /\ x.section = spec.section
        /\ x.hash = reads[r].hash /\ x.at = reads[r].at /\ x.result = reads[r].result
    BY <1>1, <2>1 DEF ReadRequest
  <2>4. reads' = [reads EXCEPT ![r] = x]
    BY <1>1, <1>3 DEF Reads!CheckEntry
  <2> HIDE DEF x
  <2>5. spec.section # None
    BY <2>1, ReadConstants
  <2>6. GoesOn(r, x)
    BY <1>1, <1>2, <2>2, <2>3, <2>4, <2>5 DEF GoesOn, RequestOk
  <2> QED BY <1>1, <1>2, <2>6, GoesOnAlone
<1>4. CASE ~Reads!Hit(r)
  <2> DEFINE x == [reads[r] EXCEPT !.pc = "section"]
  <2>1. /\ x \in ReadRequest /\ x.pc = "section" /\ x.section = reads[r].section
        /\ x.hash = reads[r].hash /\ x.at = reads[r].at /\ x.result = reads[r].result
    BY <1>1 DEF ReadRequest
  <2>2. reads' = [reads EXCEPT ![r] = x]
    BY <1>1, <1>4 DEF Reads!CheckEntry
  <2> HIDE DEF x
  <2>3. GoesOn(r, x)
    BY <1>1, <1>2, <2>1, <2>2 DEF GoesOn, RequestOk
  <2> QED BY <1>1, <1>2, <2>3, GoesOnAlone
<1> QED BY <1>3, <1>4

(* The section read now may be newer than the hash it is filed under, but  *)
(* everyone who reads the row before has seen it.                          *)
LEMMA ReadSectionKeeps ==
    ASSUME ReadInv, NEW r \in Requests, Reads!ReadSection(r)
    PROVE  ReadInv'
<1>1. /\ ReadType /\ SpecEntryOk /\ (~rolledBack => OneStretch)
      /\ \A c \in calls : c.hash \in specHashes
  BY DEF ReadInv
<1>2. /\ r \in Busy /\ reads[r] \in ReadRequest /\ RequestOk(r) /\ reads[r].pc = "section"
      /\ reads \in [Requests -> ReadRequest]
  BY RequestFacts DEF Reads!ReadSection, Busy
<1>3. /\ reads' = [reads EXCEPT ![r].pc = "have", ![r].section = specRow.hash]
      /\ spec' = [hash |-> reads[r].hash, at |-> reads[r].at, section |-> specRow.hash]
      /\ others' = IF Reads!Full THEN 0 ELSE others
      /\ UNCHANGED <<specRow, specHashes, rolledBack, calls, seen>>
  BY DEF Reads!ReadSection, Reads!tables
<1>4. specRow.hash \in Hashes /\ specRow.hash \in seen[r] /\ reads[r].hash \in Hashes
  BY <1>1, <1>2 DEF ReadType, RequestOk
<1>5. GoesOn(r, [reads[r] EXCEPT !.pc = "have", !.section = specRow.hash])
  <2> DEFINE x == [reads[r] EXCEPT !.pc = "have", !.section = specRow.hash]
  <2>1. /\ x \in ReadRequest /\ x.pc = "have" /\ x.section = specRow.hash
        /\ x.hash = reads[r].hash /\ x.at = reads[r].at /\ x.result = reads[r].result
    BY <1>2, <1>4 DEF ReadRequest
  <2>2. reads' = [reads EXCEPT ![r] = x]
    BY <1>2, <1>3
  <2> HIDE DEF x
  <2>3. x.section # None
    BY <1>4, <2>1, ReadConstants
  <2> QED BY <1>2, <1>3, <1>4, <2>1, <2>2, <2>3 DEF GoesOn, RequestOk, x
<1>6. /\ reads' \in [Requests -> ReadRequest] /\ Busy' = Busy
      /\ \A q \in Busy : reads'[q].hash = reads[q].hash /\ reads'[q].at = reads[q].at
      /\ \A q \in Requests : RequestOk(q)'
  BY <1>2, <1>5, GoesOnKeeps
<1>7. /\ spec' \in CachedSpec /\ spec'.at = reads[r].at /\ spec'.section = specRow.hash
  <2>1. reads[r].at \in 0..MaxWrites
    BY <1>2 DEF ReadRequest
  <2> QED BY <1>3, <1>4, <2>1 DEF CachedSpec
<1>8. others' \in Nat /\ others' + Held' <= MAX_ENTRIES
  <2>1. others \in Nat /\ others + Held <= MAX_ENTRIES /\ Held \in {0, 1}
    BY <1>1 DEF ReadType, Held
  <2>2. Reads!Full <=> others + Held >= MAX_ENTRIES
    BY DEF Reads!Full, Held
  <2>3. Held' \in {0, 1}
    BY DEF Held
  <2> QED BY <1>3, <2>1, <2>2, <2>3, ReadConstants
<1>9. ReadType'
  BY <1>1, <1>3, <1>6, <1>7, <1>8 DEF ReadType
<1>10. SpecEntryOk'
  <2>1. spec'.at <= specRow.at
    BY <1>2, <1>7 DEF RequestOk
  <2>2. \A q \in Busy : specRow.hash \in seen[q]
    BY DEF ReadInv, RequestOk, Busy
  <2> QED BY <1>3, <1>6, <1>7, <2>1, <2>2 DEF SpecEntryOk
<1>11. ~rolledBack => OneStretch'
  <2>1. UNCHANGED <<specRow, calls, seen>>
    BY <1>3
  <2>2. \A q \in Busy : reads'[q].hash = reads[q].hash
    BY <1>6
  <2> QED BY <1>1, <1>6, <2>1, <2>2 DEF OneStretch
<1> QED BY <1>1, <1>3, <1>6, <1>9, <1>10, <1>11 DEF ReadInv

(* A cached result of the same hash was computed against a section that    *)
(* the request has seen, unless a hash came back.                          *)
LEMMA ServeCachedKeeps ==
    ASSUME ReadInv, NEW r \in Requests, Reads!ServeCached(r)
    PROVE  ReadInv'
<1>1. /\ r \in Busy /\ reads[r] \in ReadRequest /\ RequestOk(r)
      /\ reads \in [Requests -> ReadRequest]
  BY RequestFacts DEF Reads!ServeCached, Busy
<1>2. UNCHANGED <<specRow, specHashes, rolledBack, spec, others, calls, seen>>
  BY DEF Reads!ServeCached, Reads!tables, Reads!caches
<1>3. PICK c \in Reads!Cached(r) : reads' = [reads EXCEPT ![r].pc = "done", ![r].result = c.iface]
  BY DEF Reads!ServeCached
<1>4. c \in calls /\ c.hash = reads[r].hash /\ c.iface \in Hashes
  BY DEF Reads!Cached, ReadInv, ReadType, CachedCall
<1>5. ~rolledBack => c.iface \in seen[r]
  BY <1>1, <1>4 DEF ReadInv, OneStretch
<1> DEFINE x == [reads[r] EXCEPT !.pc = "done", !.result = c.iface]
<1>6. /\ x \in ReadRequest /\ x.pc = "done" /\ x.section = reads[r].section
      /\ x.hash = reads[r].hash /\ x.at = reads[r].at /\ x.result = c.iface
  BY <1>1, <1>4 DEF ReadRequest
<1>7. reads' = [reads EXCEPT ![r] = x]
  BY <1>1, <1>3
<1> HIDE DEF x
<1>8. GoesOn(r, x)
  BY <1>1, <1>2, <1>5, <1>6, <1>7 DEF GoesOn, RequestOk
<1> QED BY <1>1, <1>2, <1>8, GoesOnAlone

LEMMA StartSimulationKeeps ==
    ASSUME ReadInv, NEW r \in Requests, Reads!StartSimulation(r)
    PROVE  ReadInv'
<1>1. /\ r \in Busy /\ reads[r] \in ReadRequest /\ RequestOk(r) /\ reads[r].pc = "have"
      /\ reads \in [Requests -> ReadRequest]
  BY RequestFacts DEF Reads!StartSimulation, Busy
<1>2. UNCHANGED <<specRow, specHashes, rolledBack, spec, others, calls, seen>>
  BY DEF Reads!StartSimulation, Reads!tables, Reads!caches
<1> DEFINE x == [reads[r] EXCEPT !.pc = "simulate"]
<1>3. /\ x \in ReadRequest /\ x.pc = "simulate" /\ x.section = reads[r].section
      /\ x.hash = reads[r].hash /\ x.at = reads[r].at /\ x.result = reads[r].result
  BY <1>1 DEF ReadRequest
<1>4. reads' = [reads EXCEPT ![r] = x]
  BY <1>1 DEF Reads!StartSimulation, Reads!Goto
<1> HIDE DEF x
<1>5. GoesOn(r, x)
  BY <1>1, <1>2, <1>3, <1>4 DEF GoesOn, RequestOk
<1> QED BY <1>1, <1>2, <1>5, GoesOnAlone

(* The result is stored under the hash the request read, for all requests  *)
(* that read the same one.                                                 *)
LEMMA SimulatedKeeps ==
    ASSUME ReadInv, NEW r \in Requests, Reads!Simulated(r)
    PROVE  ReadInv'
<1>1. /\ ReadType /\ SpecEntryOk /\ (~rolledBack => OneStretch)
      /\ \A c \in calls : c.hash \in specHashes
  BY DEF ReadInv
<1>2. /\ r \in Busy /\ reads[r] \in ReadRequest /\ RequestOk(r) /\ reads[r].pc = "simulate"
      /\ reads \in [Requests -> ReadRequest]
  BY RequestFacts DEF Reads!Simulated, Busy
<1>3. PICK e : e = [hash |-> reads[r].hash, source |-> reads[r].source, iface |-> reads[r].section]
  OBVIOUS
<1>4. /\ e.hash = reads[r].hash /\ e.source = reads[r].source /\ e.iface = reads[r].section
      /\ e \in CachedCall /\ e.hash \in specHashes /\ e.iface \in seen[r]
  <2>1. reads[r].hash \in specHashes /\ reads[r].section \in seen[r]
    BY <1>2 DEF RequestOk
  <2>2. reads[r].hash \in Hashes /\ reads[r].section \in Hashes /\ reads[r].source \in Sources
    BY <1>1, <1>2, <2>1 DEF ReadType, ReadRequest
  <2> QED BY <1>3, <2>1, <2>2 DEF CachedCall
<1>5. /\ reads' = [reads EXCEPT ![r].pc = "done", ![r].result = reads[r].section]
      /\ calls' = calls \/ calls' = (calls \ Reads!Cached(r)) \cup {e}
      /\ UNCHANGED <<specRow, specHashes, rolledBack, spec, others, seen>>
  BY <1>3 DEF Reads!Simulated, Reads!tables
<1>6. PICK x : x = [reads[r] EXCEPT !.pc = "done", !.result = reads[r].section]
  OBVIOUS
<1>7. GoesOn(r, x)
  <2>1. /\ x \in ReadRequest /\ x.pc = "done" /\ x.section = reads[r].section
        /\ x.hash = reads[r].hash /\ x.at = reads[r].at /\ x.result = reads[r].section
    BY <1>2, <1>6 DEF ReadRequest
  <2>2. reads' = [reads EXCEPT ![r] = x]
    BY <1>2, <1>5, <1>6
  <2> QED BY <1>2, <1>5, <2>1, <2>2 DEF GoesOn, RequestOk
<1>8. CASE calls' = calls
  <2>1. UNCHANGED <<spec, others, calls>>
    BY <1>5, <1>8
  <2> QED BY <1>2, <1>7, <2>1, GoesOnAlone
<1>9. CASE calls' = (calls \ Reads!Cached(r)) \cup {e}
  <2>1. /\ reads' \in [Requests -> ReadRequest] /\ Busy' = Busy
        /\ \A q \in Busy : reads'[q].hash = reads[q].hash /\ reads'[q].at = reads[q].at
        /\ \A q \in Requests : RequestOk(q)'
    BY <1>2, <1>7, GoesOnKeeps
  <2>2. \A c \in calls' : c = e \/ (c \in calls /\ ~(c.hash = e.hash /\ c.source = e.source))
    BY <1>4, <1>9 DEF Reads!Cached
  <2>3. UNCHANGED <<specRow, specHashes, rolledBack, spec, others, seen>>
    BY <1>5
  <2>4. ReadType'
    <3>1. calls' \subseteq CachedCall
      BY <1>1, <1>4, <2>2 DEF ReadType
    <3>2. ASSUME NEW c \in calls', NEW d \in calls', c.hash = d.hash, c.source = d.source PROVE c = d
      BY <1>1, <2>2, <3>2 DEF ReadType
    <3>3. Held' = Held
      BY <2>3 DEF Held
    <3> QED BY <1>1, <2>1, <2>3, <3>1, <3>2, <3>3 DEF ReadType
  <2>5. SpecEntryOk'
    BY <1>1, <2>1, <2>3 DEF SpecEntryOk
  <2>6. \A c \in calls' : c.hash \in specHashes'
    BY <1>1, <1>4, <2>2, <2>3
  <2>7. ASSUME ~rolledBack PROVE OneStretch'
    <3>1. OneStretch
      BY <1>1, <2>7
    <3>2. e.hash = specRow.hash => e.iface = specRow.hash
      BY <1>2, <1>4, <3>1 DEF OneStretch
    <3>3. \A q \in Busy : e.hash = reads[q].hash => e.iface \in seen[q]
      BY <1>2, <1>4, <3>1 DEF OneStretch
    <3>4. \A c \in calls' : c = e \/ c \in calls
      BY <2>2
    <3>5. \A c \in calls' : c.hash = specRow.hash => c.iface = specRow.hash
      BY <3>1, <3>2, <3>4 DEF OneStretch
    <3>6. \A c \in calls', q \in Busy : c.hash = reads[q].hash => c.iface \in seen[q]
      BY <3>1, <3>3, <3>4 DEF OneStretch
    <3> QED BY <2>1, <2>3, <3>1, <3>5, <3>6 DEF OneStretch
  <2> QED BY <2>1, <2>3, <2>4, <2>5, <2>6, <2>7 DEF ReadInv
<1> QED BY <1>5, <1>8, <1>9

LEMMA ReadInitially == Reads!Init => ReadInv
<1> SUFFICES ASSUME Reads!Init PROVE ReadInv
  OBVIOUS
<1>1. /\ specRow \in [hash : Hashes, at : {0}] /\ specHashes = {specRow.hash} /\ rolledBack = FALSE
      /\ spec = None /\ others = 0 /\ calls = {}
      /\ reads = [r \in Requests |-> Reads!Idle] /\ seen = [r \in Requests |-> {}]
  BY DEF Reads!Init
<1>2. Busy = {}
  BY <1>1, IdleRead DEF Busy
<1>3. ReadType
  <2>1. Held = 0
    BY <1>1 DEF Held
  <2>2. specRow \in [hash : Hashes, at : 0..MaxWrites] /\ specRow.hash \in Hashes
    BY <1>1, ReadConstants
  <2>3. reads \in [Requests -> ReadRequest] /\ seen \in [Requests -> SUBSET Hashes]
    BY <1>1, IdleRead
  <2>4. others \in Nat /\ others + Held <= MAX_ENTRIES
    BY <1>1, <2>1, ReadConstants
  <2>5. specHashes \subseteq Hashes /\ specRow.hash \in specHashes /\ rolledBack \in BOOLEAN
    BY <1>1, <2>2
  <2> QED BY <1>1, <2>2, <2>3, <2>4, <2>5 DEF ReadType
<1>4. ASSUME NEW r \in Requests PROVE RequestOk(r)
  <2>1. reads[r] = Reads!Idle
    BY <1>1
  <2> QED BY <1>2, <2>1, IdleRead DEF RequestOk
<1> QED BY <1>1, <1>2, <1>3, <1>4 DEF ReadInv, SpecEntryOk, OneStretch

LEMMA ReadStep == ReadInv /\ [Reads!Next]_readVars => ReadInv'
<1> SUFFICES ASSUME ReadInv, [Reads!Next]_readVars PROVE ReadInv'
  OBVIOUS
<1> USE DEF Reads!tables, Reads!caches
<1>0. /\ others \in Nat /\ others + Held <= MAX_ENTRIES /\ Held \in {0, 1}
      /\ MAX_ENTRIES \in Nat \ {0}
  BY ReadConstants DEF ReadInv, ReadType, Held
<1>1. CASE \E h \in Hashes : Reads!IndexerWrites(h) \/ Reads!RefreshStores(h)
  BY <1>1, WriteKeeps DEF Reads!IndexerWrites, Reads!RefreshStores
<1>2. CASE Reads!RefreshBegins
  <2>1. spec' = None /\ calls' = {} /\ UNCHANGED <<specRow, specHashes, rolledBack, others, reads, seen>>
    BY <1>2 DEF Reads!RefreshBegins
  <2>2. Held' = 0
    BY <2>1 DEF Held
  <2> QED BY <1>0, <2>1, <2>2, ForgetKeeps
<1>3. CASE Reads!RefreshFails \/ UNCHANGED readVars
  <2>1. UNCHANGED <<specRow, specHashes, rolledBack, spec, others, calls, reads, seen>>
    BY <1>3 DEF Reads!RefreshFails, readVars
  <2>2. Held' = Held
    BY <2>1 DEF Held
  <2> QED BY <1>0, <2>1, <2>2, ForgetKeeps
<1>4. CASE Reads!OtherContract
  <2>1. /\ IF Reads!Full THEN spec' = None /\ others' = 1 ELSE others' = others + 1 /\ spec' = spec
        /\ UNCHANGED <<specRow, specHashes, rolledBack, calls, reads, seen>>
    BY <1>4 DEF Reads!OtherContract
  <2>2. Reads!Full <=> others + Held >= MAX_ENTRIES
    BY DEF Reads!Full, Held
  <2>3. spec' = None => Held' = 0
    BY DEF Held
  <2>4. spec' = spec => Held' = Held
    BY DEF Held
  <2>5. others' \in Nat /\ others' + Held' <= MAX_ENTRIES
    BY <1>0, <2>1, <2>2, <2>3, <2>4
  <2> QED BY <2>1, <2>5, ForgetKeeps
<1>5. CASE Reads!Expire
  <2>1. calls' \subseteq calls /\ UNCHANGED <<specRow, specHashes, rolledBack, spec, others, reads, seen>>
    BY <1>5 DEF Reads!Expire
  <2>2. Held' = Held
    BY <2>1 DEF Held
  <2> QED BY <1>0, <2>1, <2>2, ForgetKeeps
<1>6. ASSUME NEW r \in Requests,
             \/ \E kind \in Reads!Kinds, s \in Sources : Reads!Validate(r, kind, s)
             \/ Reads!CheckEntry(r) \/ Reads!ReadSection(r) \/ Reads!ServeCached(r)
             \/ Reads!StartSimulation(r) \/ Reads!Simulated(r)
      PROVE  ReadInv'
  BY <1>6, ValidateKeeps, CheckEntryKeeps, ReadSectionKeeps, ServeCachedKeeps,
     StartSimulationKeeps, SimulatedKeeps
<1>7. ASSUME NEW r \in Requests, Reads!Answer(r) \/ Reads!SimulationFails(r) \/ Reads!Respond(r)
      PROVE  ReadInv'
  BY <1>7, FinishKeeps DEF Reads!Answer, Reads!SimulationFails, Reads!Respond
<1> QED BY <1>1, <1>2, <1>3, <1>4, <1>5, <1>6, <1>7 DEF Reads!Next

(* api/specs.rs and call_cache.rs: whatever the indexer and refreshes      *)
(* write between two awaits of a request, the section and the result it    *)
(* works with have been the row's since the request read it (the result:   *)
(* unless the contract went back to an earlier WASM).                      *)
THEOREM ReadsCurrentHolds == ApiSpec => []ReadsCurrent
<1> DEFINE I == focus = "reads" => ReadInv
<1>1. ApiInit => I
  BY ReadInitially DEF ApiInit
<1>2. I /\ [ApiNext]_<<focus, vars, limitVars, readVars, pageVars, proxyVars, secretVars, statsVars>> => I'
  <2>1. [ApiNext]_<<focus, vars, limitVars, readVars, pageVars, proxyVars, secretVars, statsVars>>
          => focus' = focus /\ (focus = "reads" => [Reads!Next]_readVars)
    BY DEF ApiNext
  <2> QED BY <2>1, ReadStep
<1>3. I => ReadsCurrent
  <2>1. ReadInv => Reads!TypeOK /\ Reads!SpecCurrent /\ Reads!ResultCurrent
    <3> SUFFICES ASSUME ReadInv PROVE Reads!TypeOK /\ Reads!SpecCurrent /\ Reads!ResultCurrent
      OBVIOUS
    <3>1. \A r \in Requests : reads[r] \in ReadRequest /\ RequestOk(r)
      BY RequestFacts
    <3>2. Reads!SpecCurrent /\ Reads!ResultCurrent
      BY <3>1 DEF RequestOk, Reads!SpecCurrent, Reads!ResultCurrent
    <3>3. \A r \in Requests : /\ reads[r].pc \in {"idle", "check", "section", "have", "simulate", "done"}
                              /\ reads[r].kind \in Reads!Kinds
      BY <3>1 DEF ReadRequest
    <3> QED BY <3>2, <3>3 DEF ReadInv, ReadType, Reads!TypeOK, Held, CachedSpec, CachedCall
  <2> QED BY <2>1 DEF ReadsCurrent
<1> QED BY <1>1, <1>2, <1>3, PTL DEF ApiSpec

-----------------------------------------------------------------------------
(* Signing secrets *)

Row == [plain : 0..MaxSecrets, current : 0..MaxSecrets, previous : 0..MaxSecrets,
        expires : 0..(MaxNow + MAX_GRACE_SECONDS)]

(* Of a secret that neither signs nor is the row's previous one, nothing   *)
(* was ever said, or it was withdrawn.                                     *)
Settled(s) ==
    s # Secrets!Signing => promise[s] < Secrets!Forever /\ (s # sub.previous => s \in withdrawn \/ promise[s] = 0)

(* What was said of the signing secret and of the one before it is what    *)
(* the row says: the one for good, the other until it expires.             *)
PromiseInv ==
    /\ sub \in Row /\ subNow \in 0..MaxNow /\ skew \in Skews
    /\ issued \in 1..MaxSecrets /\ Secrets!Signing \in 1..issued
    /\ sub.previous \in 0..issued /\ sub.previous # Secrets!Signing
    /\ sub.current = 0 => sub.previous = 0
    /\ promise \in [Secrets!Secrets -> 0..Secrets!Forever]
    /\ promise[Secrets!Signing] = Secrets!Forever
    /\ sub.previous # 0 => promise[sub.previous] = sub.expires
    /\ \A s \in Secrets!Secrets : Settled(s)
    /\ Secrets!Signing \notin withdrawn /\ withdrawn \subseteq 1..issued

(* A message is signed with secrets that were announced when it was        *)
(* claimed, with those that were not withdrawn among them.                 *)
Covered(signers, said, kept) == kept \subseteq signers /\ signers \subseteq said
MessageInv ==
    \/ message = Secrets!Nothing
    \/ /\ message.pc = "claimed" /\ Covered(message.signers, message.said, message.kept)
    \/ /\ message.pc = "sent" /\ Covered(message.signers, message.said, message.kept)
       /\ message.t \in 0..subNow
    \/ message.pc = "received" /\ Secrets!SignaturesHonest

SecretInv == PromiseInv /\ MessageInv

LEMMA SecretConstants ==
    /\ MAX_GRACE_SECONDS \in Nat /\ tolerance \in Nat /\ Skews \subseteq Int
    /\ MaxSecrets \in Nat \ {0} /\ MaxNow \in Nat
    /\ Secrets!Forever = MaxNow + MAX_GRACE_SECONDS + 1 /\ Secrets!Secrets = 1..MaxSecrets
  BY PartsAssumption DEF Secrets!RotationAssumption, Secrets!Forever, Secrets!Secrets

LEMMA SecretInitially == Secrets!Init => SecretInv
<1> SUFFICES ASSUME Secrets!Init PROVE SecretInv
  OBVIOUS
<1>1. PromiseInv
  <2>1. /\ sub \in Row /\ Secrets!Signing = 1 /\ sub.previous = 0
    BY SecretConstants DEF Secrets!Init, Row, Secrets!Signing
  <2>2. /\ promise = [s \in 1..MaxSecrets |-> IF s = 1 THEN Secrets!Forever ELSE 0]
        /\ issued = 1 /\ subNow = 0 /\ skew \in Skews /\ withdrawn = {}
    BY DEF Secrets!Init
  <2>3. Secrets!Forever \in Nat \ {0}
    BY SecretConstants
  <2>4. promise \in [Secrets!Secrets -> 0..Secrets!Forever] /\ promise[1] = Secrets!Forever
    BY <2>2, <2>3, SecretConstants
  <2>5. \A s \in Secrets!Secrets : Settled(s)
    BY <2>1, <2>2, <2>3, SecretConstants DEF Settled
  <2> QED BY <2>1, <2>2, <2>4, <2>5, SecretConstants DEF PromiseInv
<1>2. MessageInv
  BY DEF Secrets!Init, MessageInv
<1> QED BY <1>1, <1>2 DEF SecretInv

(* Rotation: the promise of the answer is the row it was written from, and *)
(* what the row has no room for is withdrawn.                              *)
LEMMA RotatePromise ==
    ASSUME PromiseInv, NEW g, NEW miss, Secrets!RotateSecret(g, miss)
    PROVE  PromiseInv'
<1>1. /\ issued < MaxSecrets /\ g \in 0..MAX_GRACE_SECONDS /\ issued' = issued + 1
      /\ sub' = [sub EXCEPT !.previous = sub.current, !.expires = subNow + g, !.current = issued + 1]
      /\ promise' = [promise EXCEPT ![issued + 1] = Secrets!Forever, ![Secrets!Signing] = subNow + g]
      /\ withdrawn' = withdrawn \cup ({sub.previous, IF sub.current = 0 THEN sub.plain ELSE 0} \ {0})
      /\ UNCHANGED <<skew, subNow>>
  BY DEF Secrets!RotateSecret, Secrets!validate_grace_seconds, Secrets!Rotated
<1>2. /\ sub \in Row /\ subNow \in 0..MaxNow /\ skew \in Skews /\ issued \in 1..MaxSecrets
      /\ Secrets!Signing \in 1..issued /\ sub.previous \in 0..issued
      /\ promise \in [Secrets!Secrets -> 0..Secrets!Forever]
      /\ \A s \in Secrets!Secrets : Settled(s)
  BY DEF PromiseInv
<1>3. sub.current \in 0..issued
  BY <1>2, SecretConstants DEF Secrets!Signing, Row
<1>4. /\ issued + 1 \in 1..MaxSecrets /\ subNow + g \in 0..(MaxNow + MAX_GRACE_SECONDS)
      /\ issued + 1 # Secrets!Signing /\ subNow + g < Secrets!Forever /\ subNow + g \in 0..Secrets!Forever
      /\ Secrets!Forever \in 0..Secrets!Forever /\ Secrets!Signing \in Secrets!Secrets
      /\ issued + 1 \in Secrets!Secrets
  <2>1. Secrets!Signing \in Int /\ Secrets!Signing <= issued /\ 1 <= Secrets!Signing
    BY <1>2
  <2>2. subNow + g \in Nat /\ subNow + g <= MaxNow + MAX_GRACE_SECONDS
    BY <1>1, <1>2, SecretConstants
  <2>3. issued + 1 \in 1..MaxSecrets /\ issued + 1 # Secrets!Signing /\ Secrets!Signing \in 1..MaxSecrets
    BY <1>1, <1>2, <2>1, SecretConstants
  <2> QED BY <2>2, <2>3, SecretConstants
<1>5. /\ sub' \in Row /\ sub'.current = issued + 1 /\ sub'.previous = sub.current
      /\ sub'.expires = subNow + g
  <2>1. issued + 1 \in 0..MaxSecrets /\ sub.current \in 0..MaxSecrets
    BY <1>2, <1>3, <1>4, SecretConstants
  <2> QED BY <1>1, <1>2, <1>4, <2>1 DEF Row
<1>6. Secrets!Signing' = issued + 1
  BY <1>2, <1>4, <1>5 DEF Secrets!Signing
<1>7. /\ promise' \in [Secrets!Secrets -> 0..Secrets!Forever]
      /\ promise'[issued + 1] = Secrets!Forever
      /\ promise'[Secrets!Signing] = subNow + g
      /\ \A s \in Secrets!Secrets : s # issued + 1 /\ s # Secrets!Signing => promise'[s] = promise[s]
  BY <1>1, <1>2, <1>4
<1>8. sub.current # 0 => Secrets!Signing = sub.current
  BY DEF Secrets!Signing
<1>9. ASSUME NEW s \in Secrets!Secrets PROVE Settled(s)'
  <2> SUFFICES ASSUME s # issued + 1
               PROVE  promise'[s] < Secrets!Forever /\ (s # sub.current => s \in withdrawn' \/ promise'[s] = 0)
    BY <1>5, <1>6 DEF Settled, Secrets!Forever
  <2>1. CASE s = Secrets!Signing
    <3>1. s # sub.current => sub.current = 0 /\ s = sub.plain /\ s # 0
      BY <1>2, <2>1 DEF Secrets!Signing
    <3>2. s # sub.current => s \in withdrawn'
      BY <1>1, <3>1
    <3> QED BY <1>4, <1>7, <2>1, <3>2
  <2>2. CASE s # Secrets!Signing
    <3>1. promise'[s] = promise[s] /\ promise[s] < Secrets!Forever
      BY <1>2, <1>7, <2>2 DEF Settled
    <3>2. CASE s = sub.previous
      <4>1. s # 0
        BY SecretConstants
      <4> QED BY <1>1, <3>1, <3>2, <4>1
    <3>3. CASE s # sub.previous
      BY <1>1, <1>2, <2>2, <3>1, <3>3 DEF Settled
    <3> QED BY <3>1, <3>2, <3>3
  <2> QED BY <2>1, <2>2
<1>10. issued + 1 \notin withdrawn' /\ withdrawn' \subseteq 1..(issued + 1)
  <2>1. issued + 1 # sub.previous
    BY <1>2
  <2>2. sub.current = 0 => sub.plain # issued + 1 /\ sub.plain \in 1..issued
    BY <1>2, <1>4 DEF Secrets!Signing
  <2>3. withdrawn \subseteq 1..issued
    BY DEF PromiseInv
  <2>4. \A s \in withdrawn' : s \in 1..issued
    BY <1>1, <1>2, <2>2, <2>3
  <2> QED BY <1>2, <2>4
<1>11. /\ Secrets!Signing' \in 1..issued' /\ sub'.previous \in 0..issued' /\ sub'.previous # Secrets!Signing'
       /\ sub'.current # 0 /\ issued' \in 1..MaxSecrets
  BY <1>1, <1>2, <1>3, <1>4, <1>5, <1>6
<1>12. sub'.previous # 0 => promise'[sub'.previous] = sub'.expires
  BY <1>5, <1>7, <1>8
<1> QED BY <1>1, <1>2, <1>5, <1>6, <1>7, <1>9, <1>10, <1>11, <1>12 DEF PromiseInv

LEMMA MigratePromise ==
    ASSUME PromiseInv, Secrets!Migrate
    PROVE  PromiseInv'
<1>1. /\ sub.current = 0 /\ sub' = [sub EXCEPT !.current = sub.plain, !.plain = 0]
      /\ UNCHANGED <<issued, promise, withdrawn, skew, subNow>>
  BY DEF Secrets!Migrate
<1>2. /\ sub \in Row /\ Secrets!Signing \in 1..issued /\ issued \in 1..MaxSecrets
  BY DEF PromiseInv
<1>3. Secrets!Signing = sub.plain /\ sub.plain # 0
  BY <1>1, <1>2 DEF Secrets!Signing
<1>4. /\ sub' \in Row /\ sub'.current = sub.plain /\ sub'.previous = sub.previous
      /\ sub'.expires = sub.expires
  BY <1>1, <1>2, SecretConstants DEF Row
<1>5. Secrets!Signing' = Secrets!Signing
  BY <1>3, <1>4 DEF Secrets!Signing
<1>6. \A s \in Secrets!Secrets : Settled(s)'
  BY <1>1, <1>4, <1>5 DEF PromiseInv, Settled
<1> QED BY <1>1, <1>2, <1>3, <1>4, <1>5, <1>6 DEF PromiseInv

(* A delivery is signed with secrets that are announced, the ones not      *)
(* withdrawn among them; a ping with the one announced for good.           *)
LEMMA SignersPromised ==
    ASSUME PromiseInv, sub.current # 0
    PROVE  /\ Covered({sub.current} \cup Secrets!PreviousSecret, Secrets!Said, Secrets!Kept)
           /\ {sub.current} = {s \in Secrets!Secrets : promise[s] = Secrets!Forever}
<1>1. /\ Secrets!Signing = sub.current /\ sub \in Row /\ Secrets!Signing \in 1..issued /\ issued \in 1..MaxSecrets
      /\ sub.previous \in 0..issued /\ subNow \in 0..MaxNow
      /\ promise[sub.current] = Secrets!Forever
      /\ sub.previous # 0 => promise[sub.previous] = sub.expires
      /\ \A s \in 1..MaxSecrets : Settled(s)
  BY SecretConstants DEF PromiseInv, Secrets!Signing
<1>2. sub.current \in 1..MaxSecrets /\ sub.previous \in 0..MaxSecrets
  BY <1>1 DEF Row
<1>3. Secrets!Forever > subNow /\ ~(0 > subNow)
  BY <1>1, SecretConstants
<1>4. \A s \in 1..MaxSecrets : s # sub.current => promise[s] < Secrets!Forever
  BY <1>1 DEF Settled
<1>5. {sub.current} = {s \in Secrets!Secrets : promise[s] = Secrets!Forever}
  <2>1. ~(Secrets!Forever < Secrets!Forever)
    BY SecretConstants
  <2> QED BY <1>1, <1>2, <1>4, <2>1, SecretConstants
<1>6. Secrets!PreviousSecret = {s \in 1..MaxSecrets : s = sub.previous /\ sub.expires > subNow}
  BY <1>2 DEF Secrets!PreviousSecret
<1>7. Secrets!Said = {s \in 1..MaxSecrets : promise[s] > subNow}
  BY SecretConstants DEF Secrets!Said
<1>8. {sub.current} \cup Secrets!PreviousSecret \subseteq Secrets!Said
  <2>1. \A s \in 1..MaxSecrets : s = sub.previous => promise[s] = sub.expires
    BY <1>1
  <2> QED BY <1>1, <1>2, <1>3, <1>6, <1>7, <2>1
<1>9. Secrets!Kept \subseteq {sub.current} \cup Secrets!PreviousSecret
  <2> SUFFICES ASSUME NEW s \in 1..MaxSecrets, promise[s] > subNow, s \notin withdrawn, s # sub.current
               PROVE  s = sub.previous /\ sub.expires > subNow
    BY <1>6, <1>7 DEF Secrets!Kept
  <2>1. s = sub.previous
    BY <1>1, <1>3 DEF Settled
  <2>2. s # 0
    BY SecretConstants
  <2> QED BY <1>1, <2>1, <2>2
<1> QED BY <1>5, <1>8, <1>9 DEF Covered

LEMMA SecretStep == SecretInv /\ [Secrets!Next]_secretVars => SecretInv'
<1> SUFFICES ASSUME SecretInv, [Secrets!Next]_secretVars PROVE SecretInv'
  OBVIOUS
<1>0. PromiseInv /\ MessageInv /\ subNow \in 0..MaxNow /\ skew \in Int
  BY SecretConstants DEF SecretInv, PromiseInv
<1>1. ASSUME UNCHANGED <<sub, issued, promise, withdrawn, skew>>, subNow' \in 0..MaxNow PROVE PromiseInv'
  <2>1. Secrets!Signing' = Secrets!Signing
    BY <1>1 DEF Secrets!Signing
  <2>2. \A s \in Secrets!Secrets : Settled(s)'
    BY <1>0, <1>1, <2>1 DEF PromiseInv, Settled
  <2> QED BY <1>0, <1>1, <2>1, <2>2 DEF PromiseInv
<1>2. ASSUME UNCHANGED <<message, skew, subNow>> PROVE MessageInv'
  BY <1>0, <1>2 DEF MessageInv, Secrets!SignaturesHonest
<1>3. CASE Secrets!Migrate
  <2>1. UNCHANGED <<message, skew, subNow>>
    BY <1>3 DEF Secrets!Migrate
  <2> QED BY <1>0, <1>2, <1>3, <2>1, MigratePromise DEF SecretInv
<1>4. ASSUME NEW g, NEW miss, Secrets!RotateSecret(g, miss) PROVE SecretInv'
  <2>1. UNCHANGED <<message, skew, subNow>>
    BY <1>4 DEF Secrets!RotateSecret
  <2> QED BY <1>0, <1>2, <1>4, <2>1, RotatePromise DEF SecretInv
<1>5. CASE Secrets!Adopt \/ UNCHANGED secretVars
  <2>1. UNCHANGED <<sub, issued, promise, withdrawn, message, skew, subNow>>
    BY <1>5 DEF Secrets!Adopt, secretVars
  <2> QED BY <1>0, <1>1, <1>2, <2>1 DEF SecretInv
<1>6. CASE Secrets!Claim \/ Secrets!Ping
  <2>1. sub.current # 0 /\ UNCHANGED <<sub, issued, promise, withdrawn, skew, subNow>>
    BY <1>6 DEF Secrets!Claim, Secrets!Ping
  <2>2. message'.pc = "claimed" /\ Covered(message'.signers, message'.said, message'.kept)
    <3>1. CASE Secrets!Claim
      <4>1. message' = Secrets!Claimed({sub.current} \cup Secrets!PreviousSecret, Secrets!Said, Secrets!Kept)
        BY <3>1 DEF Secrets!Claim
      <4>2. /\ message'.pc = "claimed" /\ message'.signers = {sub.current} \cup Secrets!PreviousSecret
            /\ message'.said = Secrets!Said /\ message'.kept = Secrets!Kept
        BY <4>1 DEF Secrets!Claimed
      <4> QED BY <1>0, <2>1, <4>2, SignersPromised
    <3>2. CASE Secrets!Ping
      <4>1. message' = Secrets!Claimed({sub.current}, {sub.current}, {sub.current})
        BY <1>0, <2>1, <3>2, SignersPromised DEF Secrets!Ping
      <4> QED BY <4>1 DEF Secrets!Claimed, Covered
    <3> QED BY <1>6, <3>1, <3>2
  <2>3. MessageInv'
    BY <2>2 DEF MessageInv, Covered
  <2> QED BY <1>0, <1>1, <2>1, <2>3 DEF SecretInv
<1>7. CASE Secrets!Send
  <2>1. /\ message.pc = "claimed" /\ UNCHANGED <<sub, issued, promise, withdrawn, skew, subNow>>
        /\ message' = [pc |-> "sent", signers |-> message.signers, said |-> message.said,
                       kept |-> message.kept, t |-> subNow]
    BY <1>7 DEF Secrets!Send
  <2>2. Covered(message.signers, message.said, message.kept)
    BY <1>0, <2>1 DEF MessageInv, Secrets!Nothing
  <2>3. /\ message'.pc = "sent" /\ message'.signers = message.signers /\ message'.said = message.said
        /\ message'.kept = message.kept /\ message'.t = subNow
    BY <2>1
  <2>4. message'.t \in 0..subNow'
    BY <1>0, <2>1, <2>3
  <2>5. MessageInv'
    BY <2>2, <2>3, <2>4 DEF MessageInv, Covered
  <2> QED BY <1>0, <1>1, <2>1, <2>5 DEF SecretInv
<1>8. CASE Secrets!Receive
  <2>1. /\ message.pc = "sent" /\ UNCHANGED <<sub, issued, promise, withdrawn, skew, subNow>>
        /\ message' = [pc |-> "received", said |-> message.said, kept |-> message.kept, with |-> known,
                       late |-> subNow - message.t, ok |-> Secrets!verify_webhook(message)]
    BY <1>8 DEF Secrets!Receive
  <2>2. Covered(message.signers, message.said, message.kept) /\ message.t \in 0..subNow
    BY <1>0, <2>1 DEF MessageInv, Secrets!Nothing
  <2>3. PICK t \in 0..subNow, d \in Nat : t = message.t /\ d = subNow - t
    BY <1>0, <2>2
  <2>4. /\ message'.pc = "received" /\ message'.said = message.said /\ message'.kept = message.kept
        /\ message'.with = known /\ message'.late = d
        /\ message'.ok = (Secrets!Abs(subNow + skew - t) <= tolerance /\ known \in message.signers)
    BY <2>1, <2>3 DEF Secrets!verify_webhook
  <2>5. /\ d + Secrets!Abs(skew) <= tolerance => Secrets!Abs(subNow + skew - t) <= tolerance
        /\ Secrets!Abs(subNow + skew - t) <= tolerance => d <= tolerance + Secrets!Abs(skew)
    <3>1. subNow \in Int /\ t \in Int /\ skew \in Int /\ tolerance \in Nat /\ d = subNow - t
      BY <1>0, <2>3, SecretConstants
    <3>2. subNow + skew - t = d + skew
      BY <3>1
    <3> QED BY <3>1, <3>2 DEF Secrets!Abs
  <2>6. known \in message.kept => known \in message.signers
    BY <2>2 DEF Covered
  <2>7. known \in message.signers => known \in message.said
    BY <2>2 DEF Covered
  <2>8. Secrets!SignaturesHonest'
    BY <2>1, <2>4, <2>5, <2>6, <2>7 DEF Secrets!SignaturesHonest
  <2>9. MessageInv'
    BY <2>4, <2>8 DEF MessageInv
  <2> QED BY <1>0, <1>1, <2>1, <2>9 DEF SecretInv
<1>9. CASE Secrets!Handled
  <2>1. message' = Secrets!Nothing /\ UNCHANGED <<sub, issued, promise, withdrawn, skew, subNow>>
    BY <1>9 DEF Secrets!Handled
  <2>2. MessageInv'
    BY <2>1 DEF MessageInv, Secrets!Nothing
  <2> QED BY <1>0, <1>1, <2>1, <2>2 DEF SecretInv
<1>10. CASE Secrets!Tick
  <2>1. subNow < MaxNow /\ subNow' = subNow + 1 /\ UNCHANGED <<sub, issued, promise, withdrawn, message, skew>>
    BY <1>10 DEF Secrets!Tick
  <2>2. subNow' \in 0..MaxNow /\ 0..subNow \subseteq 0..subNow'
    BY <1>0, <2>1, SecretConstants
  <2>3. MessageInv'
    BY <1>0, <2>1, <2>2 DEF MessageInv, Secrets!SignaturesHonest
  <2> QED BY <1>1, <2>1, <2>2, <2>3 DEF SecretInv
<1> QED BY <1>3, <1>4, <1>5, <1>6, <1>7, <1>8, <1>9, <1>10 DEF Secrets!Next

(* webhooks.rs and crypto.rs: through any sequence of rotations, lost      *)
(* answers and late switches a receiver accepts a timely message claimed   *)
(* while its secret was current or in its announced grace, unless a        *)
(* rotation had withdrawn the secret by then (a second one overwrites the  *)
(* previous secret, and one in plain text is not kept); and it accepts     *)
(* with no secret that was not announced and no message that is too old.   *)
THEOREM SignaturesHonestHolds == ApiSpec => []SignaturesHonest
<1> DEFINE I == focus = "secrets" => SecretInv
<1>1. ApiInit => I
  BY SecretInitially DEF ApiInit
<1>2. I /\ [ApiNext]_<<focus, vars, limitVars, readVars, pageVars, proxyVars, secretVars, statsVars>> => I'
  <2>1. [ApiNext]_<<focus, vars, limitVars, readVars, pageVars, proxyVars, secretVars, statsVars>>
          => focus' = focus /\ (focus = "secrets" => [Secrets!Next]_secretVars)
    BY DEF ApiNext
  <2> QED BY <2>1, SecretStep
<1>3. I => SignaturesHonest
  <2>1. SecretInv => Secrets!SignaturesHonest
    BY DEF SecretInv, MessageInv, Secrets!SignaturesHonest, Secrets!Nothing
  <2> QED BY <2>1 DEF SignaturesHonest
<1> QED BY <1>1, <1>2, <1>3, PTL DEF ApiSpec

-----------------------------------------------------------------------------
(* The multi-network proxy *)

(* Induction over the naturals, for a set: a least number outside it would *)
(* have a predecessor inside.                                              *)
LEMMA NatSet ==
    ASSUME NEW S, 0 \in S, \A n \in Nat : n \in S => n + 1 \in S
    PROVE  Nat \subseteq S
<1> SUFFICES ASSUME ~(Nat \subseteq S) PROVE FALSE
  OBVIOUS
<1> DEFINE T == Nat \ S
<1>1. T \subseteq Nat /\ T # {}
  OBVIOUS
<1> HIDE DEF T
<1>2. PICK x \in T : \A y \in T : <<y, x>> \notin OpToRel(<, Nat)
  BY <1>1, NatLessThanWellFounded, WFMin
<1>3. x \in Nat /\ x \notin S
  BY DEF T
<1>4. x # 0 /\ x - 1 \in Nat /\ (x - 1) + 1 = x
  BY <1>3
<1>5. x - 1 \in T
  BY <1>3, <1>4 DEF T
<1>6. <<x - 1, x>> \in OpToRel(<, Nat)
  BY <1>3, <1>4 DEF OpToRel
<1> QED BY <1>2, <1>5, <1>6

LEMMA Joined ==
    ASSUME NEW E, NEW seqs \in Seq(Seq(E))
    PROVE  FlattenSeq(seqs) \in Seq(E) /\ (Len(seqs) = 1 => FlattenSeq(seqs) = seqs[1])
<1> DEFINE n == Len(seqs)
           Def(g, i) == IF i = 1 THEN seqs[i] ELSE g[i - 1] \o seqs[i]
<1>0. n \in Nat /\ \A i \in 1..n : seqs[i] \in Seq(E)
  OBVIOUS
<1>1. CASE n = 0
  <2>1. FlattenSeq(seqs) = seqs /\ seqs = <<>>
    BY <1>1 DEF FlattenSeq
  <2> QED BY <1>1, <2>1
<1>2. CASE n # 0
  <2> DEFINE f == CHOOSE f : f = [i \in 1..n |-> Def(f, i)]
  <2>1. FlattenSeq(seqs) = f[n]
    BY <1>2 DEF FlattenSeq
  <2> HIDE DEF n
  <2>2. \E g : g = [i \in 1..n |-> Def(g, i)]
    <3> DEFINE Good(k, g) == g \in [1..k -> Seq(E)] /\ \A i \in 1..k : g[i] = Def(g, i)
               S == {k \in Nat : k <= n => \E g : Good(k, g)}
    <3>1. 0 \in S
      <4>1. Good(0, [i \in 1..0 |-> <<>>])
        OBVIOUS
      <4> QED BY <4>1
    <3> HIDE DEF Good
    <3>2. ASSUME NEW k \in Nat, k \in S PROVE k + 1 \in S
      <4> SUFFICES ASSUME k + 1 <= n PROVE \E g : Good(k + 1, g)
        OBVIOUS
      <4>1. PICK g : Good(k, g)
        BY <1>0, <3>2
      <4> DEFINE h == [i \in 1..(k + 1) |-> IF i = k + 1 THEN Def(g, i) ELSE g[i]]
      <4>2. k + 1 \in 1..n /\ seqs[k + 1] \in Seq(E)
        BY <1>0
      <4>3. Def(g, k + 1) \in Seq(E)
        <5>1. k # 0 => g[k] \in Seq(E)
          BY <4>1 DEF Good
        <5>2. (k + 1) - 1 = k
          OBVIOUS
        <5> QED BY <4>2, <5>1, <5>2
      <4>4. h \in [1..(k + 1) -> Seq(E)]
        BY <4>1, <4>3 DEF Good
      <4>5. ASSUME NEW i \in 1..(k + 1) PROVE h[i] = Def(h, i)
        <5>1. i # 1 => i - 1 \in 1..k /\ i - 1 \in 1..(k + 1) /\ i - 1 # k + 1
          OBVIOUS
        <5>2. i # 1 => h[i - 1] = g[i - 1]
          BY <5>1
        <5>3. Def(h, i) = Def(g, i)
          BY <5>2
        <5>4. i # k + 1 => i \in 1..k
          OBVIOUS
        <5>5. i # k + 1 => g[i] = Def(g, i)
          BY <4>1, <5>4 DEF Good
        <5> HIDE DEF Def
        <5> QED BY <5>3, <5>5
      <4>6. Good(k + 1, h)
        <5> HIDE DEF h, Def
        <5> QED BY <4>4, <4>5 DEF Good
      <4> QED BY <4>6
    <3>3. n \in S
      <4> HIDE DEF S
      <4> QED BY <1>0, <3>1, <3>2, NatSet
    <3>4. PICK g : Good(n, g)
      BY <1>0, <3>3
    <3>5. g = [i \in 1..n |-> Def(g, i)]
      <4> HIDE DEF Def
      <4> QED BY <3>4 DEF Good
    <3> QED BY <3>5
  <2>3. f = [i \in 1..n |-> Def(f, i)]
    <3> HIDE DEF Def
    <3> QED BY <2>2
  <2> HIDE DEF f
  <2>4. \A i \in 1..n : f[i] = Def(f, i)
    <3> HIDE DEF Def
    <3>1. PICK g : g = f
      OBVIOUS
    <3>2. g = [i \in 1..n |-> Def(g, i)]
      BY <2>3, <3>1
    <3>3. \A i \in 1..n : g[i] = Def(g, i)
      BY <3>2
    <3> QED BY <3>1, <3>3
  <2> DEFINE S == {k \in Nat : k + 1 \in 1..n => f[k + 1] \in Seq(E)}
  <2>5. 0 \in S
    BY <1>0, <1>2, <2>4
  <2>6. ASSUME NEW k \in Nat, k \in S PROVE k + 1 \in S
    <3> SUFFICES ASSUME (k + 1) + 1 \in 1..n PROVE f[(k + 1) + 1] \in Seq(E)
      OBVIOUS
    <3>1. k + 1 \in 1..n /\ (k + 1) + 1 # 1 /\ ((k + 1) + 1) - 1 = k + 1
      BY <1>0
    <3>2. f[(k + 1) + 1] = f[k + 1] \o seqs[(k + 1) + 1]
      BY <2>4, <3>1
    <3>3. f[k + 1] \in Seq(E) /\ seqs[(k + 1) + 1] \in Seq(E)
      BY <1>0, <2>6, <3>1
    <3> QED BY <3>2, <3>3
  <2>7. n - 1 \in Nat /\ (n - 1) + 1 = n /\ n \in 1..n
    BY <1>0, <1>2
  <2>8. n - 1 \in S
    <3> HIDE DEF S
    <3> QED BY <2>5, <2>6, <2>7, NatSet
  <2>9. n = 1 => f[n] = seqs[1]
    BY <2>4, <2>7
  <2> QED BY <2>1, <2>7, <2>8, <2>9 DEF n
<1> QED BY <1>1, <1>2

LEMMA AddedLast ==
    ASSUME NEW E, NEW s \in Seq(E), NEW a \in E
    PROVE  LET t == s \o <<a>> IN
           /\ t \in Seq(E) /\ Len(t) = Len(s) + 1 /\ t[Len(t)] = a
           /\ \A i \in 1..Len(s) : t[i] = s[i]
<1> DEFINE u == <<a>>
           t == s \o u
<1>1. u \in Seq(E) /\ Len(u) = 1 /\ u[1] = a /\ Len(s) \in Nat
  OBVIOUS
<1> HIDE DEF u
<1>2. /\ t \in Seq(E) /\ Len(t) = Len(s) + Len(u)
      /\ \A i \in 1..(Len(s) + Len(u)) : t[i] = IF i <= Len(s) THEN s[i] ELSE u[i - Len(s)]
  BY <1>1, ConcatProperties
<1> HIDE DEF t
<1>3. Len(t) = Len(s) + 1 /\ t[Len(t)] = a
  BY <1>1, <1>2
<1>4. \A i \in 1..Len(s) : t[i] = s[i]
  BY <1>1, <1>2
<1> QED BY <1>2, <1>3, <1>4 DEF t, u

(* Addresses that occur in the header. *)
Seen == Proxy!Entries \cup {balancer}
Settings == [trusted_proxy_hops : Nat, platform_header : BOOLEAN]
OneHop == [trusted_proxy_hops |-> 1, platform_header |-> FALSE]

(* The n-th entry of the only line, from the right, is an address.         *)
Names(a, lines, n) ==
    Len(lines) = 1 /\ n <= Len(lines[1]) /\ lines[1][Len(lines[1]) - n + 1] = a

(* Each balancer passed has added one entry to the only line, unless one   *)
(* of them started another, the first of them the client's address, which  *)
(* a platform has put in its header as well; what follows takes it from    *)
(* there, and the sibling's header ends with the address found.            *)
ProxyInv ==
    /\ client \in Addrs /\ joined \in BOOLEAN
    /\ cfg \in [front : Settings, sibling : Settings]
    /\ hops \in 0..cfg.front.trusted_proxy_hops
    /\ cfg.front.platform_header => cfg.front.trusted_proxy_hops # 0
    /\ xff \in Seq(Seq(Seen)) /\ platform \in Seen
    /\ proxyPc = "travels" =>
          IF hops = 0 THEN peer = client /\ joined
          ELSE /\ peer = balancer
               /\ joined => Names(client, xff, hops)
               /\ cfg.front.platform_header => platform = client
    /\ proxyPc \in {"forward", "sibling"} =>
          /\ ip.front # junk
          /\ cfg.front.platform_header => platform = client
    /\ ip \in [front : Seen, sibling : Seen \cup {front}]
    /\ joined \/ cfg.front.platform_header => ip.front \in {junk, client}
    /\ proxyPc = "sibling" => peer = front /\ Names(ip.front, xff, 1)
    /\ proxyPc = "answers" =>
          /\ cfg.sibling = OneHop => ip.sibling = ip.front
          /\ cfg.sibling.platform_header /\ cfg.front.platform_header => ip.sibling = client
    /\ resp \in [size : Nat, declared : BOOLEAN, read : 0..max_response_bytes]
    /\ proxyPc = "passed on" => resp.read = resp.size

LEMMA ProxyConstants ==
    /\ junk \notin Addrs /\ balancer # junk /\ Depths \subseteq Nat /\ SiblingHops \subseteq Nat
    /\ MaxLines \in Nat /\ MaxEntries \in Nat
    /\ MaxBytes \in Nat /\ max_response_bytes \in Nat
  BY PartsAssumption DEF Proxy!ProxyAssumption

(* What an instance takes the client's address to be: the platform header  *)
(* if it trusts it, or the named entry of the only line.                   *)
LEMMA ByPlatform ==
    ASSUME NEW c, c.platform_header, platform # junk, NEW socket
    PROVE  Proxy!extract_client_ip(c, socket) = platform
BY DEF Proxy!extract_client_ip, Proxy!parse_client_ip

LEMMA ByHops ==
    ASSUME NEW c \in Settings, ~c.platform_header, c.trusted_proxy_hops # 0, NEW a, a # junk,
           xff \in Seq(Seq(Seen)), Names(a, xff, c.trusted_proxy_hops), NEW socket
    PROVE  Proxy!extract_client_ip(c, socket) = a
<1>1. PICK n \in Nat \ {0} : n = c.trusted_proxy_hops
  BY DEF Settings
<1>2. xff # <<>> /\ Len(xff[1]) \in Nat /\ Len(xff[1]) >= n
  <2>1. Len(xff) = 1 /\ n <= Len(xff[1])
    BY <1>1 DEF Names
  <2>2. xff # <<>>
    <3>1. Len(<<>>) # 1
      OBVIOUS
    <3> QED BY <2>1, <3>1, Zenon
  <2>3. xff[1] \in Seq(Seen)
    <3>1. \A S : \A l \in Seq(S) : Len(l) = 1 => l[1] \in S
      OBVIOUS
    <3> QED BY <2>1, <3>1
  <2> QED BY <2>1, <2>2, <2>3
<1>3. Proxy!Trusted(xff[1], n) = a
  BY <1>1 DEF Names, Proxy!Trusted
<1> QED BY <1>1, <1>2, <1>3 DEF Proxy!extract_client_ip, Proxy!parse_client_ip

(* It is an address whenever the socket's is. *)
LEMMA SomeAddress ==
    ASSUME NEW c \in Settings, xff \in Seq(Seq(Seen)), platform \in Seen,
           NEW socket
    PROVE  /\ Proxy!extract_client_ip(c, socket) \in Seen \cup {socket}
           /\ socket # junk => Proxy!extract_client_ip(c, socket) # junk
<1>1. PICK n \in Nat : n = c.trusted_proxy_hops
  BY DEF Settings
<1>2. ASSUME n > 0, xff # <<>>, Len(xff[1]) >= n PROVE Proxy!Trusted(xff[1], n) \in Seen
  <2>1. PICK l \in Seq(Seen) : l = xff[1]
    BY <1>2
  <2>2. Len(l) \in Nat /\ Len(l) - n + 1 \in 1..Len(l)
    BY <1>2, <2>1
  <2>3. l[Len(l) - n + 1] \in Seen
    BY <2>2
  <2> QED BY <2>1, <2>3 DEF Proxy!Trusted
<1> QED BY <1>1, <1>2 DEF Proxy!extract_client_ip, Proxy!parse_client_ip

LEMMA OneMoreHop ==
    ASSUME NEW lines \in Seq(Seq(Seen)), NEW a \in Seen, NEW E, E = <<FlattenSeq(lines) \o <<a>>>>
    PROVE  /\ E \in Seq(Seq(Seen)) /\ Len(E) = 1
           /\ Names(a, E, 1)
<1> DEFINE j == FlattenSeq(lines)
           t == j \o <<a>>
<1>1. j \in Seq(Seen)
  BY Joined
<1> HIDE DEF j
<1>2. t \in Seq(Seen) /\ Len(t) = Len(j) + 1 /\ t[Len(t)] = a /\ Len(j) \in Nat
  BY <1>1, AddedLast
<1> HIDE DEF t
<1>3. E = <<t>>
  BY DEF t, j
<1>4. E \in Seq(Seq(Seen)) /\ Len(E) = 1 /\ E[1] = t
  <2>1. \A T : \A x \in T : <<x>> \in Seq(T) /\ Len(<<x>>) = 1 /\ <<x>>[1] = x
    OBVIOUS
  <2>2. t \in Seq(Seen)
    BY <1>2
  <2> QED BY <1>3, <2>1, <2>2, Zenon
<1>5. 1 <= Len(t) /\ Len(t) - 1 + 1 = Len(t)
  BY <1>2
<1> QED BY <1>2, <1>4, <1>5 DEF Names

(* A further balancer adds its entry to the right of the others.           *)
LEMMA FurtherHop ==
    ASSUME NEW lines \in Seq(Seq(Seen)), NEW n \in Nat \ {0}, NEW b, Names(b, lines, n), NEW a \in Seen,
           NEW E, E = <<FlattenSeq(lines) \o <<a>>>>
    PROVE  Names(b, E, n + 1)
<1>0. lines[1] \in Seq(Seen) /\ FlattenSeq(lines) = lines[1]
  BY Joined DEF Names
<1>1. PICK l \in Seq(Seen) : l = lines[1]
  BY <1>0
<1> DEFINE t == l \o <<a>>
<1>2. t \in Seq(Seen) /\ Len(t) = Len(l) + 1 /\ (\A i \in 1..Len(l) : t[i] = l[i]) /\ Len(l) \in Nat
  BY AddedLast
<1>3. E = <<t>>
  BY <1>0, <1>1
<1> HIDE DEF t
<1>4. Len(E) = 1 /\ E[1] = t
  BY <1>3
<1>5. n <= Len(l) /\ l[Len(l) - n + 1] = b
  BY <1>1 DEF Names
<1>6. n + 1 <= Len(t) /\ Len(t) - (n + 1) + 1 = Len(l) - n + 1 /\ Len(l) - n + 1 \in 1..Len(l)
  BY <1>2, <1>5
<1>7. t[Len(t) - (n + 1) + 1] = b
  BY <1>2, <1>5, <1>6
<1> QED BY <1>4, <1>6, <1>7 DEF Names

LEMMA ProxyInitially == Proxy!Init => ProxyInv
<1> SUFFICES ASSUME Proxy!Init PROVE ProxyInv
  OBVIOUS
<1>1. xff \in Seq(Seq(Seen))
  <2>1. \A S : \A n \in Nat : [1..n -> S] \subseteq Seq(S)
    OBVIOUS
  <2>2. Proxy!Lines \subseteq Seq(Seen)
    <3>1. \A n \in Nat : [1..n -> Proxy!Entries] \subseteq [1..n -> Seen]
      BY DEF Seen
    <3>2. \A n \in 1..MaxEntries : n \in Nat
      BY ProxyConstants
    <3> QED BY <2>1, <3>1, <3>2 DEF Proxy!Lines
  <2>3. PICK n \in 0..MaxLines : xff \in [1..n -> Proxy!Lines]
    BY DEF Proxy!Init
  <2>4. xff \in [1..n -> Seq(Seen)] /\ n \in Nat
    BY <2>2, <2>3, ProxyConstants
  <2> QED BY <2>1, <2>4
<1>2. /\ cfg \in [front : Settings, sibling : Settings]
      /\ cfg.front.platform_header => cfg.front.trusted_proxy_hops # 0
  <2>1. Proxy!IpConfig(Depths) \subseteq Settings /\ Proxy!IpConfig(SiblingHops) \subseteq Settings
    BY ProxyConstants DEF Proxy!IpConfig, Settings
  <2>2. /\ cfg \in [front : Proxy!IpConfig(Depths), sibling : Proxy!IpConfig(SiblingHops)]
        /\ cfg.front.platform_header => cfg.front.trusted_proxy_hops > 0
    BY DEF Proxy!Init
  <2>3. cfg \in [front : Settings, sibling : Settings]
    BY <2>1, <2>2
  <2>4. cfg.front.trusted_proxy_hops \in Nat
    BY <2>3 DEF Settings
  <2> QED BY <2>2, <2>3, <2>4
<1>3. /\ client \in Addrs /\ peer = client /\ hops = 0 /\ joined = TRUE
      /\ platform \in Seen /\ junk \in Seen
      /\ proxyPc = "travels" /\ ip = [front |-> junk, sibling |-> junk]
      /\ resp = [size |-> 0, declared |-> FALSE, read |-> 0]
  BY ProxyConstants DEF Proxy!Init, Seen, Proxy!Entries
<1>4. 0 \in 0..cfg.front.trusted_proxy_hops
  BY <1>2 DEF Settings
<1> QED BY <1>1, <1>2, <1>3, <1>4, ProxyConstants DEF ProxyInv

LEMMA ProxyStep == ProxyInv /\ [Proxy!Next]_proxyVars => ProxyInv'
<1> SUFFICES ASSUME ProxyInv, [Proxy!Next]_proxyVars PROVE ProxyInv'
  OBVIOUS
<1>0. /\ client \in Addrs /\ joined \in BOOLEAN
      /\ cfg \in [front : Settings, sibling : Settings]
      /\ hops \in 0..cfg.front.trusted_proxy_hops /\ cfg.front.trusted_proxy_hops \in Nat
      /\ cfg.front.platform_header => cfg.front.trusted_proxy_hops # 0
      /\ xff \in Seq(Seq(Seen)) /\ platform \in Seen
      /\ ip \in [front : Seen, sibling : Seen \cup {front}]
      /\ joined \/ cfg.front.platform_header => ip.front \in {junk, client}
      /\ resp \in [size : Nat, declared : BOOLEAN, read : 0..max_response_bytes]
  BY DEF ProxyInv, Settings
<1>c. client \in Seen /\ balancer \in Seen /\ junk \in Seen /\ client # junk /\ balancer # junk
  BY <1>0, ProxyConstants DEF Seen, Proxy!Entries
<1>1. CASE UNCHANGED proxyVars
  BY <1>1 DEF ProxyInv, Names, proxyVars
<1>2. ASSUME NEW joins \in BOOLEAN, Proxy!Balance(joins) PROVE ProxyInv'
  <2>1. /\ proxyPc = "travels" /\ hops < cfg.front.trusted_proxy_hops
        /\ peer' = balancer /\ hops' = hops + 1 /\ joined' = (joined /\ joins)
        /\ xff' = IF joins THEN <<FlattenSeq(xff) \o <<peer>>>> ELSE Append(xff, <<peer>>)
        /\ platform' = IF cfg.front.platform_header /\ hops = 0 THEN peer ELSE platform
        /\ UNCHANGED <<cfg, client, ip, resp, proxyPc>>
    BY <1>2 DEF Proxy!Balance, Proxy!FlattenSeq, FlattenSeq, Proxy!route
  <2>2. peer \in Seen /\ (hops = 0 => peer = client)
    BY <1>c, <2>1 DEF ProxyInv
  <2>3. xff' \in Seq(Seq(Seen))
    <3>1. CASE joins
      BY <1>0, <2>1, <2>2, <3>1, OneMoreHop
    <3>2. CASE ~joins
      <4>1. <<peer>> \in Seq(Seen)
        BY <2>2
      <4>2. Append(xff, <<peer>>) \in Seq(Seq(Seen))
        BY <1>0, <4>1
      <4> QED BY <2>1, <3>2, <4>2
    <3> QED BY <3>1, <3>2
  <2>4. ASSUME joined, joins PROVE Names(client, xff', hops')
    <3>1. xff' = <<FlattenSeq(xff) \o <<peer>>>>
      BY <2>1, <2>4
    <3>2. CASE hops = 0
      <4>1. Names(client, xff', 1)
        BY <1>0, <2>2, <3>1, <3>2, OneMoreHop
      <4> QED BY <2>1, <3>2, <4>1
    <3>3. CASE hops # 0
      <4>1. hops \in Nat \ {0} /\ Names(client, xff, hops)
        BY <1>0, <2>1, <2>4, <3>3 DEF ProxyInv
      <4>2. Names(client, xff', hops + 1)
        BY <1>0, <2>2, <3>1, <4>1, FurtherHop, Zenon
      <4> QED BY <2>1, <4>2
    <3> QED BY <3>2, <3>3
  <2>5. hops' \in 0..cfg'.front.trusted_proxy_hops /\ hops' # 0
    BY <1>0, <2>1
  <2>6. joined' \in BOOLEAN /\ (joined' => joined /\ joins)
    BY <2>1
  <2>7. platform' \in Seen /\ (cfg.front.platform_header => platform' = client)
    BY <1>0, <2>1, <2>2 DEF ProxyInv
  <2>8. joined' => Names(client, xff, hops)'
    BY <2>1, <2>4, <2>6 DEF Names
  <2>9. joined' \/ cfg'.front.platform_header => ip'.front \in {junk, client'}
    BY <1>0, <2>1, <2>6
  <2> QED BY <1>0, <2>1, <2>3, <2>5, <2>6, <2>7, <2>8, <2>9 DEF ProxyInv
<1>3. ASSUME NEW body, Proxy!Accept(body) PROVE ProxyInv'
  <2>1. /\ proxyPc = "travels" /\ hops = cfg.front.trusted_proxy_hops
        /\ ip' = [ip EXCEPT !.front = Proxy!extract_client_ip(cfg.front, peer)]
        /\ proxyPc' \in {"forward", "413"}
        /\ UNCHANGED <<cfg, client, peer, xff, platform, hops, joined, resp>>
    BY <1>3 DEF Proxy!Accept, Proxy!ReadBody, Proxy!route, Proxy!headers
  <2>2. cfg.front \in Settings /\ peer \in Seen /\ peer # junk
    BY <1>0, <1>c, <2>1 DEF ProxyInv
  <2>3. PICK a : a = Proxy!extract_client_ip(cfg.front, peer)
    OBVIOUS
  <2>4. a \in Seen /\ a # junk
    BY <1>0, <2>2, <2>3, SomeAddress
  <2>5. cfg.front.platform_header => platform = client
    BY <1>0, <2>1 DEF ProxyInv
  <2>6. ASSUME joined \/ cfg.front.platform_header PROVE a = client
    <3>1. CASE cfg.front.platform_header
      BY <1>c, <2>3, <2>5, <3>1, ByPlatform
    <3>2. CASE ~cfg.front.platform_header /\ hops = 0
      BY <1>0, <2>1, <2>3, <3>2 DEF ProxyInv, Proxy!extract_client_ip
    <3>3. CASE ~cfg.front.platform_header /\ hops # 0
      <4>1. Names(client, xff, cfg.front.trusted_proxy_hops)
        BY <2>1, <2>6, <3>3 DEF ProxyInv
      <4> QED BY <1>0, <1>c, <2>1, <2>2, <2>3, <3>3, <4>1, ByHops
    <3> QED BY <3>1, <3>2, <3>3
  <2>7. ip' \in [front : Seen, sibling : Seen \cup {front}] /\ ip'.front = a
    BY <1>0, <2>1, <2>3, <2>4
  <2> QED BY <1>0, <2>1, <2>4, <2>5, <2>6, <2>7 DEF ProxyInv
<1>4. CASE Proxy!Forward
  <2>1. /\ proxyPc = "forward" /\ proxyPc' = "sibling"
        /\ xff' = <<FlattenSeq(xff) \o <<ip.front>>>> /\ peer' = front
        /\ UNCHANGED <<cfg, client, platform, hops, joined, ip, resp>>
    BY <1>4 DEF Proxy!Forward, Proxy!forwarded_for, Proxy!FlattenSeq, FlattenSeq, Proxy!route
  <2>2. /\ ip.front \in Seen /\ ip.front # junk
        /\ cfg.front.platform_header => platform = client
    BY <1>0, <2>1 DEF ProxyInv
  <2>3. xff' \in Seq(Seq(Seen)) /\ Names(ip.front, xff', 1)
    BY <1>0, <2>1, <2>2, OneMoreHop
  <2>4. Names(ip.front, xff, 1)'
    BY <2>1, <2>3 DEF Names
  <2> QED BY <1>0, <2>1, <2>2, <2>3, <2>4 DEF ProxyInv
<1>5. CASE Proxy!SiblingResolves
  <2>1. /\ proxyPc = "sibling" /\ proxyPc' = "answers"
        /\ ip' = [ip EXCEPT !.sibling = Proxy!extract_client_ip(cfg.sibling, peer)]
        /\ xff' = <<>> /\ platform' = junk
        /\ UNCHANGED <<cfg, client, peer, hops, joined, resp>>
    BY <1>5 DEF Proxy!SiblingResolves, Proxy!route
  <2>2. PICK a : a = Proxy!extract_client_ip(cfg.sibling, peer)
    OBVIOUS
  <2>3. ASSUME cfg.sibling = OneHop PROVE a = ip.front
    <3>1. /\ cfg.sibling \in Settings /\ ~cfg.sibling.platform_header
          /\ cfg.sibling.trusted_proxy_hops = 1 /\ 1 # 0
      BY <2>3 DEF Settings, OneHop
    <3>2. ip.front # junk /\ Names(ip.front, xff, 1)
      BY <2>1 DEF ProxyInv
    <3> QED BY <1>0, <2>2, <3>1, <3>2, ByHops
  <2>4. ASSUME cfg.sibling.platform_header, cfg.front.platform_header PROVE a = client
    BY <1>c, <2>1, <2>2, <2>4, ByPlatform DEF ProxyInv
  <2>5. ip' = [ip EXCEPT !.sibling = a]
    BY <2>1, <2>2
  <2>6. ip'.front = ip.front /\ ip'.sibling = a
    BY <1>0, <2>5
  <2>7. a \in Seen \cup {front}
    <3>1. peer = front /\ cfg.sibling \in Settings
      BY <1>0, <2>1 DEF ProxyInv
    <3> QED BY <1>0, <2>2, <3>1, SomeAddress
  <2> QED BY <1>0, <1>c, <2>1, <2>3, <2>4, <2>6, <2>7 DEF ProxyInv
<1>6. ASSUME NEW size \in Nat, NEW declared \in BOOLEAN, Proxy!SiblingAnswers(size, declared)
      PROVE  ProxyInv'
  <2>1. /\ resp' = [size |-> size, declared |-> declared, read |-> 0]
        /\ proxyPc' \in {"502", "reading"}
        /\ UNCHANGED <<cfg, client, peer, xff, platform, hops, joined, ip>>
    BY <1>6 DEF Proxy!SiblingAnswers, Proxy!route, Proxy!headers
  <2>2. resp' \in [size : Nat, declared : BOOLEAN, read : 0..max_response_bytes]
    BY <2>1, ProxyConstants
  <2> QED BY <1>0, <2>1, <2>2 DEF ProxyInv
<1>7. ASSUME NEW status \in {"502", "504"}, Proxy!UpstreamError(status) PROVE ProxyInv'
  <2>1. /\ proxyPc' \in {"502", "504"}
        /\ UNCHANGED <<cfg, client, peer, xff, platform, hops, joined, ip, resp>>
    BY <1>7 DEF Proxy!UpstreamError, Proxy!route, Proxy!headers
  <2> QED BY <1>0, <2>1 DEF ProxyInv
<1>8. ASSUME NEW chunk \in Nat, Proxy!ReadChunk(chunk) PROVE ProxyInv'
  <2>1. /\ proxyPc = "reading" /\ proxyPc' \in {"502", "reading"}
        /\ \/ resp' = resp
           \/ /\ resp' = [resp EXCEPT !.read = @ + chunk]
              /\ ~(resp.read + chunk > max_response_bytes)
        /\ UNCHANGED <<cfg, client, peer, xff, platform, hops, joined, ip>>
    BY <1>8 DEF Proxy!ReadChunk, Proxy!TooLarge, Proxy!route, Proxy!headers
  <2>2. resp' \in [size : Nat, declared : BOOLEAN, read : 0..max_response_bytes]
    <3>1. CASE resp' = resp
      BY <1>0, <3>1
    <3>2. CASE resp' = [resp EXCEPT !.read = @ + chunk] /\ ~(resp.read + chunk > max_response_bytes)
      <4>1. resp.read + chunk \in 0..max_response_bytes
        BY <1>0, <3>2, ProxyConstants
      <4> QED BY <1>0, <3>2, <4>1
    <3> QED BY <2>1, <3>1, <3>2
  <2> QED BY <1>0, <2>1, <2>2 DEF ProxyInv
<1>9. CASE Proxy!Finish
  <2>1. /\ proxyPc' = "passed on" /\ resp.read = resp.size
        /\ UNCHANGED <<cfg, client, peer, xff, platform, hops, joined, ip, resp>>
    BY <1>9 DEF Proxy!Finish, Proxy!route, Proxy!headers
  <2> QED BY <1>0, <2>1 DEF ProxyInv
<1>10. \A n \in 0..MaxBytes : n \in Nat
  BY ProxyConstants
<1>11. \A n \in 1..MaxBytes : n \in Nat
  BY ProxyConstants
<1> QED BY <1>1, <1>2, <1>3, <1>4, <1>5, <1>6, <1>7, <1>8, <1>9, <1>10, <1>11 DEF Proxy!Next

(* auth.rs and proxy.rs: behind any number of balancers that keep          *)
(* X-Forwarded-For on one line, or behind a platform, whatever the client  *)
(* sent, this instance counts the request for the address the client has;  *)
(* a sibling that trusts one hop counts it for the address this instance   *)
(* found; and what is passed on is whole and within the limit.             *)
THEOREM ProxyHonestHolds == ApiSpec => []ProxyHonest
<1> DEFINE I == focus = "proxy" => ProxyInv
<1>1. ApiInit => I
  BY ProxyInitially DEF ApiInit
<1>2. I /\ [ApiNext]_<<focus, vars, limitVars, readVars, pageVars, proxyVars, secretVars, statsVars>> => I'
  <2>1. [ApiNext]_<<focus, vars, limitVars, readVars, pageVars, proxyVars, secretVars, statsVars>>
          => focus' = focus /\ (focus = "proxy" => [Proxy!Next]_proxyVars)
    BY DEF ApiNext
  <2> QED BY <2>1, ProxyStep
<1>3. I => ProxyHonest
  <2>1. ProxyInv => Proxy!ProxyHonest
    <3> SUFFICES ASSUME ProxyInv PROVE Proxy!ProxyHonest
      OBVIOUS
    <3>1. joined \/ cfg.front.platform_header => ip.front \in {junk, client}
      BY DEF ProxyInv
    <3>2. resp.read <= max_response_bytes
      <4>1. resp \in [size : Nat, declared : BOOLEAN, read : 0..max_response_bytes]
        BY DEF ProxyInv
      <4> QED BY <4>1, ProxyConstants
    <3> QED BY <3>1, <3>2 DEF ProxyInv, Proxy!ProxyHonest, OneHop
  <2> QED BY <2>1 DEF ProxyHonest
<1> QED BY <1>1, <1>2, <1>3, PTL DEF ApiSpec

-----------------------------------------------------------------------------
(* The rate limiter *)

LEMMA Prefix ==
    ASSUME NEW S, NEW s \in Seq(S), NEW m \in 0..Len(s)
    PROVE  /\ SubSeq(s, 1, m) \in Seq(S) /\ Len(SubSeq(s, 1, m)) = m
           /\ \A j \in 1..m : SubSeq(s, 1, m)[j] = s[j]
<1>0. Len(s) \in Nat /\ \A j \in 1..Len(s) : s[j] \in S
  OBVIOUS
<1>1. PICK p : p = SubSeq(s, 1, m)
  OBVIOUS
<1>2. \A j \in 1..m : s[j] \in S
  BY <1>0
<1>3. /\ p \in Seq(S) /\ Len(p) = IF 1 <= m THEN m - 1 + 1 ELSE 0
      /\ \A j \in 1..(m - 1 + 1) : p[j] = s[1 + j - 1]
  BY <1>1, <1>2, SubSeqProperties
<1>4. m - 1 + 1 = m /\ \A j \in 1..m : 1 + j - 1 = j
  BY <1>0
<1>5. Len(p) = m
  BY <1>0, <1>3
<1> QED BY <1>1, <1>3, <1>4, <1>5

LEMMA Prepended ==
    ASSUME NEW S, NEW s \in Seq(S), NEW a \in S
    PROVE  /\ <<a>> \o s \in Seq(S) /\ Len(<<a>> \o s) = Len(s) + 1
           /\ (<<a>> \o s)[1] = a
           /\ \A j \in 2..(Len(s) + 1) : (<<a>> \o s)[j] = s[j - 1]
<1> DEFINE u == <<a>>
           t == u \o s
<1>1. u \in Seq(S) /\ Len(u) = 1 /\ u[1] = a /\ Len(s) \in Nat
  OBVIOUS
<1> HIDE DEF u
<1>2. /\ t \in Seq(S) /\ Len(t) = Len(u) + Len(s)
      /\ \A i \in 1..(Len(u) + Len(s)) : t[i] = IF i <= Len(u) THEN u[i] ELSE s[i - Len(u)]
  BY <1>1, ConcatProperties
<1> HIDE DEF t
<1>3. Len(t) = Len(s) + 1 /\ t[1] = a
  BY <1>1, <1>2
<1>4. \A i \in 2..(Len(s) + 1) : t[i] = s[i - 1]
  <2> TAKE i \in 2..(Len(s) + 1)
  <2>1. i \in 1..(Len(u) + Len(s)) /\ ~(i <= Len(u)) /\ i - Len(u) = i - 1
    BY <1>1
  <2> QED BY <1>2, <2>1
<1> QED BY <1>2, <1>3, <1>4 DEF t, u

-----------------------------------------------------------------------------
LEMMA LimitConstants ==
    /\ limit_per_min \in Nat \ {0} /\ MINUTE \in Nat \ {0} /\ PerShard \in Nat \ {0}
    /\ fail_mode \in {"Open", "Closed"} /\ MaxMinutes \in Nat
    /\ None \notin [id : Identities, stamp : Nat] /\ None \notin [at : Nat, retry_after : Int]
    /\ RateLimits!FULL \in Nat /\ RateLimits!FULL >= MINUTE
<1>1. /\ limit_per_min \in Nat \ {0} /\ MINUTE \in Nat \ {0} /\ PerShard \in Nat \ {0}
      /\ fail_mode \in {"Open", "Closed"} /\ MaxMinutes \in Nat
      /\ None \notin [id : Identities, stamp : Nat] /\ None \notin [at : Nat, retry_after : Int]
  BY PartsAssumption DEF RateLimits!RateLimitAssumption
<1>2. \A l \in Nat \ {0}, m \in Nat \ {0} : l * m \in Nat /\ l * m >= m
  OBVIOUS
<1> QED BY <1>1, <1>2 DEF RateLimits!FULL

(* The instance counts as this module does. *)
LEMMA SameCount ==
    ASSUME NEW S
    PROVE  /\ RateLimits!IsFiniteSet(S) <=> IsFiniteSet(S)
           /\ RateLimits!Cardinality(S) = Cardinality(S)
BY DEF IsFiniteSet, Cardinality, RateLimits!IsFiniteSet, RateLimits!Cardinality

(* Entries of a set of requests, by their time. *)
Within(S, from, to) == {e \in S : e[1] \in from..to}

(* A request that is counted is a new one. *)
LEMMA NewEntry ==
    ASSUME NEW S, IsFiniteSet(S), NEW t
    PROVE  RateLimits!New(S, t) \notin S /\ \E n \in Nat \ {0} : RateLimits!New(S, t) = <<t, n>>
<1> DEFINE c == Cardinality(S)
           f == [n \in 1..(c + 1) |-> <<t, n>>]
<1>1. c \in Nat
  BY FS_CardinalityType
<1> HIDE DEF c
<1>2. \E n \in 1..(c + 1) : <<t, n>> \notin S
  <2> SUFFICES ASSUME \A n \in 1..(c + 1) : <<t, n>> \in S PROVE FALSE
    OBVIOUS
  <2>1. f \in Injection(1..(c + 1), S)
    BY DEF Injection, IsInjective
  <2>2. Cardinality(1..(c + 1)) <= c
    BY <2>1, FS_Injection DEF c
  <2>3. Cardinality(1..(c + 1)) = c + 1
    BY <1>1, FS_Interval
  <2> QED BY <1>1, <2>2, <2>3
<1>3. PICK n \in 1..(c + 1) : <<t, n>> \notin S /\ RateLimits!New(S, t) = <<t, n>>
  BY <1>2, SameCount DEF RateLimits!New, c
<1> QED BY <1>1, <1>3

LEMMA WithinCount ==
    ASSUME NEW S, IsFiniteSet(S), NEW from, NEW to
    PROVE  /\ IsFiniteSet(Within(S, from, to)) /\ Cardinality(Within(S, from, to)) \in Nat
           /\ \A e : e \notin S =>
                Cardinality(Within(S \cup {e}, from, to)) =
                    Cardinality(Within(S, from, to)) + (IF e[1] \in from..to THEN 1 ELSE 0)
<1>1. IsFiniteSet(Within(S, from, to)) /\ Cardinality(Within(S, from, to)) \in Nat
  <2>1. Within(S, from, to) \in SUBSET S
    BY DEF Within
  <2> QED BY <2>1, FS_Subset, FS_CardinalityType
<1>2. ASSUME NEW e, e \notin S
      PROVE  Cardinality(Within(S \cup {e}, from, to)) =
               Cardinality(Within(S, from, to)) + (IF e[1] \in from..to THEN 1 ELSE 0)
  <2>1. CASE e[1] \in from..to
    <3>1. Within(S \cup {e}, from, to) = Within(S, from, to) \cup {e}
      BY <2>1 DEF Within
    <3>2. e \notin Within(S, from, to)
      BY <1>2 DEF Within
    <3> QED BY <1>1, <2>1, <3>1, <3>2, FS_AddElement
  <2>2. CASE e[1] \notin from..to
    <3>1. Within(S \cup {e}, from, to) = Within(S, from, to)
      BY <2>2 DEF Within
    <3> QED BY <1>1, <2>2, <3>1
  <2> QED BY <2>1, <2>2
<1> QED BY <1>1, <1>2

-----------------------------------------------------------------------------
(* The invariant of the memory backend: what a bucket holds and what was   *)
(* allowed since any moment are within a full bucket and what that time    *)
(* refilled, when the bucket was last touched; an identity without a       *)
(* bucket was never served, or its bucket was evicted.                     *)
BucketInv(b) ==
    b.id \notin rlExcused =>
        /\ \A e \in allowed[b.id] : e[1] <= b.last_refill
        /\ \A from \in 0..b.last_refill :
              Cardinality(Within(allowed[b.id], from, b.last_refill)) * MINUTE + b.tokens
                  <= RateLimits!FULL + (b.last_refill - from) * limit_per_min

MemoryInv ==
    /\ \A p \in Tasks : task[p] = None
    /\ \A i \in 1..Len(shard) : BucketInv(shard[i])
    /\ \A id \in Identities \ rlExcused : RateLimits!Places(id) = {} => allowed[id] = {}
    /\ \A id \in Identities : denied[id] # None =>
          \A i \in 1..Len(shard) : shard[i].id = id =>
              /\ shard[i].last_refill = denied[id].at
              /\ denied[id].retry_after = RateLimits!RetryAfter(shard[i])

(* Of the Redis backend: up to the last time h cut off nothing is kept of  *)
(* what was allowed, after it all; and either the cut was a minute before  *)
(* a request that is still kept (or never made), or so much was kept that  *)
(* nobody is served until the next cut.                                    *)
Unpruned(id, h) ==
    /\ zset[id] = {e \in allowed[id] : e[1] > h}
    /\ \/ h + MINUTE <= 0
       \/ \E e \in zset[id] : e[1] >= h + MINUTE
       \/ Cardinality(zset[id]) >= limit_per_min

RedisInv ==
    /\ \A id \in Identities : denied[id] # None =>
          \E e \in zset[id] : denied[id].at + denied[id].retry_after = e[1] + MINUTE + 1
    /\ \A id \in Identities \ rlExcused : \E h \in Int : Unpruned(id, h)

(* BudgetRespected, in this module's terms. *)
WithinBudget(id) ==
    \A from, to \in 0..MaxMinutes : from <= to =>
        IF rlBackend = "memory"
        THEN Cardinality(Within(allowed[id], from, to)) * MINUTE
                 <= RateLimits!FULL + (to - from) * limit_per_min
        ELSE to - from < MINUTE => Cardinality(Within(allowed[id], from, to)) <= limit_per_min

LimitType ==
    /\ rlBackend \in {"memory", "redis"} /\ rlNow \in 0..MaxMinutes
    /\ shard \in Seq(RateLimits!State) /\ Len(shard) <= PerShard
    /\ \A i, j \in 1..Len(shard) : shard[i].id = shard[j].id => i = j
    /\ \A i \in 1..Len(shard) : shard[i].last_refill <= rlNow
    /\ zset \in [Identities -> SUBSET RateLimits!Entries]
    /\ allowed \in [Identities -> SUBSET RateLimits!Entries]
    /\ \A id \in Identities : /\ IsFiniteSet(zset[id]) /\ IsFiniteSet(allowed[id])
                             /\ Cardinality(zset[id]) <= limit_per_min
    /\ task \in [Tasks -> [id : Identities, stamp : 0..rlNow] \cup {None}]
    /\ denied \in [Identities -> [at : 0..MaxMinutes, retry_after : Int] \cup {None}]
    /\ rlExcused \subseteq Identities

LimitInv ==
    /\ LimitType
    /\ \A id \in Identities \ rlExcused : WithinBudget(id)
    /\ rlBackend = "memory" => MemoryInv
    /\ rlBackend = "redis" => RedisInv

LEMMA LimitTypeOK == LimitType <=> RateLimits!TypeOK
<1>1. \A s \in Seq(RateLimits!State) : DOMAIN s = 1..Len(s)
  OBVIOUS
<1> QED BY <1>1, SameCount DEF LimitType, RateLimits!TypeOK, RateLimits!Times

LEMMA BudgetOK ==
    RateLimits!BudgetRespected <=> \A id \in Identities \ rlExcused : WithinBudget(id)
BY SameCount DEF RateLimits!BudgetRespected, WithinBudget, Within, RateLimits!Times

-----------------------------------------------------------------------------
LEMMA LimitInitially == RateLimits!Init => LimitInv
<1> SUFFICES ASSUME RateLimits!Init PROVE LimitInv
  OBVIOUS
<1> USE LimitConstants
<1>1. /\ rlBackend \in {"memory", "redis"} /\ rlNow = 0 /\ shard = <<>>
      /\ zset = [id \in Identities |-> {}] /\ task = [p \in Tasks |-> None]
      /\ allowed = [id \in Identities |-> {}] /\ denied = [id \in Identities |-> None]
      /\ rlExcused = {}
  BY DEF RateLimits!Init
<1>2. LimitType
  BY <1>1, FS_EmptySet DEF LimitType
<1>3. ASSUME NEW id \in Identities PROVE WithinBudget(id)
  <2>1. \A from, to \in 0..MaxMinutes : Within(allowed[id], from, to) = {}
    BY <1>1 DEF Within
  <2>2. \A d \in Nat : d * limit_per_min \in Nat
    OBVIOUS
  <2>3. ASSUME NEW from \in 0..MaxMinutes, NEW to \in 0..MaxMinutes, from <= to
        PROVE  /\ 0 * MINUTE <= RateLimits!FULL + (to - from) * limit_per_min
               /\ 0 <= limit_per_min
    BY <2>2, <2>3
  <2> QED BY <2>1, <2>3, FS_EmptySet DEF WithinBudget
<1>4. MemoryInv
  <2>1. 1..Len(shard) = {}
    BY <1>1
  <2> QED BY <1>1, <2>1 DEF MemoryInv
<1>5. RedisInv
  <2>1. \A id \in Identities : Unpruned(id, 0 - MINUTE)
    BY <1>1 DEF Unpruned
  <2>2. 0 - MINUTE \in Int
    OBVIOUS
  <2> QED BY <1>1, <2>1, <2>2 DEF RedisInv
<1> QED BY <1>2, <1>3, <1>4, <1>5 DEF LimitInv

LEMMA TickKeepsLimits == LimitInv /\ RateLimits!Tick => LimitInv'
<1> SUFFICES ASSUME LimitInv, RateLimits!Tick PROVE LimitInv'
  OBVIOUS
<1> USE LimitConstants
<1>1. /\ rlNow' = rlNow + 1 /\ rlNow' \in 0..MaxMinutes /\ rlNow <= rlNow'
      /\ UNCHANGED <<rlBackend, shard, zset, task, allowed, denied, rlExcused>>
  BY DEF RateLimits!Tick, LimitInv, LimitType
<1>2. LimitType'
  <2>1. \A i \in 1..Len(shard) : shard[i].last_refill <= rlNow + 1
    <3> TAKE i \in 1..Len(shard)
    <3>1. shard[i] \in RateLimits!State /\ shard[i].last_refill <= rlNow
      BY DEF LimitInv, LimitType
    <3>2. shard[i].last_refill \in Nat /\ rlNow \in Nat
      BY <3>1 DEF RateLimits!State, RateLimits!Times, LimitInv, LimitType
    <3> QED BY <3>1, <3>2
  <2>2. task \in [Tasks -> [id : Identities, stamp : 0..(rlNow + 1)] \cup {None}]
    <3>1. \A n \in 0..rlNow : n \in 0..(rlNow + 1)
      BY DEF LimitInv, LimitType
    <3>2. task \in [Tasks -> [id : Identities, stamp : 0..rlNow] \cup {None}]
      BY DEF LimitInv, LimitType
    <3> QED BY <3>1, <3>2
  <2> QED BY <1>1, <2>1, <2>2 DEF LimitInv, LimitType
<1>3. \A id \in Identities \ rlExcused' : WithinBudget(id)'
  BY <1>1 DEF LimitInv, WithinBudget
<1>4. rlBackend' = "memory" => MemoryInv'
  <2>1. MemoryInv => MemoryInv'
    BY <1>1 DEF MemoryInv, BucketInv, RateLimits!Places, RateLimits!RetryAfter
  <2> QED BY <1>1, <2>1 DEF LimitInv
<1>5. rlBackend' = "redis" => RedisInv'
  <2>1. RedisInv => RedisInv'
    BY <1>1 DEF RedisInv, Unpruned
  <2> QED BY <1>1, <2>1 DEF LimitInv
<1> QED BY <1>2, <1>3, <1>4, <1>5 DEF LimitInv

-----------------------------------------------------------------------------
(* MemoryBackend::check *)

(* The buckets of the others, in order. *)
OthersOf(id, rest) ==
    /\ rest \in Seq(RateLimits!State)
    /\ \A j \in 1..Len(rest) : rest[j].id # id /\ \E i \in 1..Len(shard) : rest[j] = shard[i]
    /\ \A i, j \in 1..Len(rest) : rest[i].id = rest[j].id => i = j
    /\ \A i \in 1..Len(shard) : shard[i].id # id => \E j \in 1..Len(rest) : rest[j] = shard[i]

LEMMA OtherBuckets ==
    ASSUME LimitType, NEW id \in Identities
    PROVE  OthersOf(id, RateLimits!Others(id))
<1>0. /\ shard \in Seq(RateLimits!State) /\ Len(shard) \in Nat /\ DOMAIN shard = 1..Len(shard)
      /\ \A i, j \in 1..Len(shard) : shard[i].id = shard[j].id => i = j
  BY DEF LimitType
<1>1. CASE RateLimits!Places(id) = {}
  <2>1. RateLimits!Others(id) = shard
    BY <1>1 DEF RateLimits!Others
  <2>2. \A j \in 1..Len(shard) : shard[j].id # id
    BY <1>0, <1>1 DEF RateLimits!Places
  <2>3. \A j \in 1..Len(shard) : \E i \in 1..Len(shard) : shard[j] = shard[i]
    OBVIOUS
  <2>4. OthersOf(id, shard)
    BY <1>0, <2>2, <2>3 DEF OthersOf
  <2> QED BY <2>1, <2>4
<1>2. CASE RateLimits!Places(id) # {}
  <2>1. PICK k \in 1..Len(shard) : /\ shard[k].id = id
                                  /\ k = CHOOSE i \in RateLimits!Places(id) : TRUE
    BY <1>0, <1>2 DEF RateLimits!Places
  <2>2. PICK rest : rest = RemoveAt(shard, k) /\ RateLimits!Others(id) = rest
    BY <1>2, <2>1 DEF RateLimits!Others, RateLimits!RemoveAt, RemoveAt
  <2>3. /\ rest \in Seq(RateLimits!State) /\ Len(rest) = Len(shard) - 1
        /\ \A j \in 1..(Len(shard) - 1) : rest[j] = shard[IF j < k THEN j ELSE j + 1]
    <3>1. /\ RemoveAt(shard, k) \in Seq(RateLimits!State) /\ Len(RemoveAt(shard, k)) = Len(shard) - 1
          /\ \A j \in 1..(Len(shard) - 1) : RemoveAt(shard, k)[j] = shard[IF j < k THEN j ELSE j + 1]
      BY <1>0, RemovedAt
    <3> QED BY <2>2, <3>1
  <2>4. \A j \in 1..(Len(shard) - 1) : /\ (IF j < k THEN j ELSE j + 1) \in 1..Len(shard)
                                       /\ (IF j < k THEN j ELSE j + 1) # k
    BY <1>0
  <2>5. \A j \in 1..Len(rest) : rest[j].id # id /\ \E i \in 1..Len(shard) : rest[j] = shard[i]
    BY <1>0, <2>1, <2>3, <2>4
  <2>6. ASSUME NEW i \in 1..Len(rest), NEW j \in 1..Len(rest), rest[i].id = rest[j].id PROVE i = j
    <3>1. (IF i < k THEN i ELSE i + 1) = (IF j < k THEN j ELSE j + 1)
      BY <1>0, <2>3, <2>4, <2>6
    <3> QED BY <1>0, <2>3, <3>1
  <2>7. ASSUME NEW i \in 1..Len(shard), shard[i].id # id PROVE \E j \in 1..Len(rest) : rest[j] = shard[i]
    <3>1. i # k
      BY <2>1, <2>7
    <3>2. CASE i < k
      <4>1. i \in 1..(Len(shard) - 1) /\ i \in 1..Len(rest)
        BY <1>0, <2>3, <3>2
      <4> QED BY <2>3, <3>2, <4>1
    <3>3. CASE i > k
      <4>1. i - 1 \in 1..(Len(shard) - 1) /\ i - 1 \in 1..Len(rest) /\ ~(i - 1 < k) /\ (i - 1) + 1 = i
        BY <1>0, <2>3, <3>3
      <4> QED BY <2>3, <4>1
    <3> QED BY <1>0, <3>1, <3>2, <3>3
  <2>8. OthersOf(id, rest)
    BY <2>3, <2>5, <2>6, <2>7 DEF OthersOf
  <2> QED BY <2>2, <2>8
<1> QED BY <1>1, <1>2

(* The shard after a check: the bucket in front, behind it untouched       *)
(* buckets of others; who lost one is excused.                             *)
ShardAfter(id, b, s, ex) ==
    /\ s \in Seq(RateLimits!State) /\ Len(s) \in 1..PerShard /\ s[1] = b
    /\ \A j \in 2..Len(s) : s[j].id # id /\ \E i \in 1..Len(shard) : s[j] = shard[i]
    /\ \A i, j \in 1..Len(s) : s[i].id = s[j].id => i = j
    /\ \A i \in 1..Len(shard) : \/ shard[i].id = id \/ shard[i].id \in ex
                                 \/ \E j \in 2..Len(s) : s[j] = shard[i]
    /\ rlExcused \subseteq ex /\ ex \subseteq Identities

LEMMA InFrontOfShard ==
    ASSUME LimitType, NEW id \in Identities, NEW b \in RateLimits!State, b.id = id,
           NEW rest, OthersOf(id, rest), NEW m \in 0..Len(rest), m <= PerShard - 1
    PROVE  LET kept == SubSeq(rest, 1, m) IN
           ShardAfter(id, b, <<b>> \o kept,
                      rlExcused \cup {r.id : r \in RateLimits!ToSet(rest) \ RateLimits!ToSet(kept)})
<1> USE LimitConstants
<1>1. PICK kept, s, ex :
        /\ kept = SubSeq(rest, 1, m) /\ s = <<b>> \o kept
        /\ ex = rlExcused \cup {r.id : r \in RateLimits!ToSet(rest) \ RateLimits!ToSet(kept)}
  OBVIOUS
<1>2. /\ rest \in Seq(RateLimits!State) /\ Len(rest) \in Nat /\ DOMAIN rest = 1..Len(rest)
      /\ \A j \in 1..Len(rest) :
            rest[j].id # id /\ \E i \in 1..Len(shard) : rest[j] = shard[i]
      /\ \A i, j \in 1..Len(rest) : rest[i].id = rest[j].id => i = j
      /\ \A i \in 1..Len(shard) : shard[i].id # id => \E j \in 1..Len(rest) : rest[j] = shard[i]
  BY DEF OthersOf
<1>5. /\ kept \in Seq(RateLimits!State) /\ Len(kept) = m /\ DOMAIN kept = 1..m
      /\ \A j \in 1..m : kept[j] = rest[j] /\ j \in 1..Len(rest)
  <2>1. /\ kept \in Seq(RateLimits!State) /\ Len(kept) = m /\ \A j \in 1..m : kept[j] = rest[j]
    BY <1>1, <1>2, Prefix
  <2> QED BY <1>2, <2>1
<1>7. /\ s \in Seq(RateLimits!State) /\ Len(s) = m + 1 /\ s[1] = b
      /\ \A j \in 2..(m + 1) : s[j] = kept[j - 1]
  BY <1>1, <1>5, Prepended
<1>9. \A j \in 2..(m + 1) : j - 1 \in 1..m /\ s[j] = rest[j - 1] /\ j - 1 \in 1..Len(rest)
  BY <1>2, <1>5, <1>7
<1>10. \A j \in 2..Len(s) : s[j].id # id /\ \E i \in 1..Len(shard) : s[j] = shard[i]
  BY <1>2, <1>7, <1>9
<1>11. ASSUME NEW i \in 1..Len(s), NEW j \in 1..Len(s), s[i].id = s[j].id PROVE i = j
  <2>0. \A l \in 1..Len(s) : l = 1 \/ l \in 2..(m + 1)
    BY <1>2, <1>7
  <2>1. (i = 1) <=> (j = 1)
    BY <1>7, <1>10, <1>11, <2>0
  <2>2. CASE i # 1
    <3>1. i \in 2..(m + 1) /\ j \in 2..(m + 1)
      BY <2>0, <2>1, <2>2
    <3>2. /\ i - 1 \in 1..Len(rest) /\ j - 1 \in 1..Len(rest)
          /\ rest[i - 1].id = rest[j - 1].id
      BY <1>9, <1>11, <3>1
    <3>3. i - 1 = j - 1
      BY <1>2, <3>2, Zenon
    <3> QED BY <1>2, <1>7, <3>3
  <2> QED BY <2>1, <2>2
<1>12. ASSUME NEW i \in 1..Len(shard), shard[i].id # id, shard[i].id \notin ex
       PROVE  \E j \in 2..Len(s) : s[j] = shard[i]
  <2>1. PICK j \in 1..Len(rest) : rest[j] = shard[i]
    BY <1>2, <1>12
  <2>2. rest[j] \in RateLimits!ToSet(rest)
    BY <1>2 DEF RateLimits!ToSet
  <2>3. rest[j] \in RateLimits!ToSet(kept)
    BY <1>1, <1>12, <2>1, <2>2
  <2>4. PICK l \in 1..m : kept[l] = rest[j]
    BY <1>5, <2>3 DEF RateLimits!ToSet
  <2>5. l + 1 \in 2..(m + 1) /\ (l + 1) - 1 = l
    BY <1>2
  <2> QED BY <1>7, <2>1, <2>4, <2>5
<1>13. \A r \in RateLimits!ToSet(rest) : r.id \in Identities
  <2>1. \A j \in 1..Len(rest) : rest[j] \in RateLimits!State
    BY <1>2
  <2> QED BY <1>2, <2>1 DEF RateLimits!ToSet, RateLimits!State
<1>14. rlExcused \subseteq ex /\ ex \subseteq Identities
  BY <1>1, <1>13 DEF LimitType
<1>15. Len(s) \in 1..PerShard
  BY <1>2, <1>7
<1>16. ShardAfter(id, b, s, ex)
  BY <1>7, <1>10, <1>11, <1>12, <1>14, <1>15 DEF ShardAfter
<1> QED BY <1>1, <1>16

LEMMA BucketFacts ==
    ASSUME LimitType, NEW id \in Identities, NEW b, b = RateLimits!Bucket(id)
    PROVE  /\ b \in RateLimits!State /\ b.id = id /\ b.last_refill = rlNow
           /\ \/ RateLimits!Places(id) = {} /\ b.tokens = RateLimits!FULL
              \/ \E k \in 1..Len(shard) :
                    /\ shard[k].id = id
                    /\ b.tokens = RateLimits!Least(
                          shard[k].tokens + (rlNow - shard[k].last_refill) * limit_per_min, RateLimits!FULL)
<1> USE LimitConstants
<1>0. /\ shard \in Seq(RateLimits!State) /\ Len(shard) \in Nat /\ DOMAIN shard = 1..Len(shard)
      /\ rlNow \in 0..MaxMinutes
  BY DEF LimitType
<1>1. CASE RateLimits!Places(id) = {}
  <2>1. b = [id |-> id, tokens |-> RateLimits!FULL, last_refill |-> rlNow]
    BY <1>1 DEF RateLimits!Bucket
  <2>2. RateLimits!FULL \in 0..RateLimits!FULL
    OBVIOUS
  <2> QED BY <1>0, <1>1, <2>1, <2>2 DEF RateLimits!State, RateLimits!Times
<1>2. CASE RateLimits!Places(id) # {}
  <2>1. PICK k \in 1..Len(shard) : /\ shard[k].id = id
                                  /\ k = CHOOSE i \in RateLimits!Places(id) : TRUE
    BY <1>0, <1>2 DEF RateLimits!Places
  <2>2. PICK c \in RateLimits!State : c = shard[k] /\ c.last_refill <= rlNow
    BY <1>0 DEF LimitType
  <2>3. /\ c.tokens \in 0..RateLimits!FULL /\ c.last_refill \in 0..MaxMinutes
    BY <2>2 DEF RateLimits!State, RateLimits!Times
  <2>4. PICK t : t = RateLimits!Least(c.tokens + (rlNow - c.last_refill) * limit_per_min, RateLimits!FULL)
    OBVIOUS
  <2>5. t \in 0..RateLimits!FULL
    <3>1. (rlNow - c.last_refill) * limit_per_min \in Nat
      BY <1>0, <2>2, <2>3
    <3> QED BY <2>3, <2>4, <3>1 DEF RateLimits!Least
  <2>6. b = [c EXCEPT !.tokens = t, !.last_refill = rlNow]
    BY <1>2, <2>1, <2>2, <2>4 DEF RateLimits!Bucket, RateLimits!Refilled
  <2>7. b \in RateLimits!State /\ b.id = c.id /\ b.last_refill = rlNow /\ b.tokens = t
    BY <1>0, <2>2, <2>5, <2>6 DEF RateLimits!State, RateLimits!Times
  <2> QED BY <2>1, <2>2, <2>4, <2>7
<1> QED BY <1>1, <1>2

(* Refilling a bucket keeps what it promises. *)
LEMMA RefilledWithin ==
    ASSUME LimitInv, rlBackend = "memory", NEW id \in Identities, NEW b, b = RateLimits!Bucket(id)
    PROVE  BucketInv(b)
<1> USE LimitConstants
<1>0. /\ b \in RateLimits!State /\ b.id = id /\ b.last_refill = rlNow
      /\ \/ RateLimits!Places(id) = {} /\ b.tokens = RateLimits!FULL
         \/ \E k \in 1..Len(shard) :
               /\ shard[k].id = id
               /\ b.tokens = RateLimits!Least(
                     shard[k].tokens + (rlNow - shard[k].last_refill) * limit_per_min, RateLimits!FULL)
  BY BucketFacts DEF LimitInv
<1>1. /\ rlNow \in 0..MaxMinutes /\ shard \in Seq(RateLimits!State)
      /\ \A i \in 1..Len(shard) : shard[i].last_refill <= rlNow
      /\ IsFiniteSet(allowed[id]) /\ allowed[id] \subseteq RateLimits!Entries
  BY DEF LimitInv, LimitType
<1> SUFFICES ASSUME id \notin rlExcused
             PROVE  /\ \A e \in allowed[id] : e[1] <= rlNow
                    /\ \A from \in 0..rlNow :
                          Cardinality(Within(allowed[id], from, rlNow)) * MINUTE + b.tokens
                              <= RateLimits!FULL + (rlNow - from) * limit_per_min
  BY <1>0 DEF BucketInv
<1>2. CASE RateLimits!Places(id) = {} /\ b.tokens = RateLimits!FULL
  <2>1. allowed[id] = {}
    BY <1>2 DEF LimitInv, MemoryInv
  <2>2. ASSUME NEW from \in 0..rlNow
        PROVE  Cardinality(Within(allowed[id], from, rlNow)) * MINUTE + b.tokens
                   <= RateLimits!FULL + (rlNow - from) * limit_per_min
    <3>1. Within(allowed[id], from, rlNow) = {}
      BY <2>1 DEF Within
    <3>2. Cardinality(Within(allowed[id], from, rlNow)) = 0
      BY <3>1, FS_EmptySet
    <3>3. (rlNow - from) * limit_per_min \in Nat
      BY <1>1
    <3> QED BY <1>2, <3>2, <3>3
  <2> QED BY <2>1, <2>2
<1>3. ASSUME NEW k \in 1..Len(shard), shard[k].id = id,
             b.tokens = RateLimits!Least(
                 shard[k].tokens + (rlNow - shard[k].last_refill) * limit_per_min, RateLimits!FULL)
      PROVE  /\ \A e \in allowed[id] : e[1] <= rlNow
             /\ \A from \in 0..rlNow :
                   Cardinality(Within(allowed[id], from, rlNow)) * MINUTE + b.tokens
                       <= RateLimits!FULL + (rlNow - from) * limit_per_min
  <2>1. PICK c \in RateLimits!State : c = shard[k]
    BY <1>1
  <2>2. PICK lr \in Nat, tk \in Nat, t \in Nat :
          lr = c.last_refill /\ tk = c.tokens /\ t = b.tokens /\ lr <= rlNow
    BY <1>0, <1>1, <2>1 DEF RateLimits!State, RateLimits!Times
  <2>3. t <= tk + (rlNow - lr) * limit_per_min /\ t <= RateLimits!FULL
    <3>1. (rlNow - lr) * limit_per_min \in Nat
      BY <1>1, <2>2
    <3> QED BY <1>3, <2>1, <2>2, <3>1 DEF RateLimits!Least
  <2>4. /\ \A e \in allowed[id] : e[1] <= lr
        /\ \A from \in 0..lr :
              Cardinality(Within(allowed[id], from, lr)) * MINUTE + tk
                  <= RateLimits!FULL + (lr - from) * limit_per_min
    <3>1. BucketInv(c)
      BY <2>1 DEF LimitInv, MemoryInv
    <3>2. c.id = id
      BY <1>3, <2>1
    <3> QED BY <2>2, <3>1, <3>2 DEF BucketInv
  <2>5. \A e \in allowed[id] : e[1] \in Nat
    BY <1>1 DEF RateLimits!Entries, RateLimits!Times
  <2>6. \A e \in allowed[id] : e[1] <= rlNow
    BY <1>1, <2>2, <2>4, <2>5
  <2>7. ASSUME NEW from \in 0..rlNow
        PROVE  Cardinality(Within(allowed[id], from, rlNow)) * MINUTE + b.tokens
                   <= RateLimits!FULL + (rlNow - from) * limit_per_min
    <3>0. PICK n \in Nat : n = Cardinality(Within(allowed[id], from, rlNow))
      BY <1>1, WithinCount
    <3>1. CASE from <= lr
      <4>1. Within(allowed[id], from, rlNow) = Within(allowed[id], from, lr)
        BY <1>1, <2>2, <2>4, <2>5, <3>1 DEF Within
      <4>2. from \in 0..lr
        BY <1>1, <2>2, <3>1
      <4>3. n * MINUTE + tk <= RateLimits!FULL + (lr - from) * limit_per_min
        BY <2>4, <3>0, <4>1, <4>2
      <4>4. (rlNow - from) * limit_per_min = (lr - from) * limit_per_min + (rlNow - lr) * limit_per_min
        BY <1>1, <2>2
      <4>5. PICK x \in Int, y \in Int, z \in Nat :
              x = (lr - from) * limit_per_min /\ y = (rlNow - lr) * limit_per_min /\ z = n * MINUTE
        BY <1>1, <2>2
      <4>6. z + t <= RateLimits!FULL + (x + y)
        BY <2>3, <4>3, <4>5
      <4> QED BY <2>2, <3>0, <4>4, <4>5, <4>6
    <3>2. CASE from > lr
      <4>1. Within(allowed[id], from, rlNow) = {}
        BY <1>1, <2>2, <2>4, <2>5, <3>2 DEF Within
      <4>2. n = 0
        BY <3>0, <4>1, FS_EmptySet
      <4>3. (rlNow - from) * limit_per_min \in Nat
        BY <1>1
      <4> QED BY <2>2, <2>3, <3>0, <4>2, <4>3
    <3> QED BY <1>1, <2>2, <3>1, <3>2
  <2> QED BY <2>6, <2>7
<1> QED BY <1>0, <1>2, <1>3

(* What a check does: the bucket in front, with or without a token taken.  *)
CheckedFor(id, b, nb) ==
    /\ rlBackend = "memory" /\ UNCHANGED <<rlBackend, rlNow, zset, task>>
    /\ ShardAfter(id, nb, shard', rlExcused')
    /\ nb.id = id /\ nb.last_refill = rlNow
    /\ \A i \in Identities \ rlExcused' : i # id => allowed'[i] = allowed[i]
    /\ \/ /\ nb.tokens = b.tokens - MINUTE
          /\ \/ id \in rlExcused' \/ allowed'[id] = allowed[id] \cup {RateLimits!New(allowed[id], rlNow)}
          /\ denied' = [denied EXCEPT ![id] = None]
       \/ /\ nb = b /\ allowed' = allowed
          /\ denied' = [denied EXCEPT ![id] = [at |-> rlNow, retry_after |-> RateLimits!RetryAfter(b)]]
    /\ allowed' \in [Identities -> SUBSET RateLimits!Entries]
    /\ \A i \in Identities : IsFiniteSet(allowed'[i])

LEMMA CheckEffect ==
    ASSUME LimitType, NEW id \in Identities, RateLimits!CheckMemory(id), NEW b, b = RateLimits!Bucket(id)
    PROVE  \E nb \in RateLimits!State : CheckedFor(id, b, nb)
<1> USE LimitConstants
<1>0. /\ b \in RateLimits!State /\ b.id = id /\ b.last_refill = rlNow
      /\ b.tokens \in 0..RateLimits!FULL /\ rlNow \in 0..MaxMinutes
      /\ allowed \in [Identities -> SUBSET RateLimits!Entries]
      /\ \A i \in Identities : IsFiniteSet(allowed[i])
  <2>1. b \in RateLimits!State /\ b.id = id /\ b.last_refill = rlNow
    BY BucketFacts
  <2> QED BY <2>1 DEF RateLimits!State, LimitType
<1>1. PICK rest : rest = RateLimits!Others(id)
  OBVIOUS
<1>2. OthersOf(id, rest)
  BY <1>1, OtherBuckets
<1>3. PICK m : m = RateLimits!Least(Len(rest), PerShard - 1)
  OBVIOUS
<1>4. m \in 0..Len(rest) /\ m <= PerShard - 1
  BY <1>2, <1>3 DEF RateLimits!Least, OthersOf
<1>5. /\ rlBackend = "memory" /\ UNCHANGED <<rlBackend, rlNow, zset, task>>
      /\ rlExcused' = rlExcused \cup {r.id : r \in RateLimits!ToSet(rest) \ RateLimits!ToSet(SubSeq(rest, 1, m))}
      /\ IF RateLimits!HasToken(b)
         THEN /\ shard' = <<[b EXCEPT !.tokens = @ - MINUTE]>> \o SubSeq(rest, 1, m)
              /\ RateLimits!Allow(id, RateLimits!New(allowed[id], rlNow))
         ELSE /\ shard' = <<b>> \o SubSeq(rest, 1, m)
              /\ RateLimits!Refuse(id, [at |-> rlNow, retry_after |-> RateLimits!RetryAfter(b)])
  BY <1>1, <1>3 DEF RateLimits!CheckMemory
<1>6. \A c \in RateLimits!State : c.id = id /\ shard' = <<c>> \o SubSeq(rest, 1, m)
                                    => ShardAfter(id, c, shard', rlExcused')
  <2> SUFFICES ASSUME NEW c \in RateLimits!State, c.id = id, shard' = <<c>> \o SubSeq(rest, 1, m)
               PROVE  ShardAfter(id, c, shard', rlExcused')
    OBVIOUS
  <2>1. ShardAfter(id, c, <<c>> \o SubSeq(rest, 1, m),
                   rlExcused \cup {r.id : r \in RateLimits!ToSet(rest) \ RateLimits!ToSet(SubSeq(rest, 1, m))})
    BY <1>2, <1>4, InFrontOfShard
  <2> QED BY <1>5, <2>1
<1>7. CASE RateLimits!HasToken(b)
  <2>1. PICK c : c = [b EXCEPT !.tokens = @ - MINUTE]
    OBVIOUS
  <2>2. /\ c \in RateLimits!State /\ c.id = id /\ c.last_refill = rlNow
        /\ c.tokens = b.tokens - MINUTE
    <3>1. b.tokens - MINUTE \in 0..RateLimits!FULL
      BY <1>0, <1>7 DEF RateLimits!HasToken
    <3> QED BY <1>0, <2>1, <3>1 DEF RateLimits!State
  <2>3. ShardAfter(id, c, shard', rlExcused')
    BY <1>5, <1>6, <1>7, <2>1, <2>2
  <2>4. PICK e : e = RateLimits!New(allowed[id], rlNow)
    OBVIOUS
  <2>5. e \in RateLimits!Entries
    <3>1. \E n \in Nat \ {0} : e = <<rlNow, n>>
      BY <1>0, <2>4, NewEntry
    <3> QED BY <1>0, <3>1 DEF RateLimits!Entries, RateLimits!Times
  <2>6. /\ allowed' = [i \in Identities |->
              IF i \in rlExcused' THEN {} ELSE IF i = id THEN allowed[i] \cup {e} ELSE allowed[i]]
        /\ denied' = [denied EXCEPT ![id] = None]
    BY <1>5, <1>7, <2>4 DEF RateLimits!Allow
  <2>7. allowed' \in [Identities -> SUBSET RateLimits!Entries]
    BY <1>0, <2>5, <2>6
  <2>8. \A i \in Identities : IsFiniteSet(allowed'[i])
    <3> TAKE i \in Identities
    <3>1. allowed'[i] \in {{}, allowed[i] \cup {e}, allowed[i]}
      BY <2>6
    <3>2. IsFiniteSet(allowed[i] \cup {e})
      BY <1>0, FS_AddElement
    <3> QED BY <1>0, <3>1, <3>2, FS_EmptySet
  <2>9. id \in rlExcused' \/ allowed'[id] = allowed[id] \cup {RateLimits!New(allowed[id], rlNow)}
    BY <2>4, <2>6
  <2>10. \A i \in Identities \ rlExcused' : i # id => allowed'[i] = allowed[i]
    BY <2>6
  <2> QED BY <1>5, <2>2, <2>3, <2>6, <2>7, <2>8, <2>9, <2>10 DEF CheckedFor
<1>8. CASE ~RateLimits!HasToken(b)
  <2>1. ShardAfter(id, b, shard', rlExcused')
    BY <1>0, <1>5, <1>6, <1>8
  <2>2. /\ allowed' = allowed
        /\ denied' = [denied EXCEPT ![id] = [at |-> rlNow, retry_after |-> RateLimits!RetryAfter(b)]]
    BY <1>5, <1>8 DEF RateLimits!Refuse
  <2> QED BY <1>0, <1>5, <2>1, <2>2 DEF CheckedFor
<1> QED BY <1>7, <1>8

(* Taking a token for an allowed request keeps the promise. *)
LEMMA TakenWithin ==
    ASSUME LimitInv, NEW id \in Identities, NEW b, b = RateLimits!Bucket(id),
           NEW nb \in RateLimits!State, CheckedFor(id, b, nb)
    PROVE  BucketInv(nb)'
<1> USE LimitConstants
<1>0. /\ b \in RateLimits!State /\ b.id = id /\ b.last_refill = rlNow
      /\ b.tokens \in 0..RateLimits!FULL /\ rlNow \in 0..MaxMinutes
      /\ allowed[id] \subseteq RateLimits!Entries /\ IsFiniteSet(allowed[id])
  <2>1. b \in RateLimits!State /\ b.id = id /\ b.last_refill = rlNow
    BY BucketFacts DEF LimitInv
  <2> QED BY <2>1 DEF RateLimits!State, LimitType, LimitInv
<1>1. nb.id = id /\ nb.last_refill = rlNow /\ rlExcused \subseteq rlExcused' /\ rlBackend = "memory"
  BY DEF CheckedFor, ShardAfter
<1> SUFFICES ASSUME id \notin rlExcused'
             PROVE  /\ \A e \in allowed'[id] : e[1] <= rlNow
                    /\ \A from \in 0..rlNow :
                          Cardinality(Within(allowed'[id], from, rlNow)) * MINUTE + nb.tokens
                              <= RateLimits!FULL + (rlNow - from) * limit_per_min
  BY <1>1 DEF BucketInv
<1>2. /\ \A e \in allowed[id] : e[1] <= rlNow
      /\ \A from \in 0..rlNow :
            Cardinality(Within(allowed[id], from, rlNow)) * MINUTE + b.tokens
                <= RateLimits!FULL + (rlNow - from) * limit_per_min
  <2>1. BucketInv(b)
    BY <1>1, RefilledWithin
  <2> QED BY <1>0, <1>1, <2>1 DEF BucketInv
<1>3. CASE nb = b /\ allowed' = allowed
  BY <1>2, <1>3
<1>4. CASE /\ nb.tokens = b.tokens - MINUTE
           /\ allowed'[id] = allowed[id] \cup {RateLimits!New(allowed[id], rlNow)}
  <2>1. PICK e : e = RateLimits!New(allowed[id], rlNow)
    OBVIOUS
  <2>2. e \notin allowed[id] /\ e[1] = rlNow
    <3>1. e \notin allowed[id] /\ \E n \in Nat \ {0} : e = <<rlNow, n>>
      BY <1>0, <2>1, NewEntry
    <3> QED BY <3>1
  <2>3. \A f \in allowed'[id] : f[1] <= rlNow
    BY <1>0, <1>2, <1>4, <2>1, <2>2
  <2>4. ASSUME NEW from \in 0..rlNow
        PROVE  Cardinality(Within(allowed'[id], from, rlNow)) * MINUTE + nb.tokens
                   <= RateLimits!FULL + (rlNow - from) * limit_per_min
    <3>1. PICK n \in Nat : n = Cardinality(Within(allowed[id], from, rlNow))
      BY <1>0, WithinCount
    <3>2. Cardinality(Within(allowed[id] \cup {e}, from, rlNow)) = n + 1
      <4>1. e[1] \in from..rlNow
        BY <1>0, <2>2
      <4> QED BY <1>0, <2>2, <3>1, <4>1, WithinCount
    <3>3. (n + 1) * MINUTE = n * MINUTE + MINUTE
      OBVIOUS
    <3>4. PICK x \in Int, y \in Int : x = (rlNow - from) * limit_per_min /\ y = n * MINUTE
      BY <1>0
    <3>5. y + b.tokens <= RateLimits!FULL + x
      BY <1>2, <3>1, <3>4
    <3>6. (y + MINUTE) + nb.tokens <= RateLimits!FULL + x
      BY <1>0, <1>4, <3>4, <3>5
    <3> QED BY <1>4, <2>1, <3>2, <3>3, <3>4, <3>6
  <2> QED BY <2>3, <2>4
<1> QED BY <1>3, <1>4 DEF CheckedFor

LEMMA CheckKeepsType ==
    ASSUME LimitInv, NEW id \in Identities, NEW b, b = RateLimits!Bucket(id),
           NEW nb \in RateLimits!State, CheckedFor(id, b, nb)
    PROVE  LimitType'
<1> USE LimitConstants
<1>0. LimitType
  BY DEF LimitInv
<1>1. /\ b \in RateLimits!State /\ b.last_refill = rlNow /\ b.tokens \in 0..RateLimits!FULL
  <2>1. b \in RateLimits!State /\ b.last_refill = rlNow
    BY <1>0, BucketFacts
  <2> QED BY <2>1 DEF RateLimits!State
<1>2. /\ UNCHANGED <<rlBackend, rlNow, zset, task>>
      /\ allowed' \in [Identities -> SUBSET RateLimits!Entries]
      /\ \A i \in Identities : IsFiniteSet(allowed'[i])
      /\ nb.last_refill = rlNow
  BY DEF CheckedFor
<1>3. /\ shard' \in Seq(RateLimits!State) /\ Len(shard') \in 1..PerShard /\ shard'[1] = nb
      /\ \A j \in 2..Len(shard') : \E i \in 1..Len(shard) : shard'[j] = shard[i]
      /\ \A i, j \in 1..Len(shard') : shard'[i].id = shard'[j].id => i = j
      /\ rlExcused' \subseteq Identities
  BY DEF CheckedFor, ShardAfter
<1>4. \A j \in 1..Len(shard') : shard'[j].last_refill <= rlNow
  <2> TAKE j \in 1..Len(shard')
  <2>1. CASE j = 1
    BY <1>0, <1>2, <1>3, <2>1 DEF LimitType
  <2>2. CASE j # 1
    <3>1. j \in 2..Len(shard')
      BY <1>3, <2>2
    <3> QED BY <1>0, <1>3, <3>1 DEF LimitType
  <2> QED BY <2>1, <2>2
<1>5. denied' \in [Identities -> [at : 0..MaxMinutes, retry_after : Int] \cup {None}]
  <2>1. RateLimits!RetryAfter(b) \in Int
    BY <1>1 DEF RateLimits!RetryAfter
  <2>2. [at |-> rlNow, retry_after |-> RateLimits!RetryAfter(b)] \in [at : 0..MaxMinutes, retry_after : Int]
    BY <1>0, <2>1 DEF LimitType
  <2>3. denied \in [Identities -> [at : 0..MaxMinutes, retry_after : Int] \cup {None}]
    BY <1>0 DEF LimitType
  <2>4. \E d \in [at : 0..MaxMinutes, retry_after : Int] \cup {None} : denied' = [denied EXCEPT ![id] = d]
    BY <2>2 DEF CheckedFor
  <2> QED BY <2>3, <2>4
<1>6. Len(shard') <= PerShard
  BY <1>3
<1> QED BY <1>0, <1>2, <1>3, <1>4, <1>5, <1>6 DEF LimitType

LEMMA CheckKeepsBudget ==
    ASSUME LimitInv, NEW id \in Identities, NEW b, b = RateLimits!Bucket(id),
           NEW nb \in RateLimits!State, CheckedFor(id, b, nb), NEW i \in Identities \ rlExcused'
    PROVE  WithinBudget(i)'
<1> USE LimitConstants
<1>0. /\ rlBackend = "memory" /\ rlBackend' = "memory" /\ rlExcused \subseteq rlExcused'
      /\ nb.id = id /\ nb.last_refill = rlNow
      /\ i # id => allowed'[i] = allowed[i]
      /\ WithinBudget(i) /\ rlNow \in 0..MaxMinutes
  BY DEF CheckedFor, ShardAfter, LimitInv, LimitType
<1>1. CASE i # id
  BY <1>0, <1>1 DEF WithinBudget
<1>2. CASE i = id
  <2>1. /\ \A e \in allowed'[id] : e[1] <= rlNow
        /\ \A from \in 0..rlNow :
              Cardinality(Within(allowed'[id], from, rlNow)) * MINUTE + nb.tokens
                  <= RateLimits!FULL + (rlNow - from) * limit_per_min
    <3>1. BucketInv(nb)'
      BY TakenWithin
    <3> QED BY <1>0, <1>2, <3>1 DEF BucketInv
  <2>2. /\ IsFiniteSet(allowed'[id]) /\ \A e \in allowed'[id] : e[1] \in Nat
        /\ IsFiniteSet(allowed[id])
    BY DEF CheckedFor, RateLimits!Entries, RateLimits!Times, LimitInv, LimitType
  <2>3. nb.tokens \in Nat
    BY DEF RateLimits!State
  <2>4. ASSUME NEW from \in 0..MaxMinutes, NEW to \in 0..MaxMinutes, from <= to
        PROVE  Cardinality(Within(allowed'[id], from, to)) * MINUTE
                   <= RateLimits!FULL + (to - from) * limit_per_min
    <3>1. PICK n \in Nat : n = Cardinality(Within(allowed'[id], from, to))
      BY <2>2, WithinCount
    <3>2. CASE from > rlNow
      <4>1. Within(allowed'[id], from, to) = {}
        BY <1>0, <2>1, <2>2, <3>2 DEF Within
      <4>2. n = 0
        BY <3>1, <4>1, FS_EmptySet
      <4>3. (to - from) * limit_per_min \in Nat
        BY <2>4
      <4> QED BY <3>1, <4>2, <4>3
    <3>3. CASE from <= rlNow /\ to >= rlNow
      <4>1. Within(allowed'[id], from, to) = Within(allowed'[id], from, rlNow)
        BY <1>0, <2>1, <2>2, <3>3 DEF Within
      <4>2. n * MINUTE + nb.tokens <= RateLimits!FULL + (rlNow - from) * limit_per_min
        BY <1>0, <2>1, <3>1, <3>3, <4>1
      <4>3. (to - from) * limit_per_min = (rlNow - from) * limit_per_min + (to - rlNow) * limit_per_min
        BY <1>0
      <4>4. PICK x \in Int, y \in Nat, z \in Int :
              x = (rlNow - from) * limit_per_min /\ y = (to - rlNow) * limit_per_min /\ z = n * MINUTE
        BY <1>0, <3>3
      <4>5. z <= RateLimits!FULL + (x + y)
        BY <2>3, <4>2, <4>4
      <4> QED BY <3>1, <4>3, <4>4, <4>5
    <3>4. CASE to < rlNow
      <4>1. Within(allowed'[id], from, to) = Within(allowed[id], from, to)
        <5>1. CASE allowed'[id] = allowed[id]
          BY <5>1
        <5>2. CASE allowed'[id] = allowed[id] \cup {RateLimits!New(allowed[id], rlNow)}
          <6>1. PICK e : e = RateLimits!New(allowed[id], rlNow)
            OBVIOUS
          <6>2. e[1] = rlNow
            <7>1. \E n2 \in Nat \ {0} : e = <<rlNow, n2>>
              BY <2>2, <6>1, NewEntry
            <7> QED BY <7>1
          <6>3. e[1] \notin from..to
            BY <1>0, <3>4, <6>2
          <6> QED BY <5>2, <6>1, <6>3 DEF Within
        <5> QED BY <1>2, <5>1, <5>2 DEF CheckedFor
      <4> QED BY <1>0, <1>2, <2>4, <4>1 DEF WithinBudget
    <3> QED BY <1>0, <3>2, <3>3, <3>4
  <2> QED BY <1>0, <1>2, <2>4 DEF WithinBudget
<1> QED BY <1>1, <1>2

LEMMA CheckKeepsBuckets ==
    ASSUME LimitInv, NEW id \in Identities, NEW b, b = RateLimits!Bucket(id),
           NEW nb \in RateLimits!State, CheckedFor(id, b, nb)
    PROVE  MemoryInv'
<1> USE LimitConstants
<1>0. /\ LimitType /\ MemoryInv /\ LimitType'
  BY CheckKeepsType DEF LimitInv, CheckedFor
<1>1. /\ rlBackend = "memory" /\ UNCHANGED <<rlBackend, rlNow, zset, task>>
      /\ nb.id = id /\ nb.last_refill = rlNow
      /\ \A i \in Identities \ rlExcused' : i # id => allowed'[i] = allowed[i]
  BY DEF CheckedFor
<1>2. /\ shard' \in Seq(RateLimits!State) /\ Len(shard') \in 1..PerShard /\ shard'[1] = nb
      /\ \A j \in 2..Len(shard') : shard'[j].id # id /\ \E i \in 1..Len(shard) : shard'[j] = shard[i]
      /\ \A i \in 1..Len(shard) : \/ shard[i].id = id \/ shard[i].id \in rlExcused'
                                   \/ \E j \in 2..Len(shard') : shard'[j] = shard[i]
      /\ rlExcused \subseteq rlExcused'
  BY DEF CheckedFor, ShardAfter
<1>3. /\ DOMAIN shard' = 1..Len(shard') /\ DOMAIN shard = 1..Len(shard)
      /\ 1 \in 1..Len(shard')
      /\ \A j \in 1..Len(shard') : j = 1 \/ j \in 2..Len(shard')
      /\ \A j \in 2..Len(shard') : j \in 1..Len(shard')
      /\ \A j \in 1..Len(shard) : shard[j].id \in Identities
  <2>1. DOMAIN shard' = 1..Len(shard') /\ DOMAIN shard = 1..Len(shard)
    BY <1>0, <1>2 DEF LimitType
  <2>2. \A j \in 1..Len(shard) : shard[j].id \in Identities
    <3>1. shard \in Seq(RateLimits!State)
      BY <1>0 DEF LimitType
    <3>2. \A j \in 1..Len(shard) : shard[j] \in RateLimits!State
      BY <3>1
    <3> QED BY <3>2 DEF RateLimits!State
  <2> QED BY <1>2, <2>1, <2>2
<1>4. \A j \in 1..Len(shard') : BucketInv(shard[j])'
  <2> TAKE j \in 1..Len(shard')
  <2>1. CASE j = 1
    <3>1. BucketInv(nb)'
      BY TakenWithin
    <3> QED BY <1>2, <2>1, <3>1 DEF BucketInv
  <2>2. CASE j \in 2..Len(shard')
    <3>1. PICK i \in 1..Len(shard) : shard'[j] = shard[i]
      BY <1>2, <2>2
    <3>2. shard[i].id # id /\ shard[i].id \in Identities
      BY <1>2, <1>3, <2>2, <3>1
    <3>3. BucketInv(shard[i])
      BY <1>0 DEF MemoryInv
    <3>4. PICK c : c = shard[i] /\ c = shard'[j]
      BY <3>1
    <3>5. CASE c.id \in rlExcused'
      BY <3>4, <3>5 DEF BucketInv
    <3>6. CASE c.id \notin rlExcused'
      <4>1. allowed'[c.id] = allowed[c.id] /\ c.id \notin rlExcused /\ BucketInv(c)
        BY <1>1, <1>2, <3>2, <3>3, <3>4, <3>6
      <4> QED BY <3>4, <4>1 DEF BucketInv
    <3> QED BY <3>5, <3>6
  <2> QED BY <1>3, <2>1, <2>2
<1>5. ASSUME NEW i \in Identities \ rlExcused', RateLimits!Places(i)' = {} PROVE allowed'[i] = {}
  <2>1. i # id
    BY <1>1, <1>2, <1>3, <1>5 DEF RateLimits!Places
  <2>2. \A j \in 1..Len(shard') : shard'[j].id # i
    BY <1>3, <1>5 DEF RateLimits!Places
  <2>3. \A k \in 1..Len(shard) : shard[k].id # i
    BY <1>2, <1>3, <2>1, <2>2
  <2>4. RateLimits!Places(i) = {}
    BY <1>3, <2>3 DEF RateLimits!Places
  <2> QED BY <1>0, <1>1, <1>2, <2>1, <2>4 DEF MemoryInv
<1>6. ASSUME NEW i \in Identities, denied'[i] # None, NEW j \in 1..Len(shard'), shard'[j].id = i
      PROVE  /\ shard'[j].last_refill = denied'[i].at
             /\ denied'[i].retry_after = RateLimits!RetryAfter(shard'[j])
  <2>0. denied \in [Identities -> [at : 0..MaxMinutes, retry_after : Int] \cup {None}]
    BY <1>0 DEF LimitType
  <2>1. CASE i = id
    <3>1. j = 1
      BY <1>2, <1>3, <1>6, <2>1
    <3>2. shard'[j] = nb
      BY <1>2, <3>1
    <3>3. CASE denied' = [denied EXCEPT ![id] = None]
      BY <1>6, <2>0, <2>1, <3>3
    <3>4. CASE nb = b /\ denied' = [denied EXCEPT ![id] = [at |-> rlNow, retry_after |-> RateLimits!RetryAfter(b)]]
      BY <1>1, <2>0, <2>1, <3>2, <3>4
    <3> QED BY <3>3, <3>4 DEF CheckedFor
  <2>2. CASE i # id
    <3>1. j \in 2..Len(shard')
      BY <1>1, <1>2, <1>3, <1>6, <2>2
    <3>2. PICK k \in 1..Len(shard) : shard'[j] = shard[k]
      BY <1>2, <3>1
    <3>3. denied'[i] = denied[i]
      BY <2>0, <2>2 DEF CheckedFor
    <3>4. shard[k].last_refill = denied[i].at /\ denied[i].retry_after = RateLimits!RetryAfter(shard[k])
      BY <1>0, <1>6, <3>2, <3>3 DEF MemoryInv
    <3> QED BY <3>2, <3>3, <3>4
  <2> QED BY <2>1, <2>2
<1>7. \A p \in Tasks : task'[p] = None
  BY <1>0, <1>1 DEF MemoryInv
<1>8. \A i \in Identities : denied'[i] # None =>
          \A j \in 1..Len(shard') : shard'[j].id = i =>
              /\ shard'[j].last_refill = denied'[i].at
              /\ denied'[i].retry_after = RateLimits!RetryAfter(shard'[j])
  BY <1>6
<1>10. \A i \in Identities \ rlExcused' : RateLimits!Places(i)' = {} => allowed'[i] = {}
  BY <1>5
<1> QED BY <1>4, <1>7, <1>8, <1>10 DEF MemoryInv, RateLimits!RetryAfter

LEMMA CheckKeepsLimits ==
    ASSUME LimitInv, NEW id \in Identities, RateLimits!CheckMemory(id) PROVE LimitInv'
<1>1. PICK b : b = RateLimits!Bucket(id)
  OBVIOUS
<1>2. PICK nb \in RateLimits!State : CheckedFor(id, b, nb)
  BY <1>1, CheckEffect DEF LimitInv
<1>3. rlBackend' = "memory"
  BY <1>2 DEF CheckedFor
<1>4. LimitType' /\ MemoryInv'
  BY <1>1, <1>2, CheckKeepsType, CheckKeepsBuckets
<1>5. \A i \in Identities \ rlExcused' : WithinBudget(i)'
  BY <1>1, <1>2, CheckKeepsBudget
<1> QED BY <1>3, <1>4, <1>5 DEF LimitInv

-----------------------------------------------------------------------------
(* RedisBackend::check *)

LEMMA SendKeepsLimits ==
    ASSUME LimitInv, NEW p \in Tasks, NEW id \in Identities, RateLimits!SendScript(p, id)
    PROVE  LimitInv'
<1> USE LimitConstants
<1>1. /\ task' = [task EXCEPT ![p] = [id |-> id, stamp |-> rlNow]] /\ rlBackend = "redis"
      /\ UNCHANGED <<rlBackend, rlNow, shard, zset, allowed, denied, rlExcused>>
  BY DEF RateLimits!SendScript
<1>2. task' \in [Tasks -> [id : Identities, stamp : 0..rlNow] \cup {None}]
  <2>1. /\ task \in [Tasks -> [id : Identities, stamp : 0..rlNow] \cup {None}] /\ rlNow \in 0..rlNow
    BY DEF LimitInv, LimitType
  <2> QED BY <1>1, <2>1
<1>3. LimitType'
  BY <1>1, <1>2 DEF LimitInv, LimitType
<1>4. \A i \in Identities \ rlExcused' : WithinBudget(i)'
  BY <1>1 DEF LimitInv, WithinBudget
<1>5. RedisInv'
  BY <1>1 DEF LimitInv, RedisInv, Unpruned
<1> QED BY <1>1, <1>3, <1>4, <1>5 DEF LimitInv

(* What a script reads and leaves. *)
LEMMA ScriptFacts ==
    ASSUME LimitInv, NEW p \in Tasks, task[p] # None
    PROVE  /\ rlBackend = "redis" /\ task[p].id \in Identities /\ task[p].stamp \in 0..rlNow
           /\ task[p].stamp \in 0..MaxMinutes
<1>1. rlBackend = "redis"
  BY DEF LimitInv, LimitType, MemoryInv
<1>2. task[p] \in [id : Identities, stamp : 0..rlNow] /\ rlNow \in 0..MaxMinutes
  BY DEF LimitInv, LimitType
<1>3. \A n \in 0..rlNow : n \in 0..MaxMinutes
  BY <1>2, LimitConstants
<1> QED BY <1>1, <1>2, <1>3

LEMMA Earliest ==
    ASSUME NEW w, w # {}, \A e \in w : e[1] \in Nat,
           NEW t, t = CHOOSE u \in {e[1] : e \in w} : \A e \in w : u <= e[1]
    PROVE  \E e \in w : e[1] = t
<1> DEFINE T == {e[1] : e \in w}
<1>1. T \subseteq Nat /\ T # {}
  OBVIOUS
<1>2. PICK m \in T : \A y \in T : ~(<<y, m>> \in OpToRel(<, Nat))
  <2> HIDE DEF T
  <2> QED BY <1>1, NatLessThanWellFounded, WFMin
<1>3. \A y \in T : m <= y
  <2> TAKE y \in T
  <2>1. y \in Nat /\ m \in Nat
    BY <1>1, <1>2
  <2>2. ~(y < m)
    BY <1>2, <2>1 DEF OpToRel
  <2> QED BY <2>1, <2>2
<1>4. \E u \in {e[1] : e \in w} : \A e \in w : u <= e[1]
  <2>1. \A e \in w : m <= e[1]
    BY <1>3
  <2> QED BY <1>2, <2>1
<1>5. t \in {e[1] : e \in w}
  BY <1>4
<1> QED BY <1>5

(* A script's effect on the entries kept and allowed of its identity.      *)
ScriptRan(p, id, stamp, w) ==
    /\ UNCHANGED <<rlBackend, rlNow, shard>> /\ task' = [task EXCEPT ![p] = None]
    /\ rlExcused \subseteq rlExcused' /\ rlExcused' \subseteq rlExcused \cup {id}
    /\ (\E e \in zset[id] : e[1] > stamp) => id \in rlExcused'
    /\ \/ /\ Cardinality(w) < limit_per_min
          /\ \E entry \in RateLimits!Entries :
                /\ entry \notin w /\ entry[1] = stamp
                /\ zset' = [zset EXCEPT ![id] = w \cup {entry}]
                /\ allowed' = [i \in Identities |->
                      IF i \in rlExcused' THEN {} ELSE IF i = id THEN allowed[i] \cup {entry} ELSE allowed[i]]
          /\ denied' = [denied EXCEPT ![id] = None]
       \/ /\ Cardinality(w) >= limit_per_min
          /\ zset' = [zset EXCEPT ![id] = w] /\ allowed' = allowed
          /\ \E e \in w :
                denied' = [denied EXCEPT ![id] = [at |-> stamp, retry_after |-> MINUTE + 1 - (stamp - e[1])]]

LEMMA ScriptEffect ==
    ASSUME LimitInv, NEW p \in Tasks, RateLimits!RunScript(p)
    PROVE  /\ task[p] # None
           /\ ScriptRan(p, task[p].id, task[p].stamp,
                        {e \in zset[task[p].id] : e[1] > task[p].stamp - MINUTE})
<1> USE LimitConstants
<1>0. task[p] # None
  BY DEF RateLimits!RunScript
<1>1. PICK id, stamp : id = task[p].id /\ stamp = task[p].stamp
  OBVIOUS
<1>2. rlBackend = "redis" /\ id \in Identities /\ stamp \in 0..MaxMinutes
  BY <1>0, <1>1, ScriptFacts
<1>3. PICK w : w = {e \in zset[id] : e[1] > stamp - MINUTE}
  OBVIOUS
<1>4. RateLimits!Window(id, stamp) = w
  BY <1>3 DEF RateLimits!Window, RateLimits!InWindow
<1>5. /\ zset[id] \subseteq RateLimits!Entries /\ IsFiniteSet(zset[id])
  BY <1>2 DEF LimitInv, LimitType
<1>6. w \subseteq zset[id] /\ IsFiniteSet(w) /\ Cardinality(w) \in Nat
  <2>1. w \in SUBSET zset[id]
    BY <1>3
  <2> QED BY <1>5, <2>1, FS_Subset, FS_CardinalityType
<1>7. PICK entry : entry = RateLimits!New(w, stamp)
  OBVIOUS
<1>8. entry \in RateLimits!Entries /\ entry \notin w /\ entry[1] = stamp
  <2>1. entry \notin w /\ \E n \in Nat \ {0} : entry = <<stamp, n>>
    BY <1>6, <1>7, NewEntry
  <2> QED BY <1>2, <2>1 DEF RateLimits!Entries, RateLimits!Times
<1>9. PICK oldest : oldest = CHOOSE t \in {e[1] : e \in w} : \A e \in w : t <= e[1]
  OBVIOUS
<1>10. /\ UNCHANGED <<rlBackend, rlNow, shard>> /\ task' = [task EXCEPT ![p] = None]
       /\ rlExcused' = IF RateLimits!RunsLate(id, stamp) THEN rlExcused \cup {id} ELSE rlExcused
       /\ IF RateLimits!Cardinality(w) < limit_per_min
          THEN /\ zset' = [zset EXCEPT ![id] = w \cup {entry}]
               /\ RateLimits!Allow(id, entry)
          ELSE /\ zset' = [zset EXCEPT ![id] = w]
               /\ RateLimits!Refuse(id, [at |-> stamp, retry_after |-> MINUTE + 1 - (stamp - oldest)])
  BY <1>1, <1>4, <1>7, <1>9 DEF RateLimits!RunScript
<1>11. RateLimits!Cardinality(w) = Cardinality(w)
  BY SameCount
<1>12. /\ rlExcused \subseteq rlExcused' /\ rlExcused' \subseteq rlExcused \cup {id}
       /\ (\E e \in zset[id] : e[1] > stamp) => id \in rlExcused'
  BY <1>10 DEF RateLimits!RunsLate
<1>13. CASE Cardinality(w) < limit_per_min
  <2>1. /\ zset' = [zset EXCEPT ![id] = w \cup {entry}]
        /\ allowed' = [i \in Identities |->
              IF i \in rlExcused' THEN {} ELSE IF i = id THEN allowed[i] \cup {entry} ELSE allowed[i]]
        /\ denied' = [denied EXCEPT ![id] = None]
    BY <1>10, <1>11, <1>13 DEF RateLimits!Allow
  <2>2. ScriptRan(p, id, stamp, w)
    BY <1>8, <1>10, <1>12, <1>13, <2>1 DEF ScriptRan
  <2> QED BY <1>0, <1>1, <1>3, <2>2
<1>14. CASE ~(Cardinality(w) < limit_per_min)
  <2>1. /\ zset' = [zset EXCEPT ![id] = w] /\ allowed' = allowed
        /\ denied' = [denied EXCEPT ![id] = [at |-> stamp, retry_after |-> MINUTE + 1 - (stamp - oldest)]]
    BY <1>10, <1>11, <1>14 DEF RateLimits!Refuse
  <2>2. w # {}
    BY <1>14, FS_EmptySet
  <2>3. \A e \in w : e[1] \in Nat
    BY <1>5, <1>6 DEF RateLimits!Entries, RateLimits!Times
  <2>4. PICK e \in w : e[1] = oldest
    BY <1>9, <2>2, <2>3, Earliest
  <2>5. Cardinality(w) >= limit_per_min
    BY <1>6, <1>14
  <2>6. ScriptRan(p, id, stamp, w)
    BY <1>10, <1>12, <2>1, <2>4, <2>5 DEF ScriptRan
  <2> QED BY <1>0, <1>1, <1>3, <2>6
<1> QED BY <1>13, <1>14

LEMMA RunKeepsType ==
    ASSUME LimitInv, NEW p \in Tasks, NEW id \in Identities, NEW stamp \in 0..MaxMinutes,
           NEW w \in SUBSET zset[id], ScriptRan(p, id, stamp, w)
    PROVE  LimitType'
<1> USE LimitConstants
<1>0. /\ zset \in [Identities -> SUBSET RateLimits!Entries]
      /\ allowed \in [Identities -> SUBSET RateLimits!Entries]
      /\ \A i \in Identities : /\ IsFiniteSet(zset[i]) /\ IsFiniteSet(allowed[i])
                               /\ Cardinality(zset[i]) <= limit_per_min
      /\ denied \in [Identities -> [at : 0..MaxMinutes, retry_after : Int] \cup {None}]
      /\ task \in [Tasks -> [id : Identities, stamp : 0..rlNow] \cup {None}]
      /\ rlExcused \subseteq Identities
  BY DEF LimitInv, LimitType
<1>1. /\ UNCHANGED <<rlBackend, rlNow, shard>> /\ rlExcused' \subseteq Identities
      /\ task' \in [Tasks -> [id : Identities, stamp : 0..rlNow] \cup {None}]
  BY <1>0 DEF ScriptRan
<1>2. IsFiniteSet(w) /\ Cardinality(w) \in Nat /\ Cardinality(w) <= limit_per_min
  <2>1. IsFiniteSet(w) /\ Cardinality(w) <= Cardinality(zset[id]) /\ Cardinality(w) \in Nat
    BY <1>0, FS_Subset, FS_CardinalityType
  <2>2. Cardinality(zset[id]) \in Nat /\ Cardinality(zset[id]) <= limit_per_min
    BY <1>0, FS_CardinalityType
  <2> QED BY <2>1, <2>2
<1>3. CASE Cardinality(w) < limit_per_min
  <2>1. PICK entry \in RateLimits!Entries :
                /\ entry \notin w /\ entry[1] = stamp
                /\ zset' = [zset EXCEPT ![id] = w \cup {entry}]
                /\ allowed' = [i \in Identities |->
                      IF i \in rlExcused' THEN {} ELSE IF i = id THEN allowed[i] \cup {entry} ELSE allowed[i]]
                /\ denied' = [denied EXCEPT ![id] = None]
    BY <1>2, <1>3 DEF ScriptRan
  <2>2. IsFiniteSet(w \cup {entry}) /\ Cardinality(w \cup {entry}) <= limit_per_min
    <3>1. IsFiniteSet(w \cup {entry}) /\ Cardinality(w \cup {entry}) = Cardinality(w) + 1
      BY <1>2, <2>1, FS_AddElement
    <3> QED BY <1>2, <1>3, <3>1
  <2>3. \A i \in Identities : IsFiniteSet(allowed[i] \cup {entry})
    BY <1>0, FS_AddElement
  <2>4. \A i \in Identities : IsFiniteSet(allowed'[i])
    BY <1>0, <2>1, <2>3, FS_EmptySet
  <2>5. \A i \in Identities : IsFiniteSet(zset'[i]) /\ Cardinality(zset'[i]) <= limit_per_min
    BY <1>0, <2>1, <2>2
  <2>6. /\ zset' \in [Identities -> SUBSET RateLimits!Entries]
        /\ allowed' \in [Identities -> SUBSET RateLimits!Entries]
        /\ denied' \in [Identities -> [at : 0..MaxMinutes, retry_after : Int] \cup {None}]
    <3>1. w \cup {entry} \in SUBSET RateLimits!Entries
      BY <1>0
    <3> QED BY <1>0, <2>1, <3>1
  <2> QED BY <1>1, <2>4, <2>5, <2>6 DEF LimitInv, LimitType
<1>4. CASE ~(Cardinality(w) < limit_per_min)
  <2>1. PICK e \in w :
           /\ zset' = [zset EXCEPT ![id] = w] /\ allowed' = allowed
           /\ denied' = [denied EXCEPT ![id] = [at |-> stamp, retry_after |-> MINUTE + 1 - (stamp - e[1])]]
    BY <1>4 DEF ScriptRan
  <2>2. [at |-> stamp, retry_after |-> MINUTE + 1 - (stamp - e[1])] \in [at : 0..MaxMinutes, retry_after : Int]
    <3>1. e[1] \in Nat
      BY <1>0 DEF RateLimits!Entries, RateLimits!Times
    <3> QED BY <3>1
  <2>3. denied' \in [Identities -> [at : 0..MaxMinutes, retry_after : Int] \cup {None}]
    BY <1>0, <2>1, <2>2
  <2>4. zset' \in [Identities -> SUBSET RateLimits!Entries]
    BY <1>0, <2>1
  <2>5. \A i \in Identities : IsFiniteSet(zset'[i]) /\ Cardinality(zset'[i]) <= limit_per_min
    BY <1>0, <1>2, <2>1
  <2> QED BY <1>0, <1>1, <2>1, <2>3, <2>4, <2>5 DEF LimitInv, LimitType
<1> QED BY <1>3, <1>4

(* The identity of a script that was not overtaken keeps its bound. *)
LEMMA RunKeepsWindow ==
    ASSUME LimitInv, rlBackend = "redis", NEW p \in Tasks, NEW id \in Identities, NEW stamp \in 0..MaxMinutes,
           NEW w, w = {e \in zset[id] : e[1] > stamp - MINUTE}, ScriptRan(p, id, stamp, w),
           id \notin rlExcused'
    PROVE  WithinBudget(id)' /\ \E h \in Int : Unpruned(id, h)'
<1> USE LimitConstants
<1>0. /\ zset[id] \subseteq RateLimits!Entries /\ allowed[id] \subseteq RateLimits!Entries
      /\ IsFiniteSet(zset[id]) /\ IsFiniteSet(allowed[id]) /\ id \notin rlExcused
      /\ allowed \in [Identities -> SUBSET RateLimits!Entries]
      /\ zset \in [Identities -> SUBSET RateLimits!Entries]
  BY DEF LimitInv, LimitType, ScriptRan
<1>1. PICK h \in Int : Unpruned(id, h)
  BY <1>0 DEF LimitInv, RedisInv
<1>2. /\ WithinBudget(id) /\ rlBackend' = "redis"
      /\ \A e \in zset[id] : ~(e[1] > stamp)
  BY <1>0 DEF LimitInv, ScriptRan
<1>3. \A e \in RateLimits!Entries : e[1] \in Nat
  BY DEF RateLimits!Entries, RateLimits!Times
<1>4. IsFiniteSet(w) /\ Cardinality(w) \in Nat
  <2>1. w \in SUBSET zset[id]
    OBVIOUS
  <2> QED BY <1>0, <2>1, FS_Subset, FS_CardinalityType
<1>5. zset[id] = {e \in allowed[id] : e[1] > h}
  BY <1>1 DEF Unpruned
<1>6. CASE Cardinality(w) < limit_per_min
  <2>1. PICK entry \in RateLimits!Entries :
                /\ entry \notin w /\ entry[1] = stamp
                /\ zset' = [zset EXCEPT ![id] = w \cup {entry}]
                /\ allowed' = [i \in Identities |->
                      IF i \in rlExcused' THEN {} ELSE IF i = id THEN allowed[i] \cup {entry} ELSE allowed[i]]
    BY <1>4, <1>6 DEF ScriptRan
  <2>2. zset'[id] = w \cup {entry} /\ allowed'[id] = allowed[id] \cup {entry}
    BY <1>0, <2>1
  <2>3. h <= stamp - MINUTE
    <3>1. CASE h + MINUTE <= 0
      BY <3>1
    <3>2. CASE \E e \in zset[id] : e[1] >= h + MINUTE
      BY <1>0, <1>2, <1>3, <3>2
    <3>3. CASE Cardinality(zset[id]) >= limit_per_min
      <4> SUFFICES ASSUME h > stamp - MINUTE PROVE FALSE
        OBVIOUS
      <4>1. w = zset[id]
        BY <1>0, <1>3, <1>5
      <4>2. Cardinality(zset[id]) = Cardinality(w)
        BY <4>1, Zenon
      <4> QED BY <1>4, <1>6, <3>3, <4>2
    <3> QED BY <1>1, <3>1, <3>2, <3>3 DEF Unpruned
  <2>4. w = {e \in allowed[id] : e[1] > stamp - MINUTE}
    BY <1>0, <1>3, <1>5, <2>3
  <2>5. zset'[id] = {e \in allowed'[id] : e[1] > stamp - MINUTE}
    BY <1>0, <1>3, <2>1, <2>2, <2>4
  <2>6. stamp - MINUTE \in Int /\ entry[1] >= (stamp - MINUTE) + MINUTE /\ entry \in zset'[id]
    BY <2>1, <2>2
  <2>7. Unpruned(id, stamp - MINUTE)'
    BY <2>5, <2>6 DEF Unpruned
  <2>8. WithinBudget(id)'
    <3> SUFFICES ASSUME NEW from \in 0..MaxMinutes, NEW to \in 0..MaxMinutes, from <= to, to - from < MINUTE
                 PROVE  Cardinality(Within(allowed'[id], from, to)) <= limit_per_min
      BY <1>2 DEF WithinBudget
    <3>1. CASE stamp \in from..to
      <4>1. Within(allowed'[id], from, to) \subseteq w \cup {entry}
        BY <1>0, <1>3, <2>2, <2>4, <3>1 DEF Within
      <4>2. PICK A, B : A = Within(allowed'[id], from, to) /\ B = w \cup {entry}
        OBVIOUS
      <4>3. IsFiniteSet(B) /\ Cardinality(B) = Cardinality(w) + 1
        BY <1>4, <2>1, <4>2, FS_AddElement
      <4>4. A \in SUBSET B
        BY <4>1, <4>2
      <4>5. Cardinality(A) <= Cardinality(B) /\ Cardinality(A) \in Nat
        BY <4>3, <4>4, FS_Subset, FS_CardinalityType
      <4> QED BY <1>4, <1>6, <4>2, <4>3, <4>5
    <3>2. CASE stamp \notin from..to
      <4>1. Within(allowed'[id], from, to) = Within(allowed[id], from, to)
        BY <2>1, <2>2, <3>2 DEF Within
      <4> QED BY <1>2, <4>1 DEF WithinBudget
    <3> QED BY <3>1, <3>2
  <2> QED BY <2>6, <2>7, <2>8
<1>7. CASE ~(Cardinality(w) < limit_per_min)
  <2>1. zset' = [zset EXCEPT ![id] = w] /\ allowed' = allowed /\ Cardinality(w) >= limit_per_min
    BY <1>7 DEF ScriptRan
  <2>2. zset'[id] = w
    BY <1>0, <2>1
  <2>3. PICK g \in Int : g = IF h > stamp - MINUTE THEN h ELSE stamp - MINUTE
    OBVIOUS
  <2>4. w = {e \in allowed[id] : e[1] > g}
    BY <1>0, <1>3, <1>5, <2>3
  <2>5. Unpruned(id, g)'
    BY <2>1, <2>2, <2>4 DEF Unpruned
  <2>6. WithinBudget(id)'
    BY <1>2, <2>1 DEF WithinBudget
  <2> QED BY <2>5, <2>6
<1> QED BY <1>6, <1>7

LEMMA RunKeepsLimits ==
    ASSUME LimitInv, NEW p \in Tasks, RateLimits!RunScript(p) PROVE LimitInv'
<1> USE LimitConstants
<1>0. PICK id, stamp, w : /\ id = task[p].id /\ stamp = task[p].stamp
                          /\ w = {e \in zset[id] : e[1] > stamp - MINUTE}
  OBVIOUS
<1>1. task[p] # None /\ ScriptRan(p, id, stamp, w)
  BY <1>0, ScriptEffect
<1>2. rlBackend = "redis" /\ id \in Identities /\ stamp \in 0..MaxMinutes
  BY <1>0, <1>1, ScriptFacts
<1>3. w \in SUBSET zset[id]
  BY <1>0
<1>4. LimitType'
  BY <1>1, <1>2, <1>3, RunKeepsType
<1>5. /\ zset \in [Identities -> SUBSET RateLimits!Entries] /\ RedisInv
      /\ denied \in [Identities -> [at : 0..MaxMinutes, retry_after : Int] \cup {None}]
      /\ \A i \in Identities \ rlExcused : WithinBudget(i)
      /\ allowed \in [Identities -> SUBSET RateLimits!Entries]
  BY <1>2 DEF LimitInv, LimitType
<1>6. /\ rlBackend' = rlBackend /\ rlExcused \subseteq rlExcused'
      /\ \A i \in Identities \ {id} : zset'[i] = zset[i] /\ denied'[i] = denied[i]
      /\ \A i \in (Identities \ {id}) \ rlExcused' : allowed'[i] = allowed[i]
  <2>1. rlBackend' = rlBackend /\ rlExcused \subseteq rlExcused'
    BY <1>1 DEF ScriptRan
  <2>2. \A i \in Identities \ {id} : zset'[i] = zset[i]
    BY <1>1, <1>2, <1>5 DEF ScriptRan
  <2>3. \A i \in Identities \ {id} : denied'[i] = denied[i]
    BY <1>1, <1>2, <1>5 DEF ScriptRan
  <2>4. \A i \in (Identities \ {id}) \ rlExcused' : allowed'[i] = allowed[i]
    BY <1>1, <1>2, <1>5 DEF ScriptRan
  <2> QED BY <2>1, <2>2, <2>3, <2>4
<1>7. id \notin rlExcused' => WithinBudget(id)' /\ \E h \in Int : Unpruned(id, h)'
  BY <1>0, <1>1, <1>2, RunKeepsWindow
<1>8. ASSUME NEW i \in Identities \ rlExcused' PROVE WithinBudget(i)' /\ \E h \in Int : Unpruned(i, h)'
  <2>1. CASE i = id
    BY <1>7, <2>1
  <2>2. CASE i # id
    <3>1. WithinBudget(i) /\ \E h \in Int : Unpruned(i, h)
      BY <1>5, <1>6 DEF RedisInv
    <3>2. WithinBudget(i)'
      BY <1>6, <2>2, <3>1 DEF WithinBudget
    <3>3. \A h \in Int : Unpruned(i, h) => Unpruned(i, h)'
      BY <1>6, <2>2 DEF Unpruned
    <3> QED BY <3>1, <3>2, <3>3
  <2> QED BY <2>1, <2>2
<1>9. ASSUME NEW i \in Identities, denied'[i] # None
      PROVE  \E e \in zset'[i] : denied'[i].at + denied'[i].retry_after = e[1] + MINUTE + 1
  <2>1. CASE i # id
    BY <1>5, <1>6, <1>9, <2>1 DEF RedisInv
  <2>2. CASE i = id
    <3>1. PICK e \in w :
             /\ zset' = [zset EXCEPT ![id] = w]
             /\ denied' = [denied EXCEPT ![id] = [at |-> stamp, retry_after |-> MINUTE + 1 - (stamp - e[1])]]
      BY <1>1, <1>2, <1>5, <1>9, <2>2 DEF ScriptRan
    <3>2. e \in zset'[i] /\ denied'[i] = [at |-> stamp, retry_after |-> MINUTE + 1 - (stamp - e[1])]
      BY <1>5, <2>2, <3>1
    <3>3. e[1] \in Nat
      BY <1>2, <1>3, <1>5 DEF RateLimits!Entries, RateLimits!Times
    <3>4. stamp + (MINUTE + 1 - (stamp - e[1])) = e[1] + MINUTE + 1
      BY <1>2, <3>3
    <3> QED BY <3>2, <3>4
  <2> QED BY <2>1, <2>2
<1>10. RedisInv'
  BY <1>8, <1>9 DEF RedisInv
<1> QED BY <1>2, <1>4, <1>6, <1>8, <1>10 DEF LimitInv

LEMMA FailKeepsLimits ==
    ASSUME LimitInv, NEW p \in Tasks, RateLimits!ScriptFails(p) PROVE LimitInv'
<1> USE LimitConstants
<1>0. PICK id : id = task[p].id
  OBVIOUS
<1>1. /\ task[p] # None /\ task' = [task EXCEPT ![p] = None]
      /\ UNCHANGED <<rlBackend, rlNow, shard, zset>>
  BY DEF RateLimits!ScriptFails
<1>2. rlBackend = "redis" /\ id \in Identities
  BY <1>0, <1>1, ScriptFacts
<1>3. /\ RedisInv /\ LimitType /\ \A i \in Identities \ rlExcused : WithinBudget(i)
      /\ denied \in [Identities -> [at : 0..MaxMinutes, retry_after : Int] \cup {None}]
      /\ allowed \in [Identities -> SUBSET RateLimits!Entries]
      /\ \A i \in Identities : IsFiniteSet(allowed[i])
      /\ task \in [Tasks -> [id : Identities, stamp : 0..rlNow] \cup {None}]
  BY <1>2 DEF LimitInv, LimitType
<1>4. /\ denied' = [denied EXCEPT ![id] = None]
      /\ rlExcused \subseteq rlExcused' /\ rlExcused' \subseteq Identities
      /\ \A i \in Identities \ rlExcused' : allowed'[i] = allowed[i]
      /\ allowed' \in [Identities -> SUBSET RateLimits!Entries]
      /\ \A i \in Identities : IsFiniteSet(allowed'[i])
  <2>1. CASE fail_mode = "Open"
    <3>1. /\ rlExcused' = rlExcused \cup {id} /\ denied' = [denied EXCEPT ![id] = None]
          /\ \E e : allowed' = [i \in Identities |->
                      IF i \in rlExcused' THEN {} ELSE IF i = id THEN allowed[i] \cup {e} ELSE allowed[i]]
      BY <1>0, <2>1 DEF RateLimits!ScriptFails, RateLimits!Allow
    <3>2. /\ rlExcused' \subseteq Identities
          /\ allowed' = [i \in Identities |-> IF i \in rlExcused' THEN {} ELSE allowed[i]]
      BY <1>2, <1>3, <3>1 DEF LimitType
    <3>3. allowed' \in [Identities -> SUBSET RateLimits!Entries]
      BY <1>3, <3>2
    <3>4. \A i \in Identities : IsFiniteSet(allowed'[i])
      BY <1>3, <3>2, FS_EmptySet
    <3> QED BY <3>1, <3>2, <3>3, <3>4
  <2>2. CASE fail_mode # "Open"
    <3>1. denied' = [denied EXCEPT ![id] = None] /\ rlExcused' = rlExcused /\ allowed' = allowed
      BY <1>0, <2>2 DEF RateLimits!ScriptFails, RateLimits!Refuse
    <3> QED BY <1>3, <3>1 DEF LimitType
  <2> QED BY <2>1, <2>2
<1>5. /\ task' \in [Tasks -> [id : Identities, stamp : 0..rlNow] \cup {None}]
      /\ denied' \in [Identities -> [at : 0..MaxMinutes, retry_after : Int] \cup {None}]
  BY <1>1, <1>2, <1>3, <1>4
<1>6. LimitType'
  BY <1>1, <1>3, <1>4, <1>5 DEF LimitType
<1>7. \A i \in Identities \ rlExcused' : WithinBudget(i)'
  BY <1>1, <1>3, <1>4 DEF WithinBudget
<1>8. ASSUME NEW i \in Identities \ rlExcused' PROVE \E h \in Int : Unpruned(i, h)'
  <2>1. \E h \in Int : Unpruned(i, h)
    BY <1>3, <1>4 DEF RedisInv
  <2>2. \A h \in Int : Unpruned(i, h) => Unpruned(i, h)'
    BY <1>1, <1>4 DEF Unpruned
  <2> QED BY <2>1, <2>2
<1>9. ASSUME NEW i \in Identities, denied'[i] # None
      PROVE  \E e \in zset'[i] : denied'[i].at + denied'[i].retry_after = e[1] + MINUTE + 1
  <2>1. denied'[i] = denied[i]
    BY <1>2, <1>3, <1>4, <1>9
  <2> QED BY <1>1, <1>3, <1>9, <2>1 DEF RedisInv
<1>10. RedisInv'
  BY <1>8, <1>9 DEF RedisInv
<1> QED BY <1>1, <1>2, <1>6, <1>7, <1>10 DEF LimitInv

LEMMA LimitStep == LimitInv /\ [RateLimits!Next]_limitVars => LimitInv'
<1> SUFFICES ASSUME LimitInv, [RateLimits!Next]_limitVars PROVE LimitInv'
  OBVIOUS
<1>1. CASE UNCHANGED limitVars
  <2>1. UNCHANGED <<rlBackend, rlNow, shard, zset, task, allowed, denied, rlExcused>>
    BY <1>1 DEF limitVars
  <2>2. LimitType'
    BY <2>1 DEF LimitInv, LimitType
  <2>3. \A i \in Identities \ rlExcused' : WithinBudget(i)'
    BY <2>1 DEF LimitInv, WithinBudget
  <2>4. MemoryInv => MemoryInv'
    BY <2>1 DEF MemoryInv, BucketInv, RateLimits!Places, RateLimits!RetryAfter
  <2>5. RedisInv => RedisInv'
    BY <2>1 DEF RedisInv, Unpruned
  <2> QED BY <2>1, <2>2, <2>3, <2>4, <2>5 DEF LimitInv
<1>2. CASE RateLimits!Next
  BY <1>2, TickKeepsLimits, CheckKeepsLimits, SendKeepsLimits, RunKeepsLimits, FailKeepsLimits
  DEF RateLimits!Next
<1> QED BY <1>1, <1>2

(* The waiting time is rounded up. *)
LEMMA RoundedUp ==
    ASSUME NEW a \in Int, NEW l \in Nat \ {0}, NEW d \in Int, d >= (a + l - 1) \div l
    PROVE  d * l >= a
<1>1. PICK q \in Int : q = (a + l - 1) \div l
  OBVIOUS
<1>2. q * l + l >= (a + l - 1) + 1
  <2>1. \A x \in Int, k \in Nat \ {0} : x < (x \div k) * k + k
    OBVIOUS
  <2>2. (q * l) \in Int
    OBVIOUS
  <2>3. a + l - 1 < q * l + l
    BY <1>1, <2>1
  <2> QED BY <2>2, <2>3
<1>3. d * l >= q * l
  <2>1. \A x \in Nat, k \in Nat \ {0} : x * k \in Nat
    OBVIOUS
  <2>2. (d - q) * l \in Nat
    BY <1>1, <2>1
  <2>3. (d - q) * l = d * l - q * l
    OBVIOUS
  <2>4. d * l \in Int /\ q * l \in Int
    OBVIOUS
  <2> QED BY <2>2, <2>3, <2>4
<1>4. d * l \in Int /\ q * l \in Int
  OBVIOUS
<1> QED BY <1>2, <1>3, <1>4

LEMMA WaitersServed == LimitInv => RateLimits!RetryHonest
<1> USE LimitConstants
<1> SUFFICES ASSUME LimitInv, NEW id \in Identities, denied[id] # None,
                    rlNow >= denied[id].at + denied[id].retry_after
             PROVE  IF rlBackend = "memory" THEN RateLimits!HasToken(RateLimits!Bucket(id))
                    ELSE RateLimits!Cardinality(RateLimits!Window(id, rlNow)) < limit_per_min
  BY DEF RateLimits!RetryHonest
<1>0. /\ rlNow \in Nat /\ denied[id].at \in Nat /\ denied[id].retry_after \in Int
      /\ rlBackend \in {"memory", "redis"}
  <2>1. /\ rlNow \in 0..MaxMinutes /\ denied[id] \in [at : 0..MaxMinutes, retry_after : Int]
        /\ rlBackend \in {"memory", "redis"}
    BY DEF LimitInv, LimitType
  <2> QED BY <2>1
<1>1. CASE rlBackend = "memory"
  <2>1. PICK b : b = RateLimits!Bucket(id)
    OBVIOUS
  <2>2. \/ RateLimits!Places(id) = {} /\ b.tokens = RateLimits!FULL
        \/ \E k \in 1..Len(shard) :
              /\ shard[k].id = id
              /\ b.tokens = RateLimits!Least(
                    shard[k].tokens + (rlNow - shard[k].last_refill) * limit_per_min, RateLimits!FULL)
    BY <2>1, BucketFacts DEF LimitInv
  <2>3. CASE b.tokens = RateLimits!FULL
    BY <1>1, <2>1, <2>3 DEF RateLimits!HasToken
  <2>4. ASSUME NEW k \in 1..Len(shard), shard[k].id = id,
               b.tokens = RateLimits!Least(
                   shard[k].tokens + (rlNow - shard[k].last_refill) * limit_per_min, RateLimits!FULL)
        PROVE  b.tokens >= MINUTE
    <3>1. PICK c \in RateLimits!State : c = shard[k]
      BY DEF LimitInv, LimitType
    <3>2. PICK tk \in Nat : tk = c.tokens
      BY DEF RateLimits!State
    <3>3. c.last_refill = denied[id].at /\ denied[id].retry_after = RateLimits!RetryAfter(c)
      BY <1>1, <2>4, <3>1 DEF LimitInv, MemoryInv
    <3>4. PICK d \in Int : d = rlNow - denied[id].at
      BY <1>0
    <3>5. d >= ((MINUTE - tk) + limit_per_min - 1) \div limit_per_min
      <4>1. PICK r : r = ((MINUTE - tk) + limit_per_min - 1) \div limit_per_min
        OBVIOUS
      <4>2. denied[id].retry_after = r
        BY <3>2, <3>3, <4>1 DEF RateLimits!RetryAfter
      <4>3. d >= r
        BY <1>0, <3>4, <4>2
      <4> QED BY <4>1, <4>3
    <3>6. MINUTE - tk \in Int
      OBVIOUS
    <3>7. d * limit_per_min >= MINUTE - tk
      BY <3>5, <3>6, RoundedUp
    <3>8. PICK x \in Int : x = d * limit_per_min
      OBVIOUS
    <3>9. b.tokens = RateLimits!Least(tk + x, RateLimits!FULL)
      BY <2>4, <3>1, <3>2, <3>3, <3>4, <3>8
    <3> QED BY <3>7, <3>8, <3>9 DEF RateLimits!Least
  <2> QED BY <1>1, <2>1, <2>2, <2>3, <2>4 DEF RateLimits!HasToken
<1>2. CASE rlBackend = "redis"
  <2>1. PICK e \in zset[id] : denied[id].at + denied[id].retry_after = e[1] + MINUTE + 1
    BY <1>2 DEF LimitInv, RedisInv
  <2>2. /\ zset[id] \subseteq RateLimits!Entries /\ IsFiniteSet(zset[id])
        /\ Cardinality(zset[id]) <= limit_per_min
    BY DEF LimitInv, LimitType
  <2>3. PICK w : w = RateLimits!Window(id, rlNow)
    OBVIOUS
  <2>4. e[1] \in Nat
    BY <2>2 DEF RateLimits!Entries, RateLimits!Times
  <2>5. e \notin w
    BY <1>0, <2>1, <2>3, <2>4 DEF RateLimits!Window, RateLimits!InWindow
  <2>6. w \in SUBSET (zset[id] \ {e})
    BY <2>3, <2>5 DEF RateLimits!Window
  <2>7. IsFiniteSet(zset[id] \ {e}) /\ Cardinality(zset[id] \ {e}) = Cardinality(zset[id]) - 1
    BY <2>2, FS_RemoveElement
  <2>8. Cardinality(w) <= Cardinality(zset[id] \ {e}) /\ Cardinality(w) \in Nat /\ Cardinality(zset[id]) \in Nat
    BY <2>2, <2>6, <2>7, FS_Subset, FS_CardinalityType
  <2>9. Cardinality(w) < limit_per_min
    BY <2>2, <2>7, <2>8
  <2>10. RateLimits!Cardinality(w) = Cardinality(w)
    BY SameCount
  <2> QED BY <1>2, <2>3, <2>9, <2>10
<1> QED BY <1>0, <1>1, <1>2

(* rate_limit.rs: for every limit, minute, shard size and fail mode, an    *)
(* identity whose bucket was not evicted and that no outage or overtaken   *)
(* script let through stays within its budget over every span of time, in  *)
(* memory and in Redis; and one that was refused and waits as long as it   *)
(* was told is served.                                                     *)
THEOREM LimitsHonestHolds == ApiSpec => []LimitsHonest
<1> DEFINE I == focus = "limits" => LimitInv
<1>1. ApiInit => I
  BY LimitInitially DEF ApiInit
<1>2. I /\ [ApiNext]_<<focus, vars, limitVars, readVars, pageVars, proxyVars, secretVars, statsVars>> => I'
  <2>1. [ApiNext]_<<focus, vars, limitVars, readVars, pageVars, proxyVars, secretVars, statsVars>>
          => focus' = focus /\ (focus = "limits" => [RateLimits!Next]_limitVars)
    BY DEF ApiNext
  <2> QED BY <2>1, LimitStep
<1>3. I => LimitsHonest
  BY WaitersServed, LimitTypeOK, BudgetOK DEF LimitsHonest, LimitInv
<1> QED BY <1>1, <1>2, <1>3, PTL DEF ApiSpec

-----------------------------------------------------------------------------
(* Pages *)

Position == [rank : Nat, id : Nat]
Orders == {Pages!Newest, Pages!Oldest, Pages!Busiest}

LEMMA PageConstants ==
    /\ Ids \subseteq Nat \ {0} /\ Ranks \subseteq Nat /\ IsFiniteSet(Ids)
    /\ Limits \subseteq Int /\ max_limit \in Nat \ {0} /\ MaxChanges \in Nat
BY PartsAssumption DEF Pages!PaginationAssumption, Pages!IsFiniteSet, IsFiniteSet

(* Each ORDER BY and each WHERE is a strict total order of positions. *)
LEMMA OrderTotal ==
    ASSUME NEW order \in Orders, NEW a \in Position, NEW b \in Position
    PROVE  /\ ~Pages!Precedes(order, a, a)
           /\ a = b \/ Pages!Precedes(order, a, b) \/ Pages!Precedes(order, b, a)
           /\ ~(Pages!Precedes(order, a, b) /\ Pages!Precedes(order, b, a))
<1>1. /\ a.rank \in Nat /\ a.id \in Nat /\ b.rank \in Nat /\ b.id \in Nat
      /\ (a.rank = b.rank /\ a.id = b.id) => a = b
  BY DEF Position
<1>2. order[1] \in {"ASC", "DESC"} /\ order[2] \in {"ASC", "DESC"}
  BY DEF Orders, Pages!Newest, Pages!Oldest, Pages!Busiest
<1> QED BY <1>1, <1>2 DEF Pages!Precedes, Pages!Less

LEMMA OrderTransitive ==
    ASSUME NEW order \in Orders, NEW a \in Position, NEW b \in Position, NEW c \in Position,
           Pages!Precedes(order, a, b), Pages!Precedes(order, b, c)
    PROVE  Pages!Precedes(order, a, c)
<1>1. /\ a.rank \in Nat /\ a.id \in Nat /\ b.rank \in Nat /\ b.id \in Nat
      /\ c.rank \in Nat /\ c.id \in Nat
  BY DEF Position
<1>2. order[1] \in {"ASC", "DESC"} /\ order[2] \in {"ASC", "DESC"}
  BY DEF Orders, Pages!Newest, Pages!Oldest, Pages!Busiest
<1> QED BY <1>1, <1>2 DEF Pages!Precedes, Pages!Less

-----------------------------------------------------------------------------
(* ORDER BY puts every row at the place its rank in the order gives it. *)
InOrder(order, s) ==
    \A i, j \in 1..Len(s) : i < j => Pages!Precedes(order, s[i], s[j])

UpTo(order, S, x) == {y \in S : y = x \/ Pages!Precedes(order, y, x)}

LEMMA RankBijection ==
    ASSUME NEW order \in Orders, NEW S \in SUBSET Position, IsFiniteSet(S)
    PROVE  /\ Cardinality(S) \in Nat
           /\ \A x \in S : Cardinality(UpTo(order, S, x)) \in 1..Cardinality(S)
           /\ \A x, y \in S : Pages!Precedes(order, x, y) =>
                 Cardinality(UpTo(order, S, x)) < Cardinality(UpTo(order, S, y))
           /\ \A n \in 1..Cardinality(S) : \E x \in S : Cardinality(UpTo(order, S, x)) = n
<1>0. Cardinality(S) \in Nat
  BY FS_CardinalityType
<1>1. \A x \in S : /\ UpTo(order, S, x) \in SUBSET S /\ x \in UpTo(order, S, x)
                   /\ IsFiniteSet(UpTo(order, S, x))
  <2>1. \A x \in S : UpTo(order, S, x) \in SUBSET S /\ x \in UpTo(order, S, x)
    BY DEF UpTo
  <2> QED BY <2>1, FS_Subset
<1>2. ASSUME NEW x \in S PROVE Cardinality(UpTo(order, S, x)) \in 1..Cardinality(S)
  <2>1. PICK U : U = UpTo(order, S, x)
    OBVIOUS
  <2>2. U \in SUBSET S /\ IsFiniteSet(U) /\ U # {}
    BY <1>1, <2>1
  <2>3. Cardinality(U) <= Cardinality(S) /\ Cardinality(U) \in Nat /\ Cardinality(U) # 0
    BY <2>2, FS_Subset, FS_CardinalityType, FS_EmptySet
  <2> QED BY <1>0, <2>1, <2>3
<1>3. ASSUME NEW x \in S, NEW y \in S, Pages!Precedes(order, x, y)
      PROVE  Cardinality(UpTo(order, S, x)) < Cardinality(UpTo(order, S, y))
  <2>1. PICK U, V : U = UpTo(order, S, x) /\ V = UpTo(order, S, y)
    OBVIOUS
  <2>2. y \in V /\ y \notin U
    <3>1. ~(y = x) /\ ~Pages!Precedes(order, y, x)
      BY <1>3, OrderTotal
    <3> QED BY <2>1, <3>1 DEF UpTo
  <2>3. \A z \in U : z \in V
    <3> TAKE z \in U
    <3>1. z \in S /\ (z = x \/ Pages!Precedes(order, z, x))
      BY <2>1 DEF UpTo
    <3>2. Pages!Precedes(order, z, y)
      BY <1>3, <3>1, OrderTransitive
    <3> QED BY <2>1, <3>1, <3>2 DEF UpTo
  <2>4. U \in SUBSET V /\ U # V /\ IsFiniteSet(V)
    BY <1>1, <2>1, <2>2, <2>3
  <2>5. Cardinality(U) <= Cardinality(V) /\ Cardinality(U) # Cardinality(V)
    BY <2>4, FS_Subset
  <2>6. Cardinality(U) \in Nat /\ Cardinality(V) \in Nat
    BY <1>1, <2>1, FS_CardinalityType
  <2> QED BY <2>1, <2>5, <2>6
<1>4. ASSUME NEW n \in 1..Cardinality(S) PROVE \E x \in S : Cardinality(UpTo(order, S, x)) = n
  <2> DEFINE f == [x \in S |-> Cardinality(UpTo(order, S, x))]
             T == {f[x] : x \in S}
  <2>1. \A x, y \in S : f[x] = f[y] => x = y
    <3> TAKE x, y \in S
    <3>1. x = y \/ Pages!Precedes(order, x, y) \/ Pages!Precedes(order, y, x)
      BY OrderTotal
    <3>2. f[x] \in Nat /\ f[y] \in Nat
      BY <1>0, <1>2
    <3>3. Pages!Precedes(order, x, y) => f[x] < f[y]
      BY <1>3
    <3>4. Pages!Precedes(order, y, x) => f[y] < f[x]
      BY <1>3
    <3> HIDE DEF f
    <3> QED BY <3>1, <3>2, <3>3, <3>4
  <2>2. f \in Bijection(S, T)
    BY <2>1 DEF Bijection, Injection, Surjection, IsInjective
  <2>3. IsFiniteSet(T) /\ Cardinality(T) = Cardinality(S)
    <3> HIDE DEF f, T
    <3> QED BY <2>2, FS_Bijection DEF ExistsBijection
  <2>4. T \in SUBSET (1..Cardinality(S))
    BY <1>2
  <2>5. IsFiniteSet(1..Cardinality(S)) /\ Cardinality(1..Cardinality(S)) = Cardinality(S)
    BY <1>0, FS_Interval
  <2>6. T = 1..Cardinality(S)
    <3> HIDE DEF f, T
    <3> QED BY <2>3, <2>4, <2>5, FS_Subset
  <2>7. PICK x \in S : f[x] = n
    BY <2>6
  <2> QED BY <2>7
<1> QED BY <1>0, <1>2, <1>3, <1>4

SortedAs(order, S, s) ==
    /\ s \in Seq(S) /\ Len(s) = Cardinality(S) /\ InOrder(order, s)
    /\ \A x \in S : \E i \in 1..Len(s) : s[i] = x

LEMMA SortedRows ==
    ASSUME NEW S \in SUBSET Position, IsFiniteSet(S), list.orderBy \in Orders
    PROVE  SortedAs(list.orderBy, S, Pages!Sorted(S))
<1> DEFINE order == list.orderBy
           n == Cardinality(S)
           r(x) == Cardinality(UpTo(order, S, x))
           g == [i \in 1..n |-> CHOOSE x \in S : r(x) = i]
           Good(s) == \A i, j \in DOMAIN s : i < j => Pages!Precedes(order, s[i], s[j])
<1>1. /\ n \in Nat
      /\ \A x \in S : r(x) \in 1..n
      /\ \A x, y \in S : Pages!Precedes(order, x, y) => r(x) < r(y)
      /\ \A i \in 1..n : \E x \in S : r(x) = i
  BY RankBijection
<1> HIDE DEF order, n, r
<1>2. \A i \in 1..n : g[i] \in S /\ r(g[i]) = i
  BY <1>1
<1>3. g \in [1..n -> S]
  BY <1>2
<1>4. Good(g)
  <2> SUFFICES ASSUME NEW i \in 1..n, NEW j \in 1..n, i < j PROVE Pages!Precedes(order, g[i], g[j])
    BY <1>3
  <2> HIDE DEF g
  <2>1. /\ g[i] \in Position /\ g[j] \in Position /\ order \in Orders
        /\ g[i] \in S /\ g[j] \in S /\ r(g[i]) = i /\ r(g[j]) = j
    BY <1>2 DEF order
  <2>2. \/ g[i] = g[j] \/ Pages!Precedes(order, g[i], g[j]) \/ Pages!Precedes(order, g[j], g[i])
    BY <2>1, OrderTotal
  <2>3. Pages!Precedes(order, g[j], g[i]) => j < i
    BY <1>1, <2>1
  <2>4. g[i] = g[j] => i = j
    BY <2>1
  <2> QED BY <1>1, <2>2, <2>3, <2>4
<1>5. PICK s : s = CHOOSE t \in [1..n -> S] : Good(t)
  OBVIOUS
<1>6. s \in [1..n -> S] /\ Good(s)
  BY <1>3, <1>4, <1>5
<1>7. Pages!Sorted(S) = s
  <2>1. Pages!Cardinality(S) = n
    BY DEF n, Pages!Cardinality, Cardinality, Pages!IsFiniteSet, IsFiniteSet
  <2> QED BY <1>5, <2>1 DEF Pages!Sorted, order
<1>8. s \in Seq(S) /\ Len(s) = n /\ DOMAIN s = 1..n
  BY <1>1, <1>6
<1>9. InOrder(order, s)
  BY <1>6, <1>8 DEF InOrder
<1>10. ASSUME NEW x \in S PROVE \E i \in 1..n : s[i] = x
  <2> DEFINE T == {s[i] : i \in 1..n}
  <2>1. \A i, j \in 1..n : s[i] = s[j] => i = j
    <3> TAKE i, j \in 1..n
    <3>1. s[i] \in Position /\ s[j] \in Position /\ order \in Orders
      BY <1>6 DEF order
    <3>2. ~Pages!Precedes(order, s[i], s[i])
      BY <3>1, OrderTotal
    <3>3. /\ i < j => Pages!Precedes(order, s[i], s[j])
          /\ j < i => Pages!Precedes(order, s[j], s[i])
      BY <1>8, <1>9 DEF InOrder
    <3> QED BY <1>1, <3>2, <3>3
  <2>2. s \in Bijection(1..n, T)
    <3>1. s \in [1..n -> T]
      BY <1>6
    <3> QED BY <2>1, <3>1 DEF Bijection, Injection, Surjection, IsInjective
  <2>3. Cardinality(T) = Cardinality(1..n) /\ IsFiniteSet(1..n) /\ Cardinality(1..n) = n
    <3>1. IsFiniteSet(1..n) /\ Cardinality(1..n) = n
      BY <1>1, FS_Interval
    <3> HIDE DEF T
    <3> QED BY <2>2, <3>1, FS_Bijection DEF ExistsBijection
  <2>4. T \in SUBSET S
    BY <1>6
  <2>5. T = S
    <3> HIDE DEF T
    <3> QED BY <2>3, <2>4, FS_Subset DEF n
  <2> QED BY <2>5
<1>11. SortedAs(order, S, s)
  BY <1>8, <1>9, <1>10 DEF SortedAs, n
<1> QED BY <1>7, <1>11 DEF order

-----------------------------------------------------------------------------
(* The invariant of a walk.  Unless it is excused: what was returned is in *)
(* order, the cursor is its last row (and still in the table, where it is  *)
(* looked up), and a steady row that was not returned is after the cursor. *)
RowAt(i) == [rank |-> table[i], id |-> i]

PageType ==
    /\ list \in Pages!Lists
    /\ DOMAIN table \subseteq Ids /\ table = [i \in DOMAIN table |-> table[i]]
    /\ \A i \in DOMAIN table : table[i] \in Pages!RanksOf(list)
    /\ walk \in [pc : {"page", "query", "done"},
                 after : [rank : Pages!RanksOf(list) \cup {0}, id : Ids \cup {0}],
                 got : Seq([rank : Pages!RanksOf(list), id : Ids])]
    /\ steady \subseteq DOMAIN table
    /\ changes \in 0..MaxChanges /\ pgExcused \in BOOLEAN

CursorInv ==
    /\ walk.pc = "query" => list.cursor = "lookup" /\ walk.after # Pages!NoCursor
    /\ walk.pc = "page" /\ walk.after = Pages!NoCursor => walk.got = <<>>

WalkInv ==
    /\ InOrder(list.orderBy, walk.got)
    /\ walk.after # Pages!NoCursor =>
          /\ Len(walk.got) > 0 /\ walk.got[Len(walk.got)] = walk.after
          /\ list.cursor = "lookup" => /\ walk.after.id \in DOMAIN table
                                       /\ table[walk.after.id] = walk.after.rank
    /\ walk.pc # "done" /\ list.where # list.orderBy => ~Pages!Tied(table, walk.after)
    /\ \A i \in steady : \/ \E p \in 1..Len(walk.got) : walk.got[p].id = i
                         \/ walk.pc # "done" /\ Pages!After(walk.after, RowAt(i))

PageInv == PageType /\ CursorInv /\ (~pgExcused => WalkInv)

LEMMA ListFacts ==
    ASSUME NEW l \in Pages!Lists
    PROVE  /\ l.orderBy \in Orders /\ l.where \in Orders
           /\ l.where # l.orderBy => l.where = Pages!Newest /\ l.orderBy = Pages!Busiest
           /\ l.cursor \in {"position", "lookup"}
           /\ Pages!RanksOf(l) \subseteq Nat
<1>1. /\ l.orderBy \in Orders /\ l.where \in Orders
      /\ l.where # l.orderBy => l.where = Pages!Newest /\ l.orderBy = Pages!Busiest
      /\ l.cursor \in {"position", "lookup"}
  <2> USE DEF Pages!ByPosition, Orders
  <2>1. l \in {Pages!ByPosition, Pages!transaction_events, Pages!list_webhook_deliveries,
               Pages!list_contracts, Pages!graphql_contracts}
    BY DEF Pages!Lists, Pages!list_events, Pages!list_transfers, Pages!list_swaps, Pages!list_nft_events,
           Pages!list_liquidity_events, Pages!graphql_events, Pages!graphql_transfers,
           Pages!list_webhook_deliveries, Pages!contract_interface_history
  <2>2. CASE l = Pages!ByPosition
    BY <2>2
  <2>3. CASE l = Pages!transaction_events
    BY <2>3 DEF Pages!transaction_events
  <2>4. CASE l = Pages!list_webhook_deliveries
    BY <2>4 DEF Pages!list_webhook_deliveries
  <2>5. CASE l = Pages!list_contracts
    BY <2>5 DEF Pages!list_contracts
  <2>6. CASE l = Pages!graphql_contracts
    BY <2>6 DEF Pages!graphql_contracts
  <2> QED BY <2>1, <2>2, <2>3, <2>4, <2>5, <2>6
<1>2. Pages!RanksOf(l) \subseteq Nat
  BY PageConstants DEF Pages!RanksOf
<1> QED BY <1>1, <1>2

LEMMA RowFacts ==
    ASSUME PageType
    PROVE  /\ Pages!Rows = {RowAt(i) : i \in DOMAIN table}
           /\ IsFiniteSet(Pages!Rows) /\ Pages!Rows \subseteq Position
           /\ Pages!Rows \subseteq [rank : Pages!RanksOf(list), id : Ids]
           /\ \A i \in DOMAIN table : RowAt(i).id = i /\ RowAt(i).rank = table[i] /\ i # 0
<1>1. Pages!Rows = {RowAt(i) : i \in DOMAIN table}
  BY DEF Pages!Rows, RowAt
<1>2. \A i \in DOMAIN table : /\ RowAt(i) \in [rank : Pages!RanksOf(list), id : Ids]
                              /\ RowAt(i).id = i /\ RowAt(i).rank = table[i] /\ i # 0
  BY PageConstants DEF PageType, RowAt
<1>3. [rank : Pages!RanksOf(list), id : Ids] \subseteq Position
  BY PageConstants, ListFacts DEF PageType, Position
<1>4. IsFiniteSet(DOMAIN table)
  <2>1. DOMAIN table \in SUBSET Ids
    BY DEF PageType
  <2> QED BY <2>1, PageConstants, FS_Subset
<1>5. IsFiniteSet({RowAt(i) : i \in DOMAIN table})
  <2> DEFINE f == [i \in DOMAIN table |-> RowAt(i)]
             T == {RowAt(i) : i \in DOMAIN table}
  <2>1. f \in Surjection(DOMAIN table, T)
    BY DEF Surjection
  <2> HIDE DEF f, T
  <2>2. IsFiniteSet(T)
    BY <1>4, <2>1, FS_Surjection DEF ExistsSurjection
  <2> QED BY <2>2 DEF T
<1> QED BY <1>1, <1>2, <1>3, <1>5

-----------------------------------------------------------------------------
LEMMA PageInitially == Pages!Init => PageInv
<1> SUFFICES ASSUME Pages!Init PROVE PageInv
  OBVIOUS
<1>1. /\ list \in Pages!Lists /\ walk = [pc |-> "page", after |-> Pages!NoCursor, got |-> <<>>]
      /\ steady = DOMAIN table /\ changes = 0
      /\ pgExcused = (list.where # list.orderBy /\ Pages!Tied(table, Pages!NoCursor))
  BY DEF Pages!Init
<1>2. PICK S \in SUBSET Ids : table \in [S -> Pages!RanksOf(list)]
  BY DEF Pages!Init
<1>3. PageType
  <2>1. Pages!NoCursor \in [rank : Pages!RanksOf(list) \cup {0}, id : Ids \cup {0}]
    BY DEF Pages!NoCursor
  <2>2. <<>> \in Seq([rank : Pages!RanksOf(list), id : Ids])
    OBVIOUS
  <2>3. pgExcused \in BOOLEAN
    BY <1>1, Zenon
  <2>4. walk \in [pc : {"page", "query", "done"},
                 after : [rank : Pages!RanksOf(list) \cup {0}, id : Ids \cup {0}],
                 got : Seq([rank : Pages!RanksOf(list), id : Ids])]
    BY <1>1, <2>1, <2>2
  <2>5. /\ DOMAIN table \subseteq Ids /\ table = [i \in DOMAIN table |-> table[i]]
        /\ \A i \in DOMAIN table : table[i] \in Pages!RanksOf(list)
    BY <1>2
  <2>6. list \in Pages!Lists /\ steady \subseteq DOMAIN table /\ changes \in 0..MaxChanges
    BY <1>1, PageConstants
  <2> QED BY <2>3, <2>4, <2>5, <2>6 DEF PageType
<1>4. CursorInv
  BY <1>1 DEF CursorInv
<1>5. ASSUME ~pgExcused PROVE WalkInv
  <2>1. list.where # list.orderBy => ~Pages!Tied(table, Pages!NoCursor)
    BY <1>1, <1>5, Zenon
  <2>2. InOrder(list.orderBy, walk.got)
    BY <1>1 DEF InOrder
  <2>3. \A i \in steady : walk.pc # "done" /\ Pages!After(walk.after, RowAt(i))
    BY <1>1 DEF Pages!After
  <2>4. walk.after = Pages!NoCursor
    BY <1>1
  <2> QED BY <2>1, <2>2, <2>3, <2>4 DEF WalkInv
<1> QED BY <1>3, <1>4, <1>5 DEF PageInv

LEMMA ChangeKeepsWalk ==
    ASSUME PageInv, NEW i \in Ids, NEW t, DOMAIN t \subseteq Ids, t = [j \in DOMAIN t |-> t[j]],
           \A j \in DOMAIN t : t[j] \in Pages!RanksOf(list),
           \A j \in DOMAIN table : j # i => j \in DOMAIN t /\ t[j] = table[j],
           Pages!Change(i, t)
    PROVE  PageInv'
<1>1. /\ changes < MaxChanges /\ changes' = changes + 1 /\ table' = t /\ steady' = steady \ {i}
      /\ list' = list /\ walk' = walk
      /\ pgExcused' = (\/ pgExcused
                       \/ list.cursor = "lookup" /\ walk.after.id = i
                       \/ list.where # list.orderBy /\ Pages!Tied(t, walk.after))
  BY DEF Pages!Change
<1>2. PageType /\ CursorInv /\ (~pgExcused => WalkInv)
  BY DEF PageInv
<1>3. Pages!RanksOf(list)' = Pages!RanksOf(list)
  BY <1>1 DEF Pages!RanksOf
<1>4. PageType'
  <2>1. changes' \in 0..MaxChanges
    BY <1>1, <1>2, PageConstants DEF PageType
  <2>2. pgExcused' \in BOOLEAN
    <3>1. pgExcused \in BOOLEAN
      BY <1>2 DEF PageType
    <3> QED BY <1>1, <3>1, Zenon
  <2>3. steady' \subseteq DOMAIN t
    BY <1>1, <1>2 DEF PageType
  <2> QED BY <1>1, <1>2, <1>3, <2>1, <2>2, <2>3 DEF PageType
<1>5. CursorInv'
  BY <1>1, <1>2 DEF CursorInv, Pages!NoCursor
<1>6. ASSUME ~pgExcused' PROVE WalkInv'
  <2>1. /\ ~pgExcused /\ ~(list.cursor = "lookup" /\ walk.after.id = i)
        /\ ~(list.where # list.orderBy /\ Pages!Tied(t, walk.after))
    BY <1>1, <1>6, Zenon
  <2>2. WalkInv
    BY <1>2, <2>1
  <2>3. InOrder(list.orderBy, walk.got)'
    BY <1>1, <2>2 DEF WalkInv, InOrder, Pages!Precedes, Pages!Less
  <2>4. walk.after # Pages!NoCursor =>
          /\ Len(walk.got) > 0 /\ walk.got[Len(walk.got)] = walk.after
          /\ list.cursor = "lookup" => walk.after.id \in DOMAIN t /\ t[walk.after.id] = walk.after.rank
    BY <2>1, <2>2 DEF WalkInv
  <2>5. ASSUME NEW j \in steady'
        PROVE  \/ \E p \in 1..Len(walk.got) : walk.got[p].id = j
               \/ walk.pc # "done" /\ Pages!After(walk.after, [rank |-> t[j], id |-> j])
    <3>1. j \in steady /\ j # i /\ t[j] = table[j]
      BY <1>1, <1>2 DEF PageType
    <3> QED BY <2>2, <3>1 DEF WalkInv, RowAt
  <2>6. Pages!Tied(table, walk.after)' = Pages!Tied(t, walk.after)
    BY <1>1 DEF Pages!Tied
  <2> QED BY <1>1, <2>1, <2>3, <2>4, <2>5, <2>6
          DEF WalkInv, RowAt, Pages!After, Pages!NoCursor, Pages!Precedes, Pages!Less
<1> QED BY <1>4, <1>5, <1>6 DEF PageInv

LEMMA RowChangesKeepWalk ==
    ASSUME PageInv, NEW i \in Ids
    PROVE  /\ Pages!Drop(i) => PageInv'
           /\ \A r \in Pages!RanksOf(list) : Pages!Store(i, r) \/ Pages!Touch(i, r) => PageInv'
<1>0. /\ DOMAIN table \subseteq Ids /\ \A j \in DOMAIN table : table[j] \in Pages!RanksOf(list)
      /\ table = [j \in DOMAIN table |-> table[j]]
  BY DEF PageInv, PageType
<1>1. ASSUME Pages!Drop(i) PROVE PageInv'
  <2>1. PICK t : t = [j \in DOMAIN table \ {i} |-> table[j]]
    OBVIOUS
  <2>2. /\ DOMAIN t \subseteq Ids /\ t = [j \in DOMAIN t |-> t[j]]
        /\ \A j \in DOMAIN t : t[j] \in Pages!RanksOf(list)
        /\ \A j \in DOMAIN table : j # i => j \in DOMAIN t /\ t[j] = table[j]
    BY <1>0, <2>1
  <2>3. Pages!Change(i, t)
    BY <1>1, <2>1 DEF Pages!Drop
  <2> QED BY <2>2, <2>3, ChangeKeepsWalk
<1>2. ASSUME NEW r \in Pages!RanksOf(list), Pages!Store(i, r) PROVE PageInv'
  <2>1. PICK t : t = [j \in DOMAIN table \cup {i} |-> IF j = i THEN r ELSE table[j]]
    OBVIOUS
  <2>2. /\ DOMAIN t \subseteq Ids /\ t = [j \in DOMAIN t |-> t[j]]
        /\ \A j \in DOMAIN t : t[j] \in Pages!RanksOf(list)
        /\ \A j \in DOMAIN table : j # i => j \in DOMAIN t /\ t[j] = table[j]
    BY <1>0, <2>1
  <2>3. Pages!Change(i, t)
    BY <1>2, <2>1 DEF Pages!Store
  <2> QED BY <2>2, <2>3, ChangeKeepsWalk
<1>3. ASSUME NEW r \in Pages!RanksOf(list), Pages!Touch(i, r) PROVE PageInv'
  <2>1. PICK t : t = [table EXCEPT ![i] = r]
    OBVIOUS
  <2>2. /\ DOMAIN t \subseteq Ids /\ t = [j \in DOMAIN t |-> t[j]]
        /\ \A j \in DOMAIN t : t[j] \in Pages!RanksOf(list)
        /\ \A j \in DOMAIN table : j # i => j \in DOMAIN t /\ t[j] = table[j]
    BY <1>0, <2>1
  <2>3. Pages!Change(i, t)
    BY <1>3, <2>1 DEF Pages!Touch
  <2> QED BY <2>2, <2>3, ChangeKeepsWalk
<1> QED BY <1>1, <1>2, <1>3

LEMMA LookUpKeepsWalk == PageInv /\ Pages!LookUp => PageInv'
<1> SUFFICES ASSUME PageInv, Pages!LookUp PROVE PageInv'
  OBVIOUS
<1>1. /\ walk.pc = "page" /\ list.cursor = "lookup" /\ walk.after # Pages!NoCursor
      /\ walk' = IF walk.after.id \in DOMAIN table
                 THEN [walk EXCEPT !.pc = "query", !.after.rank = table[walk.after.id]]
                 ELSE [walk EXCEPT !.pc = "done", !.after = Pages!NoCursor]
      /\ UNCHANGED <<list, table, steady, changes, pgExcused>>
  BY DEF Pages!LookUp
<1>2. PageType /\ CursorInv /\ (~pgExcused => WalkInv)
  BY DEF PageInv
<1>3. PICK a \in [rank : Pages!RanksOf(list) \cup {0}, id : Ids \cup {0}],
           g \in Seq([rank : Pages!RanksOf(list), id : Ids]) :
        walk = [pc |-> "page", after |-> a, got |-> g] /\ a # Pages!NoCursor
  BY <1>1, <1>2 DEF PageType
<1>4. CASE a.id \in DOMAIN table
  <2>1. PICK b : b = [a EXCEPT !.rank = table[a.id]]
    OBVIOUS
  <2>2. walk' = [pc |-> "query", after |-> b, got |-> g]
    BY <1>1, <1>3, <1>4, <2>1
  <2>3. b \in [rank : Pages!RanksOf(list) \cup {0}, id : Ids \cup {0}] /\ b # Pages!NoCursor
    <3>1. table[a.id] \in Pages!RanksOf(list) /\ a.id # 0
      BY <1>2, <1>4, PageConstants DEF PageType
    <3> QED BY <1>3, <2>1, <3>1 DEF Pages!NoCursor
  <2>4. PageType'
    BY <1>1, <1>2, <2>2, <2>3 DEF PageType, Pages!RanksOf
  <2>5. CursorInv'
    <3>1. walk'.pc = "query" /\ walk'.after = b
      BY <2>2
    <3>2. list'.cursor = "lookup"
      BY <1>1
    <3> QED BY <2>3, <3>1, <3>2 DEF CursorInv, Pages!NoCursor
  <2>6. ASSUME ~pgExcused' PROVE WalkInv'
    <3>1. WalkInv
      BY <1>1, <1>2, <2>6
    <3>2. table[a.id] = a.rank
      BY <1>1, <1>3, <3>1 DEF WalkInv
    <3>3. b = a
      BY <1>3, <2>1, <3>2
    <3>4. walk'.after = walk.after /\ walk'.got = walk.got /\ walk'.pc = "query" /\ walk.pc = "page"
      BY <1>3, <2>2, <3>3
    <3> QED BY <1>1, <3>1, <3>4
            DEF WalkInv, InOrder, RowAt, Pages!After, Pages!NoCursor, Pages!Tied, Pages!Precedes, Pages!Less
  <2> QED BY <2>4, <2>5, <2>6 DEF PageInv
<1>5. CASE a.id \notin DOMAIN table
  <2>1. pgExcused
    BY <1>1, <1>2, <1>3, <1>5 DEF WalkInv
  <2>2. walk' = [pc |-> "done", after |-> Pages!NoCursor, got |-> g]
    BY <1>1, <1>3, <1>5
  <2>3. Pages!NoCursor \in [rank : Pages!RanksOf(list) \cup {0}, id : Ids \cup {0}]
    BY DEF Pages!NoCursor
  <2>4. PageType'
    BY <1>1, <1>2, <1>3, <2>2, <2>3 DEF PageType, Pages!RanksOf
  <2>5. CursorInv'
    BY <2>2 DEF CursorInv
  <2> QED BY <1>1, <2>1, <2>4, <2>5 DEF PageInv
<1> QED BY <1>4, <1>5

-----------------------------------------------------------------------------
(* One page: the first rows after the cursor, one more than asked for.     *)
PageOf(s, limit, k, more) ==
    /\ SortedAs(list.orderBy, {r \in Pages!Rows : Pages!After(walk.after, r)}, s)
    /\ limit \in Nat \ {0} /\ k \in 0..Len(s)
    /\ more => k = limit /\ k < Len(s)
    /\ ~more => k = Len(s)

LEMMA FetchEffect ==
    ASSUME PageInv, NEW l \in Limits, Pages!FetchPage(l)
    PROVE  \E s, limit, k, more :
              /\ PageOf(s, limit, k, more)
              /\ walk' = [pc |-> IF more THEN "page" ELSE "done",
                          after |-> IF more THEN s[k] ELSE Pages!NoCursor,
                          got |-> walk.got \o SubSeq(s, 1, k)]
<1>1. PICK limit : limit = Pages!clamp(l)
  OBVIOUS
<1>2. limit \in Nat \ {0}
  BY <1>1, PageConstants DEF Pages!clamp
<1> DEFINE S == {r \in Pages!Rows : Pages!After(walk.after, r)}
<1>3. PICK s : s = Pages!Sorted(S)
  OBVIOUS
<1>4. /\ IsFiniteSet(S) /\ S \in SUBSET Position
  <2>1. S \in SUBSET Pages!Rows /\ IsFiniteSet(Pages!Rows) /\ Pages!Rows \subseteq Position
    BY RowFacts DEF PageInv
  <2> HIDE DEF S
  <2> QED BY <2>1, FS_Subset
<1>5. SortedAs(list.orderBy, S, s)
  <2>1. list.orderBy \in Orders
    BY ListFacts DEF PageInv, PageType
  <2> HIDE DEF S
  <2> QED BY <1>3, <1>4, <2>1, SortedRows
<1>6. s \in Seq(Position) /\ Len(s) \in Nat
  <2>1. s \in Seq(S)
    BY <1>5 DEF SortedAs
  <2> HIDE DEF S
  <2> QED BY <1>4, <2>1
<1>7. PICK m \in 0..Len(s) : m = IF Len(s) < limit + 1 THEN Len(s) ELSE limit + 1
  BY <1>2, <1>6
<1>8. PICK rows : rows = SubSeq(s, 1, m)
  OBVIOUS
<1>9. Pages!Query(walk.after, limit) = rows
  BY <1>3, <1>7, <1>8 DEF Pages!Query, Pages!fetch_limit
<1> HIDE DEF S
<1>10. rows \in Seq(Position) /\ Len(rows) = m /\ \A j \in 1..m : rows[j] = s[j]
  BY <1>6, <1>7, <1>8, Prefix
<1>11. walk' = [pc    |-> IF Pages!has_more(rows, limit) THEN "page" ELSE "done",
                after |-> IF Pages!has_more(rows, limit) THEN Pages!next_cursor(rows, limit) ELSE Pages!NoCursor,
                got   |-> walk.got \o Pages!Data(rows, limit)]
  BY <1>1, <1>9 DEF Pages!FetchPage
<1>12. CASE Len(s) > limit
  <2>1. m = limit + 1 /\ Pages!has_more(rows, limit) /\ limit \in 0..Len(s)
    BY <1>2, <1>6, <1>7, <1>10, <1>12 DEF Pages!has_more
  <2>2. PICK d : d = SubSeq(rows, 1, limit)
    OBVIOUS
  <2>3. d \in Seq(Position) /\ Len(d) = limit /\ \A j \in 1..limit : d[j] = rows[j]
    <3>1. limit \in 0..Len(rows)
      BY <1>2, <1>10, <2>1
    <3> QED BY <1>10, <2>2, <3>1, Prefix
  <2>4. PICK e : e = SubSeq(s, 1, limit)
    OBVIOUS
  <2>5. e \in Seq(Position) /\ Len(e) = limit /\ \A j \in 1..limit : e[j] = s[j]
    BY <1>6, <2>1, <2>4, Prefix
  <2>6. d = e
    <3>1. \A j \in 1..limit : d[j] = e[j]
      <4>1. \A j \in 1..limit : j \in 1..m
        BY <1>2, <2>1
      <4> QED BY <1>10, <2>3, <2>5, <4>1
    <3> QED BY <2>3, <2>5, <3>1, SeqEqual
  <2>7. Pages!Data(rows, limit) = e
    BY <2>1, <2>2, <2>6 DEF Pages!Data
  <2>8. Pages!next_cursor(rows, limit) = s[limit]
    BY <1>2, <2>5, <2>7 DEF Pages!next_cursor, Pages!Last
  <2>9. PageOf(s, limit, limit, TRUE)
    BY <1>2, <1>5, <1>12, <2>1 DEF PageOf, S
  <2>10. walk' = [pc |-> "page", after |-> s[limit], got |-> walk.got \o SubSeq(s, 1, limit)]
    BY <1>11, <2>1, <2>4, <2>7, <2>8
  <2> QED BY <2>9, <2>10
<1>13. CASE ~(Len(s) > limit)
  <2>1. m = Len(s) /\ ~Pages!has_more(rows, limit)
    BY <1>2, <1>6, <1>7, <1>10, <1>13 DEF Pages!has_more
  <2>2. Pages!Data(rows, limit) = SubSeq(s, 1, Len(s))
    BY <1>8, <2>1 DEF Pages!Data
  <2>3. PageOf(s, limit, Len(s), FALSE)
    BY <1>2, <1>5, <1>6 DEF PageOf, S
  <2>4. walk' = [pc |-> "done", after |-> Pages!NoCursor, got |-> walk.got \o SubSeq(s, 1, Len(s))]
    BY <1>11, <2>1, <2>2
  <2> QED BY <2>3, <2>4
<1> QED BY <1>12, <1>13

(* Where the cursor's order is not the list's, no two ranks are the same:  *)
(* then the orders agree.                                                  *)
LEMMA SameOrder ==
    ASSUME PageType, NEW a \in Position, NEW r \in Pages!Rows, a # r,
           list.where # list.orderBy => ~Pages!Tied(table, a)
    PROVE  Pages!Precedes(list.where, a, r) <=> Pages!Precedes(list.orderBy, a, r)
<1>1. CASE list.where = list.orderBy
  BY <1>1
<1>2. CASE list.where # list.orderBy
  <2>1. list.where = Pages!Newest /\ list.orderBy = Pages!Busiest
    BY <1>2, ListFacts DEF PageType
  <2>2. PICK i \in DOMAIN table : r = RowAt(i) /\ r.id = i /\ r.rank = table[i] /\ r \in Position
    BY RowFacts
  <2>3. a.rank # r.rank
    <3> SUFFICES ASSUME a.rank = r.rank PROVE FALSE
      OBVIOUS
    <3>1. a.id # i
      BY <2>2 DEF Position
    <3> QED BY <1>2, <2>2, <3>1 DEF Pages!Tied
  <2>4. a.rank \in Nat /\ r.rank \in Nat
    BY <2>2 DEF Position
  <2> QED BY <2>1, <2>3, <2>4 DEF Pages!Precedes, Pages!Less, Pages!Newest, Pages!Busiest
<1> QED BY <1>1, <1>2

LEMMA FetchKeepsWalk ==
    ASSUME PageInv, NEW l \in Limits, Pages!FetchPage(l) PROVE PageInv'
<1>1. UNCHANGED <<list, table, steady, changes, pgExcused>>
  BY DEF Pages!FetchPage
<1>2. PageType /\ CursorInv /\ (~pgExcused => WalkInv)
  BY DEF PageInv
<1> DEFINE R == [rank : Pages!RanksOf(list), id : Ids]
           S == {r \in Pages!Rows : Pages!After(walk.after, r)}
<1>3. PICK s, limit, k, more :
        /\ PageOf(s, limit, k, more)
        /\ walk' = [pc |-> IF more THEN "page" ELSE "done",
                    after |-> IF more THEN s[k] ELSE Pages!NoCursor,
                    got |-> walk.got \o SubSeq(s, 1, k)]
  BY FetchEffect
<1>4. PICK a, g, d : a = walk.after /\ g = walk.got /\ d = SubSeq(s, 1, k)
  OBVIOUS
<1>5. /\ Pages!Rows = {RowAt(i) : i \in DOMAIN table} /\ Pages!Rows \subseteq R
      /\ R \subseteq Position /\ \A i \in DOMAIN table : RowAt(i).id = i /\ RowAt(i).rank = table[i] /\ i # 0
      /\ a \in [rank : Pages!RanksOf(list) \cup {0}, id : Ids \cup {0}] /\ g \in Seq(R)
      /\ a \in Position
  <2>1. R \subseteq Position
    BY <1>2, PageConstants, ListFacts DEF PageType, Position
  <2>2. a \in [rank : Pages!RanksOf(list) \cup {0}, id : Ids \cup {0}] /\ g \in Seq(R)
    BY <1>2, <1>4 DEF PageType
  <2>3. a \in Position
    BY <1>2, <2>2, PageConstants, ListFacts DEF PageType, Position
  <2> QED BY <1>2, <2>1, <2>2, <2>3, RowFacts
<1>6. /\ s \in Seq(S) /\ Len(s) \in Nat /\ InOrder(list.orderBy, s)
      /\ \A x \in S : \E i \in 1..Len(s) : s[i] = x
      /\ limit \in Nat \ {0} /\ k \in 0..Len(s)
      /\ more => k = limit /\ k < Len(s)
      /\ ~more => k = Len(s)
  <2>1. s \in Seq(S) /\ InOrder(list.orderBy, s) /\ \A x \in S : \E i \in 1..Len(s) : s[i] = x
    BY <1>3 DEF PageOf, SortedAs
  <2>2. Len(s) \in Nat
    <3> HIDE DEF S
    <3> QED BY <2>1
  <2>3. /\ limit \in Nat \ {0} /\ k \in 0..Len(s)
        /\ more => k = limit /\ k < Len(s)
        /\ ~more => k = Len(s)
    BY <1>3 DEF PageOf
  <2> QED BY <2>1, <2>2, <2>3
<1>7. /\ \A j \in 1..Len(s) : s[j] \in Pages!Rows /\ Pages!After(a, s[j])
      /\ s \in Seq(R)
  <2>1. \A j \in 1..Len(s) : s[j] \in S
    BY <1>6
  <2>2. S \subseteq R
    BY <1>5
  <2>3. s \in Seq(R)
    <3> HIDE DEF S, R
    <3> QED BY <1>6, <2>2
  <2> QED BY <1>4, <2>1, <2>3
<1> HIDE DEF R
<1>8. d \in Seq(R) /\ Len(d) = k /\ \A j \in 1..k : d[j] = s[j] /\ j \in 1..Len(s)
  <2>1. d \in Seq(R) /\ Len(d) = k /\ \A j \in 1..k : d[j] = s[j]
    BY <1>4, <1>6, <1>7, Prefix
  <2> QED BY <1>6, <2>1
<1>9. PICK h : h = g \o d
  OBVIOUS
<1>10. /\ h \in Seq(R) /\ Len(h) = Len(g) + k /\ Len(g) \in Nat
       /\ \A j \in 1..Len(h) : h[j] = IF j <= Len(g) THEN g[j] ELSE s[j - Len(g)]
  <2>1. /\ h \in Seq(R) /\ Len(h) = Len(g) + Len(d)
        /\ \A j \in 1..(Len(g) + Len(d)) : h[j] = IF j <= Len(g) THEN g[j] ELSE d[j - Len(g)]
    <3>1. /\ g \o d \in Seq(R) /\ Len(g \o d) = Len(g) + Len(d)
          /\ \A j \in 1..(Len(g) + Len(d)) : (g \o d)[j] = IF j <= Len(g) THEN g[j] ELSE d[j - Len(g)]
      <4>1. g \in Seq(R) /\ d \in Seq(R)
        BY <1>5, <1>8
      <4> QED BY <4>1, ConcatProperties
    <3> QED BY <1>9, <3>1
  <2>2. Len(g) \in Nat
    BY <1>5
  <2>3. \A j \in 1..(Len(g) + k) : ~(j <= Len(g)) => j - Len(g) \in 1..k
    BY <1>6, <2>2
  <2> QED BY <1>8, <2>1, <2>2, <2>3
<1>11. /\ walk'.pc = IF more THEN "page" ELSE "done"
       /\ walk'.after = IF more THEN s[k] ELSE Pages!NoCursor
       /\ walk'.got = h
       /\ walk' = [pc |-> walk'.pc, after |-> walk'.after, got |-> walk'.got]
  BY <1>3, <1>4, <1>9
<1>12. more => k \in 1..Len(s) /\ s[k] \in Pages!Rows /\ s[k] # Pages!NoCursor
  <2> SUFFICES ASSUME more PROVE k \in 1..Len(s) /\ s[k] \in Pages!Rows /\ s[k] # Pages!NoCursor
    OBVIOUS
  <2>1. k \in 1..Len(s)
    BY <1>6
  <2>2. PICK i \in DOMAIN table : s[k] = RowAt(i)
    BY <1>5, <1>7, <2>1
  <2>3. s[k].id # 0
    BY <1>5, <2>2
  <2> QED BY <1>7, <2>1, <2>3 DEF Pages!NoCursor
<1>13. PageType'
  <2>1. Pages!RanksOf(list)' = Pages!RanksOf(list)
    BY <1>1 DEF Pages!RanksOf
  <2>2. walk'.after \in [rank : Pages!RanksOf(list) \cup {0}, id : Ids \cup {0}]
    <3>1. Pages!NoCursor \in [rank : Pages!RanksOf(list) \cup {0}, id : Ids \cup {0}]
      BY DEF Pages!NoCursor
    <3>2. \A r \in R : r \in [rank : Pages!RanksOf(list) \cup {0}, id : Ids \cup {0}]
      BY DEF R
    <3> QED BY <1>5, <1>11, <1>12, <3>1, <3>2
  <2>3. walk' \in [pc : {"page", "query", "done"},
                   after : [rank : Pages!RanksOf(list) \cup {0}, id : Ids \cup {0}],
                   got : Seq([rank : Pages!RanksOf(list), id : Ids])]
    <3>1. walk'.pc \in {"page", "query", "done"} /\ walk'.got \in Seq([rank : Pages!RanksOf(list), id : Ids])
      BY <1>10, <1>11 DEF R
    <3> QED BY <1>11, <2>2, <3>1
  <2> QED BY <1>1, <1>2, <2>1, <2>3 DEF PageType
<1>14. CursorInv'
  <2>1. walk'.pc # "query" /\ (walk'.pc = "page" => more)
    BY <1>11
  <2>2. more => walk'.after # Pages!NoCursor
    BY <1>11, <1>12
  <2> QED BY <2>1, <2>2 DEF CursorInv, Pages!NoCursor
<1>15. ASSUME ~pgExcused PROVE WalkInv'
  <2>1. /\ InOrder(list.orderBy, g)
        /\ a # Pages!NoCursor => Len(g) > 0 /\ g[Len(g)] = a
        /\ list.where # list.orderBy => ~Pages!Tied(table, a)
        /\ \A i \in steady : \/ \E p \in 1..Len(g) : g[p].id = i
                             \/ Pages!After(a, RowAt(i))
        /\ list.orderBy \in Orders /\ list.where \in Orders
    <3>1. walk.pc # "done"
      BY DEF Pages!FetchPage
    <3> QED BY <1>2, <1>4, <1>15, <3>1, ListFacts DEF WalkInv, PageType
  <2>2. a = Pages!NoCursor => g = <<>>
    <3>1. walk.pc # "done"
      BY DEF Pages!FetchPage
    <3> QED BY <1>2, <1>4, <3>1 DEF CursorInv, PageType
  <2>3. ASSUME NEW p \in 1..Len(g), NEW j \in 1..k PROVE Pages!Precedes(list.orderBy, g[p], s[j])
    <3>1. a # Pages!NoCursor
      BY <2>2
    <3>2. Pages!Precedes(list.where, a, s[j]) /\ s[j] \in Pages!Rows /\ s[j] \in Position /\ g[p] \in Position
      BY <1>5, <1>7, <1>8, <3>1 DEF Pages!After
    <3>3. a # s[j]
      BY <1>5, <2>1, <3>2, OrderTotal
    <3>4. Pages!Precedes(list.orderBy, a, s[j])
      BY <1>2, <1>5, <2>1, <3>2, <3>3, SameOrder
    <3>5. g[p] = a \/ Pages!Precedes(list.orderBy, g[p], a)
      <4>1. p < Len(g) => Pages!Precedes(list.orderBy, g[p], g[Len(g)])
        BY <1>10, <2>1 DEF InOrder
      <4> QED BY <1>10, <2>1, <3>1, <4>1
    <3> QED BY <1>5, <2>1, <3>2, <3>4, <3>5, OrderTransitive
  <2>4. InOrder(list.orderBy, h)
    <3> SUFFICES ASSUME NEW i \in 1..Len(h), NEW j \in 1..Len(h), i < j
                 PROVE  Pages!Precedes(list.orderBy, h[i], h[j])
      BY DEF InOrder
    <3>1. CASE j <= Len(g)
      <4>1. h[i] = g[i] /\ h[j] = g[j] /\ i \in 1..Len(g) /\ j \in 1..Len(g)
        BY <1>10, <3>1
      <4> QED BY <2>1, <4>1 DEF InOrder
    <3>2. CASE i > Len(g)
      <4>1. /\ i - Len(g) \in 1..k /\ j - Len(g) \in 1..k /\ i - Len(g) < j - Len(g)
            /\ ~(i <= Len(g)) /\ ~(j <= Len(g))
        BY <1>6, <1>10, <3>2
      <4>2. h[i] = s[i - Len(g)] /\ h[j] = s[j - Len(g)]
        BY <1>10, <4>1
      <4>3. i - Len(g) \in 1..Len(s) /\ j - Len(g) \in 1..Len(s)
        BY <1>8, <4>1
      <4>4. Pages!Precedes(list.orderBy, s[i - Len(g)], s[j - Len(g)])
        BY <1>6, <4>1, <4>3 DEF InOrder
      <4> QED BY <4>2, <4>4
    <3>3. CASE i <= Len(g) /\ j > Len(g)
      <4>1. j - Len(g) \in 1..k /\ i \in 1..Len(g) /\ ~(j <= Len(g))
        BY <1>6, <1>10, <3>3
      <4>2. h[i] = g[i] /\ h[j] = s[j - Len(g)]
        BY <1>10, <3>3, <4>1
      <4> QED BY <2>3, <4>1, <4>2
    <3> QED BY <1>10, <3>1, <3>2, <3>3
  <2>5. more => Len(h) > 0 /\ h[Len(h)] = s[k]
    <3> SUFFICES ASSUME more PROVE Len(h) > 0 /\ h[Len(h)] = s[k]
      OBVIOUS
    <3>1. Len(h) \in 1..Len(h) /\ ~(Len(h) <= Len(g)) /\ Len(h) - Len(g) = k /\ Len(h) > 0
      BY <1>6, <1>10
    <3> QED BY <1>10, <3>1
  <2>6. more => s[k].id \in DOMAIN table /\ table[s[k].id] = s[k].rank
    BY <1>5, <1>12
  <2>7. more /\ list.where # list.orderBy => ~Pages!Tied(table, walk'.after)
    BY <1>11, <2>1, <2>6 DEF Pages!Tied
  <2>8. ASSUME NEW i \in steady
        PROVE  \/ \E p \in 1..Len(h) : h[p].id = i
               \/ more /\ Pages!After(s[k], RowAt(i))
    <3>1. CASE \E p \in 1..Len(g) : g[p].id = i
      <4>1. PICK p \in 1..Len(g) : g[p].id = i
        BY <3>1
      <4>2. p \in 1..Len(h) /\ h[p] = g[p]
        BY <1>6, <1>10
      <4> QED BY <4>1, <4>2
    <3>2. CASE Pages!After(a, RowAt(i))
      <4>0. i \in DOMAIN table /\ RowAt(i).id = i
        BY <1>2, <1>5 DEF PageType
      <4>1. RowAt(i) \in S
        BY <1>4, <1>5, <3>2, <4>0
      <4>2. PICK q \in 1..Len(s) : s[q] = RowAt(i)
        BY <1>6, <4>1
      <4>3. CASE q <= k
        <5>1. Len(g) + q \in 1..Len(h) /\ ~(Len(g) + q <= Len(g)) /\ (Len(g) + q) - Len(g) = q
          BY <1>6, <1>10, <4>3
        <5>2. h[Len(g) + q] = s[q]
          BY <1>10, <5>1
        <5> QED BY <4>0, <4>2, <5>1, <5>2
      <4>4. CASE q > k
        <5>1. more /\ k \in 1..Len(s) /\ k < q
          BY <1>6, <1>12, <4>4
        <5>2. Pages!Precedes(list.orderBy, s[k], s[q]) /\ s[k] \in Position /\ s[q] \in Position
          BY <1>5, <1>6, <1>7, <5>1 DEF InOrder
        <5>3. s[k] # s[q]
          BY <2>1, <5>2, OrderTotal
        <5>4. list.where # list.orderBy => ~Pages!Tied(table, s[k])
          BY <1>11, <2>7, <5>1
        <5>5. Pages!Precedes(list.where, s[k], s[q])
          BY <1>2, <1>7, <5>2, <5>3, <5>4, SameOrder
        <5> QED BY <4>2, <5>1, <5>5 DEF Pages!After
      <4> QED BY <1>6, <4>3, <4>4
    <3> QED BY <2>1, <3>1, <3>2
  <2>9. InOrder(list.orderBy, walk.got)'
    <3>1. InOrder(list.orderBy, h) = InOrder(list.orderBy, walk.got)'
      BY <1>1, <1>11 DEF InOrder, Pages!Precedes, Pages!Less
    <3> QED BY <2>4, <3>1
  <2>10. \A i \in steady : \/ \E p \in 1..Len(walk'.got) : walk'.got[p].id = i
                           \/ walk'.pc # "done" /\ Pages!After(walk.after, RowAt(i))'
    <3> TAKE i \in steady
    <3>1. more => (Pages!After(s[k], RowAt(i)) => Pages!After(walk.after, RowAt(i))')
      BY <1>1, <1>11, <1>12 DEF Pages!After, Pages!NoCursor, RowAt, Pages!Precedes, Pages!Less
    <3>2. more => walk'.pc # "done"
      BY <1>11
    <3> QED BY <1>11, <2>8, <3>1, <3>2
  <2>11. walk'.pc # "done" /\ list.where # list.orderBy => ~Pages!Tied(table, walk.after)'
    <3>1. walk'.pc # "done" => more
      BY <1>11
    <3>2. Pages!Tied(table, walk.after)' = Pages!Tied(table, walk'.after)
      BY <1>1 DEF Pages!Tied
    <3> QED BY <2>7, <3>1, <3>2
  <2>12. walk'.after # Pages!NoCursor =>
            /\ more /\ Len(walk'.got) > 0 /\ walk'.got[Len(walk'.got)] = walk'.after
            /\ walk'.after.id \in DOMAIN table /\ table[walk'.after.id] = walk'.after.rank
    BY <1>11, <2>5, <2>6
  <2> QED BY <1>1, <2>9, <2>10, <2>11, <2>12 DEF WalkInv, Pages!NoCursor
<1> QED BY <1>1, <1>13, <1>14, <1>15 DEF PageInv

LEMMA PageStep == PageInv /\ [Pages!Next]_pageVars => PageInv'
<1> SUFFICES ASSUME PageInv, [Pages!Next]_pageVars PROVE PageInv'
  OBVIOUS
<1>1. CASE UNCHANGED pageVars
  BY <1>1 DEF pageVars, PageInv, PageType, CursorInv, WalkInv, InOrder, RowAt, Pages!RanksOf, Pages!NoCursor,
              Pages!Tied, Pages!After, Pages!Precedes, Pages!Less
<1>2. CASE Pages!Next
  BY <1>2, RowChangesKeepWalk, LookUpKeepsWalk, FetchKeepsWalk DEF Pages!Next
<1> QED BY <1>1, <1>2

LEMMA PagesExact == PageInv => Pages!TypeOK /\ Pages!WalkExact
<1> SUFFICES ASSUME PageInv PROVE Pages!TypeOK /\ Pages!WalkExact
  OBVIOUS
<1>1. Pages!TypeOK
  BY DEF PageInv, PageType, Pages!TypeOK
<1>2. ASSUME ~pgExcused
      PROVE  /\ \A p, q \in DOMAIN walk.got : p < q => Pages!Precedes(list.orderBy, walk.got[p], walk.got[q])
             /\ walk.pc = "done" => \A i \in steady : \E p \in DOMAIN walk.got : walk.got[p].id = i
  <2>1. WalkInv
    BY <1>2 DEF PageInv
  <2>2. DOMAIN walk.got = 1..Len(walk.got)
    BY DEF PageInv, PageType
  <2> QED BY <2>1, <2>2 DEF WalkInv, InOrder
<1> QED BY <1>1, <1>2 DEF Pages!WalkExact

-----------------------------------------------------------------------------
(* Statistics *)

LEMMA StatsCount ==
    ASSUME NEW S
    PROVE  /\ Stats!IsFiniteSet(S) <=> IsFiniteSet(S)
           /\ Stats!Cardinality(S) = Cardinality(S)
BY DEF IsFiniteSet, Cardinality, Stats!IsFiniteSet, Stats!Cardinality

(* What the fold over a set of rows computes, if G obeys its equation. *)
SumStep(G, s) == LET x == CHOOSE y \in s : TRUE IN x.count + G[s \ {x}]

LEMMA SumSolved ==
    ASSUME NEW S, IsFiniteSet(S), NEW G \in [SUBSET S -> Nat], G[{}] = 0,
           \A s \in SUBSET S : s # {} => G[s] = SumStep(G, s)
    PROVE  Stats!SumCounts(S) = G[S]
<1> DEFINE Eq(f) == f = [s \in SUBSET S |-> IF s = {} THEN 0 ELSE SumStep(f, s)]
           it == CHOOSE f : Eq(f)
<1>1. Stats!SumCounts(S) = it[S]
  BY DEF Stats!SumCounts, Stats!MapThenSumSet, Stats!MapThenFoldSet, SumStep
<1>2. Eq(G)
  <2> HIDE DEF SumStep
  <2> QED BY DEF SumStep
<1>3. Eq(it)
  BY <1>2, Zenon
<1> HIDE DEF it
<1>4. \A s \in SUBSET S : it[s] = IF s = {} THEN 0 ELSE SumStep(it, s)
  BY <1>3, Zenon
<1> HIDE DEF Eq
<1> DEFINE N == {n \in Nat : \A s \in SUBSET S : Cardinality(s) = n => it[s] = G[s]}
<1>5. \A s \in SUBSET S : IsFiniteSet(s) /\ Cardinality(s) \in Nat
  BY FS_Subset, FS_CardinalityType
<1>6. 0 \in N
  <2>1. ASSUME NEW s \in SUBSET S, Cardinality(s) = 0 PROVE s = {}
    BY <1>5, <2>1, FS_EmptySet
  <2>2. {} \in SUBSET S /\ it[{}] = 0
    BY <1>4
  <2> QED BY <2>1, <2>2
<1>7. ASSUME NEW n \in Nat, n \in N PROVE n + 1 \in N
  <2> SUFFICES ASSUME NEW s \in SUBSET S, Cardinality(s) = n + 1 PROVE it[s] = G[s]
    OBVIOUS
  <2>1. s # {}
    <3>1. n + 1 # 0
      OBVIOUS
    <3>2. Cardinality({}) = 0
      BY FS_EmptySet
    <3> QED BY <3>1, <3>2, Zenon
  <2>2. PICK x : x = CHOOSE y \in s : TRUE
    OBVIOUS
  <2>3. x \in s
    BY <2>1, <2>2
  <2>4. s \ {x} \in SUBSET S /\ Cardinality(s \ {x}) = n
    <3>1. Cardinality(s \ {x}) = (n + 1) - 1
      BY <1>5, <2>3, FS_RemoveElement
    <3> QED BY <3>1
  <2>5. it[s \ {x}] = G[s \ {x}]
    BY <1>7, <2>4
  <2>6. it[s] = x.count + it[s \ {x}]
    BY <1>4, <2>1, <2>2 DEF SumStep
  <2>7. G[s] = x.count + G[s \ {x}]
    BY <2>1, <2>2 DEF SumStep
  <2> QED BY <2>5, <2>6, <2>7
<1>8. Nat \subseteq N
  <2> HIDE DEF N
  <2> QED BY <1>6, <1>7, NatSet
<1> QED BY <1>1, <1>5, <1>8

(* Rows that count the members of a finite set mapped to them add up to    *)
(* the members mapped to one of them.                                      *)
LEMMA SumOfFibers ==
    ASSUME NEW E, IsFiniteSet(E), NEW S, IsFiniteSet(S), NEW k,
           \A x \in S : x.count = Cardinality({e \in E : k[e] = x})
    PROVE  Stats!SumCounts(S) = Cardinality({e \in E : k[e] \in S})
<1> DEFINE of(s) == {e \in E : k[e] \in s}
           G == [s \in SUBSET S |-> Cardinality(of(s))]
<1>1. \A s : IsFiniteSet(of(s)) /\ Cardinality(of(s)) \in Nat
  <2> TAKE s
  <2>1. of(s) \in SUBSET E
    OBVIOUS
  <2> QED BY <2>1, FS_Subset, FS_CardinalityType
<1>2. G \in [SUBSET S -> Nat]
  BY <1>1
<1>3. G[{}] = 0
  <2>1. of({}) = {}
    OBVIOUS
  <2> QED BY <2>1, FS_EmptySet
<1>4. ASSUME NEW s \in SUBSET S, s # {} PROVE G[s] = SumStep(G, s)
  <2>1. PICK x : x = CHOOSE y \in s : TRUE
    OBVIOUS
  <2>2. x \in s
    BY <1>4, <2>1
  <2> DEFINE A == {e \in E : k[e] = x}
             B == of(s \ {x})
  <2>3. of(s) = A \cup B /\ A \cap B = {}
    BY <2>2
  <2>4. IsFiniteSet(A) /\ IsFiniteSet(B) /\ Cardinality(A) \in Nat /\ Cardinality(B) \in Nat
    <3>1. A \in SUBSET E
      OBVIOUS
    <3> QED BY <1>1, <3>1, FS_Subset, FS_CardinalityType
  <2> HIDE DEF A, B, of
  <2>5. Cardinality(A \cup B) = Cardinality(A) + Cardinality(B) - Cardinality({})
    BY <2>3, <2>4, FS_Union
  <2>6. Cardinality(of(s)) = Cardinality(A) + Cardinality(B)
    BY <2>3, <2>4, <2>5, FS_EmptySet
  <2>7. x.count = Cardinality(A)
    BY <2>2 DEF A
  <2>8. G[s \ {x}] = Cardinality(B) /\ G[s] = Cardinality(of(s))
    BY DEF B
  <2> HIDE DEF G
  <2> QED BY <2>1, <2>6, <2>7, <2>8 DEF SumStep
<1>5. Stats!SumCounts(S) = G[S]
  <2> HIDE DEF G
  <2> QED BY <1>2, <1>3, <1>4, SumSolved
<1> QED BY <1>5
-----------------------------------------------------------------------------
(* What the caller asked for, and what is counted *)

LedgerAsked(q) == Lower[Stats!Value(q)] = "ledger"
AskedFrom(q) == IF LedgerAsked(q) THEN q.from_ledger
                ELSE IF q.window # None THEN Stats!Or(q.to, statsNow) - q.window ELSE q.from
AskedTo(q) == IF LedgerAsked(q) THEN q.to_ledger ELSE q.to
Width(q) == CASE LedgerAsked(q) -> 1
              [] Stats!Value(q) = "1M" -> Seconds["month"]
              [] Stats!Value(q) = "1m" -> Seconds["minute"]
              [] OTHER -> Seconds[Stats!Unit(q)]
Answered(q) == q \in Queries /\ ~Stats!BadQuery(q) /\ ~Stats!TooMany(q)

LEMMA StatsConstants ==
    /\ IsFiniteSet(History) /\ \A e \in History : e.at \in Nat /\ e.ledger \in Nat
    /\ None \notin Int
    /\ \A q \in Queries : /\ q # None
                         /\ {q.window, q.from, q.to, q.from_ledger, q.to_ledger} \subseteq Int \cup {None}
    /\ Lower["1m"] = "1m" /\ Lower["1M"] = "1m"
    /\ \A u \in DOMAIN Stats!Aliases : Seconds[u] \in Nat \ {0} /\ Span[u] \in Nat
    /\ statsNow \in Nat /\ LEDGER_SPAN \in Nat /\ MAX_BUCKETS \in Nat
BY PartsAssumption, StatsCount DEF Stats!StatsAssumption

(* The unit a resolution names, "1M" a month and "1m" a minute. *)
LEMMA UnitFacts ==
    ASSUME NEW q, Answered(q), ~LedgerAsked(q)
    PROVE  /\ Stats!Unit(q) \in DOMAIN Stats!Aliases
           /\ Width(q) = Seconds[Stats!Unit(q)]
           /\ Width(q) \in Nat \ {0}
<1> DEFINE v == Stats!Value(q)
           U == Stats!parse_trunc_alias(v)
<1>1. U # {}
  BY DEF Answered, Stats!BadQuery, Stats!ByLedger, LedgerAsked
<1>2. U \subseteq DOMAIN Stats!Aliases
  BY DEF Stats!parse_trunc_alias, Stats!Aliases
<1>3. Stats!Unit(q) \in U
  BY <1>1 DEF Stats!Unit
<1>4. v = "1M" => Stats!Unit(q) = "month"
  BY <1>3 DEF Stats!parse_trunc_alias
<1>5. v = "1m" => Stats!Unit(q) = "minute"
  <2>1. v = "1m" => U = {u \in DOMAIN Stats!Aliases : "1m" \in Stats!Aliases[u]}
    BY StatsConstants DEF Stats!parse_trunc_alias
  <2>2. {u \in DOMAIN Stats!Aliases : "1m" \in Stats!Aliases[u]} \subseteq {"minute"}
    BY DEF Stats!Aliases
  <2> QED BY <1>3, <2>1, <2>2
<1>6. Width(q) = Seconds[Stats!Unit(q)]
  BY <1>4, <1>5 DEF Width
<1> QED BY <1>2, <1>3, <1>6, StatsConstants

(* The range is one of integers, keeps to the bounds asked for, and is     *)
(* exactly them if both are given.                                         *)
LEMMA RangeFacts ==
    ASSUME NEW q, Answered(q)
    PROVE  /\ Stats!Counted(q).from \in Int /\ Stats!Counted(q).to \in Int \cup {None}
           /\ AskedFrom(q) # None => Stats!Counted(q).from = AskedFrom(q)
           /\ AskedTo(q) # None => Stats!Counted(q).to = AskedTo(q)
           /\ ~LedgerAsked(q) \/ AskedTo(q) # None => Stats!Counted(q).to \in Int
<1>1. /\ {q.window, q.from, q.to, q.from_ledger, q.to_ledger} \subseteq Int \cup {None}
      /\ None \notin Int /\ statsNow \in Nat /\ LEDGER_SPAN \in Nat
  BY StatsConstants DEF Answered
<1>2. CASE LedgerAsked(q)
  BY <1>1, <1>2 DEF Stats!Counted, Stats!ByLedger, LedgerAsked, AskedFrom, AskedTo, Stats!Or
<1>3. CASE ~LedgerAsked(q)
  <2>1. Span[Stats!Unit(q)] \in Nat
    BY <1>3, UnitFacts, StatsConstants
  <2>2. PICK t : t = Stats!TimeBounds(q)
    OBVIOUS
  <2>3. Stats!Counted(q) = [from |-> Stats!Or(t.from, statsNow - Span[Stats!Unit(q)]), to |-> Stats!Or(t.to, statsNow)]
    BY <1>3, <2>2 DEF Stats!Counted, Stats!ByLedger, LedgerAsked
  <2>4. Stats!Or(q.to, statsNow) \in Int /\ (q.to # None => Stats!Or(q.to, statsNow) = q.to)
    BY <1>1 DEF Stats!Or
  <2>5. /\ t.from \in Int \cup {None} /\ t.to \in Int \cup {None}
        /\ t.from = AskedFrom(q)
        /\ AskedTo(q) # None => t.to = AskedTo(q)
    BY <1>1, <1>3, <2>2, <2>4 DEF Stats!TimeBounds, AskedFrom, AskedTo
  <2> QED BY <1>1, <1>3, <2>1, <2>3, <2>5 DEF Stats!Or
<1> QED BY <1>2, <1>3

-----------------------------------------------------------------------------
(* Buckets *)

LEMMA Division ==
    ASSUME NEW a \in Int, NEW s \in Nat \ {0}
    PROVE  /\ a \div s \in Int
           /\ (a \div s) * s <= a /\ a < (a \div s) * s + s
OBVIOUS

LEMMA SmallMultiple ==
    ASSUME NEW x \in Int, NEW s \in Nat \ {0}, 0 - s < x * s, x * s < s
    PROVE  x = 0
<1>1. CASE x >= 1
  <2>1. x * s >= s
    BY <1>1
  <2> QED BY <2>1
<1>2. CASE x <= -1
  <2>1. x * s <= 0 - s
    BY <1>2
  <2> QED BY <2>1
<1> QED BY <1>1, <1>2

LEMMA InUnit ==
    ASSUME NEW a \in Int, NEW m \in Int, NEW s \in Nat \ {0}
    PROVE  /\ (a \div s) * s = m * s <=> m * s <= a /\ a < m * s + s
           /\ m * s <= a /\ a < m * s + s => a \div s = m
           /\ (m * s) % s = 0
<1>1. PICK d \in Int : d = a \div s
  BY Division
<1>2. d * s <= a /\ a < d * s + s
  BY <1>1, Division
<1>3. m * s <= a /\ a < m * s + s => d = m
  <2> SUFFICES ASSUME m * s <= a, a < m * s + s PROVE d = m
    OBVIOUS
  <2>1. PICK x \in Int : x = d - m
    OBVIOUS
  <2>2. x * s = d * s - m * s
    BY <2>1
  <2>3. 0 - s < x * s /\ x * s < s
    BY <1>2, <2>2
  <2>4. x = 0
    BY <2>3, SmallMultiple
  <2> QED BY <2>1, <2>4
<1>4. (m * s) % s = 0
  <2>1. PICK c \in Int : c = m * s
    OBVIOUS
  <2>2. PICK y \in Int : y = c \div s
    OBVIOUS
  <2>3. c = s * y + (c % s) /\ 0 <= c % s /\ c % s < s
    BY <2>2
  <2>4. PICK x \in Int : x = m - y
    OBVIOUS
  <2>5. x * s = c - s * y
    BY <2>1, <2>4
  <2>6. x * s = c % s
    BY <2>3, <2>5
  <2>7. 0 - s < x * s /\ x * s < s
    BY <2>3, <2>6
  <2>8. x = 0
    BY <2>7, SmallMultiple
  <2> QED BY <2>1, <2>6, <2>8
<1> QED BY <1>1, <1>2, <1>3, <1>4

LEMMA PlaceFacts ==
    ASSUME NEW q, NEW e \in History
    PROVE  /\ Stats!Place(q, e) \in Nat
           /\ Stats!Place(q, e) = IF LedgerAsked(q) THEN e.ledger ELSE e.at
BY StatsConstants DEF Stats!Place, Stats!ByLedger, LedgerAsked

(* The bucket of an event is a multiple of the width, and the events of    *)
(* that bucket are those in the unit that starts there.                    *)
LEMMA UnitStart ==
    ASSUME NEW q, Answered(q), NEW e \in History, NEW f \in History
    PROVE  /\ Stats!Bucket(q, f) \in Int
           /\ Stats!Bucket(q, f) % Width(q) = 0
           /\ Stats!Bucket(q, e) = Stats!Bucket(q, f) <=>
                 /\ Stats!Bucket(q, f) <= Stats!Place(q, e)
                 /\ Stats!Place(q, e) < Stats!Bucket(q, f) + Width(q)
<1>1. e.at \in Nat /\ f.at \in Nat /\ e.ledger \in Nat /\ f.ledger \in Nat
  BY StatsConstants
<1>2. CASE LedgerAsked(q)
  <2>1. Width(q) = 1
    BY <1>2, StatsConstants DEF Width, LedgerAsked
  <2>2. Stats!Bucket(q, f) = f.ledger /\ Stats!Bucket(q, e) = e.ledger /\ Stats!Place(q, e) = e.ledger
    BY <1>2 DEF Stats!Bucket, Stats!Place, Stats!ByLedger, LedgerAsked
  <2>3. \A x, y \in Nat : x % 1 = 0 /\ (y = x <=> x <= y /\ y < x + 1)
    OBVIOUS
  <2>4. f.ledger % 1 = 0 /\ (e.ledger = f.ledger <=> f.ledger <= e.ledger /\ e.ledger < f.ledger + 1)
    BY <1>1, <2>3
  <2> QED BY <1>1, <2>1, <2>2, <2>4
<1>3. CASE ~LedgerAsked(q)
  <2>1. PICK s \in Nat \ {0} : s = Width(q)
    BY <1>3, UnitFacts
  <2>2. s = Seconds[Stats!Unit(q)]
    BY <1>3, <2>1, UnitFacts
  <2>3. PICK m \in Int : m = f.at \div s
    BY <1>1
  <2>4. Stats!Bucket(q, f) = m * s /\ Stats!Bucket(q, e) = (e.at \div s) * s /\ Stats!Place(q, e) = e.at
    BY <1>3, <2>2, <2>3 DEF Stats!Bucket, Stats!date_trunc, Stats!Place, Stats!ByLedger, LedgerAsked
  <2>5. /\ (e.at \div s) * s = m * s <=> m * s <= e.at /\ e.at < m * s + s
        /\ (m * s) % s = 0
    <3>1. PICK a \in Int : a = e.at
      BY <1>1
    <3>2. /\ (a \div s) * s = m * s <=> m * s <= a /\ a < m * s + s
          /\ (m * s) % s = 0
      BY InUnit
    <3> QED BY <3>1, <3>2
  <2>6. m * s \in Int
    OBVIOUS
  <2> QED BY <2>1, <2>4, <2>5, <2>6
<1> QED BY <1>2, <1>3

-----------------------------------------------------------------------------
(* The rows of the query and the answer made of them *)

In(q) == {e \in events : Stats!Selected(q, e)}
NameIn(q, e) == IF q.group_by = None THEN None ELSE e.name
Together(q, e, f) == Stats!Bucket(q, e) = Stats!Bucket(q, f) /\ NameIn(q, e) = NameIn(q, f)
RowOf(q, e) == [bucket |-> Stats!Bucket(q, e), name |-> NameIn(q, e),
                count |-> Cardinality({f \in In(q) : Together(q, f, e)})]
InBucket(q, b) == {e \in In(q) : Stats!Bucket(q, e) = b}

LEMMA RowsAre == ASSUME NEW q PROVE Stats!Rows(q) = {RowOf(q, e) : e \in In(q)}
<1> DEFINE key(e) == <<Stats!Bucket(q, e), NameIn(q, e)>>
<1>1. \A e, f : key(e) = key(f) <=> Together(q, e, f)
  BY DEF Together
<1>2. \A e : key(e)[1] = Stats!Bucket(q, e) /\ key(e)[2] = NameIn(q, e)
  OBVIOUS
<1>3. Stats!Rows(q) = {[bucket |-> key(e)[1], name |-> key(e)[2],
                        count |-> Stats!Cardinality({f \in In(q) : key(f) = key(e)})] : e \in In(q)}
  BY DEF Stats!Rows, In, NameIn
<1> HIDE DEF key
<1>4. ASSUME NEW e
      PROVE  RowOf(q, e) = [bucket |-> key(e)[1], name |-> key(e)[2],
                            count |-> Stats!Cardinality({f \in In(q) : key(f) = key(e)})]
  <2>1. {f \in In(q) : key(f) = key(e)} = {f \in In(q) : Together(q, f, e)}
    BY <1>1
  <2>2. Stats!Cardinality({f \in In(q) : key(f) = key(e)}) = Cardinality({f \in In(q) : Together(q, f, e)})
    BY <2>1, StatsCount
  <2> QED BY <1>2, <2>2 DEF RowOf
<1> QED BY <1>3, <1>4

(* A set of rows counts the events whose rows it holds. *)
LEMMA RowsCount ==
    ASSUME NEW q, IsFiniteSet(events), NEW R \in SUBSET Stats!Rows(q)
    PROVE  /\ IsFiniteSet(In(q)) /\ IsFiniteSet(R)
           /\ \A r \in R : r.count = Cardinality({e \in In(q) : RowOf(q, e) = r})
           /\ Stats!SumCounts(R) = Cardinality({e \in In(q) : RowOf(q, e) \in R})
<1> DEFINE k == [e \in In(q) |-> RowOf(q, e)]
           T == {RowOf(q, e) : e \in In(q)}
<1>0. In(q) \in SUBSET events
  BY DEF In
<1>1. IsFiniteSet(In(q))
  BY <1>0, FS_Subset
<1>2. R \subseteq T
  BY RowsAre
<1>3. IsFiniteSet(R)
  <2>1. k \in Surjection(In(q), T)
    <3> HIDE DEF RowOf
    <3> QED BY DEF Surjection
  <2> HIDE DEF T, k
  <2>2. IsFiniteSet(T)
    BY <1>1, <2>1, FS_Surjection
  <2> QED BY <1>2, <2>2, FS_Subset
<1>4. ASSUME NEW r \in R PROVE r.count = Cardinality({e \in In(q) : RowOf(q, e) = r})
  <2>1. PICK f \in In(q) : r = RowOf(q, f)
    BY <1>2
  <2>2. ASSUME NEW e \in In(q) PROVE RowOf(q, e) = RowOf(q, f) <=> Together(q, e, f)
    <3>1. ASSUME Together(q, e, f) PROVE RowOf(q, e) = RowOf(q, f)
      <4>1. {g \in In(q) : Together(q, g, e)} = {g \in In(q) : Together(q, g, f)}
        BY <3>1 DEF Together
      <4> QED BY <3>1, <4>1 DEF RowOf, Together
    <3>2. ASSUME RowOf(q, e) = RowOf(q, f) PROVE Together(q, e, f)
      BY <3>2 DEF RowOf, Together
    <3> QED BY <3>1, <3>2
  <2>3. {e \in In(q) : RowOf(q, e) = r} = {e \in In(q) : Together(q, e, f)}
    BY <2>1, <2>2
  <2>4. r.count = Cardinality({e \in In(q) : Together(q, e, f)})
    BY <2>1 DEF RowOf
  <2> QED BY <2>3, <2>4
<1>5. Stats!SumCounts(R) = Cardinality({e \in In(q) : RowOf(q, e) \in R})
  <2>1. \A e \in In(q) : k[e] = RowOf(q, e)
    OBVIOUS
  <2> HIDE DEF k
  <2>2. ASSUME NEW r \in R PROVE r.count = Cardinality({e \in In(q) : k[e] = r})
    <3>1. {e \in In(q) : k[e] = r} = {e \in In(q) : RowOf(q, e) = r}
      BY <2>1
    <3> QED BY <1>4, <3>1
  <2>3. {e \in In(q) : k[e] \in R} = {e \in In(q) : RowOf(q, e) \in R}
    BY <2>1
  <2>4. Stats!SumCounts(R) = Cardinality({e \in In(q) : k[e] \in R})
    BY <1>1, <1>3, <2>2, SumOfFibers
  <2> QED BY <2>3, <2>4
<1> QED BY <1>1, <1>3, <1>4, <1>5

RowsIn(q, b) == {r \in Stats!Rows(q) : r.bucket = b}
NamedIn(q, b) == {r \in RowsIn(q, b) : r.name # None}
Datum(q, b) == [bucket |-> b, count |-> Stats!SumCounts(RowsIn(q, b)), breakdown |-> NamedIn(q, b)]

LEMMA DataAre == ASSUME NEW q PROVE Stats!Data(q) = {Datum(q, Stats!Bucket(q, e)) : e \in In(q)}
<1>1. Stats!Data(q) = {Datum(q, b) : b \in {r.bucket : r \in Stats!Rows(q)}}
  BY DEF Stats!Data, Stats!CountOf, Datum, RowsIn, NamedIn
<1>2. {r.bucket : r \in Stats!Rows(q)} = {Stats!Bucket(q, e) : e \in In(q)}
  <2>1. \A e : RowOf(q, e).bucket = Stats!Bucket(q, e)
    BY DEF RowOf
  <2> QED BY <2>1, RowsAre
<1> QED BY <1>1, <1>2

(* A bucket counts its events, grouped or not. *)
LEMMA DatumCounts ==
    ASSUME NEW q, IsFiniteSet(events), NEW b
    PROVE  /\ Stats!SumCounts(RowsIn(q, b)) = Cardinality(InBucket(q, b))
           /\ q.group_by # None =>
                Stats!SumCounts(NamedIn(q, b)) = Cardinality({e \in InBucket(q, b) : e.name # None})
           /\ \A r \in NamedIn(q, b) :
                /\ q.group_by # None
                /\ r.count = Cardinality({e \in InBucket(q, b) : RowOf(q, e) = r})
                /\ \A e \in In(q) : RowOf(q, e) = r => e.name = r.name
<1>1. \A e \in In(q) : RowOf(q, e) \in Stats!Rows(q)
  BY RowsAre
<1>2. \A e : RowOf(q, e).bucket = Stats!Bucket(q, e) /\ RowOf(q, e).name = NameIn(q, e)
  BY DEF RowOf
<1>3. RowsIn(q, b) \in SUBSET Stats!Rows(q) /\ NamedIn(q, b) \in SUBSET Stats!Rows(q)
  BY DEF RowsIn, NamedIn
<1>4. {e \in In(q) : RowOf(q, e) \in RowsIn(q, b)} = InBucket(q, b)
  BY <1>1, <1>2 DEF RowsIn, InBucket
<1>5. q.group_by # None =>
        {e \in In(q) : RowOf(q, e) \in NamedIn(q, b)} = {e \in InBucket(q, b) : e.name # None}
  BY <1>1, <1>2 DEF RowsIn, NamedIn, InBucket, NameIn
<1>6. ASSUME NEW r \in NamedIn(q, b)
      PROVE  /\ q.group_by # None
             /\ r.count = Cardinality({e \in InBucket(q, b) : RowOf(q, e) = r})
             /\ \A e \in In(q) : RowOf(q, e) = r => e.name = r.name
  <2>1. r.bucket = b /\ r.name # None /\ r \in Stats!Rows(q)
    BY DEF RowsIn, NamedIn
  <2>2. q.group_by # None
    BY <1>2, <2>1, RowsAre DEF NameIn
  <2>3. r.count = Cardinality({e \in In(q) : RowOf(q, e) = r})
    <3>1. \A s \in NamedIn(q, b) : s.count = Cardinality({e \in In(q) : RowOf(q, e) = s})
      BY <1>3, RowsCount
    <3> QED BY <3>1
  <2>4. {e \in InBucket(q, b) : RowOf(q, e) = r} = {e \in In(q) : RowOf(q, e) = r}
    BY <1>2, <2>1 DEF InBucket
  <2>5. \A e \in In(q) : RowOf(q, e) = r => e.name = r.name
    BY <1>2, <2>2 DEF NameIn
  <2> QED BY <2>2, <2>3, <2>4, <2>5
<1>7. Stats!SumCounts(RowsIn(q, b)) = Cardinality({e \in In(q) : RowOf(q, e) \in RowsIn(q, b)})
  BY <1>3, RowsCount
<1>8. Stats!SumCounts(NamedIn(q, b)) = Cardinality({e \in In(q) : RowOf(q, e) \in NamedIn(q, b)})
  BY <1>3, RowsCount
<1> QED BY <1>4, <1>5, <1>6, <1>7, <1>8

(* The total counts every selected event once. *)
LEMMA TotalCounts ==
    ASSUME NEW q, IsFiniteSet(events)
    PROVE  Stats!SumCounts(Stats!Data(q)) = Cardinality(In(q))
<1> DEFINE k == [e \in In(q) |-> Datum(q, Stats!Bucket(q, e))]
           D == Stats!Data(q)
<1>1. \A e \in In(q) : k[e] = Datum(q, Stats!Bucket(q, e)) /\ k[e] \in D
  BY DataAre
<1>2. In(q) \in SUBSET events
  BY DEF In
<1>3. IsFiniteSet(In(q))
  BY <1>2, FS_Subset
<1>4. k \in Surjection(In(q), D)
  <2>1. \A d \in D : \E e \in In(q) : k[e] = d
    BY DataAre
  <2>2. k \in [In(q) -> D]
    BY <1>1
  <2> HIDE DEF k, D
  <2> QED BY <2>1, <2>2 DEF Surjection
<1> HIDE DEF k
<1>5. IsFiniteSet(D)
  BY <1>3, <1>4, FS_Surjection
<1>6. ASSUME NEW d \in D PROVE d.count = Cardinality({e \in In(q) : k[e] = d})
  <2>1. PICK f \in In(q) : d = Datum(q, Stats!Bucket(q, f))
    BY DataAre
  <2>2. PICK b : b = Stats!Bucket(q, f)
    OBVIOUS
  <2>3. d.count = Cardinality(InBucket(q, b))
    BY <2>1, <2>2, DatumCounts DEF Datum
  <2>4. \A e \in In(q) : k[e] = d <=> Stats!Bucket(q, e) = b
    <3>1. \A c : Datum(q, c).bucket = c
      BY DEF Datum
    <3> QED BY <1>1, <2>1, <2>2, <3>1
  <2>5. {e \in In(q) : k[e] = d} = InBucket(q, b)
    BY <2>4 DEF InBucket
  <2> QED BY <2>3, <2>5
<1>7. Stats!SumCounts(D) = Cardinality({e \in In(q) : k[e] \in D})
  <2> HIDE DEF D
  <2> QED BY <1>3, <1>5, <1>6, SumOfFibers
<1>8. {e \in In(q) : k[e] \in D} = In(q)
  BY <1>1
<1> QED BY <1>7, <1>8

-----------------------------------------------------------------------------
(* What is counted against what was asked for *)

Admitted(q) == {e \in events : /\ AskedFrom(q) # None => AskedFrom(q) <= Stats!Place(q, e)
                               /\ AskedTo(q) # None => Stats!Place(q, e) <= AskedTo(q)}
CountedIn(q, b) == {e \in Admitted(q) : b <= Stats!Place(q, e) /\ Stats!Place(q, e) < b + Width(q)}
BothAsked(q) == AskedFrom(q) # None /\ AskedTo(q) # None

LEMMA InAdmitted ==
    ASSUME NEW q, Answered(q), events \subseteq History
    PROVE  In(q) \subseteq Admitted(q) /\ (BothAsked(q) => In(q) = Admitted(q))
<1>1. PICK r : r = Stats!Counted(q)
  OBVIOUS
<1>2. /\ AskedFrom(q) # None => r.from = AskedFrom(q)
      /\ AskedTo(q) # None => r.to = AskedTo(q)
  BY <1>1, RangeFacts
<1>3. \A e : Stats!Selected(q, e) <=> r.from <= Stats!Place(q, e) /\ (r.to # None => Stats!Place(q, e) <= r.to)
  BY <1>1 DEF Stats!Selected
<1> QED BY <1>2, <1>3 DEF In, Admitted, BothAsked

(* A bucket holds the selected events of its unit. *)
LEMMA BucketHolds ==
    ASSUME NEW q, Answered(q), events \subseteq History, NEW f \in In(q), NEW b, b = Stats!Bucket(q, f)
    PROVE  /\ InBucket(q, b) = {e \in CountedIn(q, b) : Stats!Selected(q, e)}
           /\ InBucket(q, b) \subseteq CountedIn(q, b)
           /\ BothAsked(q) => InBucket(q, b) = CountedIn(q, b)
<1>1. f \in History /\ \A e \in Admitted(q) : e \in History
  BY DEF In, Admitted
<1>2. \A e \in History :
        Stats!Bucket(q, e) = b <=> b <= Stats!Place(q, e) /\ Stats!Place(q, e) < b + Width(q)
  BY <1>1, UnitStart
<1>3. In(q) = {e \in Admitted(q) : Stats!Selected(q, e)}
  BY InAdmitted DEF In, Admitted
<1>4. InBucket(q, b) = {e \in CountedIn(q, b) : Stats!Selected(q, e)}
  BY <1>1, <1>2, <1>3 DEF InBucket, CountedIn
<1>5. ASSUME BothAsked(q) PROVE InBucket(q, b) = CountedIn(q, b)
  <2>1. In(q) = Admitted(q)
    BY <1>5, InAdmitted
  <2> QED BY <1>1, <1>2, <2>1 DEF InBucket, CountedIn
<1> QED BY <1>4, <1>5

-----------------------------------------------------------------------------
(* The invariant and the property *)

(* An answer is that of the query to the events stored now. *)
CountsOf(q) == [total |-> Stats!SumCounts(Stats!Data(q)), data |-> Stats!Data(q)]
StatsInv ==
    /\ events \subseteq History
    /\ query # None => query \in Queries
    /\ \A q \in Queries :
         query = q => statsAnswer = Stats!Refused \/ (Answered(q) /\ statsAnswer = CountsOf(q))

LEMMA StatsInitially == Stats!Init => StatsInv
BY StatsConstants DEF Stats!Init, StatsInv

LEMMA StatsStep == StatsInv /\ [Stats!Next]_statsVars => StatsInv'
<1> SUFFICES ASSUME StatsInv, [Stats!Next]_statsVars PROVE StatsInv'
  OBVIOUS
<1>1. ASSUME events' = events, NEW q \in Queries PROVE CountsOf(q)' = CountsOf(q) /\ (Answered(q)' <=> Answered(q))
  <2>1. Stats!Rows(q)' = Stats!Rows(q)
    BY <1>1 DEF Stats!Rows
  <2>2. Stats!Data(q)' = Stats!Data(q)
    BY <2>1 DEF Stats!Data
  <2> QED BY <2>2 DEF CountsOf
<1>2. CASE UNCHANGED statsVars
  BY <1>1, <1>2 DEF StatsInv, statsVars, Stats!Refused
<1>3. ASSUME NEW e \in History, Stats!Store(e) PROVE StatsInv'
  BY <1>3, StatsConstants DEF StatsInv, Stats!Store
<1>4. ASSUME NEW q \in Queries, Stats!Ask(q) PROVE StatsInv'
  <2>1. events' = events /\ query' = q
    BY <1>4 DEF Stats!Ask
  <2>2. statsAnswer' = Stats!Refused \/ (Answered(q) /\ statsAnswer' = CountsOf(q))
    BY <1>4 DEF Stats!Ask, Answered, CountsOf
  <2> QED BY <1>1, <2>1, <2>2 DEF StatsInv, Stats!Refused
<1> QED BY <1>2, <1>3, <1>4 DEF Stats!Next

LEMMA CountsAddUp == StatsInv => Stats!StatsAddUp
<1> SUFFICES ASSUME StatsInv, query # None, statsAnswer # Stats!Refused PROVE Stats!StatsAddUp
  BY DEF Stats!StatsAddUp
<1>1. query \in Queries
  BY DEF StatsInv
<1>2. Answered(query) /\ statsAnswer = CountsOf(query) /\ events \subseteq History
  BY <1>1 DEF StatsInv
<1>3. IsFiniteSet(events)
  <2>1. events \in SUBSET History
    BY <1>2
  <2> QED BY <2>1, StatsConstants, FS_Subset
<1> DEFINE place(e) == IF Lower[Stats!Value(query)] = "ledger" THEN e.ledger ELSE e.at
           admitted == {e \in events : /\ AskedFrom(query) # None => AskedFrom(query) <= place(e)
                                       /\ AskedTo(query) # None => place(e) <= AskedTo(query)}
           counted(b) == {e \in admitted : b <= place(e) /\ place(e) < b + Width(query)}
<1>4. \A e \in events : place(e) = Stats!Place(query, e)
  BY <1>2, PlaceFacts DEF LedgerAsked
<1>5. admitted = Admitted(query)
  BY <1>4 DEF Admitted
<1>6. \A b : counted(b) = CountedIn(query, b)
  BY <1>4, <1>5 DEF CountedIn, Admitted
<1>7. ASSUME NEW d \in Stats!Data(query)
      PROVE  /\ d.bucket % Width(query) = 0
             /\ \A c \in Stats!Data(query) : c.bucket = d.bucket => c = d
             /\ d.count <= Cardinality(CountedIn(query, d.bucket))
             /\ BothAsked(query) => d.count = Cardinality(CountedIn(query, d.bucket))
             /\ \A r \in d.breakdown :
                   r.count <= Cardinality({e \in CountedIn(query, d.bucket) : e.name = r.name})
             /\ query.group_by # None =>
                   d.count = Stats!SumCounts(d.breakdown)
                     + Cardinality({e \in CountedIn(query, d.bucket) : e.name = None /\ Stats!Selected(query, e)})
  <2>1. PICK f \in In(query) : d = Datum(query, Stats!Bucket(query, f))
    BY DataAre
  <2>2. PICK b : b = Stats!Bucket(query, f)
    OBVIOUS
  <2>3. d.bucket = b /\ d.count = Stats!SumCounts(RowsIn(query, b)) /\ d.breakdown = NamedIn(query, b)
    BY <2>1, <2>2 DEF Datum
  <2>4. d.bucket % Width(query) = 0
    BY <1>2, <2>2, <2>3, UnitStart DEF In
  <2>5. \A c \in Stats!Data(query) : c.bucket = d.bucket => c = d
    <3>1. \A x : Datum(query, x).bucket = x
      BY DEF Datum
    <3> QED BY <2>1, <3>1, DataAre
  <2>6. d.count = Cardinality(InBucket(query, b))
    BY <1>3, <2>3, DatumCounts
  <2>7. /\ InBucket(query, b) = {e \in CountedIn(query, b) : Stats!Selected(query, e)}
        /\ InBucket(query, b) \subseteq CountedIn(query, b)
        /\ BothAsked(query) => InBucket(query, b) = CountedIn(query, b)
    BY <1>2, <2>2, BucketHolds
  <2>8. IsFiniteSet(CountedIn(query, b)) /\ IsFiniteSet(InBucket(query, b))
    <3>1. CountedIn(query, b) \in SUBSET events /\ InBucket(query, b) \in SUBSET events
      BY DEF CountedIn, Admitted, InBucket, In
    <3> QED BY <1>3, <3>1, FS_Subset
  <2>9. d.count <= Cardinality(CountedIn(query, b))
    BY <2>6, <2>7, <2>8, FS_Subset
  <2>10. ASSUME NEW r \in NamedIn(query, b)
         PROVE  r.count <= Cardinality({e \in CountedIn(query, b) : e.name = r.name})
    <3> DEFINE X == {e \in InBucket(query, b) : RowOf(query, e) = r}
               Y == {e \in CountedIn(query, b) : e.name = r.name}
    <3>1. r.count = Cardinality(X) /\ \A e \in In(query) : RowOf(query, e) = r => e.name = r.name
      <4>1. \A s \in NamedIn(query, b) :
              /\ query.group_by # None
              /\ s.count = Cardinality({e \in InBucket(query, b) : RowOf(query, e) = s})
              /\ \A e \in In(query) : RowOf(query, e) = s => e.name = s.name
        BY <1>3, DatumCounts
      <4> QED BY <4>1
    <3>2. X \in SUBSET Y
      BY <2>7, <3>1 DEF InBucket
    <3>3. Y \in SUBSET CountedIn(query, b)
      OBVIOUS
    <3>4. IsFiniteSet(Y)
      BY <2>8, <3>3, FS_Subset
    <3> HIDE DEF X, Y
    <3>5. Cardinality(X) <= Cardinality(Y)
      BY <3>2, <3>4, FS_Subset
    <3> QED BY <3>1, <3>5 DEF Y
  <2>11. ASSUME query.group_by # None
         PROVE  d.count = Stats!SumCounts(NamedIn(query, b))
                  + Cardinality({e \in CountedIn(query, b) : e.name = None /\ Stats!Selected(query, e)})
    <3> DEFINE X == {e \in InBucket(query, b) : e.name # None}
               Y == {e \in CountedIn(query, b) : e.name = None /\ Stats!Selected(query, e)}
    <3>1. Stats!SumCounts(NamedIn(query, b)) = Cardinality(X)
      BY <1>3, <2>11, DatumCounts
    <3>2. InBucket(query, b) = X \cup Y /\ X \cap Y = {} /\ X \in SUBSET InBucket(query, b) /\ Y \in SUBSET InBucket(query, b)
      BY <2>7
    <3> HIDE DEF X, Y
    <3>3. IsFiniteSet(X) /\ IsFiniteSet(Y)
      BY <2>8, <3>2, FS_Subset
    <3>4. Cardinality(X \cup Y) = Cardinality(X) + Cardinality(Y) - Cardinality({})
      BY <3>2, <3>3, FS_Union
    <3>5. Cardinality(X) \in Nat /\ Cardinality(Y) \in Nat
      BY <3>3, FS_CardinalityType
    <3>6. Cardinality(InBucket(query, b)) = Cardinality(X) + Cardinality(Y)
      BY <3>2, <3>4, <3>5, FS_EmptySet
    <3> QED BY <2>6, <3>1, <3>6 DEF Y
  <2> QED BY <2>3, <2>4, <2>5, <2>6, <2>7, <2>9, <2>10, <2>11
<1>8. BothAsked(query) => Stats!SumCounts(Stats!Data(query)) = Cardinality(Admitted(query))
  BY <1>2, <1>3, InAdmitted, TotalCounts
<1>10. statsAnswer.data = Stats!Data(query) /\ statsAnswer.total = Stats!SumCounts(Stats!Data(query))
  BY <1>2 DEF CountsOf
<1>11. /\ \A d \in statsAnswer.data :
            /\ d.bucket % Width(query) = 0
            /\ \A c \in statsAnswer.data : c.bucket = d.bucket => c = d
            /\ d.count <= Stats!Cardinality(counted(d.bucket))
            /\ AskedFrom(query) # None /\ AskedTo(query) # None => d.count = Stats!Cardinality(counted(d.bucket))
            /\ \A r \in d.breakdown :
                  r.count <= Stats!Cardinality({e \in counted(d.bucket) : e.name = r.name})
            /\ query.group_by # None =>
                  d.count = Stats!SumCounts(d.breakdown)
                    + Stats!Cardinality({e \in counted(d.bucket) : e.name = None /\ Stats!Selected(query, e)})
       /\ AskedFrom(query) # None /\ AskedTo(query) # None => statsAnswer.total = Stats!Cardinality(admitted)
  <2> HIDE DEF counted, admitted
  <2>1. \A S : Stats!Cardinality(S) = Cardinality(S)
    BY StatsCount
  <2>2. ASSUME NEW d \in statsAnswer.data
        PROVE  /\ d.bucket % Width(query) = 0
               /\ \A c \in statsAnswer.data : c.bucket = d.bucket => c = d
               /\ d.count <= Stats!Cardinality(counted(d.bucket))
               /\ AskedFrom(query) # None /\ AskedTo(query) # None => d.count = Stats!Cardinality(counted(d.bucket))
               /\ \A r \in d.breakdown :
                     r.count <= Stats!Cardinality({e \in counted(d.bucket) : e.name = r.name})
               /\ query.group_by # None =>
                     d.count = Stats!SumCounts(d.breakdown)
                       + Stats!Cardinality({e \in counted(d.bucket) : e.name = None /\ Stats!Selected(query, e)})
    BY <1>6, <1>7, <1>10, <2>1 DEF BothAsked
  <2> QED BY <1>5, <1>8, <1>10, <2>1, <2>2 DEF BothAsked
<1> QED BY <1>11 DEF Stats!StatsAddUp, AskedFrom, AskedTo, Width, LedgerAsked

(* pagination.rs and stats.rs: for any lists, rows, limits, queries,       *)
(* events, unit lengths and caps, a walk that nothing excuses returns      *)
(* every steady row once and in order while rows come and go; and the      *)
(* buckets of an answer hold exactly the events of their units that the    *)
(* caller's bounds admit, and add up to the total.                         *)
THEOREM QueriesExactHolds == ApiSpec => []QueriesExact
<1> DEFINE I == (focus = "pages" => PageInv) /\ (focus = "stats" => StatsInv)
<1>1. ApiInit => I
  BY PageInitially, StatsInitially DEF ApiInit
<1>2. I /\ [ApiNext]_<<focus, vars, limitVars, readVars, pageVars, proxyVars, secretVars, statsVars>> => I'
  <2>1. [ApiNext]_<<focus, vars, limitVars, readVars, pageVars, proxyVars, secretVars, statsVars>>
          => /\ focus' = focus
             /\ focus = "pages" => [Pages!Next]_pageVars
             /\ focus = "stats" => [Stats!Next]_statsVars
    BY DEF ApiNext
  <2> QED BY <2>1, PageStep, StatsStep
<1>3. I => QueriesExact
  BY PagesExact, CountsAddUp DEF QueriesExact
<1> QED BY <1>1, <1>2, <1>3, PTL DEF ApiSpec
=============================================================================
