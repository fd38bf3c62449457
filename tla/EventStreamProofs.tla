------------------------- MODULE EventStreamProofs --------------------------
(***************************************************************************)
(* Proofs about the event stream (EventStream): type correctness, that a   *)
(* client is sent rows in order and once, and that a client which was not  *)
(* exposed to one of the causes of loss has no gap below its position.     *)
(***************************************************************************)
EXTENDS EventStream, FiniteSetTheorems, SequenceTheorems, TLAPS

-----------------------------------------------------------------------------
(* The invariant *)

(* What is broadcast is a committed row; among the committed rows one that *)
(* is not late lies above every row of a lower seq.                        *)
LogInv ==
    /\ ToSet(published) \subseteq committed
    /\ \A i, j \in CommittedSeqs : i < j /\ log[j] \notin late => log[i] < log[j]

(* Before its first session has written last_seen the listener has no      *)
(* position, except while it catches up.                                   *)
SessionInv ==
    listener.last_seen = None /\ listener.pc # "catch_up" =>
        listener.pc # "wait" /\ listener.cursor = 0

(* The rest is about a client: its position x, its buffer b, the number r  *)
(* of messages it has read, what it was sent, g, and its start s.          *)

(* What a client was sent is ascending and not beyond its position, what   *)
(* is buffered for it is ascending and beyond; all are rows.               *)
RowsOf(x, b, g) ==
    /\ x \in committed \cup {0}
    /\ ToSet(b) \subseteq committed \cap Matching
    /\ ToSet(g) \subseteq committed \cap Matching
OrderOf(x, b, g) ==
    /\ \A i, j \in 1..Len(g) : i < j => g[i] < g[j]
    /\ \A i \in 1..Len(g) : g[i] <= x
    /\ \A i, j \in 1..Len(b) : i < j => b[i] < b[j]
    /\ \A i \in 1..Len(b) : x < b[i]

(* The buffer has no hole: a row below a buffered one is buffered too, or  *)
(* late.                                                                   *)
BufferOf(x, b) ==
    \A q \in After(x) \ late, y \in ToSet(b) : q < y => q \in ToSet(b)

(* Rows beyond the position that the client has yet to get from the       *)
(* channel.                                                                *)
Owed(x, b) == After(x) \ (late \cup ToSet(b))

Unread(r) == (r + 1)..Len(published)

(* A connected client finds every row it is owed among its unread          *)
(* messages once the listener is past it, and before any higher row.  What *)
(* a lag took away the table read makes up for.                            *)
Connected(c) == client[c].pc \in {"wait", "fetch"} /\ ~client[c].lagged /\ c \notin lossy
ChannelOf(x, b, r) ==
    \A q \in Owed(x, b) :
        /\ \A i \in 1..listener.cursor :
                log[i] = q => \E k \in Unread(r) : published[k] = q
        /\ \A j \in Unread(r) :
                published[j] > q => \E k \in Unread(r) : k < j /\ published[k] = q

GaplessOf(x, g, s) ==
    \A p \in (committed \cap Matching) \ late : s < p /\ p <= x => p \in ToSet(g)

ModeOf(c) ==
    /\ client[c].pc \in {"opening", "wait"} => ~client[c].lagged
    /\ client[c].pc = "fetch" => client[c].buffer = <<>>

ClientInv(c) ==
    /\ ModeOf(c)
    /\ RowsOf(client[c].cursor, client[c].buffer, got[c])
    /\ OrderOf(client[c].cursor, client[c].buffer, got[c])
    /\ BufferOf(client[c].cursor, client[c].buffer)
    /\ Connected(c) => ChannelOf(client[c].cursor, client[c].buffer, client[c].rx)
    /\ c \notin lossy /\ start[c] # None => GaplessOf(client[c].cursor, got[c], start[c])

Inv == TypeOK /\ LogInv /\ SessionInv /\ \A c \in Clients : ClientInv(c)

-----------------------------------------------------------------------------
(* Sorting a finite set of numbers *)

LEMMA PositionSets ==
    ASSUME NEW S \in SUBSET Positions
    PROVE  IsFiniteSet(S) /\ S \in SUBSET Nat /\ Cardinality(S) \in Nat
<1>1. IsFiniteSet(Positions) /\ Positions \subseteq Nat
  BY FS_Interval, EventStreamAssumption DEF Positions
<1>2. IsFiniteSet(S)
  BY <1>1, FS_Subset
<1> QED BY <1>1, <1>2, FS_CardinalityType

(* Every number's rank in the set, how many there are up to it, is its     *)
(* place in the sorted sequence; the ranks are all of 1..Cardinality.      *)
LEMMA RankIsPlace ==
    ASSUME NEW S \in SUBSET Nat, IsFiniteSet(S)
    PROVE  \E s \in [1..Cardinality(S) -> S] :
                \A i, j \in DOMAIN s : i < j => s[i] < s[j]
<1> DEFINE n == Cardinality(S)
           UpTo(x) == {y \in S : y <= x}
           rank == [x \in S |-> Cardinality(UpTo(x))]
<1>1. IsFiniteSet(S) /\ n \in Nat /\ \A x \in S : x \in Nat
  BY FS_CardinalityType
<1>2. \A x \in S : /\ IsFiniteSet(UpTo(x)) /\ Cardinality(UpTo(x)) \in Nat
                   /\ Cardinality(UpTo(x)) <= n /\ Cardinality(UpTo(x)) # 0
  <2> SUFFICES ASSUME NEW x \in S
               PROVE  /\ IsFiniteSet(UpTo(x)) /\ Cardinality(UpTo(x)) \in Nat
                      /\ Cardinality(UpTo(x)) <= n /\ Cardinality(UpTo(x)) # 0
    OBVIOUS
  <2>1. UpTo(x) \in SUBSET S /\ x \in UpTo(x)
    BY <1>1
  <2> HIDE DEF UpTo
  <2>2. IsFiniteSet(UpTo(x)) /\ Cardinality(UpTo(x)) <= n
    BY <1>1, <2>1, FS_Subset
  <2>3. Cardinality(UpTo(x)) \in Nat
    BY <2>2, FS_CardinalityType
  <2>4. Cardinality(UpTo(x)) # 0
    BY <2>1, <2>2, FS_EmptySet
  <2> QED BY <2>2, <2>3, <2>4
<1>3. \A x, y \in S : x < y => rank[x] < rank[y]
  <2> SUFFICES ASSUME NEW x \in S, NEW y \in S, x < y PROVE rank[x] < rank[y]
    OBVIOUS
  <2>1. UpTo(x) \in SUBSET UpTo(y) /\ y \in UpTo(y) /\ y \notin UpTo(x)
    <3>1. x \in Nat /\ y \in Nat
      BY <1>1
    <3>2. ASSUME NEW z \in S, z <= x PROVE z <= y
      <4>1. z \in Nat
        BY <1>1
      <4> QED BY <3>1, <3>2, <4>1
    <3>3. UpTo(x) \in SUBSET UpTo(y)
      BY <3>2
    <3>4. y <= y /\ ~(y <= x)
      BY <3>1
    <3> QED BY <3>3, <3>4
  <2> HIDE DEF UpTo
  <2>2. Cardinality(UpTo(x)) <= Cardinality(UpTo(y)) /\ Cardinality(UpTo(x)) # Cardinality(UpTo(y))
    BY <1>2, <2>1, FS_Subset
  <2> QED BY <1>2, <2>2
<1>4. rank \in [S -> 1..n]
  <2> SUFFICES ASSUME NEW x \in S PROVE Cardinality(UpTo(x)) \in 1..n
    OBVIOUS
  <2> HIDE DEF UpTo, n
  <2> QED BY <1>1, <1>2
<1> HIDE DEF rank, UpTo, n
<1>5. \A x, y \in S : rank[x] < rank[y] => x < y
  <2> SUFFICES ASSUME NEW x \in S, NEW y \in S, rank[x] < rank[y] PROVE x < y
    OBVIOUS
  <2>1. rank[x] \in Nat /\ rank[y] \in Nat /\ x \in Nat /\ y \in Nat
    BY <1>1, <1>4
  <2>2. ~(rank[y] < rank[x]) /\ x # y
    BY <2>1
  <2> QED BY <1>3, <2>1, <2>2
<1>6. rank \in Injection(S, 1..n)
  <2>1. \A x, y \in S : rank[x] = rank[y] => x = y
    <3> SUFFICES ASSUME NEW x \in S, NEW y \in S, rank[x] = rank[y], x # y PROVE FALSE
      OBVIOUS
    <3>1. rank[x] \in Nat /\ x \in Nat /\ y \in Nat
      BY <1>1, <1>4
    <3> QED BY <1>3, <3>1
  <2> QED BY <1>4, <2>1 DEF Injection, IsInjective
<1>7. IsFiniteSet(1..n) /\ Cardinality(1..n) = n
  BY <1>1, FS_Interval
<1>8. rank \in Surjection(S, 1..n)
  BY <1>6, <1>7, FS_Injection DEF n
<1>9. \A k \in 1..n : \E x \in S : rank[x] = k
  BY <1>8 DEF Surjection
<1> DEFINE s == [k \in 1..n |-> CHOOSE x \in S : rank[x] = k]
<1>10. \A k \in 1..n : s[k] \in S /\ rank[s[k]] = k
  BY <1>9
<1>11. s \in [1..n -> S]
  BY <1>10
<1> HIDE DEF s
<1>12. \A i, j \in DOMAIN s : i < j => s[i] < s[j]
  BY <1>5, <1>10, <1>11
<1> QED BY <1>11, <1>12 DEF n

LEMMA AscendingSorts ==
    ASSUME NEW S \in SUBSET Nat, IsFiniteSet(S)
    PROVE  /\ Ascending(S) \in Seq(S) /\ Len(Ascending(S)) = Cardinality(S)
           /\ \A i, j \in 1..Cardinality(S) : i < j => Ascending(S)[i] < Ascending(S)[j]
           /\ \A x \in S : \E i \in 1..Cardinality(S) : Ascending(S)[i] = x
<1> DEFINE n == Cardinality(S)
           a == Ascending(S)
<1>1. IsFiniteSet(S) /\ n \in Nat /\ \A x \in S : x \in Nat
  BY FS_CardinalityType
<1>2. a \in [1..n -> S] /\ \A i, j \in DOMAIN a : i < j => a[i] < a[j]
  BY RankIsPlace DEF Ascending
<1> HIDE DEF a
<1>3. \A i, j \in 1..n : i < j => a[i] < a[j]
  BY <1>2
<1>4. a \in Injection(1..n, S)
  <2>1. \A i, j \in 1..n : a[i] = a[j] => i = j
    <3> SUFFICES ASSUME NEW i \in 1..n, NEW j \in 1..n, a[i] = a[j], i # j PROVE FALSE
      OBVIOUS
    <3>1. a[i] \in Nat
      BY <1>1, <1>2
    <3>2. i < j \/ j < i
      BY <1>1
    <3> QED BY <1>3, <3>1, <3>2
  <2> QED BY <1>2, <2>1 DEF Injection, IsInjective
<1>5. IsFiniteSet(1..n) /\ Cardinality(1..n) = n
  BY <1>1, FS_Interval
<1>6. a \in Surjection(1..n, S)
  BY <1>1, <1>4, <1>5, FS_Injection
<1>7. a \in Seq(S) /\ Len(a) = n
  BY <1>1, <1>2
<1> QED BY <1>3, <1>6, <1>7 DEF Surjection, a

LEMMA HeadIsMax ==
    ASSUME NEW S \in SUBSET Nat, IsFiniteSet(S), S # {}
    PROVE  Max(S) \in S
<1> DEFINE n == Cardinality(S)
           a == Ascending(S)
<1>1. n \in Nat /\ n # 0 /\ \A x \in S : x \in Nat
  BY FS_CardinalityType, FS_EmptySet
<1>2. /\ a \in Seq(S) /\ Len(a) = n
      /\ \A i, j \in 1..n : i < j => a[i] < a[j]
      /\ \A x \in S : \E i \in 1..n : a[i] = x
  BY AscendingSorts
<1> HIDE DEF a, n
<1>3. a[n] \in S /\ a[n] \in Nat
  <2>1. n \in 1..Len(a)
    BY <1>1, <1>2
  <2>2. a[n] \in S
    BY <1>2, <2>1, ElementOfSeq
  <2> QED BY <1>1, <2>2
<1>4. \A y \in S : a[n] >= y
  <2> SUFFICES ASSUME NEW y \in S PROVE a[n] >= y
    OBVIOUS
  <2>1. PICK i \in 1..n : a[i] = y
    BY <1>2
  <2>2. y \in Nat
    BY <1>1
  <2>3. CASE i = n
    BY <1>3, <2>1, <2>3
  <2>4. CASE i < n
    <3>1. a[i] < a[n]
      BY <1>1, <1>2, <2>4
    <3> QED BY <1>3, <2>1, <2>2, <3>1
  <2> QED BY <1>1, <2>3, <2>4
<1> QED BY <1>3, <1>4 DEF Max

-----------------------------------------------------------------------------
(* Sequences of positions as sets *)

LEMMA SeqOfPositions ==
    ASSUME NEW s \in Seq(Positions)
    PROVE  /\ Len(s) \in Nat /\ DOMAIN s = 1..Len(s)
           /\ \A i \in 1..Len(s) : s[i] \in Positions /\ s[i] \in Nat \ {0}
           /\ \A x : x \in ToSet(s) <=> \E i \in 1..Len(s) : s[i] = x
           /\ ToSet(s) \subseteq Positions
<1>1. Len(s) \in Nat /\ DOMAIN s = 1..Len(s)
  OBVIOUS
<1>2. \A i \in 1..Len(s) : s[i] \in Positions
  OBVIOUS
<1>3. \A i \in 1..Len(s) : s[i] \in Nat \ {0}
  BY <1>2, EventStreamAssumption DEF Positions
<1> QED BY <1>1, <1>2, <1>3 DEF ToSet

LEMMA AppendedSet ==
    ASSUME NEW s \in Seq(Positions), NEW x \in Positions
    PROVE  /\ Append(s, x) \in Seq(Positions) /\ Len(Append(s, x)) = Len(s) + 1
           /\ \A i \in 1..Len(s) : Append(s, x)[i] = s[i]
           /\ Append(s, x)[Len(s) + 1] = x
           /\ ToSet(Append(s, x)) = ToSet(s) \cup {x}
<1>1. /\ Append(s, x) \in Seq(Positions) /\ Len(Append(s, x)) = Len(s) + 1
      /\ \A i \in 1..Len(s) : Append(s, x)[i] = s[i]
      /\ Append(s, x)[Len(s) + 1] = x
  BY AppendProperties
<1> DEFINE a == Append(s, x)
<1> HIDE DEF a
<1>2. /\ \A y : y \in ToSet(s) <=> \E i \in 1..Len(s) : s[i] = y
      /\ \A y : y \in ToSet(a) <=> \E i \in 1..Len(a) : a[i] = y
      /\ Len(s) \in Nat
  BY <1>1, SeqOfPositions DEF a
<1>3. Len(a) = Len(s) + 1 /\ (\A i \in 1..Len(s) : a[i] = s[i]) /\ a[Len(s) + 1] = x
  BY <1>1 DEF a
<1>4. ASSUME NEW y \in ToSet(a) PROVE y \in ToSet(s) \cup {x}
  <2>1. PICK i \in 1..Len(a) : a[i] = y
    BY <1>2
  <2>2. i \in 1..Len(s) \/ i = Len(s) + 1
    BY <1>2, <1>3
  <2> QED BY <1>2, <1>3, <2>1, <2>2
<1>5. ASSUME NEW y \in ToSet(s) PROVE y \in ToSet(a)
  <2>1. PICK i \in 1..Len(s) : s[i] = y
    BY <1>2
  <2>2. i \in 1..Len(a) /\ a[i] = y
    BY <1>2, <1>3, <2>1
  <2> QED BY <1>2, <2>2
<1>6. x \in ToSet(a)
  <2>1. Len(s) + 1 \in 1..Len(a)
    BY <1>2, <1>3
  <2> QED BY <1>2, <1>3, <2>1
<1>7. ToSet(a) = ToSet(s) \cup {x}
  BY <1>4, <1>5, <1>6
<1> QED BY <1>1, <1>7 DEF a

LEMMA TailSet ==
    ASSUME NEW s \in Seq(Positions), s # <<>>
    PROVE  /\ Head(s) = s[1] /\ Head(s) \in Positions /\ 1 \in 1..Len(s)
           /\ Tail(s) \in Seq(Positions) /\ Len(Tail(s)) = Len(s) - 1
           /\ \A i \in 1..(Len(s) - 1) : Tail(s)[i] = s[i + 1]
           /\ ToSet(s) = {Head(s)} \cup ToSet(Tail(s))
<1>1. /\ Head(s) = s[1] /\ Head(s) \in Positions
      /\ Tail(s) \in Seq(Positions) /\ Len(Tail(s)) = Len(s) - 1
      /\ \A i \in 1..Len(Tail(s)) : Tail(s)[i] = s[i + 1]
  BY HeadTailProperties
<1> DEFINE u == Tail(s)
<1> HIDE DEF u
<1>2. /\ \A y : y \in ToSet(s) <=> \E i \in 1..Len(s) : s[i] = y
      /\ \A y : y \in ToSet(u) <=> \E i \in 1..Len(u) : u[i] = y
      /\ Len(s) \in Nat
  BY <1>1, SeqOfPositions DEF u
<1>3. Len(s) # 0
  BY EmptySeq
<1>4. Len(u) = Len(s) - 1 /\ \A i \in 1..(Len(s) - 1) : u[i] = s[i + 1]
  BY <1>1 DEF u
<1>5. ASSUME NEW y \in ToSet(s) PROVE y \in {s[1]} \cup ToSet(u)
  <2>1. PICK i \in 1..Len(s) : s[i] = y
    BY <1>2
  <2>2. CASE i # 1
    <3>1. i - 1 \in 1..(Len(s) - 1) /\ (i - 1) + 1 = i
      BY <1>2, <2>2
    <3>2. u[i - 1] = s[i]
      BY <1>4, <3>1
    <3> QED BY <1>2, <1>4, <2>1, <3>1, <3>2
  <2> QED BY <2>1, <2>2
<1>6. ASSUME NEW y \in ToSet(u) PROVE y \in ToSet(s)
  <2>1. PICK i \in 1..Len(u) : u[i] = y
    BY <1>2
  <2>2. i + 1 \in 1..Len(s) /\ s[i + 1] = y
    BY <1>2, <1>4, <2>1
  <2> QED BY <1>2, <2>2
<1>7. 1 \in 1..Len(s)
  BY <1>2, <1>3
<1>8. ToSet(s) = {s[1]} \cup ToSet(u)
  BY <1>2, <1>5, <1>6, <1>7
<1> QED BY <1>1, <1>4, <1>7, <1>8 DEF u

LEMMA RowSets ==
    ASSUME TypeOK
    PROVE  /\ committed \subseteq Positions /\ late \subseteq committed
           /\ \A k : After(k) \in SUBSET Positions
           /\ \A x \in Positions : x \in Nat \ {0}
<1>1. committed \subseteq Positions /\ late \subseteq committed
  BY SeqOfPositions DEF TypeOK
<1>2. \A k : After(k) \in SUBSET Positions
  BY <1>1 DEF After
<1>3. \A x \in Positions : x \in Nat \ {0}
  BY EventStreamAssumption DEF Positions
<1> QED BY <1>1, <1>2, <1>3

(* The seqs of the committed rows. *)
LEMMA SeqSets ==
    ASSUME TypeOK
    PROVE  /\ CommittedSeqs \in SUBSET Nat /\ IsFiniteSet(CommittedSeqs)
           /\ \A k \in CommittedSeqs : k \in 1..Len(log) /\ log[k] \in committed
           /\ \A q \in committed : \E k \in CommittedSeqs : log[k] = q
           /\ HeadSeq \in Nat /\ HeadSeq <= Len(log)
<1>1. /\ Len(log) \in Nat /\ DOMAIN log = 1..Len(log)
      /\ \A x : x \in ToSet(log) <=> \E i \in 1..Len(log) : log[i] = x
  BY SeqOfPositions DEF TypeOK
<1>2. CommittedSeqs \in SUBSET (1..Len(log)) /\ CommittedSeqs \in SUBSET Nat
  BY <1>1 DEF CommittedSeqs
<1>3. IsFiniteSet(CommittedSeqs)
  <2>1. IsFiniteSet(1..Len(log))
    BY <1>1, FS_Interval
  <2> QED BY <1>2, <2>1, FS_Subset
<1>4. \A q \in committed : \E k \in CommittedSeqs : log[k] = q
  BY <1>1 DEF CommittedSeqs, TypeOK
<1>5. CommittedSeqs # {} => Max(CommittedSeqs) \in CommittedSeqs
  BY <1>2, <1>3, HeadIsMax
<1>6. HeadSeq \in Nat /\ HeadSeq <= Len(log)
  <2>1. CASE CommittedSeqs = {}
    BY <1>1, <2>1 DEF HeadSeq
  <2>2. CASE CommittedSeqs # {}
    <3>1. HeadSeq = Max(CommittedSeqs)
      BY <2>2 DEF HeadSeq
    <3>2. HeadSeq \in 1..Len(log)
      BY <1>2, <1>5, <2>2, <3>1
    <3> QED BY <1>1, <3>2
  <2> QED BY <2>1, <2>2
<1>7. \A k \in CommittedSeqs : k \in 1..Len(log) /\ log[k] \in committed
  BY <1>2 DEF CommittedSeqs
<1> QED BY <1>2, <1>3, <1>4, <1>6, <1>7

-----------------------------------------------------------------------------
(* The table read of a client: ascending, from its position on, and        *)
(* everything there is unless LIMIT cuts it.                               *)
LEMMA FetchedRows ==
    ASSUME TypeOK, NEW c \in Clients
    PROVE  /\ Fetched(c) \in Seq(Positions) /\ Len(Fetched(c)) <= LIMIT
           /\ \A i, j \in 1..Len(Fetched(c)) : i < j => Fetched(c)[i] < Fetched(c)[j]
           /\ ToSet(Fetched(c)) \subseteq After(client[c].cursor)
           /\ \A q \in After(client[c].cursor), b \in ToSet(Fetched(c)) :
                    q < b => q \in ToSet(Fetched(c))
           /\ Cardinality(After(client[c].cursor)) <= LIMIT =>
                    ToSet(Fetched(c)) = After(client[c].cursor)
<1> USE EventStreamAssumption
<1> DEFINE S == After(client[c].cursor)
           n == Cardinality(S)
           a == Ascending(S)
           m == IF Len(a) < LIMIT THEN Len(a) ELSE LIMIT
           f == SubSeq(a, 1, m)
<1>0. f = Fetched(c)
  BY DEF Fetched
<1>1. S \in SUBSET Positions /\ \A x \in S : x \in Positions /\ x \in Nat
  BY RowSets
<1>1a. S \in SUBSET Nat /\ IsFiniteSet(S)
  BY <1>1, PositionSets
<1> HIDE DEF S
<1>2. n \in Nat
  BY <1>1, PositionSets
<1>3. /\ a \in Seq(S) /\ Len(a) = n
      /\ \A i, j \in 1..n : i < j => a[i] < a[j]
      /\ \A x \in S : \E i \in 1..n : a[i] = x
  BY <1>1a, AscendingSorts
<1> HIDE DEF a, n
<1>4. m \in Nat /\ m <= n /\ m <= LIMIT /\ (n <= LIMIT => m = n)
  BY <1>2, <1>3
<1> HIDE DEF m
<1>5. \A i \in 1..m : i \in 1..n /\ a[i] \in S /\ a[i] \in Positions /\ a[i] \in Nat
  BY <1>1, <1>2, <1>3, <1>4
<1>6. /\ f \in Seq(Positions) /\ Len(f) = m
      /\ \A i \in 1..m : f[i] = a[i]
  <2>1. /\ f \in Seq(Positions)
        /\ Len(f) = IF 1 <= m THEN m - 1 + 1 ELSE 0
        /\ \A i \in 1..(m - 1 + 1) : f[i] = a[1 + i - 1]
    BY <1>4, <1>5, SubSeqProperties
  <2>2. m - 1 + 1 = m /\ \A i \in 1..m : 1 + i - 1 = i
    BY <1>4
  <2> QED BY <1>4, <2>1, <2>2
<1> HIDE DEF f
<1>7. \A x : x \in ToSet(f) <=> \E i \in 1..m : f[i] = x
  BY <1>6, SeqOfPositions
<1>8. ToSet(f) \subseteq S
  BY <1>5, <1>6, <1>7
<1>9. \A i, j \in 1..m : i < j => f[i] < f[j]
  BY <1>3, <1>5, <1>6
<1>10. ASSUME NEW q \in S, NEW b \in ToSet(f), q < b PROVE q \in ToSet(f)
  <2>1. PICK j \in 1..m : f[j] = b
    BY <1>7
  <2>2. PICK i \in 1..n : a[i] = q
    BY <1>3
  <2>3. a[j] = b /\ j \in 1..n /\ q \in Nat /\ b \in Nat
    BY <1>1, <1>5, <1>6, <2>1
  <2>4. ~(j < i) /\ i # j
    <3>1. ASSUME j < i PROVE FALSE
      <4>1. b < q
        BY <1>3, <2>2, <2>3, <3>1
      <4> QED BY <1>10, <2>3, <4>1
    <3>2. ASSUME i = j PROVE FALSE
      BY <1>10, <2>2, <2>3, <3>2
    <3> QED BY <3>1, <3>2
  <2>5. i \in 1..m
    BY <1>2, <1>4, <2>4
  <2> QED BY <1>6, <1>7, <2>2, <2>5
<1>11. ASSUME n <= LIMIT PROVE ToSet(f) = S
  <2>1. m = n
    BY <1>4, <1>11
  <2>2. S \subseteq ToSet(f)
    BY <1>3, <1>6, <1>7, <2>1
  <2> QED BY <1>8, <2>2
<1>12. /\ f \in Seq(Positions) /\ Len(f) <= LIMIT
       /\ \A i, j \in 1..Len(f) : i < j => f[i] < f[j]
  BY <1>4, <1>6, <1>9
<1>13. /\ Fetched(c) \in Seq(Positions) /\ Len(Fetched(c)) <= LIMIT
       /\ \A i, j \in 1..Len(Fetched(c)) : i < j => Fetched(c)[i] < Fetched(c)[j]
       /\ ToSet(Fetched(c)) \subseteq S
       /\ \A q \in S, b \in ToSet(Fetched(c)) : q < b => q \in ToSet(Fetched(c))
       /\ n <= LIMIT => ToSet(Fetched(c)) = S
  BY <1>0, <1>8, <1>10, <1>11, <1>12
<1> QED BY <1>13 DEF S, n

-----------------------------------------------------------------------------
(* What the steps do *)

(* Steps of a connection leave the log, the listener, the channel and the  *)
(* other connections alone, and never clear the mark of a loss.            *)
Alone(c) ==
    /\ UNCHANGED <<log, committed, late, listener, published>>
    /\ lossy \subseteq lossy' /\ lossy' \subseteq lossy \cup {c}
    /\ client' \in [Clients -> ClientState]
    /\ start' \in [Clients -> {None} \cup (0..MaxEvents)]
    /\ got' \in [Clients -> Seq(Positions)]
    /\ \A d \in Clients : d # c =>
          client'[d] = client[d] /\ start'[d] = start[d] /\ got'[d] = got[d]
    /\ failures' \in 0..MaxFailures /\ opens' \in 0..MaxOpens

LEMMA OpenEffect ==
    ASSUME TypeOK, NEW c \in Clients, Open(c)
    PROVE  /\ Alone(c) /\ got' = got /\ lossy' = lossy
           /\ client'[c].pc = "opening" /\ client'[c].rx = client[c].rx
           /\ client'[c].buffer = <<>> /\ client'[c].lagged = FALSE
           /\ got[c] # <<>> => client'[c].cursor = Last(got[c]) /\ start'[c] = start[c]
           /\ got[c] = <<>> => /\ start'[c] = client'[c].cursor
                               /\ client'[c].cursor \in committed \cup {0}
<1> USE EventStreamAssumption
<1>0. client[c] \in ClientState /\ got[c] \in Seq(Positions)
  BY DEF TypeOK
<1>1. CurrentHead \in committed \cup {0}
  <2>1. committed \cap OfContract \in SUBSET Positions
    BY RowSets
  <2>2. committed \cap OfContract \in SUBSET Nat /\ IsFiniteSet(committed \cap OfContract)
    BY <2>1, PositionSets
  <2> QED BY <2>2, HeadIsMax DEF CurrentHead
<1>2. CurrentHead \in 0..MaxEvents
  BY <1>1, RowSets DEF Positions
<1>3. got[c] # <<>> => Last(got[c]) \in 0..MaxEvents
  <2>1. got[c] # <<>> => Len(got[c]) \in 1..Len(got[c])
    BY <1>0, EmptySeq
  <2>2. got[c] # <<>> => got[c][Len(got[c])] \in Positions
    BY <1>0, <2>1
  <2> QED BY <2>2 DEF Last, Positions
<1>4. PICK from \in 0..MaxEvents : from = IF got[c] = <<>> THEN CurrentHead ELSE Last(got[c])
  BY <1>2, <1>3
<1>5. /\ client' = [client EXCEPT ![c].pc = "opening", ![c].cursor = from,
                                  ![c].buffer = <<>>, ![c].lagged = FALSE]
      /\ start' = IF got[c] = <<>> THEN [start EXCEPT ![c] = from] ELSE start
  BY <1>4 DEF Open
<1>6. PICK e \in Seq(Positions) : e = <<>>
  BY EmptySeq
<1>7. /\ client' \in [Clients -> ClientState]
      /\ client'[c].pc = "opening" /\ client'[c].rx = client[c].rx
      /\ client'[c].buffer = <<>> /\ client'[c].lagged = FALSE
      /\ client'[c].cursor = from
      /\ \A d \in Clients : d # c => client'[d] = client[d]
  <2>1. client' = [client EXCEPT ![c].pc = "opening", ![c].cursor = from,
                                 ![c].buffer = e, ![c].lagged = FALSE]
    BY <1>5, <1>6
  <2>2. /\ client' \in [Clients -> ClientState]
        /\ client'[c].pc = "opening" /\ client'[c].rx = client[c].rx
        /\ client'[c].buffer = e /\ client'[c].lagged = FALSE
        /\ client'[c].cursor = from
        /\ \A d \in Clients : d # c => client'[d] = client[d]
    BY <1>0, <2>1 DEF TypeOK, ClientState
  <2> QED BY <1>6, <2>2
<1>8. /\ start' \in [Clients -> {None} \cup (0..MaxEvents)]
      /\ \A d \in Clients : d # c => start'[d] = start[d]
      /\ start'[c] = IF got[c] = <<>> THEN from ELSE start[c]
  BY <1>5 DEF TypeOK
<1>9. opens' \in 0..MaxOpens /\ failures' \in 0..MaxFailures
  BY DEF Open, TypeOK
<1>10. Alone(c)
  BY <1>7, <1>8, <1>9 DEF Open, Alone, TypeOK
<1> QED BY <1>1, <1>4, <1>7, <1>8, <1>10 DEF Open

LEMMA SubscribeEffect ==
    ASSUME TypeOK, NEW c \in Clients, Subscribe(c)
    PROVE  /\ Alone(c) /\ got' = got /\ start' = start
           /\ client'[c].pc = "wait" /\ client'[c].rx = Len(published)
           /\ client'[c].cursor = client[c].cursor /\ client'[c].buffer = client[c].buffer
           /\ client'[c].lagged = client[c].lagged
<1>0. client[c] \in ClientState /\ Len(published) \in Nat
  BY DEF TypeOK
<1>1. /\ client' \in [Clients -> ClientState]
      /\ client'[c].pc = "wait" /\ client'[c].rx = Len(published)
      /\ client'[c].cursor = client[c].cursor /\ client'[c].buffer = client[c].buffer
      /\ client'[c].lagged = client[c].lagged
      /\ \A d \in Clients : d # c => client'[d] = client[d]
  BY <1>0 DEF Subscribe, TypeOK, ClientState
<1>2. lossy \subseteq lossy' /\ lossy' \subseteq lossy \cup {c}
  BY DEF Subscribe
<1> QED BY <1>1, <1>2 DEF Subscribe, Alone, TypeOK

LEMMA EmitEffect ==
    ASSUME TypeOK, NEW c \in Clients, EmitBuffered(c)
    PROVE  /\ Alone(c) /\ start' = start /\ lossy' = lossy
           /\ got'[c] = Append(got[c], Head(client[c].buffer))
           /\ client'[c].cursor = Head(client[c].buffer)
           /\ client'[c].buffer = Tail(client[c].buffer)
           /\ client'[c].pc = client[c].pc /\ client'[c].rx = client[c].rx
           /\ client'[c].lagged = client[c].lagged
<1>0. client[c] \in ClientState /\ got[c] \in Seq(Positions)
  BY DEF TypeOK
<1>1. client[c].buffer \in Seq(Positions) /\ client[c].buffer # <<>>
  BY <1>0 DEF ClientState, EmitBuffered
<1>2. /\ Head(client[c].buffer) \in Positions /\ Tail(client[c].buffer) \in Seq(Positions)
      /\ Head(client[c].buffer) \in 0..MaxEvents
  <2>1. Head(client[c].buffer) \in Positions /\ Tail(client[c].buffer) \in Seq(Positions)
    BY <1>1, TailSet
  <2>2. \A x \in Positions : x \in 0..MaxEvents
    BY EventStreamAssumption DEF Positions
  <2> QED BY <2>1, <2>2
<1>3. PICK h \in 0..MaxEvents, u \in Seq(Positions) :
            h = Head(client[c].buffer) /\ u = Tail(client[c].buffer)
  BY <1>2
<1>4. client' = [client EXCEPT ![c].cursor = h, ![c].buffer = u]
  BY <1>3 DEF EmitBuffered
<1>5. /\ client' \in [Clients -> ClientState]
      /\ client'[c].cursor = h /\ client'[c].buffer = u
      /\ client'[c].pc = client[c].pc /\ client'[c].rx = client[c].rx
      /\ client'[c].lagged = client[c].lagged
      /\ \A d \in Clients : d # c => client'[d] = client[d]
  BY <1>0, <1>4 DEF TypeOK, ClientState
<1>6. Append(got[c], h) \in Seq(Positions)
  BY <1>0, <1>2, <1>3, AppendedSet
<1>7. /\ got' \in [Clients -> Seq(Positions)] /\ got'[c] = Append(got[c], h)
      /\ \A d \in Clients : d # c => got'[d] = got[d]
  <2>1. got' = [got EXCEPT ![c] = Append(got[c], h)]
    BY <1>3 DEF EmitBuffered, Deliver
  <2> QED BY <1>6, <2>1 DEF TypeOK
<1> QED BY <1>3, <1>5, <1>7 DEF EmitBuffered, Alone, TypeOK

LEMMA ReceiveEffect ==
    ASSUME TypeOK, NEW c \in Clients, Receive(c)
    PROVE  /\ Alone(c) /\ start' = start /\ lossy' = lossy
           /\ client[c].rx + 1 \in 1..Len(published)
           /\ client'[c].pc = client[c].pc /\ client'[c].lagged = client[c].lagged
           /\ client'[c].buffer = client[c].buffer /\ client'[c].rx = client[c].rx + 1
           /\ LET p == published[client[c].rx + 1] IN
                IF Wants(c, p)
                THEN client'[c].cursor = p /\ got'[c] = Append(got[c], p)
                ELSE client'[c].cursor = client[c].cursor /\ got'[c] = got[c]
<1>0. /\ client[c] \in ClientState /\ got[c] \in Seq(Positions)
      /\ published \in Seq(Positions) /\ client[c].rx <= Len(published)
  BY DEF TypeOK
<1>1. client[c].rx \in Nat /\ Len(published) \in Nat /\ client[c].rx + 1 \in Nat
  BY <1>0 DEF ClientState
<1>2. client[c].rx + 1 \in 1..Len(published)
  <2>1. Len(published) - client[c].rx >= 1
    BY <1>1, EventStreamAssumption DEF Receive, Pending
  <2> QED BY <1>1, <2>1
<1>3. PICK p \in Positions : p = published[client[c].rx + 1]
  BY <1>0, <1>2
<1>4. p \in 0..MaxEvents
  BY EventStreamAssumption DEF Positions
<1>5. CASE Wants(c, p)
  <2>1. /\ client' = [client EXCEPT ![c].cursor = p, ![c].rx = client[c].rx + 1]
        /\ got' = [got EXCEPT ![c] = Append(got[c], p)]
    BY <1>3, <1>5 DEF Receive, Deliver
  <2>2. /\ client' \in [Clients -> ClientState]
        /\ client'[c].cursor = p /\ client'[c].rx = client[c].rx + 1
        /\ client'[c].pc = client[c].pc /\ client'[c].buffer = client[c].buffer
        /\ client'[c].lagged = client[c].lagged
        /\ \A d \in Clients : d # c => client'[d] = client[d]
    BY <1>0, <1>1, <1>4, <2>1 DEF TypeOK, ClientState
  <2>3. Append(got[c], p) \in Seq(Positions)
    BY <1>0, AppendedSet
  <2>4. /\ got' \in [Clients -> Seq(Positions)] /\ got'[c] = Append(got[c], p)
        /\ \A d \in Clients : d # c => got'[d] = got[d]
    BY <2>1, <2>3 DEF TypeOK
  <2>5. Alone(c) /\ start' = start /\ lossy' = lossy
    BY <2>2, <2>4 DEF Receive, Alone, TypeOK
  <2> QED BY <1>2, <1>3, <1>5, <2>2, <2>4, <2>5
<1>6. CASE ~Wants(c, p)
  <2>1. client' = [client EXCEPT ![c].rx = client[c].rx + 1] /\ got' = got
    BY <1>3, <1>6 DEF Receive
  <2>2. /\ client' \in [Clients -> ClientState]
        /\ client'[c].cursor = client[c].cursor /\ client'[c].rx = client[c].rx + 1
        /\ client'[c].pc = client[c].pc /\ client'[c].buffer = client[c].buffer
        /\ client'[c].lagged = client[c].lagged
        /\ \A d \in Clients : d # c => client'[d] = client[d]
    BY <1>0, <1>1, <2>1 DEF TypeOK, ClientState
  <2>3. Alone(c) /\ start' = start /\ lossy' = lossy
    BY <2>1, <2>2 DEF Receive, Alone, TypeOK
  <2> QED BY <1>2, <1>3, <1>6, <2>1, <2>2, <2>3
<1> QED BY <1>5, <1>6

(* The steps that only change where a connection is in its loop. *)
LEMMA LaggedEffect ==
    ASSUME TypeOK, NEW c \in Clients, Lagged(c)
    PROVE  /\ Alone(c) /\ start' = start /\ got' = got
           /\ client'[c].pc = "fetch" /\ client'[c].lagged
           /\ client'[c].cursor = client[c].cursor /\ client'[c].buffer = client[c].buffer
           /\ client'[c].rx \in Nat /\ client'[c].rx <= Len(published)
           /\ client[c].buffer = <<>>
<1>0. /\ client[c] \in ClientState /\ Len(published) \in Nat
      /\ client[c].rx <= Len(published)
  BY DEF TypeOK
<1>1. PICK r \in Nat : r = Len(published) - SSE_BROADCAST_CAPACITY /\ r <= Len(published)
  <2>1. client[c].rx \in Nat /\ Len(published) - client[c].rx > SSE_BROADCAST_CAPACITY
    BY <1>0 DEF Lagged, Pending, ClientState
  <2>2. SSE_BROADCAST_CAPACITY \in Nat
    BY EventStreamAssumption
  <2>3. /\ Len(published) - SSE_BROADCAST_CAPACITY \in Nat
        /\ Len(published) - SSE_BROADCAST_CAPACITY <= Len(published)
    BY <1>0, <2>1, <2>2
  <2> QED BY <2>3
<1>2. client' = [client EXCEPT ![c].pc = "fetch", ![c].lagged = TRUE, ![c].rx = r]
  BY <1>1 DEF Lagged
<1>3. /\ client' \in [Clients -> ClientState]
      /\ client'[c].pc = "fetch" /\ client'[c].lagged /\ client'[c].rx = r
      /\ client'[c].cursor = client[c].cursor /\ client'[c].buffer = client[c].buffer
      /\ \A d \in Clients : d # c => client'[d] = client[d]
  BY <1>0, <1>2 DEF TypeOK, ClientState
<1> QED BY <1>1, <1>3 DEF Lagged, Alone, TypeOK

LEMMA FetchEffect ==
    ASSUME TypeOK, NEW c \in Clients, Fetch(c)
    PROVE  /\ Alone(c) /\ start' = start /\ got' = got
           /\ client'[c].pc = "wait" /\ client'[c].lagged = FALSE
           /\ client'[c].cursor = client[c].cursor /\ client'[c].rx = client[c].rx
           /\ client'[c].buffer = Fetched(c)
           /\ client[c].lagged /\ Cardinality(After(client[c].cursor)) > LIMIT => c \in lossy'
<1>0. client[c] \in ClientState
  BY DEF TypeOK
<1>1. PICK f \in Seq(Positions) : f = Fetched(c)
  BY FetchedRows
<1>2. client' = [client EXCEPT ![c].pc = "wait", ![c].lagged = FALSE, ![c].buffer = f]
  BY <1>1 DEF Fetch
<1>3. /\ client' \in [Clients -> ClientState]
      /\ client'[c].pc = "wait" /\ client'[c].lagged = FALSE /\ client'[c].buffer = f
      /\ client'[c].cursor = client[c].cursor /\ client'[c].rx = client[c].rx
      /\ \A d \in Clients : d # c => client'[d] = client[d]
  BY <1>0, <1>2 DEF TypeOK, ClientState
<1>4. /\ lossy \subseteq lossy' /\ lossy' \subseteq lossy \cup {c}
      /\ client[c].lagged /\ Cardinality(After(client[c].cursor)) > LIMIT => c \in lossy'
  BY DEF Fetch
<1> QED BY <1>1, <1>3, <1>4 DEF Fetch, Alone, TypeOK

LEMMA MoveEffect ==
    ASSUME TypeOK, NEW c \in Clients, QuietPeriod(c) \/ FetchFails(c) \/ Close(c)
    PROVE  /\ Alone(c) /\ start' = start /\ got' = got
           /\ client'[c].cursor = client[c].cursor /\ client'[c].rx = client[c].rx
           /\ client'[c].buffer = client[c].buffer
           /\ \/ client'[c].pc = "off"
              \/ client'[c].pc = "fetch" /\ client[c].pc = "wait" /\ client[c].buffer = <<>>
                    /\ client'[c].lagged = client[c].lagged
              \/ client'[c].pc = "wait" /\ client'[c].lagged = FALSE
                    /\ client[c].pc = "fetch" /\ (client[c].lagged => c \in lossy')
<1>0. client[c] \in ClientState
  BY DEF TypeOK
<1>1. CASE QuietPeriod(c)
  <2>1. /\ client' \in [Clients -> ClientState]
        /\ client'[c].cursor = client[c].cursor /\ client'[c].rx = client[c].rx
        /\ client'[c].buffer = client[c].buffer
        /\ client'[c].pc = "fetch" /\ client'[c].lagged = client[c].lagged
        /\ \A d \in Clients : d # c => client'[d] = client[d]
    BY <1>0, <1>1 DEF QuietPeriod, TypeOK, ClientState
  <2> QED BY <1>1, <2>1 DEF QuietPeriod, Alone, TypeOK
<1>2. CASE FetchFails(c)
  <2>1. /\ client' \in [Clients -> ClientState]
        /\ client'[c].cursor = client[c].cursor /\ client'[c].rx = client[c].rx
        /\ client'[c].buffer = client[c].buffer
        /\ client'[c].pc = "wait" /\ client'[c].lagged = FALSE
        /\ \A d \in Clients : d # c => client'[d] = client[d]
    BY <1>0, <1>2 DEF FetchFails, TypeOK, ClientState
  <2>2. failures' \in 0..MaxFailures
    BY <1>2, EventStreamAssumption DEF FetchFails, TypeOK
  <2>3. /\ lossy \subseteq lossy' /\ lossy' \subseteq lossy \cup {c}
        /\ client[c].lagged => c \in lossy'
    BY <1>2 DEF FetchFails
  <2> QED BY <1>2, <2>1, <2>2, <2>3 DEF FetchFails, Alone, TypeOK
<1>3. CASE Close(c)
  <2>1. /\ client' \in [Clients -> ClientState]
        /\ client'[c].cursor = client[c].cursor /\ client'[c].rx = client[c].rx
        /\ client'[c].buffer = client[c].buffer /\ client'[c].pc = "off"
        /\ \A d \in Clients : d # c => client'[d] = client[d]
    BY <1>0, <1>3 DEF Close, TypeOK, ClientState
  <2> QED BY <1>3, <2>1 DEF Close, Alone, TypeOK
<1> QED BY <1>1, <1>2, <1>3

-----------------------------------------------------------------------------
(* An insert makes the log longer, and nothing else. *)
LEMMA InsertEffect ==
    ASSUME TypeOK, NEW p \in Positions, Insert(p)
    PROVE  /\ UNCHANGED <<committed, late, published, listener, client, start, got, lossy>>
           /\ log' \in Seq(Positions) /\ Len(log') = Len(log) + 1 /\ IsInjective(log')
           /\ \A i \in 1..Len(log) : log'[i] = log[i]
           /\ ToSet(log) \subseteq ToSet(log')
           /\ CommittedSeqs' = CommittedSeqs
<1>1. log \in Seq(Positions) /\ log' = Append(log, p) /\ Len(log) \in Nat
  BY DEF TypeOK, Insert
<1>2. /\ log' \in Seq(Positions) /\ Len(log') = Len(log) + 1
      /\ \A i \in 1..Len(log) : log'[i] = log[i]
      /\ log'[Len(log) + 1] = p
      /\ ToSet(log') = ToSet(log) \cup {p}
  BY <1>1, AppendedSet
<1>3. p \notin ToSet(log) /\ committed' = committed
  BY DEF Insert
<1>4. /\ \A i \in 1..Len(log) : log[i] # p
      /\ DOMAIN log' = 1..(Len(log) + 1) /\ DOMAIN log = 1..Len(log)
  BY <1>1, <1>2, <1>3, SeqOfPositions
<1>5. IsInjective(log')
  <2>1. \A i, j \in 1..Len(log) : log[i] = log[j] => i = j
    BY <1>1, SeqOfPositions DEF TypeOK, IsInjective
  <2>2. ASSUME NEW i \in 1..(Len(log) + 1), NEW j \in 1..(Len(log) + 1), log'[i] = log'[j]
        PROVE  i = j
    <3>1. (i \in 1..Len(log) \/ i = Len(log) + 1) /\ (j \in 1..Len(log) \/ j = Len(log) + 1)
      BY <1>1
    <3> QED BY <1>2, <1>4, <2>1, <2>2, <3>1
  <2> QED BY <1>4, <2>2 DEF IsInjective
<1>6. CommittedSeqs' = CommittedSeqs
  <2>1. p \notin committed
    BY <1>3 DEF TypeOK
  <2>2. \A k : k \in 1..(Len(log) + 1) <=> k \in 1..Len(log) \/ k = Len(log) + 1
    BY <1>1
  <2> QED BY <1>2, <1>3, <1>4, <2>1, <2>2 DEF CommittedSeqs
<1> QED BY <1>2, <1>5, <1>6 DEF Insert

(* A committed row that is not late is above every committed row, and the  *)
(* listener's cursor is not beyond it; a row that it overtakes is late.    *)
LEMMA CommitEffect ==
    ASSUME TypeOK, NEW p \in Positions, Commit(p)
    PROVE  /\ UNCHANGED <<log, published, client, start, got, lossy>>
           /\ committed' = committed \cup {p} /\ p \notin committed /\ p \in ToSet(log)
           /\ late \subseteq late' /\ late' \subseteq committed'
           /\ p \notin late' => (\A q \in committed : q < p) /\ ~Passed(p)
           /\ \A q \in committed \ late' : Before(p, q) => p < q
           /\ listener' \in ListenerState
           /\ listener'.cursor = listener.cursor /\ listener'.last_seen = listener.last_seen
           /\ listener'.pc = listener.pc
<1>1. /\ UNCHANGED <<log, published, client, start, got, lossy>>
      /\ committed' = committed \cup {p} /\ p \notin committed /\ p \in ToSet(log)
  BY DEF Commit
<1>2. \A q \in committed : q \in Nat /\ p \in Nat /\ q # p
  BY <1>1, RowSets
<1>3. late \subseteq late' /\ late' \subseteq committed'
  BY <1>1 DEF Commit, TypeOK
<1>4. p \notin late' => ~Passed(p) /\ \A q \in committed : ~(q > p)
  BY DEF Commit
<1>5. \A q \in committed \ late' : ~(q < p /\ Before(p, q))
  BY DEF Commit
<1>6. /\ listener' \in ListenerState
      /\ listener'.cursor = listener.cursor /\ listener'.last_seen = listener.last_seen
      /\ listener'.pc = listener.pc
  BY DEF Commit, TypeOK, ListenerState
<1>7. p \notin late' => (\A q \in committed : q < p) /\ ~Passed(p)
  BY <1>2, <1>4
<1>8. \A q \in committed \ late' : Before(p, q) => p < q
  BY <1>2, <1>5
<1> QED BY <1>1, <1>3, <1>6, <1>7, <1>8

(* A batch is the committed rows between the old and the new cursor, in    *)
(* seq order.                                                              *)
LEMMA BatchRows ==
    ASSUME TypeOK
    PROVE  /\ Batch \in Seq(Nat) /\ Len(Batch) \in Nat /\ DOMAIN Batch = 1..Len(Batch)
           /\ \A i \in 1..Len(Batch) : Batch[i] \in CommittedSeqs /\ listener.cursor < Batch[i]
           /\ \A i, j \in 1..Len(Batch) : i < j => Batch[i] < Batch[j]
           /\ \A k \in CommittedSeqs, i \in 1..Len(Batch) :
                 listener.cursor < k /\ k <= Batch[i] => \E j \in 1..Len(Batch) : Batch[j] = k
<1> USE EventStreamAssumption
<1> DEFINE S == Unbroadcast
           n == Cardinality(S)
           a == Ascending(S)
           m == IF Len(a) < CATCH_UP_BATCH THEN Len(a) ELSE CATCH_UP_BATCH
           f == SubSeq(a, 1, m)
<1>0. f = Batch
  BY DEF Batch
<1>1. /\ S \in SUBSET Nat /\ IsFiniteSet(S) /\ listener.cursor \in Nat
      /\ \A k : k \in S <=> k \in CommittedSeqs /\ listener.cursor < k
  <2>1. CommittedSeqs \in SUBSET Nat /\ IsFiniteSet(CommittedSeqs) /\ listener.cursor \in Nat
    BY SeqSets DEF TypeOK, ListenerState
  <2>2. \A k : k \in S <=> k \in CommittedSeqs /\ listener.cursor < k
    BY <2>1 DEF Unbroadcast
  <2> HIDE DEF S
  <2> QED BY <2>1, <2>2, FS_Subset
<1> HIDE DEF S
<1>2. n \in Nat
  BY <1>1, FS_CardinalityType
<1>3. /\ a \in Seq(S) /\ Len(a) = n
      /\ \A i, j \in 1..n : i < j => a[i] < a[j]
      /\ \A x \in S : \E i \in 1..n : a[i] = x
  BY <1>1, AscendingSorts
<1> HIDE DEF a, n
<1>4. m \in Nat /\ m <= n
  BY <1>2, <1>3
<1> HIDE DEF m
<1>5. \A i \in 1..m : i \in 1..n /\ a[i] \in S /\ a[i] \in Nat
  <2>1. \A i \in 1..m : i \in 1..n
    BY <1>2, <1>4
  <2>2. \A i \in 1..n : a[i] \in S
    BY <1>3
  <2> QED BY <1>1, <2>1, <2>2
<1>6. f \in Seq(Nat) /\ Len(f) = m /\ \A i \in 1..m : f[i] = a[i]
  <2>1. /\ f \in Seq(Nat)
        /\ Len(f) = IF 1 <= m THEN m - 1 + 1 ELSE 0
        /\ \A i \in 1..(m - 1 + 1) : f[i] = a[1 + i - 1]
    BY <1>4, <1>5, SubSeqProperties
  <2>2. m - 1 + 1 = m /\ \A i \in 1..m : 1 + i - 1 = i
    BY <1>4
  <2> QED BY <1>4, <2>1, <2>2
<1> HIDE DEF f
<1>7. DOMAIN f = 1..m
  BY <1>6
<1>8. \A i \in 1..m : f[i] \in CommittedSeqs /\ listener.cursor < f[i]
  BY <1>1, <1>5, <1>6
<1>9. \A i, j \in 1..m : i < j => f[i] < f[j]
  BY <1>3, <1>5, <1>6
<1>10. ASSUME NEW k \in CommittedSeqs, NEW i \in 1..m, listener.cursor < k, k <= f[i]
       PROVE  \E j \in 1..m : f[j] = k
  <2>1. k \in S /\ k \in Nat
    BY <1>1, <1>10
  <2>2. PICK j \in 1..n : a[j] = k
    BY <1>3, <2>1
  <2>3. f[i] = a[i] /\ i \in 1..n /\ a[i] \in Nat
    BY <1>5, <1>6
  <2>4. ~(i < j)
    <3> SUFFICES ASSUME i < j PROVE FALSE
      OBVIOUS
    <3>1. a[i] < a[j]
      BY <1>3, <2>3
    <3> QED BY <1>10, <2>1, <2>2, <2>3, <3>1
  <2>5. j \in 1..m
    BY <1>2, <1>4, <2>4
  <2> QED BY <1>6, <2>2, <2>5
<1> QED BY <1>0, <1>4, <1>6, <1>7, <1>8, <1>9, <1>10

LEMMA CatchUpEffect ==
    ASSUME TypeOK, CatchUp
    PROVE  \E n \in Nat, idx \in Seq(Nat), end \in Nat :
              /\ Len(idx) = n /\ listener.cursor <= end /\ end <= Len(log)
              /\ \A i \in 1..n : idx[i] \in CommittedSeqs /\ idx[i] <= end
              /\ \A i, j \in 1..n : i < j => idx[i] < idx[j]
              /\ \A k \in CommittedSeqs :
                    listener.cursor < k /\ k <= end => \E i \in 1..n : idx[i] = k
              /\ published' \in Seq(Positions) /\ Len(published') = Len(published) + n
              /\ \A i \in 1..Len(published) : published'[i] = published[i]
              /\ \A i \in 1..n : published'[Len(published) + i] = log[idx[i]]
              /\ listener' \in ListenerState /\ listener'.cursor = end
              /\ \/ listener'.pc = "wait" /\ listener'.last_seen = end
                 \/ listener'.pc = "catch_up" /\ listener'.last_seen = listener.last_seen
<1> DEFINE cur == listener.cursor
           n == Len(Batch)
           end == IF Batch = <<>> THEN cur ELSE Last(Batch)
           rows == [i \in DOMAIN Batch |-> log[Batch[i]]]
<1>1. /\ log \in Seq(Positions) /\ published \in Seq(Positions)
      /\ Len(log) \in Nat /\ Len(published) \in Nat
      /\ cur \in Nat /\ cur <= Len(log) /\ listener \in ListenerState
  BY DEF TypeOK, ListenerState
<1>2. /\ Batch \in Seq(Nat) /\ n \in Nat /\ DOMAIN Batch = 1..n
      /\ \A i \in 1..n : Batch[i] \in CommittedSeqs /\ cur < Batch[i]
      /\ \A i, j \in 1..n : i < j => Batch[i] < Batch[j]
      /\ \A k \in CommittedSeqs, i \in 1..n :
            cur < k /\ k <= Batch[i] => \E j \in 1..n : Batch[j] = k
  BY BatchRows
<1>3. \A i \in 1..n : Batch[i] \in 1..Len(log) /\ log[Batch[i]] \in Positions
  BY <1>1, <1>2, SeqSets
<1>4. /\ published' = published \o rows
      /\ listener' = IF Done(Batch)
                     THEN [listener EXCEPT !.pc = "wait", !.cursor = end, !.last_seen = end]
                     ELSE [listener EXCEPT !.cursor = end]
      /\ listener.pc = "catch_up"
  BY DEF CatchUp
<1>5. rows \in Seq(Positions) /\ Len(rows) = n /\ \A i \in 1..n : rows[i] = log[Batch[i]]
  BY <1>2, <1>3
<1>6. Batch # <<>> => n \in 1..n /\ end = Batch[n]
  BY <1>2, EmptySeq DEF Last
<1>7. Batch = <<>> => n = 0
  BY <1>2
<1> HIDE DEF rows, cur, n
<1>8. \A i \in 1..n : Batch[i] \in Nat /\ Batch[i] <= end
  <2> SUFFICES ASSUME NEW i \in 1..n PROVE Batch[i] \in Nat /\ Batch[i] <= end
    OBVIOUS
  <2>1. n \in 1..n /\ end = Batch[n]
    BY <1>2, <1>6, <1>7
  <2>2. Batch[i] \in Nat /\ Batch[n] \in Nat
    BY <1>1, <1>3, <2>1
  <2>3. i = n \/ i < n
    BY <1>2
  <2>4. Batch[i] = Batch[n] \/ Batch[i] < Batch[n]
    BY <1>2, <2>1, <2>3
  <2> HIDE DEF end
  <2> QED BY <2>1, <2>2, <2>4
<1>9. end \in Nat /\ cur <= end /\ end <= Len(log)
  <2>1. CASE Batch = <<>>
    BY <1>1, <2>1
  <2>2. CASE Batch # <<>>
    <3>1. end = Batch[n] /\ Batch[n] \in 1..Len(log) /\ cur < Batch[n]
      BY <1>2, <1>3, <1>6, <2>2
    <3> HIDE DEF end
    <3> QED BY <1>1, <3>1
  <2> QED BY <2>1, <2>2
<1>10. ASSUME NEW k \in CommittedSeqs, cur < k, k <= end PROVE \E i \in 1..n : Batch[i] = k
  <2>1. k \in Nat
    BY SeqSets
  <2>2. Batch # <<>>
    BY <1>1, <1>10, <2>1
  <2>3. n \in 1..n /\ k <= Batch[n]
    BY <1>6, <1>10, <2>2
  <2> QED BY <1>2, <1>10, <2>3
<1> HIDE DEF end
<1>11. /\ published' \in Seq(Positions) /\ Len(published') = Len(published) + n
       /\ \A i \in 1..Len(published) : published'[i] = published[i]
       /\ \A i \in 1..n : published'[Len(published) + i] = rows[i]
  <2>1. /\ published' \in Seq(Positions) /\ Len(published') = Len(published) + n
        /\ \A i \in 1..(Len(published) + n) :
              published'[i] = IF i <= Len(published) THEN published[i]
                              ELSE rows[i - Len(published)]
    BY <1>1, <1>4, <1>5, ConcatProperties
  <2>2. \A i \in 1..Len(published) : i \in 1..(Len(published) + n) /\ i <= Len(published)
    BY <1>1, <1>2
  <2>3. \A i \in 1..n : /\ Len(published) + i \in 1..(Len(published) + n)
                        /\ ~(Len(published) + i <= Len(published))
                        /\ (Len(published) + i) - Len(published) = i
    BY <1>1, <1>2
  <2> QED BY <2>1, <2>2, <2>3
<1>12. /\ listener' \in ListenerState /\ listener'.cursor = end
       /\ \/ listener'.pc = "wait" /\ listener'.last_seen = end
          \/ listener'.pc = "catch_up" /\ listener'.last_seen = listener.last_seen
  BY <1>1, <1>4, <1>9 DEF ListenerState
<1>13. Len(Batch) = n
  BY DEF n
<1>14. /\ \A i \in 1..n : Batch[i] \in CommittedSeqs /\ Batch[i] <= end
       /\ \A k \in CommittedSeqs :
             listener.cursor < k /\ k <= end => \E i \in 1..n : Batch[i] = k
       /\ \A i \in 1..n : published'[Len(published) + i] = log[Batch[i]]
  BY <1>2, <1>5, <1>8, <1>10, <1>11 DEF cur
<1> n \in Nat /\ Batch \in Seq(Nat) /\ end \in Nat /\ listener.cursor <= end
  BY <1>2, <1>9 DEF cur
<1> HIDE DEF end, n
<1> WITNESS n \in Nat, Batch \in Seq(Nat), end \in Nat
<1> QED BY <1>2, <1>9, <1>11, <1>12, <1>13, <1>14

-----------------------------------------------------------------------------
(* Types *)

LEMMA AloneTypes ==
    ASSUME TypeOK, NEW c \in Clients, Alone(c),
           client'[c].rx <= Len(published), Len(client'[c].buffer) <= LIMIT
    PROVE  TypeOK'
<1>1. \A d \in Clients : client'[d].rx <= Len(published') /\ Len(client'[d].buffer) <= LIMIT
  BY DEF TypeOK, Alone
<1>2. lossy' \subseteq Clients
  BY DEF TypeOK, Alone
<1> QED BY <1>1, <1>2 DEF TypeOK, Alone

ClientAction(c) == ClientStep(c) \/ Open(c) \/ FetchFails(c) \/ Close(c)

LEMMA ClientTypes ==
    ASSUME TypeOK, NEW c \in Clients, ClientAction(c)
    PROVE  Alone(c) /\ TypeOK'
<1> USE EventStreamAssumption
<1>0. /\ client[c] \in ClientState /\ client[c].rx \in Nat /\ Len(published) \in Nat
      /\ client[c].rx <= Len(published)
      /\ client[c].buffer \in Seq(Positions) /\ Len(client[c].buffer) <= LIMIT
  BY DEF TypeOK, ClientState
<1>1. CASE Subscribe(c)
  BY <1>0, <1>1, SubscribeEffect, AloneTypes
<1>2. CASE EmitBuffered(c)
  <2>1. client[c].buffer # <<>>
    BY <1>2 DEF EmitBuffered
  <2>2. /\ Len(Tail(client[c].buffer)) = Len(client[c].buffer) - 1
        /\ Len(client[c].buffer) \in Nat
    BY <1>0, <2>1, TailSet, SeqOfPositions
  <2>3. Len(Tail(client[c].buffer)) <= LIMIT
    BY <1>0, <2>2
  <2> QED BY <1>0, <1>2, <2>3, EmitEffect, AloneTypes
<1>3. CASE Receive(c)
  <2>1. /\ Alone(c) /\ client[c].rx + 1 \in 1..Len(published)
        /\ client'[c].rx = client[c].rx + 1 /\ client'[c].buffer = client[c].buffer
    BY <1>3, ReceiveEffect
  <2>2. client'[c].rx <= Len(published)
    BY <1>0, <2>1
  <2> QED BY <1>0, <2>1, <2>2, AloneTypes
<1>4. CASE Lagged(c)
  BY <1>0, <1>4, LaggedEffect, AloneTypes
<1>5. CASE Fetch(c)
  BY <1>0, <1>5, FetchEffect, FetchedRows, AloneTypes
<1>6. CASE QuietPeriod(c) \/ FetchFails(c) \/ Close(c)
  BY <1>0, <1>6, MoveEffect, AloneTypes
<1>7. CASE Open(c)
  <2>1. Len(<<>>) <= LIMIT
    OBVIOUS
  <2> QED BY <1>0, <1>7, <2>1, OpenEffect, AloneTypes
<1> QED BY <1>1, <1>2, <1>3, <1>4, <1>5, <1>6, <1>7 DEF ClientAction, ClientStep

LEMMA TypeStep ==
    ASSUME TypeOK, [Next]_vars
    PROVE  TypeOK'
<1> USE EventStreamAssumption
<1>0. /\ listener \in ListenerState /\ listener.cursor \in Nat /\ Len(log) \in Nat
      /\ listener.cursor <= Len(log)
      /\ listener.last_seen \in {None} \cup Nat
      /\ listener.last_seen # None => listener.last_seen <= listener.cursor
  BY DEF TypeOK, ListenerState
<1>1a. ASSUME NEW p \in Positions, Insert(p) PROVE TypeOK'
  <2>1. listener'.cursor <= Len(log') /\ committed' \subseteq ToSet(log')
    BY <1>0, <1>1a, InsertEffect DEF TypeOK
  <2> QED BY <1>1a, <2>1, InsertEffect DEF Insert, TypeOK
<1>1. ASSUME NEW p \in Positions, Commit(p) PROVE TypeOK'
  <2>1. listener'.cursor <= Len(log')
    BY <1>0, <1>1, CommitEffect
  <2>2. listener'.last_seen # None => listener'.last_seen <= listener'.cursor
    BY <1>0, <1>1, CommitEffect
  <2>3. committed' \subseteq ToSet(log') /\ late' \subseteq committed'
    BY <1>1, CommitEffect DEF TypeOK
  <2> QED BY <1>1, <2>1, <2>2, <2>3, CommitEffect DEF Commit, TypeOK
<1>2. CASE Listen
  <2>1. /\ listener' \in ListenerState /\ listener'.cursor = listener.cursor
        /\ listener'.last_seen = listener.last_seen
    BY <1>0, <1>2 DEF Listen, ListenerState
  <2> QED BY <1>2, <2>1 DEF Listen, TypeOK
<1>3. CASE StartSession
  <2>1. FirstCursor \in Nat /\ FirstCursor <= Len(log)
        /\ (listener.last_seen # None => listener.last_seen <= FirstCursor)
    BY <1>0, SeqSets DEF FirstCursor
  <2>2. /\ listener' \in ListenerState /\ listener'.cursor = FirstCursor
        /\ listener'.last_seen = listener.last_seen
    BY <1>0, <1>3, <2>1 DEF StartSession, ListenerState
  <2>3. lossy' \subseteq Clients
    BY <1>3 DEF StartSession, TypeOK
  <2> QED BY <1>3, <2>1, <2>2, <2>3 DEF StartSession, TypeOK
<1>4. CASE CatchUp
  <2>1. PICK n \in Nat, end \in Nat :
              /\ listener.cursor <= end /\ end <= Len(log)
              /\ published' \in Seq(Positions) /\ Len(published') = Len(published) + n
              /\ listener' \in ListenerState /\ listener'.cursor = end
              /\ \/ listener'.pc = "wait" /\ listener'.last_seen = end
                 \/ listener'.pc = "catch_up" /\ listener'.last_seen = listener.last_seen
    BY <1>4, CatchUpEffect
  <2>2. /\ listener'.cursor <= Len(log)
        /\ listener'.last_seen # None => listener'.last_seen <= listener'.cursor
    BY <1>0, <2>1
  <2>3. \A d \in Clients : client[d].rx <= Len(published')
    <3>1. \A d \in Clients : client[d].rx \in Nat /\ client[d].rx <= Len(published)
      BY DEF TypeOK, ClientState
    <3>2. Len(published) \in Nat
      BY DEF TypeOK
    <3> QED BY <2>1, <3>1, <3>2
  <2> QED BY <1>4, <2>1, <2>2, <2>3 DEF CatchUp, TypeOK
<1>5. CASE Notified
  <2>1. /\ listener' \in ListenerState /\ listener'.cursor = listener.cursor
        /\ listener'.last_seen = listener.last_seen
    BY <1>0, <1>5 DEF Notified, ListenerState
  <2> QED BY <1>5, <2>1 DEF Notified, TypeOK
<1>6. CASE ListenerFails
  <2>1. PICK k \in Nat : /\ k = IF listener.last_seen = None THEN 0 ELSE listener.last_seen
                         /\ k <= Len(log)
    BY <1>0
  <2>2. /\ listener' \in ListenerState /\ listener'.cursor = k
        /\ listener'.last_seen = listener.last_seen
    BY <1>0, <1>6, <2>1 DEF ListenerFails, ListenerState
  <2>3. listener'.last_seen # None => listener'.last_seen <= listener'.cursor
    BY <1>0, <2>1, <2>2
  <2>4. failures' \in 0..MaxFailures
    BY <1>6 DEF ListenerFails, TypeOK
  <2> QED BY <1>6, <2>1, <2>2, <2>3, <2>4 DEF ListenerFails, TypeOK
<1>7. ASSUME NEW c \in Clients, ClientAction(c) PROVE TypeOK'
  BY <1>7, ClientTypes
<1>8. CASE UNCHANGED vars
  BY <1>8 DEF vars, TypeOK
<1> QED BY <1>1, <1>1a, <1>2, <1>3, <1>4, <1>5, <1>6, <1>7, <1>8
        DEF Next, ListenerStep, ClientAction

-----------------------------------------------------------------------------
(* The log, the channel and the session *)

LEMMA LogStep ==
    ASSUME TypeOK, LogInv, [Next]_vars
    PROVE  LogInv'
<1>0. /\ log \in Seq(Positions) /\ published \in Seq(Positions)
      /\ Len(log) \in Nat /\ Len(published) \in Nat /\ DOMAIN log = 1..Len(log)
      /\ IsInjective(log)
      /\ listener.cursor \in Nat
  BY DEF TypeOK, ListenerState
<1>0a. /\ CommittedSeqs \subseteq Nat
       /\ \A k \in CommittedSeqs : k \in 1..Len(log) /\ log[k] \in committed
  BY SeqSets
<1>1. ASSUME NEW p \in Positions, Insert(p) PROVE LogInv'
  <2>1. \A k \in CommittedSeqs : log'[k] = log[k]
    BY <1>0a, <1>1, InsertEffect
  <2> QED BY <1>1, <2>1, InsertEffect DEF LogInv
<1>2. ASSUME NEW p \in Positions, Commit(p) PROVE LogInv'
  <2>0. /\ log' = log /\ published' = published /\ committed' = committed \cup {p}
        /\ late \subseteq late'
        /\ p \notin late' => \A q \in committed : q < p
        /\ \A q \in committed \ late' : Before(p, q) => p < q
    BY <1>2, CommitEffect
  <2>1. ToSet(published') \subseteq committed'
    BY <2>0 DEF LogInv
  <2>2. ASSUME NEW k \in CommittedSeqs' PROVE k \in 1..Len(log) /\ (k \in CommittedSeqs \/ log[k] = p)
    BY <1>0, <2>0 DEF CommittedSeqs
  <2>3. ASSUME NEW i \in CommittedSeqs', NEW j \in CommittedSeqs', i < j, log[j] \notin late'
        PROVE  log[i] < log[j]
    <3>1. i \in 1..Len(log) /\ j \in 1..Len(log)
      BY <2>2
    <3>2. CASE log[j] = p
      <4>1. log[i] # p
        BY <1>0, <2>3, <3>1, <3>2 DEF IsInjective
      <4>2. log[i] \in committed
        BY <1>0a, <2>2, <4>1
      <4> QED BY <2>0, <2>3, <3>2, <4>2
    <3>3. CASE log[j] # p /\ log[i] = p
      <4>1. log[j] \in committed /\ log[j] \notin late'
        BY <1>0a, <2>2, <2>3, <3>3
      <4>2. Before(p, log[j])
        BY <1>0, <2>3, <3>1, <3>3 DEF Before
      <4> QED BY <2>0, <3>3, <4>1, <4>2
    <3>4. CASE log[j] # p /\ log[i] # p
      BY <2>0, <2>2, <2>3, <3>4 DEF LogInv
    <3> QED BY <3>2, <3>3, <3>4
  <2>4. \A i, j \in CommittedSeqs' : i < j /\ log'[j] \notin late' => log'[i] < log'[j]
    BY <2>0, <2>3
  <2> QED BY <2>1, <2>4 DEF LogInv
<1>3. CASE CatchUp
  <2>1. PICK n \in Nat, idx \in Seq(Nat) :
              /\ \A i \in 1..n : idx[i] \in CommittedSeqs
              /\ published' \in Seq(Positions) /\ Len(published') = Len(published) + n
              /\ \A i \in 1..Len(published) : published'[i] = published[i]
              /\ \A i \in 1..n : published'[Len(published) + i] = log[idx[i]]
    BY <1>3, CatchUpEffect
  <2>2. ASSUME NEW x \in ToSet(published') PROVE x \in committed
    <3>1. PICK k \in 1..Len(published') : published'[k] = x
      BY <2>1, SeqOfPositions
    <3>2. CASE k \in 1..Len(published)
      BY <1>0, <2>1, <3>1, <3>2, SeqOfPositions DEF LogInv
    <3>3. CASE k \notin 1..Len(published)
      <4>1. PICK i \in 1..n : k = Len(published) + i
        <5>1. k - Len(published) \in 1..n /\ k = Len(published) + (k - Len(published))
          BY <1>0, <2>1, <3>3
        <5> QED BY <5>1
      <4>2. x = log[idx[i]] /\ idx[i] \in CommittedSeqs
        BY <2>1, <3>1, <4>1
      <4> QED BY <1>0a, <4>2
    <3> QED BY <3>2, <3>3
  <2>3. UNCHANGED <<log, committed, late>>
    BY <1>3 DEF CatchUp
  <2> QED BY <2>2, <2>3 DEF LogInv, CommittedSeqs
<1>4. CASE UNCHANGED <<log, committed, late, published>>
  BY <1>4 DEF LogInv, CommittedSeqs
<1>5. ASSUME NEW c \in Clients, ClientAction(c) PROVE UNCHANGED <<log, committed, late, published>>
  BY <1>5, ClientTypes DEF Alone
<1> QED BY <1>1, <1>2, <1>3, <1>4, <1>5
        DEF Next, ListenerStep, ClientAction, Listen, StartSession, Notified, ListenerFails, vars

(* The listener's own steps: its position only falls back to last_seen,    *)
(* except where it starts its first session.                               *)
LEMMA ListenerEffect ==
    ASSUME TypeOK, SessionInv, Listen \/ StartSession \/ Notified \/ ListenerFails
    PROVE  /\ UNCHANGED <<log, committed, late, published, client, start, got>> /\ lossy \subseteq lossy'
           /\ SessionInv'
           /\ listener'.cursor \in Nat
           /\ \/ listener'.cursor <= listener.cursor
              \/ \A c \in Clients : client[c].pc \in {"wait", "fetch"} =>
                                       After(client[c].cursor) = {} \/ c \in lossy'
<1>0. /\ listener \in ListenerState /\ listener.cursor \in Nat /\ Len(log) \in Nat
      /\ listener.last_seen \in {None} \cup Nat
      /\ listener.last_seen # None => listener.last_seen <= listener.cursor
      /\ None \notin Nat
  BY EventStreamAssumption DEF TypeOK, ListenerState
<1>1. CASE Listen
  <2>1. /\ listener'.cursor = listener.cursor /\ listener'.last_seen = listener.last_seen
        /\ listener'.pc = "listening" /\ listener.pc = "down"
    BY <1>0, <1>1 DEF Listen, ListenerState
  <2> QED BY <1>0, <1>1, <2>1 DEF Listen, SessionInv
<1>2. CASE StartSession
  <2>1. listener'.pc = "catch_up" /\ listener'.cursor = FirstCursor
    BY <1>0, <1>2 DEF StartSession, ListenerState
  <2>2. CASE listener.last_seen = None
    BY <1>0, <1>2, <2>1, <2>2, SeqSets DEF StartSession, SessionInv, FirstCursor
  <2>3. CASE listener.last_seen # None
    BY <1>0, <1>2, <2>1, <2>3 DEF StartSession, SessionInv, FirstCursor
  <2> QED BY <2>2, <2>3
<1>3. CASE Notified
  <2>1. listener'.cursor = listener.cursor /\ listener'.pc = "catch_up"
    BY <1>0, <1>3 DEF Notified, ListenerState
  <2> QED BY <1>0, <1>3, <2>1 DEF Notified, SessionInv
<1>4. CASE ListenerFails
  <2>1. /\ listener'.pc = "down" /\ listener'.last_seen = listener.last_seen
        /\ listener'.cursor = IF listener.last_seen = None THEN 0 ELSE listener.last_seen
    BY <1>0, <1>4 DEF ListenerFails, ListenerState
  <2>2. listener'.cursor \in Nat /\ listener'.cursor <= listener.cursor
    BY <1>0, <2>1
  <2> QED BY <1>4, <2>1, <2>2 DEF ListenerFails, SessionInv
<1> QED BY <1>1, <1>2, <1>3, <1>4

LEMMA SessionStep ==
    ASSUME TypeOK, SessionInv, [Next]_vars
    PROVE  SessionInv'
<1>1. ASSUME NEW p \in Positions, Insert(p) \/ Commit(p) PROVE SessionInv'
  BY <1>1, InsertEffect, CommitEffect DEF SessionInv
<1>2. CASE Listen \/ StartSession \/ Notified \/ ListenerFails
  BY <1>2, ListenerEffect
<1>3. CASE CatchUp
  <2>1. PICK end \in Nat : \/ listener'.pc = "wait" /\ listener'.last_seen = end
                           \/ listener'.pc = "catch_up"
    BY <1>3, CatchUpEffect
  <2>2. end # None
    BY EventStreamAssumption
  <2> QED BY <2>1, <2>2 DEF SessionInv
<1>4. ASSUME NEW c \in Clients, ClientAction(c) PROVE SessionInv'
  BY <1>4, ClientTypes DEF Alone, SessionInv
<1>5. CASE UNCHANGED vars
  BY <1>5 DEF vars, SessionInv
<1> QED BY <1>1, <1>2, <1>3, <1>4, <1>5 DEF Next, ListenerStep, ClientAction

-----------------------------------------------------------------------------
(* A client under the steps of the others *)

LEMMA Bystander ==
    ASSUME NEW d \in Clients, ClientInv(d),
           UNCHANGED <<log, committed, late, published>>, lossy \subseteq lossy',
           client'[d] = client[d], start'[d] = start[d], got'[d] = got[d],
           listener.cursor \in Nat, listener'.cursor \in Nat,
           \/ listener'.cursor <= listener.cursor
           \/ client[d].pc \in {"wait", "fetch"} =>
                    After(client[d].cursor) = {} \/ d \in lossy'
    PROVE  ClientInv(d)'
<1> DEFINE x == client[d].cursor
           b == client[d].buffer
           r == client[d].rx
           g == got[d]
           s == start[d]
<1>1. ModeOf(d)'
  BY DEF ClientInv, ModeOf
<1>2. RowsOf(x, b, g)' /\ OrderOf(x, b, g)'
  BY DEF ClientInv, RowsOf, OrderOf
<1>3. BufferOf(x, b)'
  BY DEF ClientInv, BufferOf, After
<1>4. d \notin lossy' /\ start'[d] # None => GaplessOf(x, g, s)'
  BY DEF ClientInv, GaplessOf
<1>5. Connected(d)' => ChannelOf(x, b, r)'
  <2> SUFFICES ASSUME Connected(d)' PROVE ChannelOf(x, b, r)'
    OBVIOUS
  <2>1. Connected(d) /\ ChannelOf(x, b, r)
    BY DEF Connected, ClientInv
  <2>2. Owed(x, b)' = Owed(x, b) /\ Unread(r)' = Unread(r)
    BY DEF Owed, After, Unread
  <2>3. CASE listener'.cursor <= listener.cursor
    <3>1. \A i \in 1..listener'.cursor : i \in 1..listener.cursor
      BY <2>3
    <3> QED BY <2>1, <2>2, <3>1 DEF ChannelOf
  <2>4. CASE client[d].pc \in {"wait", "fetch"} => After(client[d].cursor) = {} \/ d \in lossy'
    <3>1. Owed(x, b) = {}
      BY <2>4 DEF Connected, Owed
    <3> QED BY <2>2, <3>1 DEF ChannelOf
  <2> QED BY <2>3, <2>4
<1> QED BY <1>1, <1>2, <1>3, <1>4, <1>5 DEF ClientInv

(* An insert does not change what a client can see. *)
LEMMA InsertClient ==
    ASSUME TypeOK, NEW d \in Clients, ClientInv(d), NEW p \in Positions, Insert(p)
    PROVE  ClientInv(d)'
<1>1. /\ UNCHANGED <<committed, late, published, listener, client, start, got, lossy>>
      /\ \A i \in 1..Len(log) : log'[i] = log[i]
  BY InsertEffect
<1>2. \A i \in 1..listener.cursor : i \in 1..Len(log)
  BY DEF TypeOK, ListenerState
<1>3. \A i \in 1..listener'.cursor : i \in 1..listener.cursor /\ log'[i] = log[i]
  BY <1>1, <1>2
<1>4. ModeOf(d)' /\ Connected(d)' = Connected(d)
  BY <1>1 DEF ClientInv, ModeOf, Connected
<1>5. /\ RowsOf(client[d].cursor, client[d].buffer, got[d])'
      /\ OrderOf(client[d].cursor, client[d].buffer, got[d])'
      /\ BufferOf(client[d].cursor, client[d].buffer)'
  BY <1>1 DEF ClientInv, RowsOf, OrderOf, BufferOf, After
<1>6. Connected(d) => ChannelOf(client[d].cursor, client[d].buffer, client[d].rx)'
  <2>1. /\ Owed(client[d].cursor, client[d].buffer)' = Owed(client[d].cursor, client[d].buffer)
        /\ Unread(client[d].rx)' = Unread(client[d].rx)
    BY <1>1 DEF Owed, After, Unread
  <2> QED BY <1>1, <1>3, <2>1 DEF ClientInv, ChannelOf
<1>7. d \notin lossy' /\ start'[d] # None =>
          GaplessOf(client[d].cursor, got[d], start[d])'
  BY <1>1 DEF ClientInv, GaplessOf
<1> QED BY <1>4, <1>5, <1>6, <1>7 DEF ClientInv

(* A newly committed row is above every committed one and not passed by    *)
(* the listener, or late.                                                  *)
LEMMA CommitClient ==
    ASSUME TypeOK, LogInv, NEW d \in Clients, ClientInv(d), NEW p \in Positions, Commit(p)
    PROVE  ClientInv(d)'
<1> DEFINE x == client[d].cursor
           b == client[d].buffer
           r == client[d].rx
           g == got[d]
           s == start[d]
<1>0. UNCHANGED <<log, published, client, start, got, lossy>>
  BY DEF Commit
<1>1. /\ log \in Seq(Positions) /\ Len(log) \in Nat /\ published \in Seq(Positions)
      /\ listener.cursor \in Nat /\ listener.cursor <= Len(log)
      /\ \A y \in committed : y \in Nat
      /\ p \in Nat \ {0}
  BY RowSets DEF TypeOK, ListenerState
<1>2. /\ committed' = committed \cup {p} /\ p \notin committed
      /\ late \subseteq late'
      /\ p \notin late' => (\A q \in committed : q < p) /\ ~Passed(p)
      /\ listener'.cursor = listener.cursor
  BY CommitEffect
<1>3. ModeOf(d)' /\ OrderOf(x, b, g)' /\ Connected(d)' = Connected(d)
  BY <1>0 DEF ClientInv, ModeOf, OrderOf, Connected
<1>4. RowsOf(x, b, g)
  BY DEF ClientInv
<1>5. RowsOf(x, b, g)'
  BY <1>0, <1>2, <1>4 DEF RowsOf
<1>6. ASSUME NEW q \in After(x)' \ late', q # p PROVE q \in After(x) \ late
  BY <1>0, <1>2, <1>6 DEF After
<1>7. BufferOf(x, b)'
  <2> SUFFICES ASSUME NEW q \in After(x)' \ late', NEW y \in ToSet(b)', q < y
               PROVE  q \in ToSet(b)'
    BY DEF BufferOf
  <2>1. y \in ToSet(b) /\ y \in committed
    BY <1>0, <1>4 DEF RowsOf
  <2>2. q # p
    BY <1>1, <1>2, <2>1
  <2> QED BY <1>0, <1>6, <2>1, <2>2 DEF ClientInv, BufferOf
<1>8. Connected(d) => ChannelOf(x, b, r)'
  <2> SUFFICES ASSUME Connected(d), NEW q \in Owed(x, b)'
               PROVE  /\ \A i \in 1..listener'.cursor :
                            log'[i] = q => \E k \in Unread(r)' : published'[k] = q
                      /\ \A j \in Unread(r)' :
                            published'[j] > q => \E k \in Unread(r)' : k < j /\ published'[k] = q
    BY DEF ChannelOf
  <2>1. Unread(r)' = Unread(r)
    BY <1>0 DEF Unread
  <2>2. q \in After(x)' \ late' /\ q \notin ToSet(b)
    BY <1>0 DEF Owed
  <2>3. \A i \in 1..listener'.cursor : i \in 1..listener.cursor /\ log'[i] = log[i]
    BY <1>0, <1>2
  <2>4. CASE q # p
    <3>1. q \in Owed(x, b)
      BY <1>6, <2>2, <2>4 DEF Owed
    <3>2. /\ \A i \in 1..listener.cursor :
                log[i] = q => \E k \in Unread(r) : published[k] = q
          /\ \A j \in Unread(r) :
                published[j] > q => \E k \in Unread(r) : k < j /\ published[k] = q
      BY <3>1 DEF ClientInv, ChannelOf
    <3> QED BY <1>0, <2>1, <2>3, <3>2
  <2>5. CASE q = p
    <3>1. \A i \in 1..listener'.cursor : log'[i] # q
      BY <1>2, <2>2, <2>3, <2>5 DEF Passed
    <3>2. ASSUME NEW j \in Unread(r) PROVE ~(published[j] > q)
      <4>1. j \in 1..Len(published)
        BY <1>1, SeqOfPositions DEF Unread, TypeOK, ClientState
      <4>2. published[j] \in committed
        BY <1>1, <4>1, SeqOfPositions DEF LogInv
      <4>3. published[j] < p
        BY <1>2, <2>2, <2>5, <4>2
      <4> QED BY <1>1, <2>5, <4>2, <4>3
    <3> QED BY <1>0, <2>1, <3>1, <3>2
  <2> QED BY <2>4, <2>5
<1>9. d \notin lossy' /\ start'[d] # None => GaplessOf(x, g, s)'
  <2> SUFFICES ASSUME d \notin lossy, start[d] # None, NEW y \in (committed' \cap Matching) \ late',
                      s < y, y <= x
               PROVE  y \in ToSet(g)
    BY <1>0 DEF GaplessOf
  <2>1. y # p
    <3>1. x \in committed \cup {0}
      BY <1>4 DEF RowsOf
    <3>2. p \notin late' => x < p
      BY <1>1, <1>2, <3>1
    <3> QED BY <1>1, <3>1, <3>2
  <2>2. y \in (committed \cap Matching) \ late
    BY <1>2, <2>1
  <2> QED BY <2>2 DEF ClientInv, GaplessOf
<1> QED BY <1>3, <1>5, <1>7, <1>8, <1>9 DEF ClientInv

(* A batch is broadcast in seq order, so a row that is not late comes      *)
(* before every higher one.                                                *)
LEMMA CatchUpClient ==
    ASSUME TypeOK, LogInv, NEW d \in Clients, ClientInv(d), CatchUp
    PROVE  ClientInv(d)'
<1> DEFINE x == client[d].cursor
           b == client[d].buffer
           r == client[d].rx
           g == got[d]
           s == start[d]
           cur == listener.cursor
           len == Len(published)
<1>0. UNCHANGED <<log, committed, late, client, start, got, lossy>>
  BY DEF CatchUp
<1>1. /\ log \in Seq(Positions) /\ Len(log) \in Nat /\ len \in Nat
      /\ cur \in Nat /\ cur <= Len(log)
      /\ r \in Nat /\ r <= len
  BY DEF TypeOK, ListenerState, ClientState
<1>2. PICK n \in Nat, idx \in Seq(Nat), end \in Nat :
          /\ \A i \in 1..n : idx[i] \in CommittedSeqs /\ idx[i] <= end
          /\ \A i, j \in 1..n : i < j => idx[i] < idx[j]
          /\ \A k \in CommittedSeqs : cur < k /\ k <= end => \E i \in 1..n : idx[i] = k
          /\ Len(published') = len + n
          /\ \A i \in 1..len : published'[i] = published[i]
          /\ \A i \in 1..n : published'[len + i] = log[idx[i]]
          /\ listener'.cursor = end /\ end <= Len(log)
  BY CatchUpEffect
<1>2a. /\ \A k \in CommittedSeqs : k \in Nat \ {0} /\ k \in 1..Len(log)
       /\ \A y \in committed : y \in Nat
       /\ \A k \in 1..Len(log) : log[k] \in Nat
  BY <1>1, SeqSets, RowSets, SeqOfPositions
<1>3. /\ ModeOf(d)' /\ Connected(d)' = Connected(d)
      /\ RowsOf(x, b, g)' /\ OrderOf(x, b, g)'
  BY <1>0 DEF ClientInv, ModeOf, OrderOf, RowsOf, Connected
<1>4. BufferOf(x, b)' /\ Owed(x, b)' = Owed(x, b)
  BY <1>0 DEF ClientInv, BufferOf, After, Owed
<1>5. d \notin lossy' /\ start'[d] # None => GaplessOf(x, g, s)'
  BY <1>0 DEF ClientInv, GaplessOf
<1> HIDE DEF x, b, r, g, s, cur, len
<1>6. Connected(d) => ChannelOf(x, b, r)'
  <2> SUFFICES ASSUME Connected(d), NEW q \in Owed(x, b)
               PROVE  /\ \A i \in 1..listener'.cursor :
                            log'[i] = q => \E k \in Unread(r)' : published'[k] = q
                      /\ \A j \in Unread(r)' :
                            published'[j] > q => \E k \in Unread(r)' : k < j /\ published'[k] = q
    BY <1>4 DEF ChannelOf
  <2>1. /\ Unread(r) = (r + 1)..len /\ Unread(r)' = (r + 1)..(len + n)
    BY <1>0, <1>2 DEF Unread, len, r
  <2>2. /\ \A i \in 1..cur : log[i] = q => \E k \in Unread(r) : published[k] = q
        /\ \A j \in Unread(r) :
              published[j] > q => \E k \in Unread(r) : k < j /\ published[k] = q
    BY DEF ClientInv, ChannelOf, x, b, r, cur
  <2>3. \A k \in Unread(r) : k \in Unread(r)' /\ published'[k] = published[k]
    BY <1>1, <1>2, <2>1
  <2>4. PICK i \in CommittedSeqs : log[i] = q
    BY SeqSets DEF Owed, After
  <2>4a. /\ q \in committed /\ q \notin late /\ q \in Nat
         /\ \A k \in 1..Len(log) : log[k] = q => k = i
    BY <1>1, <1>2a, <2>4, SeqOfPositions DEF Owed, After, TypeOK, IsInjective
  <2>4b. ASSUME cur < i, i <= end PROVE \E m \in 1..n : idx[m] = i /\ published'[len + m] = q
    BY <1>2, <2>4, <2>4b
  <2>4c. \A m \in 1..n : len + m \in Unread(r)'
    BY <1>1, <2>1
  <2>5. ASSUME NEW k \in 1..end, log[k] = q
        PROVE  \E m \in Unread(r)' : published'[m] = q
    <3>1. CASE k \in 1..cur
      BY <2>2, <2>3, <2>5, <3>1
    <3>2. CASE k \notin 1..cur
      <4>1. cur < k /\ k <= end /\ k \in 1..Len(log)
        BY <1>1, <1>2, <3>2
      <4>2. k = i
        BY <2>4a, <2>5, <4>1
      <4> QED BY <2>4b, <2>4c, <4>1, <4>2
    <3> QED BY <3>1, <3>2
  <2>6. ASSUME NEW j \in Unread(r)', published'[j] > q
        PROVE  \E k \in Unread(r)' : k < j /\ published'[k] = q
    <3>1. CASE j \in Unread(r)
      BY <2>2, <2>3, <2>6, <3>1
    <3>2. CASE j \notin Unread(r)
      <4>1. j - len \in 1..n /\ len + (j - len) = j
        BY <1>1, <2>1, <3>2
      <4>2. PICK m \in 1..n : j = len + m
        BY <4>1
      <4>3. /\ log[idx[m]] > q /\ idx[m] \in CommittedSeqs /\ idx[m] \in Nat /\ i \in Nat
            /\ log[idx[m]] \in Nat /\ idx[m] <= end
        BY <1>2, <1>2a, <2>6, <4>2
      <4>4. i < idx[m]
        <5>1. ASSUME idx[m] < i PROVE FALSE
          <6>1. log[idx[m]] < log[i]
            BY <2>4, <2>4a, <4>3, <5>1 DEF LogInv
          <6> QED BY <2>4, <2>4a, <4>3, <6>1
        <5>2. i # idx[m]
          BY <2>4, <2>4a, <4>3
        <5> QED BY <4>3, <5>1, <5>2
      <4>5. CASE i <= cur
        <5>1. i \in 1..cur
          BY <1>1, <1>2a, <4>5
        <5>2. PICK k \in Unread(r) : published[k] = q
          BY <2>2, <2>4, <5>1
        <5>3. k < j
          BY <1>1, <2>1, <4>2
        <5> QED BY <2>3, <5>2, <5>3
      <4>6. CASE cur < i
        <5>1. i <= end
          BY <4>3, <4>4
        <5>2. PICK w \in 1..n : idx[w] = i /\ published'[len + w] = q
          BY <2>4b, <4>6, <5>1
        <5>3. w < m
          <6>1. ASSUME m < w PROVE FALSE
            <7>1. idx[m] < idx[w]
              BY <1>2, <6>1
            <7> QED BY <4>3, <4>4, <5>2, <7>1
          <6>2. m # w
            BY <4>3, <4>4, <5>2
          <6> QED BY <6>1, <6>2
        <5>4. len + w < j
          BY <1>1, <4>2, <5>3
        <5> QED BY <2>4c, <5>2, <5>4
      <4> QED BY <1>1, <4>3, <4>5, <4>6
    <3> QED BY <3>1, <3>2
  <2> QED BY <1>0, <1>2, <2>5, <2>6
<1> QED BY <1>3, <1>4, <1>5, <1>6 DEF ClientInv, x, b, r, g, s

-----------------------------------------------------------------------------
(* A client under its own steps *)

(* The invariant after a step of the client is about its new record and    *)
(* the old log, channel and listener.                                      *)
LEMMA OwnStep ==
    ASSUME NEW c \in Clients, Alone(c), ModeOf(c)',
           RowsOf(client'[c].cursor, client'[c].buffer, got'[c]),
           OrderOf(client'[c].cursor, client'[c].buffer, got'[c]),
           BufferOf(client'[c].cursor, client'[c].buffer),
           Connected(c)' => ChannelOf(client'[c].cursor, client'[c].buffer, client'[c].rx),
           c \notin lossy' /\ start'[c] # None =>
               GaplessOf(client'[c].cursor, got'[c], start'[c])
    PROVE  ClientInv(c)'
<1>0. UNCHANGED <<log, committed, late, published, listener>>
  BY DEF Alone
<1>1. RowsOf(client[c].cursor, client[c].buffer, got[c])'
  BY <1>0 DEF RowsOf
<1>2. OrderOf(client[c].cursor, client[c].buffer, got[c])'
  BY DEF OrderOf
<1>3. BufferOf(client[c].cursor, client[c].buffer)'
  BY <1>0 DEF BufferOf, After
<1>4. Connected(c)' => ChannelOf(client[c].cursor, client[c].buffer, client[c].rx)'
  BY <1>0 DEF ChannelOf, Owed, Unread, After
<1>5. (c \notin lossy /\ start[c] # None => GaplessOf(client[c].cursor, got[c], start[c]))'
  BY <1>0 DEF GaplessOf
<1> QED BY <1>1, <1>2, <1>3, <1>4, <1>5 DEF ClientInv

LEMMA ClientTyped ==
    ASSUME TypeOK, NEW c \in Clients
    PROVE  /\ client[c].cursor \in Nat /\ client[c].rx \in Nat
           /\ client[c].buffer \in Seq(Positions) /\ got[c] \in Seq(Positions)
           /\ client[c].lagged \in BOOLEAN
           /\ start[c] \in {None} \cup Nat
           /\ \A y \in committed : y \in Nat \ {0}
           /\ Len(published) \in Nat
  BY RowSets, EventStreamAssumption DEF TypeOK, ClientState

LEMMA EmptyBuffer ==
    Len(<<>>) = 0 /\ ToSet(<<>>) = {} /\ 1..0 = {}
  BY DEF ToSet

LEMMA OpenClient ==
    ASSUME TypeOK, NEW c \in Clients, ClientInv(c), Open(c)
    PROVE  ClientInv(c)'
<1> DEFINE x == client[c].cursor
           b == client[c].buffer
           g == got[c]
           y == client'[c].cursor
<1>0. /\ Alone(c) /\ got' = got /\ lossy' = lossy
      /\ client'[c].pc = "opening"
      /\ client'[c].buffer = <<>> /\ client'[c].lagged = FALSE
      /\ g # <<>> => y = Last(g) /\ start'[c] = start[c]
      /\ g = <<>> => start'[c] = y /\ y \in committed \cup {0}
  BY OpenEffect
<1>1. g \in Seq(Positions) /\ x \in Nat /\ \A z \in committed : z \in Nat \ {0}
  BY ClientTyped
<1>2. RowsOf(x, b, g) /\ OrderOf(x, b, g)
  BY DEF ClientInv
<1>3. g # <<>> => /\ Len(g) \in 1..Len(g) /\ y = g[Len(g)] /\ y \in ToSet(g)
                  /\ y \in Nat /\ y <= x
  <2> SUFFICES ASSUME g # <<>>
               PROVE  /\ Len(g) \in 1..Len(g) /\ y = g[Len(g)] /\ y \in ToSet(g)
                      /\ y \in Nat /\ y <= x
    OBVIOUS
  <2>1. Len(g) \in 1..Len(g)
    BY <1>1, EmptySeq
  <2>2. y = g[Len(g)]
    BY <1>0 DEF Last
  <2> QED BY <1>1, <1>2, <2>1, <2>2, SeqOfPositions DEF OrderOf
<1> HIDE DEF x, b, g, y
<1>4. RowsOf(y, <<>>, g)
  BY <1>0, <1>2, <1>3, EmptyBuffer DEF RowsOf
<1>5. \A i \in 1..Len(g) : g[i] <= y
  <2> SUFFICES ASSUME NEW i \in 1..Len(g) PROVE g[i] <= y
    OBVIOUS
  <2>1. g # <<>>
    BY EmptyBuffer
  <2>2. g[i] \in Nat /\ Len(g) \in Nat
    BY <1>1, SeqOfPositions
  <2>3. i = Len(g) \/ i < Len(g)
    BY <2>2
  <2>4. g[i] = y \/ g[i] < y
    BY <1>2, <1>3, <2>1, <2>3 DEF OrderOf
  <2> QED BY <1>3, <2>1, <2>2, <2>4
<1>6. OrderOf(y, <<>>, g)
  BY <1>2, <1>5, EmptyBuffer DEF OrderOf
<1>7. BufferOf(y, <<>>)
  BY EmptyBuffer DEF BufferOf
<1>8. ModeOf(c)' /\ ~Connected(c)'
  BY <1>0 DEF ModeOf, Connected
<1>9. c \notin lossy' /\ start'[c] # None => GaplessOf(y, g, start'[c])
  <2> SUFFICES ASSUME c \notin lossy, start'[c] # None,
                      NEW p \in (committed \cap Matching) \ late, start'[c] < p, p <= y
               PROVE  p \in ToSet(g)
    BY <1>0 DEF GaplessOf
  <2>1. p \in Nat
    BY <1>1
  <2>2. CASE g = <<>>
    <3>1. start'[c] = y /\ y \in Nat
      BY <1>0, <1>1, <2>2
    <3> QED BY <2>1, <3>1
  <2>3. CASE g # <<>>
    <3>1. p <= x /\ start[c] < p /\ start[c] # None
      BY <1>0, <1>1, <1>3, <2>1, <2>3
    <3> QED BY <3>1 DEF ClientInv, GaplessOf, x, g
  <2> QED BY <2>2, <2>3
<1>10. got'[c] = g
  BY <1>0 DEF g
<1> QED BY <1>0, <1>4, <1>6, <1>7, <1>8, <1>9, <1>10, OwnStep DEF y

(* A client that subscribes is owed nothing the listener is past already,  *)
(* or is marked.                                                           *)
LEMMA SubscribeClient ==
    ASSUME TypeOK, SessionInv, NEW c \in Clients, ClientInv(c), Subscribe(c)
    PROVE  ClientInv(c)'
<1> DEFINE x == client[c].cursor
           b == client[c].buffer
           r == client'[c].rx
<1>0. /\ Alone(c) /\ got' = got /\ start' = start
      /\ client'[c].pc = "wait" /\ r = Len(published)
      /\ client'[c].cursor = x /\ client'[c].buffer = b
      /\ client'[c].lagged = client[c].lagged
      /\ lossy \subseteq lossy'
  BY SubscribeEffect DEF Alone
<1>1. Len(published) \in Nat /\ listener.cursor \in Nat
  BY DEF TypeOK, ListenerState
<1>2. ModeOf(c)'
  BY <1>0 DEF ModeOf, ClientInv, Subscribe
<1>3. c \notin lossy' => ChannelOf(x, b, r)
  <2> SUFFICES ASSUME c \notin lossy', NEW q \in Owed(x, b)
               PROVE  /\ \A i \in 1..listener.cursor : log[i] # q
                      /\ Unread(r) = {}
    BY DEF ChannelOf
  <2>1. Unread(r) = {}
    BY <1>0, <1>1 DEF Unread
  <2>2. ASSUME NEW i \in 1..listener.cursor, log[i] = q PROVE FALSE
    <3>1. q \in After(x)
      BY DEF Owed
    <3>2. listener.last_seen = None /\ listener.pc # "catch_up"
      BY <2>2, <3>1 DEF Subscribe, Passed
    <3>3. listener.cursor = 0
      BY <3>2 DEF SessionInv
    <3> QED BY <3>3
  <2> QED BY <2>1, <2>2
<1>4. c \notin lossy' /\ start[c] # None => GaplessOf(x, got[c], start[c])
  BY <1>0 DEF ClientInv
<1> QED BY <1>0, <1>2, <1>3, <1>4, OwnStep DEF Connected, ClientInv

LEMMA EmitClient ==
    ASSUME TypeOK, NEW c \in Clients, ClientInv(c), EmitBuffered(c)
    PROVE  ClientInv(c)'
<1> DEFINE x == client[c].cursor
           b == client[c].buffer
           r == client[c].rx
           g == got[c]
           s == start[c]
           h == Head(b)
           t == Tail(b)
           a == Append(g, h)
<1>0. /\ Alone(c) /\ start' = start /\ lossy' = lossy
      /\ got'[c] = a /\ client'[c].cursor = h /\ client'[c].buffer = t
      /\ client'[c].pc = client[c].pc /\ client'[c].rx = r
      /\ client'[c].lagged = client[c].lagged
  BY EmitEffect
<1>1. /\ x \in Nat /\ b \in Seq(Positions) /\ g \in Seq(Positions)
      /\ \A z \in committed : z \in Nat \ {0}
      /\ s \in {None} \cup Nat
  BY ClientTyped
<1>2. b # <<>> /\ client[c].pc = "wait"
  BY DEF EmitBuffered
<1>3. ModeOf(c) /\ RowsOf(x, b, g) /\ OrderOf(x, b, g) /\ BufferOf(x, b)
  BY DEF ClientInv
<1>4. Connected(c) => ChannelOf(x, b, r)
  BY DEF ClientInv
<1>5. c \notin lossy /\ s # None => GaplessOf(x, g, s)
  BY DEF ClientInv
<1>6. /\ h = b[1] /\ h \in Positions /\ 1 \in 1..Len(b)
      /\ t \in Seq(Positions) /\ Len(t) = Len(b) - 1
      /\ \A i \in 1..(Len(b) - 1) : t[i] = b[i + 1]
      /\ ToSet(b) = {h} \cup ToSet(t)
      /\ Len(b) \in Nat /\ Len(g) \in Nat
  BY <1>1, <1>2, TailSet, SeqOfPositions
<1>7. /\ a \in Seq(Positions) /\ Len(a) = Len(g) + 1
      /\ \A i \in 1..Len(g) : a[i] = g[i]
      /\ a[Len(g) + 1] = h
      /\ ToSet(a) = ToSet(g) \cup {h}
  BY <1>1, <1>6, AppendedSet
<1>8. /\ \A i \in 1..Len(g) : g[i] \in Nat
      /\ \A i \in 1..Len(b) : b[i] \in Nat
      /\ h \in Nat
  BY <1>1, <1>6, SeqOfPositions
<1>9. \A z : z \in ToSet(t) <=> \E i \in 1..Len(t) : t[i] = z
  BY <1>6, SeqOfPositions
<1>10. ModeOf(c)' /\ Connected(c)' = Connected(c)
  BY <1>0, <1>2, <1>3 DEF ModeOf, Connected
<1> HIDE DEF x, b, r, g, s, h, t, a
<1>11. RowsOf(h, t, a)
  BY <1>3, <1>6, <1>7 DEF RowsOf
<1>12. x < h
  BY <1>3, <1>6 DEF OrderOf
<1>13. \A i \in 1..Len(t) : i + 1 \in 1..Len(b) /\ t[i] = b[i + 1] /\ h < t[i] /\ t[i] \in Nat
  <2> SUFFICES ASSUME NEW i \in 1..Len(t)
               PROVE  i + 1 \in 1..Len(b) /\ t[i] = b[i + 1] /\ h < t[i] /\ t[i] \in Nat
    OBVIOUS
  <2>1. i + 1 \in 1..Len(b) /\ 1 < i + 1 /\ i \in 1..(Len(b) - 1)
    BY <1>6
  <2>2. b[1] < b[i + 1]
    BY <1>3, <1>6, <2>1 DEF OrderOf
  <2> QED BY <1>6, <1>8, <2>1, <2>2
<1>14. OrderOf(h, t, a)
  <2>1. ASSUME NEW i \in 1..Len(a), NEW j \in 1..Len(a), i < j PROVE a[i] < a[j]
    <3>1. i \in 1..Len(g) /\ (j \in 1..Len(g) \/ j = Len(g) + 1)
      BY <1>6, <1>7, <2>1
    <3>2. g[i] <= x /\ (j \in 1..Len(g) => g[i] < g[j])
      BY <1>3, <2>1, <3>1 DEF OrderOf
    <3>3. g[i] < h
      BY <1>1, <1>8, <1>12, <3>1, <3>2
    <3> QED BY <1>7, <3>1, <3>2, <3>3
  <2>2. ASSUME NEW i \in 1..Len(a) PROVE a[i] <= h
    <3>1. i \in 1..Len(g) \/ i = Len(g) + 1
      BY <1>6, <1>7
    <3>2. CASE i \in 1..Len(g)
      <4>1. g[i] <= x
        BY <1>3, <3>2 DEF OrderOf
      <4> QED BY <1>1, <1>7, <1>8, <1>12, <3>2, <4>1
    <3> QED BY <1>7, <1>8, <3>1, <3>2
  <2>3. ASSUME NEW i \in 1..Len(t), NEW j \in 1..Len(t), i < j PROVE t[i] < t[j]
    <3>1. i + 1 \in 1..Len(b) /\ j + 1 \in 1..Len(b) /\ i + 1 < j + 1
      BY <1>13, <2>3
    <3>2. b[i + 1] < b[j + 1]
      BY <1>3, <3>1 DEF OrderOf
    <3> QED BY <1>13, <3>2
  <2> QED BY <1>13, <2>1, <2>2, <2>3 DEF OrderOf
<1>15. \A q \in After(h) : q \in After(x) /\ q # h
  BY <1>1, <1>8, <1>12 DEF After
<1>16. BufferOf(h, t)
  <2> SUFFICES ASSUME NEW q \in After(h) \ late, NEW y \in ToSet(t), q < y
               PROVE  q \in ToSet(t)
    BY DEF BufferOf
  <2>1. q \in ToSet(b)
    BY <1>3, <1>6, <1>15 DEF BufferOf
  <2> QED BY <1>6, <1>15, <2>1
<1>17. ChannelOf(x, b, r) => ChannelOf(h, t, r)
  <2>1. \A q \in Owed(h, t) : q \in Owed(x, b)
    BY <1>6, <1>15 DEF Owed
  <2> QED BY <2>1 DEF ChannelOf
<1>18. c \notin lossy /\ s # None => GaplessOf(h, a, s)
  <2> SUFFICES ASSUME c \notin lossy, s # None, NEW p \in (committed \cap Matching) \ late,
                      s < p, p <= h
               PROVE  p \in ToSet(a)
    BY DEF GaplessOf
  <2>1. p \in Nat
    BY <1>1
  <2>2. CASE p <= x
    BY <1>5, <1>7, <2>2 DEF GaplessOf
  <2>3. CASE p = h
    BY <1>7, <2>3
  <2>4. CASE x < p /\ p < h
    <3>1. p \in After(x) \ late /\ h \in ToSet(b)
      BY <1>1, <1>6, <2>1, <2>4 DEF After
    <3>2. p \in ToSet(t)
      BY <1>3, <1>6, <1>8, <2>1, <2>4, <3>1 DEF BufferOf
    <3>3. PICK i \in 1..Len(t) : t[i] = p
      BY <1>9, <3>2
    <3> QED BY <1>8, <1>13, <2>1, <2>4, <3>3
  <2> QED BY <1>1, <1>8, <2>1, <2>2, <2>3, <2>4
<1>19. start'[c] = s
  BY <1>0 DEF s
<1> QED BY <1>0, <1>4, <1>10, <1>11, <1>14, <1>16, <1>17, <1>18, <1>19, OwnStep

(* A message the client takes is the next of the rows it is owed, and one  *)
(* it skips is none of them.                                               *)
LEMMA ReceiveClient ==
    ASSUME TypeOK, LogInv, NEW c \in Clients, ClientInv(c), Receive(c)
    PROVE  ClientInv(c)'
<1> DEFINE x == client[c].cursor
           b == client[c].buffer
           r == client[c].rx
           g == got[c]
           s == start[c]
           p == published[r + 1]
           a == Append(g, p)
<1>0. /\ Alone(c) /\ start' = start /\ lossy' = lossy
      /\ r + 1 \in 1..Len(published)
      /\ client'[c].pc = client[c].pc /\ client'[c].lagged = client[c].lagged
      /\ client'[c].buffer = b /\ client'[c].rx = r + 1
      /\ Wants(c, p) => client'[c].cursor = p /\ got'[c] = a
      /\ ~Wants(c, p) => client'[c].cursor = x /\ got'[c] = g
  BY ReceiveEffect
<1>1. /\ x \in Nat /\ r \in Nat /\ Len(published) \in Nat /\ g \in Seq(Positions)
      /\ \A z \in committed : z \in Nat \ {0}
      /\ s \in {None} \cup Nat
  BY ClientTyped
<1>2. b = <<>> /\ client[c].pc = "wait"
  BY DEF Receive
<1>3. ModeOf(c) /\ RowsOf(x, b, g) /\ OrderOf(x, b, g)
  BY DEF ClientInv
<1>4. c \notin lossy => ChannelOf(x, b, r)
  BY <1>2, <1>3 DEF ClientInv, Connected, ModeOf
<1>5. c \notin lossy /\ s # None => GaplessOf(x, g, s)
  BY DEF ClientInv
<1>6. p \in committed /\ p \in Positions /\ p \in Nat
  BY <1>0, SeqOfPositions DEF LogInv, TypeOK
<1>7. ModeOf(c)' /\ (Connected(c)' => c \notin lossy)
  BY <1>0, <1>2, <1>3 DEF ModeOf, Connected
<1>8. Wants(c, p) <=> p \in Matching /\ x < p
  BY <1>1, <1>6 DEF Wants
<1>9. Unread(r + 1) = Unread(r) \ {r + 1} /\ r + 1 \in Unread(r)
      /\ \A k \in Unread(r) : k \in Nat /\ ~(k < r + 1)
  BY <1>0, <1>1 DEF Unread
<1>10. start'[c] = s
  BY <1>0
<1>11. /\ a \in Seq(Positions) /\ Len(a) = Len(g) + 1
       /\ \A i \in 1..Len(g) : a[i] = g[i]
       /\ a[Len(g) + 1] = p
       /\ ToSet(a) = ToSet(g) \cup {p}
       /\ Len(g) \in Nat
       /\ \A i \in 1..Len(g) : g[i] \in Nat
  BY <1>1, <1>6, AppendedSet, SeqOfPositions
<1>12. \A y : BufferOf(y, b)
  BY <1>2, EmptyBuffer DEF BufferOf
<1>13. ASSUME NEW y, Owed(y, b) \subseteq Owed(x, b), p \notin Owed(y, b), ChannelOf(x, b, r)
       PROVE  ChannelOf(y, b, r + 1)
  <2> SUFFICES ASSUME NEW q \in Owed(y, b)
               PROVE  /\ \A i \in 1..listener.cursor :
                            log[i] = q => \E k \in Unread(r + 1) : published[k] = q
                      /\ \A j \in Unread(r + 1) : published[j] > q =>
                            \E k \in Unread(r + 1) : k < j /\ published[k] = q
    BY DEF ChannelOf
  <2>1. q \in Owed(x, b) /\ q # published[r + 1]
    BY <1>13
  <2>2. /\ \A i \in 1..listener.cursor :
               log[i] = q => \E k \in Unread(r) : published[k] = q
        /\ \A j \in Unread(r) : published[j] > q =>
               \E k \in Unread(r) : k < j /\ published[k] = q
    BY <1>13, <2>1 DEF ChannelOf
  <2> QED BY <1>9, <2>1, <2>2
<1> HIDE DEF x, b, r, g, s, p, a
<1>14. CASE Wants(c, p)
  <2>1. x < p /\ p \in Matching
    BY <1>8, <1>14
  <2>2. RowsOf(p, b, a)
    BY <1>3, <1>6, <1>11, <2>1 DEF RowsOf
  <2>3. OrderOf(p, b, a)
    <3>1. ASSUME NEW i \in 1..Len(g) PROVE g[i] < p
      <4>1. g[i] <= x
        BY <1>3 DEF OrderOf
      <4> QED BY <1>1, <1>6, <1>11, <2>1, <4>1
    <3>2. ASSUME NEW i \in 1..Len(a), NEW j \in 1..Len(a), i < j PROVE a[i] < a[j]
      <4>1. i \in 1..Len(g) /\ (j \in 1..Len(g) \/ j = Len(g) + 1)
        BY <1>11, <3>2
      <4>2. j \in 1..Len(g) => g[i] < g[j]
        BY <1>3, <3>2, <4>1 DEF OrderOf
      <4> QED BY <1>11, <3>1, <4>1, <4>2
    <3>3. ASSUME NEW i \in 1..Len(a) PROVE a[i] <= p
      <4>1. i \in 1..Len(g) \/ i = Len(g) + 1
        BY <1>11
      <4>2. a[i] \in Nat /\ (a[i] < p \/ a[i] = p)
        BY <1>6, <1>11, <3>1, <4>1
      <4> QED BY <1>6, <4>2
    <3> QED BY <1>2, <3>2, <3>3, EmptyBuffer DEF OrderOf
  <2>4. c \notin lossy => ChannelOf(p, b, r + 1)
    <3>1. Owed(p, b) \subseteq Owed(x, b) /\ p \notin Owed(p, b)
      <4>1. \A q \in committed : (q > p => q > x) /\ ~(p > p)
        BY <1>1, <1>6, <2>1
      <4>2. After(p) \subseteq After(x) /\ p \notin After(p)
        BY <1>6, <4>1 DEF After
      <4> QED BY <4>2 DEF Owed
    <3> QED BY <1>4, <1>13, <3>1
  <2>5. c \notin lossy /\ s # None => GaplessOf(p, a, s)
    <3> SUFFICES ASSUME c \notin lossy, s # None, NEW y \in (committed \cap Matching) \ late,
                        s < y, y <= p
                 PROVE  y \in ToSet(a)
      BY DEF GaplessOf
    <3>1. y \in Nat
      BY <1>1
    <3>2. CASE y <= x
      BY <1>5, <1>11, <3>2 DEF GaplessOf
    <3>3. CASE y = p
      BY <1>11, <3>3
    <3>4. CASE x < y /\ y < p
      <4>1. y \in Owed(x, b)
        BY <1>1, <1>2, <3>1, <3>4, EmptyBuffer DEF Owed, After
      <4>2. published[r + 1] > y
        BY <1>6, <3>1, <3>4 DEF p
      <4>3. \E k \in Unread(r) : k < r + 1
        BY <1>4, <1>9, <4>1, <4>2 DEF ChannelOf
      <4> QED BY <1>9, <4>3
    <3> QED BY <1>1, <1>6, <3>1, <3>2, <3>3, <3>4
  <2> QED BY <1>0, <1>7, <1>10, <1>12, <1>14, <2>2, <2>3, <2>4, <2>5, OwnStep
<1>15. CASE ~Wants(c, p)
  <2>1. c \notin lossy => ChannelOf(x, b, r + 1)
    <3>1. p \notin Owed(x, b)
      BY <1>1, <1>6, <1>8, <1>15 DEF Owed, After
    <3> QED BY <1>4, <1>13, <3>1
  <2> QED BY <1>0, <1>3, <1>5, <1>7, <1>10, <1>12, <1>15, <2>1, OwnStep
<1> QED BY <1>14, <1>15

(* A read that LIMIT does not cut leaves nothing owed; one that it cuts    *)
(* after a lag marks the client.                                           *)
LEMMA FetchClient ==
    ASSUME TypeOK, NEW c \in Clients, ClientInv(c), Fetch(c)
    PROVE  ClientInv(c)'
<1> DEFINE x == client[c].cursor
           b == client[c].buffer
           r == client[c].rx
           g == got[c]
           s == start[c]
           f == Fetched(c)
<1>0. /\ Alone(c) /\ start' = start /\ got' = got /\ lossy \subseteq lossy'
      /\ client'[c].pc = "wait" /\ client'[c].lagged = FALSE
      /\ client'[c].cursor = x /\ client'[c].rx = r /\ client'[c].buffer = f
      /\ client[c].lagged /\ Cardinality(After(x)) > LIMIT => c \in lossy'
  BY FetchEffect DEF Alone
<1>1. /\ f \in Seq(Positions)
      /\ \A i, j \in 1..Len(f) : i < j => f[i] < f[j]
      /\ ToSet(f) \subseteq After(x)
      /\ \A q \in After(x), y \in ToSet(f) : q < y => q \in ToSet(f)
      /\ Cardinality(After(x)) <= LIMIT => ToSet(f) = After(x)
  BY FetchedRows
<1>2. Cardinality(After(x)) \in Nat /\ x \in Nat /\ \A z \in committed : z \in Nat
  BY RowSets, PositionSets, ClientTyped
<1>3. ModeOf(c) /\ RowsOf(x, b, g) /\ OrderOf(x, b, g) /\ client[c].pc = "fetch" /\ b = <<>>
  BY DEF ClientInv, Fetch, ModeOf
<1>4. Connected(c) => ChannelOf(x, b, r)
  BY DEF ClientInv
<1>5. c \notin lossy' /\ s # None => GaplessOf(x, g, s)
  BY <1>0 DEF ClientInv
<1>6. ModeOf(c)' /\ got'[c] = g /\ start'[c] = s
  BY <1>0 DEF ModeOf
<1>7. \A z : z \in ToSet(f) <=> \E i \in 1..Len(f) : f[i] = z
  BY <1>1, SeqOfPositions
<1>8. Connected(c)' => c \notin lossy'
  BY DEF Connected
<1> HIDE DEF b, r, g, s, f
<1>9. RowsOf(x, f, g)
  BY <1>1, <1>3 DEF RowsOf, After
<1>10. OrderOf(x, f, g)
  <2>1. \A i \in 1..Len(f) : x < f[i]
    <3> SUFFICES ASSUME NEW i \in 1..Len(f) PROVE x < f[i]
      OBVIOUS
    <3>1. f[i] \in After(x)
      BY <1>1, <1>7
    <3> QED BY <1>2, <3>1 DEF After
  <2> QED BY <1>1, <1>3, <2>1 DEF OrderOf
<1>11. BufferOf(x, f)
  BY <1>1 DEF BufferOf
<1>12. c \notin lossy' => ChannelOf(x, f, r)
  <2>1. CASE client[c].lagged
    <3>1. c \notin lossy' => Cardinality(After(x)) <= LIMIT
      BY <1>0, <1>2, <2>1, EventStreamAssumption
    <3>2. c \notin lossy' => Owed(x, f) = {}
      BY <1>1, <3>1 DEF Owed
    <3> QED BY <3>2 DEF ChannelOf
  <2>2. CASE ~client[c].lagged
    <3>1. c \notin lossy' => ChannelOf(x, b, r)
      BY <1>0, <1>3, <1>4, <2>2 DEF Connected
    <3>2. Owed(x, f) \subseteq Owed(x, b)
      BY <1>3, EmptyBuffer DEF Owed
    <3> QED BY <3>1, <3>2 DEF ChannelOf
  <2> QED BY <2>1, <2>2
<1> QED BY <1>0, <1>5, <1>6, <1>8, <1>9, <1>10, <1>11, <1>12, OwnStep

LEMMA MoveClient ==
    ASSUME TypeOK, NEW c \in Clients, ClientInv(c),
           Lagged(c) \/ QuietPeriod(c) \/ FetchFails(c) \/ Close(c)
    PROVE  ClientInv(c)'
<1> DEFINE x == client[c].cursor
           b == client[c].buffer
           r == client[c].rx
<1>0. client[c].lagged \in BOOLEAN
  BY ClientTyped
<1>1. CASE Lagged(c)
  <2>1. /\ Alone(c) /\ start' = start /\ got' = got /\ lossy \subseteq lossy'
        /\ client'[c].pc = "fetch" /\ client'[c].lagged
        /\ client'[c].cursor = x /\ client'[c].buffer = b /\ b = <<>>
    BY <1>1, LaggedEffect DEF Alone
  <2>2. ModeOf(c)' /\ ~Connected(c)'
    BY <2>1 DEF ModeOf, Connected
  <2>3. c \notin lossy' /\ start[c] # None => GaplessOf(x, got[c], start[c])
    BY <2>1 DEF ClientInv
  <2> QED BY <2>1, <2>2, <2>3, OwnStep DEF ClientInv
<1>2. CASE QuietPeriod(c) \/ FetchFails(c) \/ Close(c)
  <2>1. /\ Alone(c) /\ start' = start /\ got' = got /\ lossy \subseteq lossy'
        /\ client'[c].cursor = x /\ client'[c].rx = r
        /\ client'[c].buffer = b
        /\ \/ client'[c].pc = "off"
           \/ client'[c].pc = "fetch" /\ client[c].pc = "wait" /\ b = <<>>
                 /\ client'[c].lagged = client[c].lagged
           \/ client'[c].pc = "wait" /\ client'[c].lagged = FALSE
                 /\ client[c].pc = "fetch" /\ (client[c].lagged => c \in lossy')
    BY <1>2, MoveEffect DEF Alone
  <2>2. ModeOf(c)'
    BY <2>1 DEF ModeOf
  <2>3. Connected(c)' => Connected(c)
    BY <1>0, <2>1 DEF Connected
  <2>4. c \notin lossy' /\ start[c] # None => GaplessOf(x, got[c], start[c])
    BY <2>1 DEF ClientInv
  <2> QED BY <2>1, <2>2, <2>3, <2>4, OwnStep DEF ClientInv
<1> QED BY <1>1, <1>2

-----------------------------------------------------------------------------
(* The invariant holds *)

LEMMA InvInit ==
    ASSUME Init PROVE Inv
<1> USE EventStreamAssumption
<1>0. /\ <<>> \in Seq(Positions) /\ Len(<<>>) = 0 /\ DOMAIN <<>> = {} /\ ToSet(<<>>) = {}
      /\ 1..0 = {}
  BY EmptySeq, EmptyBuffer
<1>1. PICK e \in Seq(Positions) : e = <<>>
  BY <1>0
<1>2. Len(e) = 0 /\ DOMAIN e = {} /\ ToSet(e) = {}
  BY <1>0, <1>1
<1>3. /\ log = e /\ committed = {} /\ late = {} /\ published = e
      /\ listener = [pc |-> "down", up |-> FALSE, last_seen |-> None, cursor |-> 0,
                     notified |-> FALSE]
      /\ client = [c \in Clients |-> [pc |-> "off", cursor |-> 0, rx |-> 0, buffer |-> e,
                                      lagged |-> FALSE]]
      /\ start = [c \in Clients |-> None]
      /\ got = [c \in Clients |-> e]
      /\ lossy = {} /\ failures = 0 /\ opens = 0
  BY <1>1 DEF Init
<1>4. TypeOK
  <2>1. listener \in ListenerState /\ listener.cursor = 0 /\ listener.last_seen = None
    BY <1>3 DEF ListenerState
  <2>2. client \in [Clients -> ClientState]
    BY <1>3 DEF ClientState
  <2>3. \A c \in Clients : client[c].rx = 0 /\ client[c].buffer = e
    BY <1>3
  <2>4. IsInjective(log)
    BY <1>2, <1>3 DEF IsInjective
  <2> QED BY <1>2, <1>3, <2>1, <2>2, <2>3, <2>4 DEF TypeOK
<1>6. LogInv
  BY <1>2, <1>3 DEF LogInv, CommittedSeqs
<1>7. SessionInv
  BY <1>3 DEF SessionInv
<1>8. ASSUME NEW c \in Clients PROVE ClientInv(c)
  <2>1. /\ client[c].pc = "off" /\ client[c].cursor = 0 /\ client[c].buffer = e
        /\ start[c] = None /\ got[c] = e
    BY <1>3
  <2>2. ModeOf(c) /\ ~Connected(c)
    BY <2>1 DEF ModeOf, Connected
  <2>3. RowsOf(0, e, e)
    BY <1>2 DEF RowsOf
  <2>4. OrderOf(0, e, e)
    BY <1>0, <1>2 DEF OrderOf
  <2>5. BufferOf(0, e)
    BY <1>2 DEF BufferOf
  <2> QED BY <2>1, <2>2, <2>3, <2>4, <2>5 DEF ClientInv
<1> QED BY <1>4, <1>6, <1>7, <1>8 DEF Inv

LEMMA InvStep ==
    ASSUME Inv, [Next]_vars
    PROVE  Inv'
<1>0. /\ TypeOK /\ LogInv /\ SessionInv /\ \A d \in Clients : ClientInv(d)
      /\ listener.cursor \in Nat
  BY DEF Inv, TypeOK, ListenerState
<1>1. TypeOK' /\ LogInv' /\ SessionInv'
  BY <1>0, TypeStep, LogStep, SessionStep
<1>2. listener'.cursor \in Nat
  BY <1>1 DEF TypeOK, ListenerState
<1>3. ASSUME NEW d \in Clients PROVE ClientInv(d)'
  <2>1. ClientInv(d)
    BY <1>0
  <2>2. ASSUME NEW p \in Positions, Insert(p) \/ Commit(p) PROVE ClientInv(d)'
    BY <1>0, <2>1, <2>2, InsertClient, CommitClient
  <2>3. CASE Listen \/ StartSession \/ Notified \/ ListenerFails
    <3>1. /\ UNCHANGED <<log, committed, late, published, client, start, got>> /\ lossy \subseteq lossy'
          /\ \/ listener'.cursor <= listener.cursor
             \/ client[d].pc \in {"wait", "fetch"} =>
                    After(client[d].cursor) = {} \/ d \in lossy'
      BY <1>0, <2>3, ListenerEffect
    <3> QED BY <1>0, <1>2, <2>1, <3>1, Bystander
  <2>4. CASE CatchUp
    BY <1>0, <2>1, <2>4, CatchUpClient
  <2>5. ASSUME NEW c \in Clients, ClientAction(c), c # d PROVE ClientInv(d)'
    <3>1. Alone(c)
      BY <1>0, <2>5, ClientTypes
    <3>2. /\ UNCHANGED <<log, committed, late, published, listener>> /\ lossy \subseteq lossy'
          /\ client'[d] = client[d] /\ start'[d] = start[d] /\ got'[d] = got[d]
      BY <2>5, <3>1 DEF Alone
    <3>3. listener'.cursor <= listener.cursor
      BY <1>0, <3>2
    <3> QED BY <1>0, <1>2, <2>1, <3>2, <3>3, Bystander
  <2>6. CASE ClientAction(d)
    <3>1. CASE Subscribe(d)
      BY <1>0, <2>1, <3>1, SubscribeClient
    <3>2. CASE EmitBuffered(d)
      BY <1>0, <2>1, <3>2, EmitClient
    <3>3. CASE Receive(d)
      BY <1>0, <2>1, <3>3, ReceiveClient
    <3>4. CASE Fetch(d)
      BY <1>0, <2>1, <3>4, FetchClient
    <3>5. CASE Open(d)
      BY <1>0, <2>1, <3>5, OpenClient
    <3>6. CASE Lagged(d) \/ QuietPeriod(d) \/ FetchFails(d) \/ Close(d)
      BY <1>0, <2>1, <3>6, MoveClient
    <3> QED BY <2>6, <3>1, <3>2, <3>3, <3>4, <3>5, <3>6 DEF ClientAction, ClientStep
  <2>7. CASE UNCHANGED vars
    <3>1. listener'.cursor <= listener.cursor
      BY <1>0, <2>7 DEF vars
    <3> QED BY <1>0, <1>2, <2>1, <2>7, <3>1, Bystander DEF vars
  <2> QED BY <2>2, <2>3, <2>4, <2>5, <2>6, <2>7 DEF Next, ListenerStep, ClientAction
<1> QED BY <1>1, <1>3 DEF Inv

LEMMA InvHolds == Spec => []Inv
  BY InvInit, InvStep, PTL DEF Spec

(* Every variable keeps its type: positions, the listener's and the        *)
(* clients' records, the receive position within the channel and the       *)
(* buffer within one read.                                                 *)
THEOREM StreamTypeCorrect == Spec => []TypeOK
<1>1. Inv => TypeOK
  BY DEF Inv
<1> QED BY <1>1, InvHolds, PTL

(* stream_events sends each client rows of the contract and name it asked  *)
(* for, in strictly increasing position over all of its connections: what  *)
(* the channel brings, a batch broadcast again after a failure of the      *)
(* listener, and what is read from the table never make it send a row      *)
(* twice or go back.                                                       *)
THEOREM SentInOrderHolds == Spec => []SentInOrder
<1>1. Inv => SentInOrder
  <2> SUFFICES ASSUME Inv, NEW c \in Clients
               PROVE  /\ \A i, j \in DOMAIN got[c] : i < j => got[c][i] < got[c][j]
                      /\ ToSet(got[c]) \subseteq Matching
    BY DEF SentInOrder
  <2>1. TypeOK /\ ClientInv(c)
    BY DEF Inv
  <2>2. DOMAIN got[c] = 1..Len(got[c])
    BY <2>1, ClientTyped, SeqOfPositions
  <2> QED BY <2>1, <2>2 DEF ClientInv, RowsOf, OrderOf
<1> QED BY <1>1, InvHolds, PTL

(* A client outside the named causes of loss has been sent every row of    *)
(* its contract between where it started and where it is, except rows      *)
(* committed out of order, by position or by seq: for any number of        *)
(* clients and rows, any channel capacity, batch size and fetch limit, and *)
(* any interleaving of inserts, commits, failures of the listener and of   *)
(* reads, lags and reconnections.                                          *)
THEOREM GaplessHolds == Spec => []Gapless
<1>1. Inv => Gapless
  BY DEF Inv, ClientInv, GaplessOf, Gapless
<1> QED BY <1>1, InvHolds, PTL
=============================================================================
