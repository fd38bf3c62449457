----------------------- MODULE WebhookEnqueueProofs -----------------------
(***************************************************************************)
(* What TLAPS proves of WebhookEnqueue, for any number of subscriptions,   *)
(* replicas, rows and any batch size.                                      *)
(*                                                                         *)
(* Ids are allocated at INSERT and published at COMMIT, so a watermark     *)
(* that follows the largest committed id is only safe while no lower id is *)
(* still open.  Settled says so; it holds when a single session inserts    *)
(* rows, which is the hypothesis of the second theorem.                    *)
(***************************************************************************)
EXTENDS WebhookEnqueue, TLAPS

OneWriter == \A v, w \in Writers : v = w
OneDispatcher == \A c, d \in Dispatchers : c = d

(* Every id up to n has been decided. *)
Settled(k, n) == \A i \in Ids : i <= n => row[k][i] \in {"committed", "aborted"}

(* Ids below the sequence have been handed out; an open row is the newest  *)
(* of its stream and belongs to some writer's transaction.                 *)
WritersInv ==
    /\ \A k \in Streams, i \in Ids : i < nextId[k] <=> row[k][i] # "free"
    /\ \A k \in Streams, i \in Ids : row[k][i] = "open" =>
        /\ i = nextId[k] - 1
        /\ \E w \in Writers : writing[w] = [stream |-> k, id |-> i]
    /\ \A w \in Writers : writing[w] # NoRow =>
        row[writing[w].stream][writing[w].id] = "open"

(* Nothing the dispatchers or subscriptions hold lies above an open row. *)
SettledInv ==
    /\ \A k \in Streams : Settled(k, mark[k])
    /\ \A d \in Dispatchers :
        Settled(disp[d].stream, disp[d].last) /\ Settled(disp[d].stream, disp[d].upper)
    /\ \A s \in Subs : Settled("event", sub[s].starting)

(* An owed row is selectable, and delivered once any watermark, stored or  *)
(* held by a replica, has passed it.                                       *)
OwedRow(s, i) ==
    /\ sub[s].state = "active"
    /\ row[Kind[s]][i] = "committed"
    /\ i \in Matches[s] \ Baseline[Kind[s]]
    /\ Kind[s] = "event" => i > sub[s].starting
    /\ i <= mark[Kind[s]] => [sub |-> s, id |-> i] \in delivery
    /\ \A d \in Dispatchers :
        disp[d].stream = Kind[s] /\ i <= disp[d].last
            => [sub |-> s, id |-> i] \in delivery

OwedInv == \A s \in Subs : \A i \in owed[s] : OwedRow(s, i)

IInv == EnqueueTypeOK /\ WritersInv /\ SettledInv /\ OwedInv

-----------------------------------------------------------------------------
(* A window never ends above the largest id it was given. *)
LEMMA WindowEndBounds ==
    ASSUME NEW last \in 0..MaxId, NEW m \in 0..MaxId, last < m
    PROVE  /\ WindowEnd(last, m) \in 0..MaxId
           /\ last <= WindowEnd(last, m)
           /\ WindowEnd(last, m) <= m
BY EnqueueAssumption DEF WindowEnd

LEMMA TypeInit == EnqueueInit => EnqueueTypeOK
BY EnqueueAssumption DEF EnqueueInit, EnqueueTypeOK, NoRow, Between, Pass, NoSub, Ids, Streams

LEMMA TypeStep == EnqueueTypeOK /\ [EnqueueNext]_enqueueVars => EnqueueTypeOK'
<1> SUFFICES ASSUME EnqueueTypeOK, [EnqueueNext]_enqueueVars PROVE EnqueueTypeOK'
  OBVIOUS
<1> USE EnqueueAssumption DEF EnqueueTypeOK, Ids, Streams
<1>1. ASSUME NEW w \in Writers, NEW k \in Streams, InsertRow(w, k) PROVE EnqueueTypeOK'
  <2>1. nextId[k] \in Ids /\ nextId[k] + 1 \in 1..(MaxId + 1)
    BY <1>1 DEF InsertRow
  <2>2. [row[k] EXCEPT ![nextId[k]] = "open"]
          \in [Ids -> {"free", "open", "committed", "aborted"}]
    BY <2>1
  <2>3. row' \in [Streams -> [Ids -> {"free", "open", "committed", "aborted"}]]
    BY <1>1, <2>2 DEF InsertRow
  <2>4. nextId' \in [Streams -> 1..(MaxId + 1)]
    BY <1>1, <2>1 DEF InsertRow
  <2>5. writing' \in [Writers -> [stream : Streams, id : Ids] \cup {NoRow}]
    BY <1>1, <2>1 DEF InsertRow
  <2> QED BY <1>1, <2>3, <2>4, <2>5 DEF InsertRow
<1>2. ASSUME NEW w \in Writers, CommitRow(w) PROVE EnqueueTypeOK'
  BY <1>2 DEF CommitRow, NoRow
<1>3. ASSUME NEW w \in Writers, AbortRow(w) PROVE EnqueueTypeOK'
  BY <1>3 DEF AbortRow, NoRow
<1>4. ASSUME NEW s \in Subs, ReadStartingSeq(s) PROVE EnqueueTypeOK'
  <2>1. PICK m \in 0..MaxId :
          sub' = [sub EXCEPT ![s] = [state |-> "creating", starting |-> m]]
    BY <1>4 DEF ReadStartingSeq
  <2> QED BY <1>4, <2>1 DEF ReadStartingSeq
<1>5. ASSUME NEW s \in Subs, CreateWebhook(s) PROVE EnqueueTypeOK'
  BY <1>5 DEF CreateWebhook
<1>6. ASSUME NEW s \in Subs, Deactivate(s) PROVE EnqueueTypeOK'
  BY <1>6 DEF Deactivate
<1>7. ASSUME NEW s \in Subs, Reactivate(s) PROVE EnqueueTypeOK'
  BY <1>7 DEF Reactivate
<1>8. ASSUME NEW s \in Subs, DeleteWebhook(s) PROVE EnqueueTypeOK'
  BY <1>8 DEF DeleteWebhook
<1>9. ASSUME NEW d \in Dispatchers, ReadWatermark(d) PROVE EnqueueTypeOK'
  BY <1>9 DEF ReadWatermark, Pass
<1>10. ASSUME NEW d \in Dispatchers, ReadMaxId(d) PROVE EnqueueTypeOK'
  <2>1. PICK m \in 0..MaxId :
          disp' = [disp EXCEPT ![d] =
              IF m <= @.last THEN AfterPass(@.stream)
              ELSE Pass("commit", @.stream, @.last, WindowEnd(@.last, m))]
    BY <1>10 DEF ReadMaxId
  <2>2. ~(m <= disp[d].last) => WindowEnd(disp[d].last, m) \in 0..MaxId
    BY WindowEndBounds
  <2> QED BY <1>10, <2>1, <2>2 DEF ReadMaxId, AfterPass, Between, Pass
<1>11. ASSUME NEW d \in Dispatchers, CommitBatch(d) PROVE EnqueueTypeOK'
  BY <1>11 DEF CommitBatch, NewMark, AfterPass, Between, Pass
<1>12. ASSUME NEW d \in Dispatchers, PassFails(d) PROVE EnqueueTypeOK'
  BY <1>12 DEF PassFails, Between, Pass
<1>13. CASE UNCHANGED enqueueVars
  BY <1>13 DEF enqueueVars
<1> QED
  BY <1>1, <1>2, <1>3, <1>4, <1>5, <1>6, <1>7, <1>8, <1>9, <1>10, <1>11,
     <1>12, <1>13 DEF EnqueueNext, WriterStep, SubStep, PassStep

(* The variables of the enqueue model keep their types: ids stay inside    *)
(* the sequence and no window or watermark leaves it.                      *)
THEOREM TypeCorrect == EnqueueSpec => []EnqueueTypeOK
BY TypeInit, TypeStep, PTL DEF EnqueueSpec

-----------------------------------------------------------------------------
(* Below a committed row everything is decided. *)
LEMMA CommittedSettled ==
    ASSUME EnqueueTypeOK, WritersInv, NEW k \in Streams, NEW m \in 0..MaxId, IsMaxId(k, m)
    PROVE  Settled(k, m)
<1> SUFFICES ASSUME NEW i \in Ids, i <= m
             PROVE  row[k][i] \in {"committed", "aborted"}
  BY DEF Settled
<1>1. m \in Ids /\ row[k][m] = "committed"
  BY EnqueueAssumption DEF IsMaxId, Ids
<1>2. m < nextId[k] /\ nextId[k] \in Nat
  BY <1>1, EnqueueAssumption DEF WritersInv, EnqueueTypeOK
<1>3. i < nextId[k] /\ row[k][i] # "free"
  BY <1>2, EnqueueAssumption DEF WritersInv, Ids
<1>4. row[k][i] # "open"
  <2>1. row[k][i] = "open" => i = nextId[k] - 1
    BY DEF WritersInv
  <2>2. i < m \/ i = m
    BY <1>1, EnqueueAssumption DEF Ids
  <2> QED BY <1>1, <1>2, <2>1, <2>2, EnqueueAssumption DEF Ids
<1> QED BY <1>3, <1>4 DEF EnqueueTypeOK

(* With one writer, no row is open when a new one is inserted. *)
LEMMA InsertAlone ==
    ASSUME EnqueueTypeOK, WritersInv, OneWriter,
           NEW w \in Writers, NEW k \in Streams, InsertRow(w, k)
    PROVE  \A j \in Streams, i \in Ids : row[j][i] # "open"
<1> SUFFICES ASSUME NEW j \in Streams, NEW i \in Ids, row[j][i] = "open"
             PROVE  FALSE
  OBVIOUS
<1>1. PICK v \in Writers : writing[v] = [stream |-> j, id |-> i]
  BY DEF WritersInv
<1>2. writing[w] = [stream |-> j, id |-> i]
  BY <1>1 DEF OneWriter
<1>3. [stream |-> j, id |-> i] = [stream |-> "none", id |-> 0]
  BY <1>2 DEF InsertRow, NoRow
<1>4. i = 0
  BY <1>3
<1> QED BY <1>4, EnqueueAssumption DEF Ids

(* The other actions touch neither rows nor transactions. *)
QuietStep ==
    \/ \E s \in Subs : SubStep(s)
    \/ \E d \in Dispatchers : PassStep(d) \/ PassFails(d)
    \/ UNCHANGED enqueueVars

LEMMA QuietRows == QuietStep => UNCHANGED <<row, nextId, writing>>
BY DEF QuietStep, SubStep, PassStep, ReadStartingSeq, CreateWebhook, Deactivate,
       Reactivate, DeleteWebhook, ReadWatermark, ReadMaxId, CommitBatch, NewMark,
       PassFails, enqueueVars

(* What the three writer actions do to the rows. *)
InsertEffect(w, k) ==
    /\ nextId[k] \in Ids /\ nextId'[k] = nextId[k] + 1
    /\ \A j \in Streams : j # k => nextId'[j] = nextId[j]
    /\ row'[k][nextId[k]] = "open"
    /\ \A j \in Streams, i \in Ids :
        (j = k /\ i = nextId[k]) \/ row'[j][i] = row[j][i]
    /\ writing'[w] = [stream |-> k, id |-> nextId[k]]

EndEffect(w) ==
    /\ writing[w].stream \in Streams /\ writing[w].id \in Ids
    /\ writing[w] = [stream |-> writing[w].stream, id |-> writing[w].id]
    /\ writing[w] # NoRow /\ nextId' = nextId
    /\ row'[writing[w].stream][writing[w].id] \in {"committed", "aborted"}
    /\ \A j \in Streams, i \in Ids :
        (j = writing[w].stream /\ i = writing[w].id) \/ row'[j][i] = row[j][i]
    /\ writing'[w] = NoRow

LEMMA InsertRows ==
    ASSUME EnqueueTypeOK, NEW w \in Writers, NEW k \in Streams, InsertRow(w, k)
    PROVE  InsertEffect(w, k)
BY EnqueueAssumption DEF EnqueueTypeOK, InsertRow, InsertEffect, Ids

LEMMA EndRows ==
    ASSUME EnqueueTypeOK, NEW w \in Writers, CommitRow(w) \/ AbortRow(w)
    PROVE  EndEffect(w)
<1>1. writing[w] \in [stream : Streams, id : Ids]
  BY DEF EnqueueTypeOK, CommitRow, AbortRow
<1>2. CASE CommitRow(w)
  BY <1>1, <1>2 DEF EnqueueTypeOK, CommitRow, EndEffect
<1>3. CASE AbortRow(w)
  BY <1>1, <1>3 DEF EnqueueTypeOK, AbortRow, EndEffect
<1> QED BY <1>2, <1>3

(* Open rows stay the newest of their stream, one per transaction. *)
LEMMA WritersStep ==
    ASSUME EnqueueTypeOK, WritersInv, OneWriter, [EnqueueNext]_enqueueVars
    PROVE  WritersInv'
<1>1. ASSUME NEW w \in Writers, NEW k \in Streams, InsertRow(w, k) PROVE WritersInv'
  <2>1. \A j \in Streams, i \in Ids : row[j][i] # "open"
    BY <1>1, InsertAlone
  <2>2. InsertEffect(w, k)
    BY <1>1, InsertRows
  <2>3. \A j \in Streams, i \in Ids : i < nextId'[j] <=> row'[j][i] # "free"
    <3> TAKE j \in Streams, i \in Ids
    <3>1. i < nextId[j] <=> row[j][i] # "free"
      BY DEF WritersInv
    <3>2. nextId[j] \in Nat /\ nextId[k] \in Nat /\ i \in Nat
      BY EnqueueAssumption DEF EnqueueTypeOK, Ids
    <3> QED BY <2>2, <3>1, <3>2 DEF InsertEffect
  <2>4. \A j \in Streams, i \in Ids : row'[j][i] = "open" =>
            /\ i = nextId'[j] - 1
            /\ \E v \in Writers : writing'[v] = [stream |-> j, id |-> i]
    <3> TAKE j \in Streams, i \in Ids
    <3> HAVE row'[j][i] = "open"
    <3>1. j = k /\ i = nextId[k]
      BY <2>1, <2>2 DEF InsertEffect
    <3>2. nextId[k] \in Nat
      BY EnqueueAssumption DEF EnqueueTypeOK
    <3> QED BY <2>2, <3>1, <3>2 DEF InsertEffect
  <2>5. \A v \in Writers : v = w
    BY DEF OneWriter
  <2>6. row'[writing'[w].stream][writing'[w].id] = "open"
    BY <2>2 DEF InsertEffect
  <2> QED BY <2>3, <2>4, <2>5, <2>6 DEF WritersInv, NoRow
<1>2. ASSUME NEW w \in Writers, CommitRow(w) \/ AbortRow(w) PROVE WritersInv'
  <2>1. EndEffect(w)
    BY <1>2, EndRows
  <2>2. row[writing[w].stream][writing[w].id] = "open"
    BY <2>1 DEF WritersInv, EndEffect
  <2>3. \A j \in Streams, i \in Ids : i < nextId'[j] <=> row'[j][i] # "free"
    <3> TAKE j \in Streams, i \in Ids
    <3>1. i < nextId[j] <=> row[j][i] # "free"
      BY DEF WritersInv
    <3> QED BY <2>1, <2>2, <3>1 DEF EndEffect
  <2>4. \A j \in Streams, i \in Ids : row'[j][i] # "open"
    <3> SUFFICES ASSUME NEW j \in Streams, NEW i \in Ids, row'[j][i] = "open"
                 PROVE  FALSE
      OBVIOUS
    <3>1. row[j][i] = "open"
      BY <2>1, <2>2 DEF EndEffect
    <3>2. writing[w] = [stream |-> j, id |-> i]
      BY <3>1 DEF WritersInv, OneWriter
    <3> QED BY <2>1, <3>2 DEF EndEffect
  <2>5. \A v \in Writers : writing'[v] = NoRow
    BY <2>1 DEF OneWriter, EndEffect
  <2> QED BY <2>3, <2>4, <2>5 DEF WritersInv, NoRow
<1>3. CASE QuietStep
  BY <1>3, QuietRows DEF WritersInv
<1> QED BY <1>1, <1>2, <1>3 DEF EnqueueNext, WriterStep, QuietStep

-----------------------------------------------------------------------------
(* A decided id stays decided. *)
SettledNext(k, n) == \A i \in Ids : i <= n => row'[k][i] \in {"committed", "aborted"}

LEMMA SettledKept ==
    ASSUME EnqueueTypeOK, WritersInv, [EnqueueNext]_enqueueVars, NEW j \in Streams, NEW n \in 0..MaxId,
           Settled(j, n)
    PROVE  SettledNext(j, n)
<1> SUFFICES ASSUME NEW i \in Ids, i <= n
             PROVE  row'[j][i] \in {"committed", "aborted"}
  BY DEF SettledNext
<1>0. row[j][i] \in {"committed", "aborted"}
  BY DEF Settled
<1>1. ASSUME NEW w \in Writers, NEW k \in Streams, InsertRow(w, k)
      PROVE  row'[j][i] \in {"committed", "aborted"}
  <2>1. InsertEffect(w, k)
    BY <1>1, InsertRows
  <2>2. row[k][nextId[k]] = "free"
    <3>1. nextId[k] \in Ids /\ nextId[k] \in Int
      BY <2>1, EnqueueAssumption DEF InsertEffect, Ids
    <3> QED BY <3>1 DEF WritersInv
  <2> QED BY <1>0, <2>1, <2>2 DEF InsertEffect
<1>2. ASSUME NEW w \in Writers, CommitRow(w) \/ AbortRow(w)
      PROVE  row'[j][i] \in {"committed", "aborted"}
  <2>1. EndEffect(w)
    BY <1>2, EndRows
  <2> QED BY <1>0, <2>1 DEF EndEffect
<1>3. CASE QuietStep
  BY <1>0, <1>3, QuietRows
<1> QED BY <1>1, <1>2, <1>3 DEF EnqueueNext, WriterStep, QuietStep

(* Marks, windows and starting points only ever take decided ids. *)
LEMMA SettledStep ==
    ASSUME EnqueueTypeOK, WritersInv, SettledInv, [EnqueueNext]_enqueueVars
    PROVE  SettledInv'
<1>1. ASSUME NEW k \in Streams PROVE Settled(k, mark[k])'
  <2>1. SettledNext(k, mark[k])
    BY SettledKept DEF SettledInv, EnqueueTypeOK
  <2>2. ASSUME NEW d \in Dispatchers, CommitBatch(d) PROVE Settled(k, mark[k])'
    <3>1. mark'[k] = IF k = disp[d].stream THEN disp[d].upper ELSE mark[k]
      BY <2>2 DEF CommitBatch, NewMark, EnqueueTypeOK
    <3>2. SettledNext(disp[d].stream, disp[d].upper)
      BY SettledKept DEF SettledInv, EnqueueTypeOK
    <3> QED BY <2>1, <3>1, <3>2 DEF Settled, SettledNext
  <2>3. (\A d \in Dispatchers : ~CommitBatch(d)) => mark' = mark
    BY DEF EnqueueNext, WriterStep, SubStep, PassStep, InsertRow, CommitRow, AbortRow,
           ReadStartingSeq, CreateWebhook, Deactivate, Reactivate, DeleteWebhook,
           ReadWatermark, ReadMaxId, PassFails, enqueueVars
  <2> QED BY <2>1, <2>2, <2>3 DEF Settled, SettledNext
<1>2. ASSUME NEW c \in Dispatchers
      PROVE  Settled(disp[c].stream, disp[c].last)'
                /\ Settled(disp[c].stream, disp[c].upper)'
  <2>1. SettledNext(disp[c].stream, disp[c].last)
          /\ SettledNext(disp[c].stream, disp[c].upper)
    BY SettledKept DEF SettledInv, EnqueueTypeOK
  <2>2. CASE disp'[c] = disp[c]
    BY <2>1, <2>2 DEF Settled, SettledNext
  <2>3. CASE \E k \in Streams : disp'[c] = Between(k)
    BY <2>3, EnqueueAssumption DEF Settled, Between, Pass, Ids
  <2>4. CASE ReadWatermark(c)
    <3>1. disp'[c] = Pass("max", disp[c].stream, mark[disp[c].stream], 0)
      BY <2>4 DEF ReadWatermark, EnqueueTypeOK
    <3>2. SettledNext(disp[c].stream, mark[disp[c].stream])
      BY SettledKept DEF SettledInv, EnqueueTypeOK
    <3> QED BY <3>1, <3>2, EnqueueAssumption DEF Settled, SettledNext, Pass, Ids
  <2>5. CASE ReadMaxId(c) /\ \A k \in Streams : disp'[c] # Between(k)
    <3>1. PICK m \in 0..MaxId :
            /\ IsMaxId(disp[c].stream, m)
            /\ disp'[c] = IF m <= disp[c].last THEN AfterPass(disp[c].stream)
                          ELSE Pass("commit", disp[c].stream, disp[c].last,
                                    WindowEnd(disp[c].last, m))
      BY <2>5 DEF ReadMaxId, EnqueueTypeOK
    <3>2. ~(m <= disp[c].last)
      BY <2>5, <3>1 DEF AfterPass, Streams
    <3>3. disp[c].stream \in Streams /\ disp[c].last \in 0..MaxId /\ disp[c].last < m
      BY <3>2, EnqueueAssumption DEF EnqueueTypeOK
    <3>4. WindowEnd(disp[c].last, m) \in 0..MaxId /\ WindowEnd(disp[c].last, m) <= m
      BY <3>3, WindowEndBounds
    <3>5. Settled(disp[c].stream, m)
      BY <3>1, <3>3, CommittedSettled
    <3>6. SettledNext(disp[c].stream, m)
      BY <3>3, <3>5, SettledKept
    <3>7. SettledNext(disp[c].stream, WindowEnd(disp[c].last, m))
      BY <3>4, <3>6, EnqueueAssumption DEF SettledNext, Ids
    <3> QED BY <2>1, <3>1, <3>2, <3>7 DEF Settled, SettledNext, Pass
  <2>6. \/ disp'[c] = disp[c]
        \/ \E k \in Streams : disp'[c] = Between(k)
        \/ ReadWatermark(c) \/ ReadMaxId(c)
    <3>1. ASSUME NEW d \in Dispatchers, PassStep(d) \/ PassFails(d), d # c
          PROVE  disp'[c] = disp[c]
      BY <3>1 DEF PassStep, PassFails, ReadWatermark, ReadMaxId, CommitBatch, NewMark, EnqueueTypeOK
    <3>2. CASE CommitBatch(c) \/ PassFails(c)
      BY <3>2 DEF CommitBatch, NewMark, PassFails, AfterPass, EnqueueTypeOK, Streams
    <3>3. CASE disp' = disp
      BY <3>3
    <3> QED
      BY <3>1, <3>2, <3>3
      DEF EnqueueNext, WriterStep, SubStep, PassStep, InsertRow, CommitRow, AbortRow,
          ReadStartingSeq, CreateWebhook, Deactivate, Reactivate, DeleteWebhook, enqueueVars
  <2> QED BY <2>2, <2>3, <2>4, <2>5, <2>6
<1>3. ASSUME NEW s \in Subs PROVE Settled("event", sub[s].starting)'
  <2>1. SettledNext("event", sub[s].starting)
    BY SettledKept DEF SettledInv, EnqueueTypeOK, Streams
  <2>2. CASE sub'[s].starting = sub[s].starting
    BY <2>1, <2>2 DEF Settled, SettledNext
  <2>3. CASE ReadStartingSeq(s)
    <3>1. PICK m \in 0..MaxId :
            /\ IsMaxId("event", m)
            /\ sub' = [sub EXCEPT ![s] = [state |-> "creating", starting |-> m]]
      BY <2>3 DEF ReadStartingSeq
    <3>2. sub'[s].starting = m
      BY <3>1 DEF EnqueueTypeOK
    <3>3. SettledNext("event", m)
      BY <3>1, CommittedSettled, SettledKept DEF Streams
    <3> QED BY <3>2, <3>3 DEF Settled, SettledNext
  <2>4. sub'[s].starting = sub[s].starting \/ ReadStartingSeq(s)
    <3>1. ASSUME NEW r \in Subs, SubStep(r), ~ReadStartingSeq(s)
          PROVE  sub'[s].starting = sub[s].starting
      <4>1. CASE ReadStartingSeq(r)
        BY <3>1, <4>1 DEF ReadStartingSeq, EnqueueTypeOK
      <4>2. CASE CreateWebhook(r)
        BY <4>2 DEF CreateWebhook, EnqueueTypeOK
      <4>3. CASE Deactivate(r)
        BY <4>3 DEF Deactivate, EnqueueTypeOK
      <4>4. CASE Reactivate(r)
        BY <4>4 DEF Reactivate, EnqueueTypeOK
      <4>5. CASE DeleteWebhook(r)
        BY <4>5 DEF DeleteWebhook, EnqueueTypeOK
      <4> QED BY <3>1, <4>1, <4>2, <4>3, <4>4, <4>5 DEF SubStep
    <3>2. CASE sub' = sub
      BY <3>2
    <3> QED
      BY <3>1, <3>2
      DEF EnqueueNext, WriterStep, PassStep, InsertRow, CommitRow, AbortRow,
          ReadWatermark, ReadMaxId, CommitBatch, NewMark, PassFails, enqueueVars
  <2> QED BY <2>2, <2>3, <2>4
<1> QED BY <1>1, <1>2, <1>3 DEF SettledInv

-----------------------------------------------------------------------------
(* Nothing of what is owed is forgotten: a row becomes owed above every    *)
(* watermark, and a watermark passes it only with its delivery.            *)
LEMMA OwedStep ==
    ASSUME IInv, OneWriter, [EnqueueNext]_enqueueVars, NEW s \in Subs, NEW i \in owed'[s]
    PROVE  OwedRow(s, i)'
<1> USE DEF IInv
<1>0. /\ Kind[s] \in Streams
      /\ i \in owed[s] => i \in Ids /\ OwedRow(s, i)
  BY EnqueueAssumption DEF OwedInv, EnqueueTypeOK
<1>1. ASSUME NEW w \in Writers, NEW k \in Streams, InsertRow(w, k)
      PROVE  OwedRow(s, i)'
  <2>1. InsertEffect(w, k)
    BY <1>1, InsertRows
  <2>2. UNCHANGED <<mark, disp, sub, delivery, owed>>
    BY <1>1 DEF InsertRow
  <2>3. row[k][nextId[k]] = "free"
    <3>1. nextId[k] \in Ids /\ nextId[k] \in Int
      BY <2>1, EnqueueAssumption DEF InsertEffect, Ids
    <3> QED BY <3>1 DEF WritersInv
  <2>4. row'[Kind[s]][i] = "committed"
    BY <1>0, <2>1, <2>2, <2>3 DEF InsertEffect, OwedRow
  <2> QED BY <1>0, <2>2, <2>4 DEF OwedRow
<1>2. ASSUME NEW w \in Writers, AbortRow(w) PROVE OwedRow(s, i)'
  <2>1. EndEffect(w)
    BY <1>2, EndRows
  <2>2. UNCHANGED <<mark, disp, sub, delivery, owed>>
    BY <1>2 DEF AbortRow
  <2>3. row[writing[w].stream][writing[w].id] = "open"
    BY <2>1 DEF WritersInv, EndEffect
  <2>4. row'[Kind[s]][i] = "committed"
    BY <1>0, <2>1, <2>2, <2>3 DEF EndEffect, OwedRow
  <2> QED BY <1>0, <2>2, <2>4 DEF OwedRow
<1>3. ASSUME NEW w \in Writers, CommitRow(w) PROVE OwedRow(s, i)'
  <2> DEFINE k == writing[w].stream
             n == writing[w].id
  <2>1. EndEffect(w) /\ row'[k][n] = "committed"
    <3>1. EndEffect(w)
      BY <1>3, EndRows
    <3> QED BY <1>3, <3>1 DEF CommitRow, EnqueueTypeOK, EndEffect
  <2>2. UNCHANGED <<mark, disp, sub, delivery>>
    BY <1>3 DEF CommitRow
  <2>3. row[k][n] = "open"
    BY <2>1 DEF WritersInv, EndEffect
  <2>4. CASE i \in owed[s]
    <3>1. row'[Kind[s]][i] = "committed"
      BY <1>0, <2>1, <2>4 DEF EndEffect, OwedRow
    <3> QED BY <1>0, <2>2, <2>4, <3>1 DEF OwedRow
  <2>5. CASE i \notin owed[s]
    <3>1. /\ i = n /\ Kind[s] = k /\ sub[s].state = "active"
          /\ i \in Matches[s] \ Baseline[k]
      BY <1>3, <2>5 DEF CommitRow
    <3>2. k \in Streams /\ n \in Ids
      BY <2>1 DEF EndEffect
    <3>3. ASSUME NEW m \in 0..MaxId, Settled(k, m) PROVE n > m
      BY <2>3, <3>2, <3>3, EnqueueAssumption DEF Settled, Ids
    <3>4. i > mark[k]
      BY <3>1, <3>2, <3>3 DEF SettledInv, EnqueueTypeOK
    <3>5. k = "event" => i > sub[s].starting
      BY <3>1, <3>3 DEF SettledInv, EnqueueTypeOK
    <3>6. \A d \in Dispatchers : disp[d].stream = k => i > disp[d].last
      BY <3>1, <3>3 DEF SettledInv, EnqueueTypeOK
    <3>7. /\ mark[k] \in 0..MaxId /\ i \in 1..MaxId
          /\ \A d \in Dispatchers : disp[d].last \in 0..MaxId
      BY <3>1, <3>2 DEF EnqueueTypeOK, Ids
    <3>8. /\ ~(i <= mark[k])
          /\ \A d \in Dispatchers : disp[d].stream = k => ~(i <= disp[d].last)
      BY <3>4, <3>6, <3>7, EnqueueAssumption
    <3> QED BY <2>1, <2>2, <3>1, <3>5, <3>8 DEF OwedRow
  <2> QED BY <2>4, <2>5
<1>4. ASSUME NEW r \in Subs, SubStep(r) PROVE OwedRow(s, i)'
  <2>1. UNCHANGED <<row, nextId, writing, mark, disp>>
    BY <1>4 DEF SubStep, ReadStartingSeq, CreateWebhook, Deactivate, Reactivate,
                DeleteWebhook
  <2>2. i \in owed[s]
    BY <1>4 DEF SubStep, ReadStartingSeq, CreateWebhook, Deactivate, Reactivate,
                DeleteWebhook, EnqueueTypeOK
  <2>3. sub[s].state = "active" /\ OwedRow(s, i)
    BY <1>0, <2>2 DEF OwedRow
  <2>4. sub'[s] = sub[s] /\ ~DeleteWebhook(s)
    <3>1. CASE r # s
      BY <1>4, <2>2, <3>1 DEF SubStep, ReadStartingSeq, CreateWebhook, Deactivate,
                         Reactivate, DeleteWebhook, EnqueueTypeOK
    <3>2. CASE r = s
      <4>1. ~ReadStartingSeq(s) /\ ~CreateWebhook(s) /\ ~Reactivate(s)
        BY <2>3 DEF ReadStartingSeq, CreateWebhook, Reactivate, NoSub
      <4>2. ~Deactivate(s) /\ ~DeleteWebhook(s)
        <5>1. owed'[s] = owed[s] \/ owed'[s] = {}
          BY <2>2, <1>4, <3>2 DEF SubStep, ReadStartingSeq, CreateWebhook,
             Deactivate, Reactivate, DeleteWebhook, EnqueueTypeOK
        <5> QED BY DEF Deactivate, DeleteWebhook, EnqueueTypeOK
      <4> QED BY <1>4, <3>2, <4>1, <4>2 DEF SubStep
    <3> QED BY <3>1, <3>2
  <2>5. [sub |-> s, id |-> i] \in delivery => [sub |-> s, id |-> i] \in delivery'
    <3>1. CASE DeleteWebhook(r)
      BY <2>4, <3>1 DEF DeleteWebhook
    <3>2. CASE ~DeleteWebhook(r)
      BY <1>4, <3>2 DEF SubStep, ReadStartingSeq, CreateWebhook, Deactivate, Reactivate
    <3> QED BY <3>1, <3>2
  <2> QED BY <2>1, <2>3, <2>4, <2>5 DEF OwedRow
<1>5. ASSUME NEW d \in Dispatchers, PassStep(d) \/ PassFails(d) PROVE OwedRow(s, i)'
  <2>1. UNCHANGED <<row, sub, owed>> /\ OwedRow(s, i) /\ i \in Ids
    BY <1>0, <1>5 DEF PassStep, PassFails, ReadWatermark, ReadMaxId, CommitBatch, NewMark
  <2>2. [sub |-> s, id |-> i] \in delivery => [sub |-> s, id |-> i] \in delivery'
    BY <1>5 DEF PassStep, PassFails, ReadWatermark, ReadMaxId, CommitBatch, NewMark
  <2>3. i <= mark'[Kind[s]] => [sub |-> s, id |-> i] \in delivery'
    <3>1. CASE mark' = mark
      BY <2>1, <2>2, <3>1 DEF OwedRow
    <3>2. CASE CommitBatch(d) /\ Kind[s] # disp[d].stream
      BY <2>1, <2>2, <3>2 DEF OwedRow, CommitBatch, NewMark, EnqueueTypeOK
    <3>3. CASE CommitBatch(d) /\ Kind[s] = disp[d].stream
      <4>1. mark'[Kind[s]] = disp[d].upper
        BY <1>0, <3>3 DEF CommitBatch, NewMark, EnqueueTypeOK
      <4>2. CASE i <= disp[d].last
        BY <2>1, <2>2, <3>3, <4>2 DEF OwedRow
      <4>3. CASE i > disp[d].last /\ i <= disp[d].upper
        <5>1. Selected(s, i, Kind[s], disp[d].last, disp[d].upper)
          BY <2>1, <4>3 DEF OwedRow, Selected
        <5>2. [sub |-> s, id |-> i] \in [sub : Subs, id : Ids]
          BY <2>1
        <5> QED BY <3>3, <5>1, <5>2 DEF CommitBatch, NewMark
      <4>4. i \in Int /\ disp[d].last \in Int
        BY <2>1, EnqueueAssumption DEF EnqueueTypeOK, Ids
      <4> QED BY <4>1, <4>2, <4>3, <4>4
    <3> QED
      BY <1>5, <3>1, <3>2, <3>3
      DEF PassStep, PassFails, ReadWatermark, ReadMaxId
  <2>4. ASSUME NEW c \in Dispatchers, disp'[c].stream = Kind[s], i <= disp'[c].last
        PROVE  [sub |-> s, id |-> i] \in delivery'
    <3>1. CASE disp'[c].last = 0
      BY <2>1, <2>4, <3>1, EnqueueAssumption DEF Ids
    <3>2. CASE disp'[c].stream = disp[c].stream /\ disp'[c].last = disp[c].last
      BY <2>1, <2>2, <2>4, <3>2 DEF OwedRow
    <3>3. CASE /\ disp'[c].stream = disp[c].stream
               /\ disp'[c].last = mark[disp[c].stream] /\ mark' = mark
      BY <2>1, <2>2, <2>4, <3>3 DEF OwedRow
    <3>4. CASE c # d
      <4>1. disp'[c] = disp[c]
        BY <1>5, <3>4 DEF PassStep, PassFails, ReadWatermark, ReadMaxId,
                          CommitBatch, NewMark, EnqueueTypeOK
      <4> QED BY <3>2, <4>1
    <3>5. CASE ReadWatermark(c)
      <4>1. disp'[c] = Pass("max", disp[c].stream, mark[disp[c].stream], 0)
        BY <3>5 DEF ReadWatermark, EnqueueTypeOK
      <4> QED BY <3>3, <3>5, <4>1 DEF Pass, ReadWatermark
    <3>6. CASE ReadMaxId(c)
      <4>1. PICK m \in 0..MaxId : disp'[c] =
                IF m <= disp[c].last THEN AfterPass(disp[c].stream)
                ELSE Pass("commit", disp[c].stream, disp[c].last,
                          WindowEnd(disp[c].last, m))
        BY <3>6 DEF ReadMaxId, EnqueueTypeOK
      <4> QED BY <3>1, <3>2, <4>1 DEF AfterPass, Between, Pass
    <3>7. CASE CommitBatch(c) \/ PassFails(c)
      <4>1. disp'[c].last = 0
        BY <3>7 DEF CommitBatch, NewMark, PassFails, AfterPass, Between, Pass, EnqueueTypeOK
      <4> QED BY <3>1, <4>1
    <3> QED BY <1>5, <3>4, <3>5, <3>6, <3>7 DEF PassStep
  <2> QED BY <2>1, <2>3, <2>4 DEF OwedRow
<1>6. CASE UNCHANGED enqueueVars
  BY <1>0, <1>6 DEF enqueueVars, OwedRow
<1> QED BY <1>1, <1>2, <1>3, <1>4, <1>5, <1>6 DEF EnqueueNext, WriterStep

-----------------------------------------------------------------------------
LEMMA InvInit == EnqueueInit => IInv
<1> SUFFICES ASSUME EnqueueInit PROVE IInv
  OBVIOUS
<1>1. EnqueueTypeOK
  BY TypeInit
<1>2. WritersInv
  BY EnqueueAssumption DEF EnqueueInit, WritersInv, Ids
<1>3. SettledInv
  BY EnqueueAssumption DEF EnqueueInit, SettledInv, Settled, Between, Pass, NoSub, Ids, Streams
<1>4. OwedInv
  BY DEF EnqueueInit, OwedInv
<1> QED BY <1>1, <1>2, <1>3, <1>4 DEF IInv

LEMMA InvStep ==
    ASSUME OneWriter, IInv, [EnqueueNext]_enqueueVars
    PROVE  IInv'
<1>1. EnqueueTypeOK' /\ WritersInv' /\ SettledInv'
  BY TypeStep, WritersStep, SettledStep DEF IInv
<1>2. OwedInv'
  BY OwedStep DEF OwedInv
<1> QED BY <1>1, <1>2 DEF IInv

(* While a single session inserts the rows of the streams, no replica of   *)
(* the dispatcher ever moves a watermark past a row without the deliveries *)
(* owed for it, however many replicas race, whichever reads are stale and  *)
(* whichever passes fail (enqueue_events, enqueue_upgrades).               *)
THEOREM SingleWriterSkipsNothing ==
    ASSUME OneWriter
    PROVE  EnqueueSpec => []NothingSkipped
<1>1. EnqueueInit => IInv
  BY InvInit
<1>2. IInv /\ [EnqueueNext]_enqueueVars => IInv'
  BY InvStep
<1>3. IInv => NothingSkipped
  BY DEF IInv, OwedInv, OwedRow, NothingSkipped
<1> QED BY <1>1, <1>2, <1>3, PTL DEF EnqueueSpec

-----------------------------------------------------------------------------
(* A lone replica's reads are never stale. *)
FreshInv ==
    \A d \in Dispatchers :
        /\ disp[d].pc # "idle" => disp[d].last = mark[disp[d].stream]
        /\ disp[d].pc = "commit" => disp[d].last <= disp[d].upper

LEMMA FreshStep ==
    ASSUME EnqueueTypeOK, FreshInv, OneDispatcher, [EnqueueNext]_enqueueVars
    PROVE  FreshInv' /\ \A k \in Streams : mark'[k] >= mark[k]
<1>0. \A k \in Streams : mark[k] \in Int /\ mark[k] >= mark[k]
  BY EnqueueAssumption DEF EnqueueTypeOK
<1>1. ASSUME NEW d \in Dispatchers, ReadWatermark(d)
      PROVE  FreshInv' /\ \A k \in Streams : mark'[k] >= mark[k]
  <2>1. mark' = mark /\ disp'[d] = Pass("max", disp[d].stream, mark[disp[d].stream], 0)
    BY <1>1 DEF ReadWatermark, EnqueueTypeOK
  <2> QED BY <1>0, <2>1 DEF FreshInv, OneDispatcher, Pass
<1>2. ASSUME NEW d \in Dispatchers, ReadMaxId(d)
      PROVE  FreshInv' /\ \A k \in Streams : mark'[k] >= mark[k]
  <2>1. PICK m \in 0..MaxId : disp'[d] =
            IF m <= disp[d].last THEN AfterPass(disp[d].stream)
            ELSE Pass("commit", disp[d].stream, disp[d].last,
                      WindowEnd(disp[d].last, m))
    BY <1>2 DEF ReadMaxId, EnqueueTypeOK
  <2>2. mark' = mark /\ disp[d].last = mark[disp[d].stream]
    BY <1>2 DEF ReadMaxId, FreshInv
  <2>3. ~(m <= disp[d].last) => disp[d].last <= WindowEnd(disp[d].last, m)
    BY WindowEndBounds, EnqueueAssumption DEF EnqueueTypeOK
  <2> QED BY <1>0, <2>1, <2>2, <2>3 DEF FreshInv, OneDispatcher, Pass, AfterPass, Between
<1>3. ASSUME NEW d \in Dispatchers, CommitBatch(d)
      PROVE  FreshInv' /\ \A k \in Streams : mark'[k] >= mark[k]
  <2>1. disp'[d] = AfterPass(disp[d].stream)
    BY <1>3 DEF CommitBatch, NewMark, EnqueueTypeOK
  <2>2. FreshInv'
    BY <2>1 DEF FreshInv, OneDispatcher, AfterPass, Between, Pass
  <2>3. disp[d].last = mark[disp[d].stream] /\ disp[d].last <= disp[d].upper
    BY <1>3 DEF CommitBatch, NewMark, FreshInv
  <2>4. \A k \in Streams : mark'[k] = IF k = disp[d].stream THEN disp[d].upper ELSE mark[k]
    BY <1>3 DEF CommitBatch, NewMark, EnqueueTypeOK
  <2>5. disp[d].upper \in Int
    BY EnqueueAssumption DEF EnqueueTypeOK
  <2> QED BY <1>0, <2>2, <2>3, <2>4, <2>5
<1>4. ASSUME NEW d \in Dispatchers, PassFails(d)
      PROVE  FreshInv' /\ \A k \in Streams : mark'[k] >= mark[k]
  <2>1. mark' = mark /\ disp'[d] = Between("event")
    BY <1>4 DEF PassFails, EnqueueTypeOK
  <2> QED BY <1>0, <2>1 DEF FreshInv, OneDispatcher, Between, Pass
<1>5. CASE UNCHANGED <<mark, disp>>
  BY <1>0, <1>5 DEF FreshInv
<1> QED
  BY <1>1, <1>2, <1>3, <1>4, <1>5
  DEF EnqueueNext, WriterStep, SubStep, PassStep, InsertRow, CommitRow, AbortRow,
      ReadStartingSeq, CreateWebhook, Deactivate, Reactivate, DeleteWebhook, enqueueVars

(* With a single dispatcher replica each watermark only ever moves         *)
(* forward, the promise ARCHITECTURE.md makes of webhook_state: nobody     *)
(* else writes it between the pass's read and its unconditional UPDATE.    *)
THEOREM SingleReplicaMovesForward ==
    ASSUME OneDispatcher
    PROVE  EnqueueSpec => WatermarkOnlyForward
<1>1. EnqueueInit => EnqueueTypeOK /\ FreshInv
  BY TypeInit DEF EnqueueInit, FreshInv, Between, Pass
<1>2. EnqueueTypeOK /\ FreshInv /\ [EnqueueNext]_enqueueVars => (EnqueueTypeOK /\ FreshInv)'
  BY TypeStep, FreshStep
<1>3. EnqueueTypeOK /\ FreshInv /\ [EnqueueNext]_enqueueVars => [\A k \in Streams : mark'[k] >= mark[k]]_mark
  BY FreshStep
<1> QED BY <1>1, <1>2, <1>3, PTL DEF EnqueueSpec, WatermarkOnlyForward
=============================================================================
