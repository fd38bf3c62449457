------------------------- MODULE RpcFailoverProofs --------------------------
(***************************************************************************)
(* What TLAPS proves of the RPC client under the poll loop, for any number *)
(* of endpoints, attempts and concurrent calls: type correctness, that a   *)
(* client off the primary can fail back, and that a call which reports     *)
(* failure on all endpoints is right.                                      *)
(***************************************************************************)
EXTENDS PollLoop, TLAPS

-----------------------------------------------------------------------------
(* The inductive invariant *)

(* Calls that have read the active endpoint at least once. *)
InRound == {"pick", "check", "attempt"}

(***************************************************************************)
(* A call only sees endpoints at the moments it reads active_idx; other    *)
(* calls move it in between.  Unless the client failed back meanwhile,     *)
(* every endpoint from the call's first up to the active one was spent     *)
(* under it, and its rounds are no more than the endpoints it has passed:  *)
(* hence a call can only run out of rounds at the last endpoint.           *)
(***************************************************************************)
Passed(c) ==
    /\ first[c] <= active
    /\ \A e \in Endpoints : first[c] <= e /\ e < active => e \in spent[c]
    /\ pc[c] = "pick" => first[c] + round[c] <= active
    /\ pc[c] \in {"check", "attempt"} =>
        first[c] + round[c] <= idx[c] /\ idx[c] <= active

RoundInv ==
    \A c \in Callers :
        /\ pc[c] \notin InRound => round[c] = 0
        /\ pc[c] \in InRound /\ ~back[c] => Passed(c)

Inv == TypeOK /\ CanFailBack /\ RoundInv

LEMMA EndpointsAreNumbers ==
    /\ Endpoints \subseteq Nat /\ 0 \in Endpoints
    /\ \A e \in Nat : e \in Endpoints <=> e < N
BY NAssumption DEF Endpoints

LEMMA InvInit == Init => Inv
BY EndpointsAreNumbers, AttemptsAssumption
DEF Init, Inv, TypeOK, CanFailBack, RoundInv, PcStates, Results, InRound

-----------------------------------------------------------------------------
(* The steps of a call *)

(* Returning leaves the other calls alone. *)
LEMMA ReturnKeeps ==
    ASSUME Inv, NEW c \in Callers, NEW r \in Results, Return(c, r),
           UNCHANGED <<state, primaryUp>>
    PROVE  Inv'
<1> USE EndpointsAreNumbers, AttemptsAssumption
<1>1. TypeOK'
  BY DEF Inv, TypeOK, Return, state, PcStates
<1>2. CanFailBack'
  BY DEF Inv, CanFailBack, state
<1>3. RoundInv'
  <2> SUFFICES ASSUME NEW d \in Callers
               PROVE  /\ pc'[d] \notin InRound => round'[d] = 0
                      /\ pc'[d] \in InRound /\ ~back'[d] => Passed(d)'
    BY DEF RoundInv
  <2>1. CASE d = c
    BY <2>1 DEF Inv, TypeOK, Return, InRound
  <2>2. CASE d # c
    BY <2>2 DEF Inv, TypeOK, Return, RoundInv, Passed, state
  <2> QED BY <2>1, <2>2
<1> QED BY <1>1, <1>2, <1>3 DEF Inv

(* A step that only moves a call to another place outside its rounds. *)
LEMMA BeginKeeps ==
    ASSUME Inv, NEW c \in Callers, Begin(c)
    PROVE  Inv'
<1>1. TypeOK'
  BY DEF Inv, TypeOK, Begin, state, hist, PcStates, Results
<1>2. CanFailBack'
  BY DEF Inv, CanFailBack, Begin, state
<1>3. RoundInv'
  <2> SUFFICES ASSUME NEW d \in Callers
               PROVE  /\ pc'[d] \notin InRound => round'[d] = 0
                      /\ pc'[d] \in InRound /\ ~back'[d] => Passed(d)'
    BY DEF RoundInv
  <2>1. CASE d = c
    BY <2>1 DEF Inv, TypeOK, Begin, RoundInv, InRound
  <2>2. CASE d # c
    BY <2>2 DEF Inv, TypeOK, Begin, RoundInv, Passed, state, hist
  <2> QED BY <2>1, <2>2
<1> QED BY <1>1, <1>2, <1>3 DEF Inv

(* Failing back is noted by every call in its rounds. *)
LEMMA ProbeKeeps ==
    ASSUME Inv, NEW c \in Callers, Probe(c)
    PROVE  Inv'
<1> USE EndpointsAreNumbers
<1>1. TypeOK'
  BY DEF Inv, TypeOK, Probe, state, PcStates
<1>2. CanFailBack'
  BY DEF Inv, CanFailBack, Probe, state
<1>3. RoundInv'
  <2> SUFFICES ASSUME NEW d \in Callers
               PROVE  /\ pc'[d] \notin InRound => round'[d] = 0
                      /\ pc'[d] \in InRound /\ ~back'[d] => Passed(d)'
    BY DEF RoundInv
  <2>1. CASE d = c
    BY <2>1 DEF Inv, TypeOK, Probe, RoundInv, InRound
  <2>2. CASE d # c
    <3>1. pc'[d] = pc[d] /\ UNCHANGED <<idx, round, first, spent>>
      BY <2>2 DEF Probe, Inv, TypeOK
    <3>2. CASE primaryUp /\ active # 0
      <4>1. back'[d] = (back[d] \/ pc[d] # "idle")
        BY <3>2 DEF Probe
      <4> QED BY <3>1, <4>1 DEF Inv, RoundInv, InRound
    <3>3. CASE ~(primaryUp /\ active # 0)
      <4>1. UNCHANGED <<active, back>>
        BY <3>3 DEF Probe, state
      <4> QED BY <3>1, <4>1 DEF Inv, RoundInv, Passed
    <3> QED BY <3>2, <3>3
  <2> QED BY <2>1, <2>2
<1> QED BY <1>1, <1>2, <1>3 DEF Inv

(* Reading the active endpoint at the head of a round. *)
LEMMA PickKeeps ==
    ASSUME Inv, NEW c \in Callers, Pick(c)
    PROVE  Inv'
<1> USE EndpointsAreNumbers
<1>1. TypeOK'
  BY DEF Inv, TypeOK, Pick, state, PcStates
<1>2. CanFailBack'
  BY DEF Inv, CanFailBack, Pick, state
<1>3. RoundInv'
  <2>0. /\ active \in Nat /\ \A d \in Callers : first[d] \in Nat /\ round[d] \in Nat
        /\ UNCHANGED <<active, round, spent, back>>
    BY DEF Inv, TypeOK, Pick, state
  <2> SUFFICES ASSUME NEW d \in Callers
               PROVE  /\ pc'[d] \notin InRound => round'[d] = 0
                      /\ pc'[d] \in InRound /\ ~back'[d] => Passed(d)'
    BY DEF RoundInv
  <2>1. CASE d = c
    <3>1. pc'[c] \in {"check", "attempt"} /\ idx'[c] = active
      BY DEF Pick, Inv, TypeOK
    <3>2. CASE pc[c] = "enter"
      <4>1. first'[c] = active /\ round[c] = 0
        BY <3>2 DEF Pick, Inv, TypeOK, RoundInv, InRound
      <4>2. \A e \in Endpoints : ~(active <= e /\ e < active)
        BY <2>0
      <4>3. active <= active /\ active + 0 <= active
        BY <2>0
      <4>4. Passed(c)'
        BY <2>0, <3>1, <4>1, <4>2, <4>3 DEF Passed
      <4> QED BY <2>1, <3>1, <4>4 DEF InRound
    <3>3. CASE pc[c] = "pick"
      <4>1. first'[c] = first[c]
        BY <3>3 DEF Pick
      <4>2. ~back[c] => Passed(c)
        BY <3>3 DEF Inv, RoundInv, InRound
      <4> QED BY <2>0, <2>1, <3>1, <3>3, <4>1, <4>2 DEF Passed, InRound
    <3> QED BY <3>2, <3>3 DEF Pick
  <2>2. CASE d # c
    <3>1. pc'[d] = pc[d] /\ idx'[d] = idx[d] /\ first'[d] = first[d]
      BY <2>2 DEF Pick, Inv, TypeOK
    <3> QED BY <2>0, <3>1 DEF Inv, RoundInv, Passed
  <2> QED BY <2>1, <2>2
<1> QED BY <1>1, <1>2, <1>3 DEF Inv

(* The identity check of a failover endpoint, and one request. *)
LEMMA CheckKeeps ==
    ASSUME Inv, NEW c \in Callers, CheckNetwork(c)
    PROVE  Inv'
<1>1. CASE Return(c, "error")
  BY <1>1, ReturnKeeps DEF CheckNetwork, Results
<1>2. CASE pc' = [pc EXCEPT ![c] = "attempt"] /\ UNCHANGED <<idx, round, attempt, result, hist>>
  <2>0. UNCHANGED <<state, primaryUp>> /\ pc[c] = "check"
    BY DEF CheckNetwork
  <2>1. TypeOK'
    BY <1>2, <2>0 DEF Inv, TypeOK, state, hist, PcStates
  <2>2. CanFailBack'
    BY <2>0 DEF Inv, CanFailBack, state
  <2>3. RoundInv'
    BY <1>2, <2>0 DEF Inv, TypeOK, RoundInv, Passed, InRound, state, hist
  <2> QED BY <2>1, <2>2, <2>3 DEF Inv
<1> QED BY <1>1, <1>2 DEF CheckNetwork

LEMMA AttemptKeeps ==
    ASSUME Inv, NEW c \in Callers, Attempt(c)
    PROVE  Inv'
<1>1. ASSUME NEW a, Return(c, Outcome(a)) PROVE Inv'
  <2>1. Outcome(a) \in Results
    BY DEF Outcome, Results
  <2> QED BY <1>1, <2>1, ReturnKeeps DEF Attempt
<1>2. CASE /\ attempt' = [attempt EXCEPT ![c] = Counted(@)]
           /\ UNCHANGED <<pc, idx, round, result, hist>>
  <2>0. UNCHANGED <<state, primaryUp>> /\ attempt[c] < MAX_ATTEMPTS_PER_URL
    BY DEF Attempt
  <2>1. TypeOK'
    <3>1. attempt' \in [Callers -> 0 .. MAX_ATTEMPTS_PER_URL]
      BY <1>2, <2>0, AttemptsAssumption DEF Inv, TypeOK, Counted
    <3> QED BY <1>2, <2>0, <3>1 DEF Inv, TypeOK, state, hist
  <2>2. CanFailBack'
    BY <2>0 DEF Inv, CanFailBack, state
  <2>3. RoundInv'
    BY <1>2, <2>0 DEF Inv, RoundInv, Passed, state, hist
  <2> QED BY <2>1, <2>2, <2>3 DEF Inv
<1> QED BY <1>1, <1>2 DEF Attempt

-----------------------------------------------------------------------------
(* The end of a round *)

(* try_failover moves to the next endpoint, or nowhere. *)
LEMMA NextActiveIs ==
    ASSUME Inv, NEW i \in Endpoints
    PROVE  /\ NextActive(i) \in Endpoints
           /\ NextActive(i) = active \/ (i = active /\ NextActive(i) = active + 1)
           /\ NextActive(i) = i => active = i /\ i = N - 1
BY NAssumption, EndpointsAreNumbers DEF Inv, TypeOK, NextActive

LEMMA RotateKeeps ==
    ASSUME Inv, NEW c \in Callers, Rotate(c)
    PROVE  Inv'
<1> USE EndpointsAreNumbers, NAssumption, AttemptsAssumption
<1> DEFINE i == idx[c]
           next == NextActive(i)
<1>0. /\ active \in Nat /\ active \in Endpoints /\ i \in Endpoints /\ i \in Nat
      /\ \A d \in Callers : /\ first[d] \in Nat /\ round[d] \in Nat /\ idx[d] \in Nat
                            /\ round[d] \in Endpoints
  BY DEF Inv, TypeOK
<1>1. /\ next \in Endpoints /\ active' = next
      /\ next = active \/ (i = active /\ next = active + 1)
      /\ next = i => active = i /\ i = N - 1
  BY <1>0, NextActiveIs DEF Rotate
<1> HIDE DEF next
<1>2. GivesUp(c) <=> next = i \/ round[c] + 1 = N
  BY DEF GivesUp, next
<1>3. pc[c] = "attempt" /\ pc' = [pc EXCEPT ![c] = IF GivesUp(c) THEN "idle" ELSE "pick"]
  BY DEF Rotate
<1>4. round' = [round EXCEPT ![c] = IF GivesUp(c) THEN 0 ELSE round[c] + 1]
  BY DEF Rotate
<1>5. spent' = [d \in Callers |-> IF pc'[d] = "idle" THEN {} ELSE spent[d] \cup {i}]
  BY DEF Rotate
<1>6. TypeOK'
  <2>1. round' \in [Callers -> Endpoints]
    <3>1. ~GivesUp(c) => round[c] + 1 \in Endpoints
      BY <1>0, <1>2
    <3> QED BY <1>4, <3>1 DEF Inv, TypeOK
  <2>2. spent' \in [Callers -> SUBSET Endpoints]
    BY <1>0, <1>5 DEF Inv, TypeOK
  <2>3. failedAt' \in {"none", "fresh", "due"}
    BY DEF Rotate, NoteFailover, Inv, TypeOK
  <2>4. back' \in [Callers -> BOOLEAN]
    <3>1. \A d \in Callers : back[d] \in BOOLEAN
      BY DEF Inv, TypeOK
    <3>2. (~GivesUp(c) /\ back[c]) \in BOOLEAN
      OBVIOUS
    <3>3. back \in [Callers -> BOOLEAN]
          /\ back' = [back EXCEPT ![c] = ~GivesUp(c) /\ back[c]]
      BY DEF Rotate, Inv, TypeOK
    <3> QED BY <3>2, <3>3, Zenon
  <2>5. /\ pc' \in [Callers -> PcStates] /\ idx' \in [Callers -> Endpoints]
        /\ attempt' \in [Callers -> 0 .. MAX_ATTEMPTS_PER_URL]
        /\ result' \in [Callers -> Results] /\ first' \in [Callers -> Endpoints]
        /\ primaryUp' = primaryUp
    BY DEF Rotate, Inv, TypeOK, PcStates, Results
  <2> QED BY <1>1, <2>1, <2>2, <2>3, <2>4, <2>5 DEF Inv, TypeOK
<1>7. CanFailBack'
  <2>1. failedAt' = IF next # active THEN "fresh" ELSE failedAt
    BY DEF Rotate, NoteFailover, next
  <2>2. next # active => next # 0
    BY <1>0, <1>1
  <2> QED BY <1>1, <2>1, <2>2 DEF Inv, CanFailBack
<1>8. RoundInv'
  <2> SUFFICES ASSUME NEW d \in Callers
               PROVE  /\ pc'[d] \notin InRound => round'[d] = 0
                      /\ pc'[d] \in InRound /\ ~back'[d] => Passed(d)'
    BY DEF RoundInv
  <2>1. ASSUME pc'[d] # "idle", first'[d] = first[d], Passed(d)
        PROVE  /\ first[d] <= active'
               /\ \A e \in Endpoints : first[d] <= e /\ e < active' => e \in spent'[d]
    <3>1. spent'[d] = spent[d] \cup {i}
      BY <1>5, <2>1
    <3>2. first[d] <= active'
      BY <1>0, <1>1, <2>1 DEF Passed
    <3>3. ASSUME NEW e \in Endpoints, first[d] <= e, e < active' PROVE e \in spent'[d]
      <4>1. e < active \/ e = i
        <5>1. e \in Nat /\ e < next
          BY <1>1, <3>3
        <5>2. CASE next = active
          BY <5>1, <5>2
        <5>3. CASE i = active /\ next = active + 1
          BY <1>0, <5>1, <5>3
        <5> QED BY <1>1, <5>2, <5>3
      <4> QED BY <2>1, <3>1, <3>3, <4>1 DEF Passed
    <3> QED BY <3>2, <3>3
  <2>2. CASE d = c
    <3>1. CASE GivesUp(c)
      BY <1>3, <1>4, <2>2, <3>1 DEF InRound, Inv, TypeOK
    <3>2. CASE ~GivesUp(c)
      <4>1. /\ pc'[c] = "pick" /\ first'[c] = first[c] /\ round'[c] = round[c] + 1
            /\ back'[c] = back[c]
        <5>1. back' = [back EXCEPT ![c] = ~GivesUp(c) /\ back[c]]
          BY DEF Rotate
        <5>2. back'[c] = back[c]
          BY <3>2, <5>1 DEF Inv, TypeOK
        <5> QED BY <1>3, <1>4, <3>2, <5>2 DEF Rotate, Inv, TypeOK
      <4>2. ASSUME ~back[c] PROVE Passed(c) /\ first[c] + (round[c] + 1) <= next
        <5>1. Passed(c)
          BY <1>3, <4>2 DEF Inv, RoundInv, InRound
        <5>2. first[c] + round[c] <= i /\ i <= active
          BY <1>3, <5>1 DEF Passed
        <5>3. next # i
          BY <1>2, <3>2
        <5> QED BY <1>0, <1>1, <5>1, <5>2, <5>3
      <4> QED BY <1>1, <2>1, <2>2, <4>1, <4>2 DEF Passed, InRound
    <3> QED BY <3>1, <3>2
  <2>3. CASE d # c
    <3>1. /\ pc'[d] = pc[d] /\ round'[d] = round[d] /\ first'[d] = first[d]
          /\ idx'[d] = idx[d] /\ back'[d] = back[d]
      BY <2>3 DEF Rotate, Inv, TypeOK
    <3>2. ASSUME pc[d] \in InRound, ~back[d] PROVE Passed(d)'
      <4>1. Passed(d) /\ pc'[d] # "idle"
        BY <3>1, <3>2 DEF Inv, RoundInv, InRound
      <4>2. active <= active' /\ active' \in Nat
        BY <1>0, <1>1
      <4>3. /\ first[d] <= active'
            /\ \A e \in Endpoints : first[d] <= e /\ e < active' => e \in spent'[d]
        BY <2>1, <3>1, <4>1
      <4>4. /\ pc[d] = "pick" => first[d] + round[d] <= active'
            /\ pc[d] \in {"check", "attempt"} =>
                    first[d] + round[d] <= idx[d] /\ idx[d] <= active'
        BY <1>0, <4>1, <4>2 DEF Passed
      <4> QED BY <3>1, <4>3, <4>4 DEF Passed
    <3> QED BY <3>1, <3>2 DEF Inv, RoundInv
  <2> QED BY <2>2, <2>3
<1> QED BY <1>6, <1>7, <1>8 DEF Inv

-----------------------------------------------------------------------------
(* The client, and the client under the poll loop *)

LEMMA InvStep ==
    ASSUME Inv, [Next]_vars
    PROVE  Inv'
<1>1. CASE Environment
  <2>1. TypeOK' /\ CanFailBack'
    BY <1>1 DEF Environment, IntervalElapses, PrimaryFlips, Inv, TypeOK, CanFailBack,
       state, call, hist
  <2>2. RoundInv'
    BY <1>1 DEF Environment, IntervalElapses, PrimaryFlips, Inv, RoundInv, Passed,
       state, call, hist
  <2> QED BY <2>1, <2>2 DEF Inv
<1>2. CASE UNCHANGED vars
  BY <1>2 DEF vars, state, call, hist, Inv, TypeOK, CanFailBack, RoundInv, Passed
<1>3. ASSUME NEW c \in Callers, Begin(c) \/ CallStep(c) PROVE Inv'
  BY <1>3, BeginKeeps, ProbeKeeps, PickKeeps, CheckKeeps, AttemptKeeps, RotateKeeps
  DEF CallStep
<1> QED BY <1>1, <1>2, <1>3 DEF Next

LEMMA LoopStep ==
    ASSUME Inv, [LoopNext]_allVars
    PROVE  Inv'
<1>1. CASE Finish
  <2>1. /\ UNCHANGED <<state, primaryUp, pc, idx, round, attempt, hist>>
        /\ result' = [result EXCEPT ![Poller] = "none"]
    BY <1>1 DEF Finish
  <2>2. TypeOK'
    BY <2>1 DEF Inv, TypeOK, state, hist, Results
  <2>3. CanFailBack' /\ RoundInv'
    BY <2>1 DEF Inv, CanFailBack, RoundInv, Passed, state, hist
  <2> QED BY <2>2, <2>3 DEF Inv
<1>2. CASE Restart
  <2>1. TypeOK'
    BY <1>2, EndpointsAreNumbers, AttemptsAssumption
    DEF Restart, Inv, TypeOK, PcStates, Results
  <2>2. CanFailBack' /\ RoundInv'
    BY <1>2 DEF Restart, CanFailBack, RoundInv, InRound
  <2> QED BY <2>1, <2>2 DEF Inv
<1>3. CASE [Next]_vars
  BY <1>3, InvStep
<1>4. [LoopNext]_allVars => [Next]_vars \/ Finish \/ Restart
  BY PollerAssumption DEF LoopNext, Next, Poll, Wake, allVars
<1> QED BY <1>1, <1>2, <1>3, <1>4

LEMMA LoopInv == LoopSpec => []Inv
<1>1. LoopInit => Inv
  BY InvInit DEF LoopInit
<1>2. Inv /\ [LoopNext]_allVars => Inv'
  BY LoopStep
<1> QED BY <1>1, <1>2, PTL DEF LoopSpec

(* The client's variables keep their types under the poll loop: in         *)
(* particular the active index is always that of a configured endpoint,    *)
(* and no call makes more rounds than there are endpoints (try_failover,   *)
(* call_with_cursor).                                                      *)
THEOREM ClientTypeCorrect == LoopSpec => []TypeOK
BY LoopInv, PTL DEF Inv

(* A client that is off the primary has a failover on record, so that      *)
(* maybe_probe_primary will probe, and one on the primary has none.        *)
THEOREM CanFailBackHolds == LoopSpec => []CanFailBack
BY LoopInv, PTL DEF Inv

(* A call that gives up on all endpoints is right: every endpoint from the *)
(* first it used to the last was exhausted while it ran, by it or by a     *)
(* concurrent call, unless the client failed back meanwhile; for any       *)
(* number of calls moving the shared index (call_with_cursor,              *)
(* try_failover).                                                          *)
THEOREM ExhaustedHolds == LoopSpec => []ExhaustedMeansTried
<1>1. Inv => ExhaustedMeansTried
  <2> SUFFICES ASSUME Inv, NEW c \in Callers, pc[c] = "attempt", GivesUp(c), ~back[c],
                      NEW e \in first[c] .. N - 1
               PROVE  e \in spent[c] \cup {idx[c]}
    BY DEF ExhaustedMeansTried
  <2>1. /\ idx[c] \in Endpoints /\ idx[c] \in Nat /\ first[c] \in Nat /\ round[c] \in Nat
        /\ active \in Nat /\ active < N
    BY EndpointsAreNumbers DEF Inv, TypeOK
  <2>2. Passed(c)
    BY DEF Inv, RoundInv, InRound
  <2>3. first[c] + round[c] <= idx[c] /\ idx[c] <= active
    BY <2>2 DEF Passed
  <2>4. idx[c] = N - 1
    <3>1. CASE NextActive(idx[c]) = idx[c]
      BY <2>1, <3>1, NextActiveIs
    <3>2. CASE round[c] + 1 = N
      BY <2>1, <2>3, <3>2, NAssumption
    <3> QED BY <3>1, <3>2 DEF GivesUp
  <2>5. e \in Endpoints /\ e \in Nat /\ first[c] <= e
    BY <2>1, NAssumption, EndpointsAreNumbers
  <2>6. CASE e = idx[c]
    BY <2>6
  <2>7. CASE e # idx[c]
    <3>1. e < active
      BY <2>1, <2>3, <2>4, <2>5, <2>7, NAssumption, EndpointsAreNumbers
    <3> QED BY <2>2, <2>5, <3>1 DEF Passed
  <2> QED BY <2>6, <2>7
<1> QED BY <1>1, LoopInv, PTL
=============================================================================
