---------------------------- MODULE RpcFailover -----------------------------
(***************************************************************************)
(* The JSON-RPC client of the indexer (indexer/rpc_client.rs): concurrent  *)
(* calls that share one active endpoint, retry it, fail over to the next   *)
(* one under a mutex, and fail back when the primary answers a probe.      *)
(***************************************************************************)
EXTENDS Naturals

CONSTANTS
    Callers,              \* concurrent calls of one client
    N,                    \* number of configured endpoints; 0 is the primary
    MAX_ATTEMPTS_PER_URL  \* attempts on one endpoint in one round

ASSUME NAssumption == N \in Nat \ {0}
ASSUME AttemptsAssumption == MAX_ATTEMPTS_PER_URL \in Nat \ {0}

VARIABLES
    active,   \* FailoverState.active_idx (and active_url_idx, set with it)
    failedAt, \* last_failover_at: "none", "fresh", or "due" for a probe
    primaryUp, \* environment: the primary works; the others may always fail
    pc,       \* where each call is
    idx,      \* url_idx of the current round
    round,    \* url_round
    attempt,  \* attempts made in this round
    result,   \* how the last call ended
    first,    \* history: active_idx when the call made its first round
    spent,    \* history: endpoints some call exhausted during this call
    back      \* history: whether the client failed back during this call

state  == <<active, failedAt>>
call   == <<pc, idx, round, attempt, result>>
hist   == <<first, spent, back>>
vars   == <<state, primaryUp, call, hist>>

Endpoints == 0 .. N - 1

(* What one POST may come back with: transport error, HTTP status, a body  *)
(* that does not decode, a JSON-RPC error by code, neither result nor error. *)
Answers == {"ok", "transport", "http4xx", "http429", "http5xx", "garbled",
            "rpc32001", "rpcInternal", "rpcServer", "rpcInvalid", "null"}

(* SorobanRpcErrorCode::is_retryable and the HTTP rules of the loop.       *)
is_retryable(a) == a \in {"transport", "http429", "http5xx", "garbled",
                          "rpc32001", "rpcInternal", "rpcServer"}

(* is_non_retryable_rpc_error: only a JSON-RPC error counts as permanent.  *)
is_permanent(a) == a = "rpcInvalid"

(* How call_with_cursor returns at once.                                   *)
Outcome(a) == CASE a = "ok"        -> "ok"
                [] is_permanent(a) -> "permanent"
                [] OTHER           -> "error"

(* A primary that works answers; any other endpoint may fail in any way.   *)
AnswersOf(e) == IF e # 0 THEN Answers ELSE IF primaryUp THEN {"ok"} ELSE Answers \ {"ok"}

Init ==
    /\ active = 0 /\ failedAt = "none"
    /\ primaryUp \in BOOLEAN
    /\ pc = [c \in Callers |-> "idle"]
    /\ idx = [c \in Callers |-> 0]
    /\ round = [c \in Callers |-> 0]
    /\ attempt = [c \in Callers |-> 0]
    /\ result = [c \in Callers |-> "none"]
    /\ first = [c \in Callers |-> 0]
    /\ spent = [c \in Callers |-> {}]
    /\ back = [c \in Callers |-> FALSE]

(* The call returns and its locals go.                                     *)
Return(c, r) ==
    /\ pc' = [pc EXCEPT ![c] = "idle"]
    /\ idx' = [idx EXCEPT ![c] = 0]
    /\ round' = [round EXCEPT ![c] = 0]
    /\ attempt' = [attempt EXCEPT ![c] = 0]
    /\ result' = [result EXCEPT ![c] = r]
    /\ first' = [first EXCEPT ![c] = 0]
    /\ spent' = [spent EXCEPT ![c] = {}]
    /\ back' = [back EXCEPT ![c] = FALSE]

(* maybe_probe_primary, up to the getHealth request: whether this call     *)
(* probes the primary before it starts.                                    *)
ProbeOnPrimary == active = 0 /\ failedAt = "due"
ShouldProbe == active # 0 /\ failedAt = "due"

Begin(c) ==
    /\ pc[c] = "idle"
    /\ pc' = [pc EXCEPT ![c] = IF ShouldProbe THEN "probe" ELSE "enter"]
    /\ result' = [result EXCEPT ![c] = "none"]
    /\ UNCHANGED <<state, primaryUp, idx, round, attempt, hist>>

(* The answer to the probe; any 2xx fails back, unless another call has.   *)
Probe(c) ==
    /\ pc[c] = "probe"
    /\ pc' = [pc EXCEPT ![c] = "enter"]
    /\ IF primaryUp /\ active # 0
       THEN /\ active' = 0 /\ failedAt' = "none"
            /\ back' = [d \in Callers |-> back[d] \/ pc[d] # "idle"]
       ELSE UNCHANGED <<state, back>>
    /\ UNCHANGED <<primaryUp, idx, round, attempt, result, first, spent>>

(* The head of a round: the active endpoint is read under the lock.        *)
Pick(c) ==
    /\ pc[c] \in {"enter", "pick"}
    /\ idx' = [idx EXCEPT ![c] = active]
    /\ first' = IF pc[c] = "enter" THEN [first EXCEPT ![c] = active] ELSE first
    /\ pc' = [pc EXCEPT ![c] = IF active = 0 THEN "attempt" ELSE "check"]
    /\ UNCHANGED <<state, primaryUp, round, attempt, result, spent, back>>

(* check_endpoint_network of a failover endpoint. When getNetwork fails or *)
(* names another network, the `?` ends the call.                           *)
CheckNetwork(c) ==
    /\ pc[c] = "check"
    /\ \/ /\ pc' = [pc EXCEPT ![c] = "attempt"]
          /\ UNCHANGED <<idx, round, attempt, result, hist>>
       \/ Return(c, "error")
    /\ UNCHANGED <<state, primaryUp>>

(* One POST of the request: retried here, or returned.                     *)
CountsRoundAgain(n) == (n + 1) % MAX_ATTEMPTS_PER_URL
Counted(n) == n + 1

Attempt(c) ==
    /\ pc[c] = "attempt" /\ attempt[c] < MAX_ATTEMPTS_PER_URL
    /\ \E a \in AnswersOf(idx[c]) :
          IF is_retryable(a)
          THEN /\ attempt' = [attempt EXCEPT ![c] = Counted(@)]
               /\ UNCHANGED <<pc, idx, round, result, hist>>
          ELSE Return(c, Outcome(a))
    /\ UNCHANGED <<state, primaryUp>>

(* try_failover: advance unless a concurrent call already has.             *)
AdvanceAnyway(from) == IF active + 1 < N THEN active + 1 ELSE active
NextActive(from) ==
    IF active # from THEN active
    ELSE IF from + 1 < N THEN from + 1 ELSE from

ForgetFailover(next) == failedAt
NoteFailover(next) == IF next # active THEN "fresh" ELSE failedAt

(* The end of a round: fail over, and give up when there is nowhere to go  *)
(* or every round is used.                                                 *)
GivesUp(c) == NextActive(idx[c]) = idx[c] \/ round[c] + 1 = N

Rotate(c) ==
    /\ pc[c] = "attempt" /\ attempt[c] = MAX_ATTEMPTS_PER_URL
    /\ active' = NextActive(idx[c])
    /\ failedAt' = NoteFailover(NextActive(idx[c]))
    /\ pc' = [pc EXCEPT ![c] = IF GivesUp(c) THEN "idle" ELSE "pick"]
    /\ result' = [result EXCEPT ![c] = IF GivesUp(c) THEN "error" ELSE @]
    /\ round' = [round EXCEPT ![c] = IF GivesUp(c) THEN 0 ELSE @ + 1]
    /\ idx' = [idx EXCEPT ![c] = 0] /\ attempt' = [attempt EXCEPT ![c] = 0]
    /\ first' = [first EXCEPT ![c] = IF GivesUp(c) THEN 0 ELSE @]
    /\ back' = [back EXCEPT ![c] = ~GivesUp(c) /\ @]
    /\ spent' = [d \in Callers |->
                    IF pc'[d] = "idle" THEN {} ELSE spent[d] \cup {idx[c]}]
    /\ UNCHANGED primaryUp

(* PRIMARY_PROBE_INTERVAL passes since the last failover.                  *)
IntervalElapses ==
    /\ failedAt = "fresh" /\ failedAt' = "due"
    /\ UNCHANGED <<active, primaryUp, call, hist>>

(* The primary fails and recovers.                                         *)
PrimaryFlips ==
    /\ primaryUp' = ~primaryUp
    /\ UNCHANGED <<state, call, hist>>

CallStep(c) ==
    \/ Probe(c) \/ Pick(c) \/ CheckNetwork(c) \/ Attempt(c) \/ Rotate(c)

Environment == IntervalElapses \/ PrimaryFlips

Next == Environment \/ \E c \in Callers : Begin(c) \/ CallStep(c)

Spec == Init /\ [][Next]_vars

-----------------------------------------------------------------------------
PcStates == {"idle", "probe", "enter", "pick", "check", "attempt"}
Results == {"none", "ok", "permanent", "error"}

TypeOK ==
    /\ active \in Endpoints /\ failedAt \in {"none", "fresh", "due"}
    /\ primaryUp \in BOOLEAN
    /\ pc \in [Callers -> PcStates]
    /\ idx \in [Callers -> Endpoints] /\ round \in [Callers -> Endpoints]
    /\ attempt \in [Callers -> 0 .. MAX_ATTEMPTS_PER_URL]
    /\ result \in [Callers -> Results]
    /\ first \in [Callers -> Endpoints]
    /\ spent \in [Callers -> SUBSET Endpoints]
    /\ back \in [Callers -> BOOLEAN]

(* A call that reports failure on all endpoints is right: although other   *)
(* calls move the shared active_idx under it, so that it skips endpoints,  *)
(* and although its rounds are counted, every endpoint from the first it   *)
(* used to the last was exhausted by some call meanwhile, unless the       *)
(* client failed back during the call.                                     *)
ExhaustedMeansTried ==
    \A c \in Callers :
        /\ pc[c] = "attempt" /\ attempt[c] = MAX_ATTEMPTS_PER_URL
        /\ GivesUp(c) /\ ~back[c]
        => first[c] .. N - 1 \subseteq spent[c] \cup {idx[c]}

(* A client that left the primary can return: while another endpoint is    *)
(* active, last_failover_at is set, or maybe_probe_primary never probes.   *)
CanFailBack == active # 0 <=> failedAt # "none"
=============================================================================
