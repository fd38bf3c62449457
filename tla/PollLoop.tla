------------------------------ MODULE PollLoop ------------------------------
(***************************************************************************)
(* poller::run over the RPC client: one call stands for a poll cycle. The  *)
(* loop backs off, opens a circuit breaker after a number of errors in a   *)
(* row, and leaves on a permanent error; its supervisor restarts it.       *)
(***************************************************************************)
EXTENDS RpcFailover

CONSTANTS
    Poller,                 \* the caller whose result is a poll cycle's
    max_consecutive_errors, \* circuit breaker threshold; 0 switches it off
    Base, Degraded,         \* poll_interval_secs, degraded_poll_interval_secs
    MaxBackoff,             \* 60 s
    ErrorCap                \* bound: errors beyond it are not told apart

ASSUME PollerAssumption == Poller \in Callers
ASSUME LoopAssumption ==
    /\ max_consecutive_errors \in Nat /\ ErrorCap \in Nat
    /\ ErrorCap >= max_consecutive_errors
    /\ {Base, Degraded, MaxBackoff} \subseteq Nat

VARIABLES
    loop,    \* "poll", "sleep" or "exited"
    errors,  \* consecutive_errors
    backoff  \* the next delay after an error

loopVars == <<loop, errors, backoff>>
allVars == <<vars, loopVars>>

LoopInit ==
    /\ Init
    /\ loop = "poll" /\ errors = 0 /\ backoff = Base

Fresh == /\ loop' = "poll" /\ errors' = 0 /\ backoff' = Base

(* poll_once starts.                                                       *)
Poll ==
    /\ loop = "poll" /\ result[Poller] = "none"
    /\ Begin(Poller) /\ UNCHANGED loopVars

CircuitOpen(n) == max_consecutive_errors > 0 /\ n >= max_consecutive_errors

Smaller(a, b) == IF a < b THEN a ELSE b

CycleOk ==
    /\ errors' = 0 /\ backoff' = Base /\ loop' = "sleep"

CycleErr ==
    LET n == Smaller(errors + 1, ErrorCap) IN
    /\ errors' = n /\ loop' = "sleep"
    /\ backoff' = IF CircuitOpen(n) THEN Degraded ELSE Smaller(2 * backoff, MaxBackoff)

(* The result of the cycle.                                                *)
Finish ==
    /\ loop = "poll" /\ pc[Poller] = "idle" /\ result[Poller] # "none"
    /\ CASE result[Poller] = "ok"        -> CycleOk
         [] result[Poller] = "permanent" ->
                loop' = "exited" /\ UNCHANGED <<errors, backoff>>
         [] OTHER                        -> CycleErr
    /\ result' = [result EXCEPT ![Poller] = "none"]
    /\ UNCHANGED <<state, primaryUp, pc, idx, round, attempt, hist>>

Wake == loop = "sleep" /\ loop' = "poll" /\ UNCHANGED <<vars, errors, backoff>>

(* A new process: its client starts on the primary and makes no call yet;  *)
(* the other calls died with the old one. validate_network_passphrases     *)
(* needs a getNetwork answer from every endpoint, the primary included.    *)
Restart ==
    /\ loop = "exited" /\ primaryUp
    /\ Fresh
    /\ active' = 0 /\ failedAt' = "none"
    /\ pc' = [c \in Callers |-> "idle"]
    /\ result' = [c \in Callers |-> "none"]
    /\ idx' = [c \in Callers |-> 0] /\ round' = [c \in Callers |-> 0]
    /\ attempt' = [c \in Callers |-> 0] /\ first' = [c \in Callers |-> 0]
    /\ spent' = [c \in Callers |-> {}] /\ back' = [c \in Callers |-> FALSE]
    /\ UNCHANGED primaryUp

LoopNext ==
    \/ Environment /\ UNCHANGED loopVars
    \/ \E c \in Callers : loop # "exited" /\ CallStep(c) /\ UNCHANGED loopVars
    \/ \E c \in Callers \ {Poller} :
          loop # "exited" /\ Begin(c) /\ UNCHANGED loopVars
    \/ Poll \/ Finish \/ Wake \/ Restart

(* Timers fire and awaited requests return (every request has a timeout).  *)
LoopFairness ==
    /\ WF_allVars(Poll) /\ WF_allVars(Finish) /\ WF_allVars(Wake)
    /\ WF_allVars(IntervalElapses /\ UNCHANGED loopVars)
    /\ \A c \in Callers :
          WF_allVars(loop # "exited" /\ CallStep(c) /\ UNCHANGED loopVars)

LoopSpec == LoopInit /\ [][LoopNext]_allVars /\ LoopFairness

-----------------------------------------------------------------------------
(* When the primary works again for good, the poller recovers, whatever    *)
(* endpoint the client was left on, and even if that one fails or serves  *)
(* another network: the breaker closes, unless the process has exited.     *)
Recovers ==
    <>[]primaryUp =>
        []<>(loop = "exited" \/ (errors = 0 /\ active = 0))

(* No call hangs: the rounds and attempts are bounded although concurrent  *)
(* calls move active_idx back and forth.                                   *)
CallsReturn ==
    \A c \in Callers : (pc[c] # "idle") ~> (pc[c] = "idle" \/ loop = "exited")
=============================================================================
