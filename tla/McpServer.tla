----------------------------- MODULE McpServer ------------------------------
(***************************************************************************)
(* lumenqraph-mcp: JSON-RPC over HTTP or stdio, sessions kept in memory,   *)
(* and the tools that run contract simulations within a budget.  Requests  *)
(* of one client and of several are handled concurrently; the process may  *)
(* be restarted, which forgets sessions and budget.                        *)
(*                                                                         *)
(* A request is its origin, session header, protocol version, token,       *)
(* method and whether it has an id; payloads are left out.                 *)
(***************************************************************************)
EXTENDS Integers, FiniteSets

CONSTANTS
    Clients, Handlers,
    auth_token,           \* whether MCP_AUTH_TOKEN is set
    limit_per_min, global_limit_per_min,
    Window,               \* the limiter's minute
    MaxNow, MaxSessions   \* bounds on the clock and on ids issued

McpAssumption ==
    /\ auth_token \in BOOLEAN
    /\ limit_per_min \in Nat \ {0} /\ global_limit_per_min \in Nat \ {0} /\ Window \in Nat \ {0}
    /\ MaxNow \in Nat /\ MaxSessions \in Nat /\ IsFiniteSet(Handlers)

VARIABLES
    transport,    \* "http" or "stdio"
    sessions,     \* live session ids
    issued,       \* how many ids were issued
    held,         \* client -> the id it was given last, 0 for none
    ended,        \* ids the client deleted or the server lost
    handler,      \* handler -> the tool call it runs, and where it is
    answer,       \* the last answer given without running a tool
    global, perClient,   \* admissions: <<when, which of that time>>
    now,
    ran           \* simulations: who, when, and with what credentials

vars == <<transport, sessions, issued, held, ended, handler, answer, global, perClient, now, ran>>
limiter == <<global, perClient, now, ran>>

Methods == {"initialize", "notifications/", "ping", "tools/list", "tools/call", "other"}
Versions == {"supported", "unsupported"}   \* no header counts as supported
Idle == [pc |-> "idle"]
Answer(r, status) == [session |-> r.session, first |-> r.method = "initialize", status |-> status,
                      late |-> r.session \in ended]

NoAnswer == [session |-> 0, first |-> TRUE, status |-> "none", late |-> FALSE]

(* Clients send no id or the one they were given last.                     *)
Requests == UNION {[client : {c}, origin : BOOLEAN, session : {0, held[c]}, version : Versions,
                    token : BOOLEAN, method : Methods, id : BOOLEAN] : c \in Clients}

Init ==
    /\ transport \in {"http", "stdio"}
    /\ sessions = {} /\ issued = 0
    /\ held = [c \in Clients |-> 0] /\ ended = {}
    /\ handler = [h \in Handlers |-> Idle] /\ answer = NoAnswer
    /\ global = {} /\ perClient = [c \in Clients |-> {}]
    /\ now = 0 /\ ran = {}

-----------------------------------------------------------------------------
\* handle_http_request and serve_io, up to the first await.

Forgiving(id) == id # 0
session_valid(id) == transport = "stdio" \/ id \in sessions

AnyAuth(r) == TRUE
authenticated(r) == auth_token => r.token

(* What the transport refuses before the method is looked at: the origin   *)
(* guard, then the session and the version of all but initialize.          *)
Refusal(r) ==
    IF transport = "stdio" THEN "none"
    ELSE IF ~r.origin THEN "403"
    ELSE IF r.method = "initialize" THEN "none"
    ELSE IF r.session = 0 THEN "400"
    ELSE IF ~session_valid(r.session) THEN "404"
    ELSE IF r.version = "unsupported" THEN "400"
    ELSE "none"

(* handle: the answer, "none" for a message that gets none, "run" for a    *)
(* tool.                                                                   *)
Dispatch(r) ==
    IF r.method = "initialize" THEN IF authenticated(r) THEN "result" ELSE "unauthorized"
    ELSE IF r.method = "notifications/" THEN "none"
    ELSE IF ~authenticated(r) THEN IF r.id THEN "unauthorized" ELSE "none"
    ELSE IF r.method \in {"ping", "tools/list"} THEN "result"
    ELSE IF r.method = "tools/call" THEN "run"
    ELSE IF r.id THEN "not found" ELSE "none"

Receive(h, r) ==
    /\ answer = NoAnswer /\ handler[h].pc = "idle"
    /\ Refusal(r) = "none" /\ Dispatch(r) = "run"
    /\ handler' = [handler EXCEPT ![h] =
                      [pc |-> "tool", req |-> [client |-> r.client, session |-> r.session, token |-> r.token]]]
    /\ UNCHANGED <<transport, sessions, issued, held, ended, answer, limiter>>

(* A successful initialize over HTTP is answered with a new session.       *)
Initialize(r) ==
    /\ answer = NoAnswer /\ r.method = "initialize"
    /\ Refusal(r) = "none" /\ Dispatch(r) = "result"
    /\ IF transport = "stdio" THEN UNCHANGED <<sessions, issued, held>>
       ELSE /\ issued < MaxSessions
            /\ issued' = issued + 1
            /\ sessions' = sessions \cup {issued + 1}
            /\ held' = [held EXCEPT ![r.client] = issued + 1]
    /\ answer' = Answer(r, "result")
    /\ UNCHANGED <<transport, ended, handler, limiter>>

Respond(r) ==
    /\ answer = NoAnswer
    /\ \/ Refusal(r) # "none"
       \/ Dispatch(r) # "run" /\ ~(r.method = "initialize" /\ authenticated(r))
    /\ answer' = Answer(r, IF Refusal(r) # "none" THEN Refusal(r) ELSE Dispatch(r))
    /\ UNCHANGED <<transport, sessions, issued, held, ended, handler, limiter>>

Deliver ==
    /\ answer # NoAnswer /\ answer' = NoAnswer
    /\ UNCHANGED <<transport, sessions, issued, held, ended, handler, limiter>>

(* handle_delete_mcp: needs no token, only the id.                         *)
Delete(c) ==
    /\ transport = "http" /\ held[c] \in sessions
    /\ sessions' = sessions \ {held[c]}
    /\ ended' = ended \cup {held[c]}
    /\ UNCHANGED <<transport, issued, held, handler, answer, limiter>>

-----------------------------------------------------------------------------
\* tools::call.

(* Most tools read the database and answer.                                *)
ReadTool(h) ==
    /\ handler[h].pc = "tool"
    /\ handler' = [handler EXCEPT ![h] = Idle]
    /\ UNCHANGED <<transport, sessions, issued, held, ended, answer, limiter>>

Recent(stamps) == {e \in stamps : now - e[1] < Window}

(* push_back: entries of one time are told apart by a number.              *)
Pushed(stamps) ==
    LET new == CHOOSE n \in 1 .. Cardinality(stamps) + 1 : <<now, n>> \notin stamps
    IN  stamps \cup {<<now, new>>}

NotFull(stamps, limit) == Cardinality(Recent(stamps)) <= limit
HasRoom(stamps, limit) == Cardinality(Recent(stamps)) < limit

(* call_contract and simulate_call, try_consume: the shared window first,  *)
(* under its own lock.                                                     *)
TakeGlobal(h) ==
    /\ handler[h].pc = "tool"
    /\ IF HasRoom(global, global_limit_per_min)
       THEN /\ global' = Pushed(Recent(global))
            /\ handler' = [handler EXCEPT ![h].pc = "counted"]
       ELSE /\ global' = Recent(global)
            /\ handler' = [handler EXCEPT ![h] = Idle]
    /\ UNCHANGED <<transport, sessions, issued, held, ended, answer, perClient, now, ran>>

(* Then the client's own.                                                  *)
TakeClient(h) ==
    LET c == handler[h].req.client IN
    /\ handler[h].pc = "counted"
    /\ IF HasRoom(perClient[c], limit_per_min)
       THEN /\ perClient' = [perClient EXCEPT ![c] = Pushed(Recent(perClient[c]))]
            /\ ran' = ran \cup {[client |-> c, at |-> now, nth |-> Cardinality(ran),
                             session |-> handler[h].req.session, token |-> handler[h].req.token]}
            /\ handler' = [handler EXCEPT ![h].pc = "simulating"]
       ELSE /\ perClient' = [perClient EXCEPT ![c] = Recent(perClient[c])]
            /\ handler' = [handler EXCEPT ![h] = Idle]
            /\ UNCHANGED ran
    /\ UNCHANGED <<transport, sessions, issued, held, ended, answer, global, now>>

(* No interface, a rejected argument, a failed simulation, or its result.  *)
Simulate(h) ==
    /\ handler[h].pc = "simulating"
    /\ handler' = [handler EXCEPT ![h] = Idle]
    /\ UNCHANGED <<transport, sessions, issued, held, ended, answer, limiter>>

(* try_consume does not wait: the clock does not move inside it.           *)
Tick ==
    /\ now < MaxNow /\ \A h \in Handlers : handler[h].pc # "counted"
    /\ now' = now + 1
    /\ UNCHANGED <<transport, sessions, issued, held, ended, handler, answer, global, perClient, ran>>

Restart ==
    /\ transport = "http" /\ sessions # {}
    /\ ended' = ended \cup sessions
    /\ sessions' = {} /\ handler' = [h \in Handlers |-> Idle]
    /\ global' = {} /\ perClient' = [c \in Clients |-> {}] /\ ran' = {}
    /\ UNCHANGED <<transport, issued, held, answer, now>>

Next ==
    \/ \E r \in Requests : Initialize(r) \/ Respond(r) \/ \E h \in Handlers : Receive(h, r)
    \/ \E h \in Handlers : ReadTool(h) \/ TakeGlobal(h) \/ TakeClient(h) \/ Simulate(h)
    \/ \E c \in Clients : Delete(c)
    \/ Deliver \/ Tick \/ Restart

Spec == Init /\ [][Next]_vars

-----------------------------------------------------------------------------
TypeOK ==
    /\ sessions \subseteq 1 .. issued /\ ended \subseteq 1 .. issued
    /\ \A c \in Clients : held[c] \in 0 .. issued
    /\ now \in 0 .. MaxNow
    /\ Cardinality(global) <= global_limit_per_min
    /\ \A c \in Clients : Cardinality(perClient[c]) <= limit_per_min

During(runs, t) == {x \in runs : t <= x.at /\ x.at < t + Window}

(* rpc.rs:8: in no window do the simulations of one client exceed its      *)
(* limit, or all of them together the shared one, though the two are       *)
(* counted under different locks.                                          *)
BudgetKept ==
    \A t \in 0 .. MaxNow :
        /\ Cardinality(During(ran, t)) <= global_limit_per_min
        /\ \A c \in Clients : Cardinality(During({x \in ran : x.client = c}, t)) <= limit_per_min

(* main.rs:130: a session works until its client deletes it or the process *)
(* restarts: no request with it is answered 404, and none with an ended    *)
(* one is served.                                                          *)
SessionsHonest ==
    transport = "http" /\ ~answer.first =>
        /\ answer.status = "404" => answer.session \in ended
        /\ answer.late \/ answer.session = 0 => answer.status \in {"400", "403", "404"}

(* handle: no simulation runs for a request without the token, nor, over   *)
(* HTTP, for one without a session the server had issued.                  *)
SimulatesForKnown ==
    \A x \in ran : (auth_token => x.token) /\ (transport = "http" => x.session \in 1 .. issued)
=============================================================================
