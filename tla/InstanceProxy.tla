--------------------------- MODULE InstanceProxy ----------------------------
(***************************************************************************)
(* A request to a mounted sibling instance: the client, the load balancers *)
(* in front of this instance, the instance as a reverse proxy              *)
(* (routes/proxy.rs), and the sibling, which limits requests per client    *)
(* address although all of them reach it from the proxy.                   *)
(*                                                                         *)
(* An X-Forwarded-For header is a sequence of lines, each a sequence of    *)
(* entries: an address, or text that is none.  The platform header that    *)
(* CLIENT_IP_HEADER names holds one entry, junk when it is missing.  Which *)
(* headers an instance trusts is set by CLIENT_IP_HEADER and               *)
(* TRUSTED_PROXY_HOPS alone: nothing reads RATE_LIMIT_TRUST_XFF.  A body   *)
(* is its size.                                                            *)
(***************************************************************************)
EXTENDS Integers, Sequences, SequencesExt

CONSTANTS
    Addrs, junk,          \* client addresses, and an entry that is no address
    balancer, front,      \* the addresses of the hops
    Depths,               \* how many balancers there may be
    SiblingHops,          \* what TRUSTED_PROXY_HOPS may be at the sibling
    MaxLines, MaxEntries, \* bounds on what a client sends
    MAX_BODY_BYTES, max_response_bytes,
    MaxBytes              \* bound on bodies

ProxyAssumption ==
    /\ junk \notin Addrs /\ balancer # junk /\ Depths \subseteq Nat /\ SiblingHops \subseteq Nat
    /\ MaxLines \in Nat /\ MaxEntries \in Nat /\ MaxBytes \in Nat /\ max_response_bytes \in Nat

VARIABLES
    cfg,          \* IpConfig of either instance: trusted_proxy_hops, platform_header set
    client,       \* the address of the client
    peer,         \* the address the next hop sees
    xff,          \* X-Forwarded-For as the next hop sees it
    platform,     \* the platform header as the next hop sees it
    hops,         \* balancers passed
    joined,       \* history: every balancer so far kept to one line
    ip,           \* the address each instance takes the client to have
    resp,         \* the sibling's response: its size, whether it is declared, what was read
    pc

route == <<cfg, client>>
headers == <<xff, platform>>
vars == <<route, peer, headers, hops, joined, ip, resp, pc>>

Entries == Addrs \cup {junk}
Lines == UNION {[1 .. n -> Entries] : n \in 1 .. MaxEntries}

IpConfig(hopCounts) == [trusted_proxy_hops : hopCounts, platform_header : BOOLEAN]

(* This instance's hop count is the number of balancers in front of it,    *)
(* and it trusts a platform header only behind a platform.  The client may *)
(* send any headers it likes, over several lines.                          *)
Init ==
    /\ cfg \in [front : IpConfig(Depths), sibling : IpConfig(SiblingHops)]
    /\ cfg.front.platform_header => cfg.front.trusted_proxy_hops > 0
    /\ client \in Addrs /\ peer = client
    /\ xff \in UNION {[1 .. n -> Lines] : n \in 0 .. MaxLines}
    /\ platform \in Entries
    /\ hops = 0 /\ joined = TRUE
    /\ ip = [front |-> junk, sibling |-> junk]
    /\ resp = [size |-> 0, declared |-> FALSE, read |-> 0]
    /\ pc = "travels"

(* A balancer appends the address it sees, to the entries there are or as  *)
(* a line of its own.  The outermost one of a platform overwrites the      *)
(* platform header.                                                        *)
Balance(joins) ==
    /\ pc = "travels" /\ hops < cfg.front.trusted_proxy_hops
    /\ xff' = IF joins THEN <<FlattenSeq(xff) \o <<peer>>>> ELSE Append(xff, <<peer>>)
    /\ platform' = IF cfg.front.platform_header /\ hops = 0 THEN peer ELSE platform
    /\ joined' = (joined /\ joins)
    /\ peer' = balancer /\ hops' = hops + 1
    /\ UNCHANGED <<route, ip, resp, pc>>

-----------------------------------------------------------------------------
\* auth.rs and routes/proxy.rs.

parse_client_ip(entry) == IF entry = junk THEN {} ELSE {entry}

(* Counted from the right: each trusted hop appended one entry.            *)
Leftmost(parts, n) == parts[1]
Trusted(parts, n) == parts[Len(parts) - n + 1]

(* The platform header comes first, if it holds an address; then the first *)
(* line of X-Forwarded-For alone; the socket's address is the fallback.    *)
extract_client_ip(c, socket) ==
    LET n == c.trusted_proxy_hops
        usable == /\ n > 0 /\ xff # <<>> /\ Len(xff[1]) >= n
                  /\ parse_client_ip(Trusted(xff[1], n)) # {}
    IN  IF c.platform_header /\ parse_client_ip(platform) # {} THEN platform
        ELSE IF usable THEN Trusted(xff[1], n)
        ELSE socket

(* The proxy reads the whole body and refuses one that is too large.       *)
ReadBody(size) == IF size <= MAX_BODY_BYTES THEN "forward" ELSE "413"

(* proxy_rate_limit resolves the client and hands it to the proxy.         *)
Accept(body) ==
    /\ pc = "travels" /\ hops = cfg.front.trusted_proxy_hops
    /\ ip' = [ip EXCEPT !.front = extract_client_ip(cfg.front, peer)]
    /\ pc' = ReadBody(body)
    /\ UNCHANGED <<route, peer, headers, hops, joined, resp>>

(* All lines, and the client's address last.                               *)
SecondLine(lines, addr) == Append(lines, <<addr>>)
forwarded_for(lines, addr) == <<FlattenSeq(lines) \o <<addr>>>>

(* The other headers go on as they came, the platform header with them.    *)
Forward ==
    /\ pc = "forward"
    /\ xff' = forwarded_for(xff, ip.front) /\ peer' = front
    /\ pc' = "sibling"
    /\ UNCHANGED <<route, platform, hops, joined, ip, resp>>

(* The sibling resolves the client its own way; the request's headers are  *)
(* not read again.                                                         *)
SiblingResolves ==
    /\ pc = "sibling"
    /\ ip' = [ip EXCEPT !.sibling = extract_client_ip(cfg.sibling, peer)]
    /\ pc' = "answers" /\ xff' = <<>> /\ platform' = junk
    /\ UNCHANGED <<route, peer, hops, joined, resp>>

(* Its response, with a Content-Length or without; a declared length that  *)
(* is too large is refused at once.                                        *)
SiblingAnswers(size, declared) ==
    /\ pc = "answers"
    /\ resp' = [size |-> size, declared |-> declared, read |-> 0]
    /\ pc' = IF declared /\ size > max_response_bytes THEN "502" ELSE "reading"
    /\ UNCHANGED <<route, peer, headers, hops, joined, ip>>

(* Unreachable, timed out, or broken off in the middle of the body.        *)
UpstreamError(status) ==
    /\ pc \in {"sibling", "answers", "reading"}
    /\ pc' = status
    /\ UNCHANGED <<route, peer, headers, hops, joined, ip, resp>>

TooMuchRead(read, chunk) == read > max_response_bytes
TooLarge(read, chunk) == read + chunk > max_response_bytes

ReadChunk(chunk) ==
    /\ pc = "reading" /\ resp.read + chunk <= resp.size
    /\ IF TooLarge(resp.read, chunk) THEN pc' = "502" /\ UNCHANGED resp
       ELSE resp' = [resp EXCEPT !.read = @ + chunk] /\ UNCHANGED pc
    /\ UNCHANGED <<route, peer, headers, hops, joined, ip>>

Finish ==
    /\ pc = "reading" /\ resp.read = resp.size
    /\ pc' = "passed on"
    /\ UNCHANGED <<route, peer, headers, hops, joined, ip, resp>>

Next ==
    \/ \E joins \in BOOLEAN : Balance(joins)
    \/ Forward \/ SiblingResolves \/ Finish
    \/ \E n \in 0 .. MaxBytes : Accept(n) \/ \E declared \in BOOLEAN : SiblingAnswers(n, declared)
    \/ \E n \in 1 .. MaxBytes : ReadChunk(n)
    \/ \E status \in {"502", "504"} : UpstreamError(status)

Spec == Init /\ [][Next]_vars

-----------------------------------------------------------------------------
(* proxy.rs:16 "so the upstream can limit per client instead of seeing     *)
(* every request come from the proxy".  Behind a platform that sets the    *)
(* header, or balancers that keep X-Forwarded-For on one line, this        *)
(* instance counts the request for the address the client really has,      *)
(* whatever the client claims in either header and over how many lines.    *)
(* The sibling counts it for the same address when it trusts one hop and   *)
(* no platform header, and for the client's when both instances trust the  *)
(* platform.  A response is passed on whole or not at all, with no more    *)
(* than the limit held in memory.                                          *)
ProxyHonest ==
    /\ joined \/ cfg.front.platform_header => ip.front \in {junk, client}
    /\ pc = "answers" =>
          /\ cfg.sibling = [trusted_proxy_hops |-> 1, platform_header |-> FALSE] =>
                ip.sibling = ip.front
          /\ cfg.sibling.platform_header /\ cfg.front.platform_header => ip.sibling = client
    /\ resp.read <= max_response_bytes
    /\ pc = "passed on" => resp.read = resp.size
=============================================================================
