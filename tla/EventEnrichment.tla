-------------------------- MODULE EventEnrichment ---------------------------
(***************************************************************************)
(* A contract's event gets its name, parameter names and types from the    *)
(* interface of the contract (spec.rs), for indexed events and for those a *)
(* simulation reports (read.rs).  Events are found by their leading topics *)
(* alone, so two declared events may claim one emission.                   *)
(*                                                                         *)
(* A decoded topic is <<"str", text>> or <<"num", n>>.                     *)
(***************************************************************************)
EXTENDS Integers, Sequences, FiniteSets, SequencesExt, TLC

CONSTANTS
    Interfaces,   \* sequences of event declarations
    Values,       \* what parameters are
    Kinds         \* contract, system and diagnostic events

(* What an interface declares: a parameter is in the topics or in the      *)
(* data; the fields of a map have names of their own, and data that is a   *)
(* single value is at most one parameter.                                  *)
EnrichmentAssumption ==
    \A s \in Interfaces : s \in Seq(Range(s)) /\ \A d \in DOMAIN s :
        LET e    == s[d]
            data == {i \in DOMAIN e.params : e.params[i].location = "data"}
        IN /\ e.prefix_topics \in Seq(Range(e.prefix_topics)) /\ e.params \in Seq(Range(e.params))
           /\ \A i \in DOMAIN e.params : e.params[i].location \in {"topic", "data"}
           /\ e.data_format \in {"map", "vec", "single"}
           /\ e.data_format = "map" => \A i, j \in data : e.params[i].name = e.params[j].name => i = j
           /\ e.data_format = "single" => \A i, j \in data : i = j

VARIABLES
    spec,         \* the interface
    emitted,      \* the declared event emitted and its parameters' values
    kind, mine,   \* the event's type, and whether the target emitted it
    wire,         \* its topics and data
    shown         \* the enrichment, or None

vars == <<spec, emitted, kind, mine, wire, shown>>

None == [event |-> "", params |-> <<>>]
NoWire == [topics |-> <<>>, data |-> <<>>]
Null == <<"null", 0>>

InTopics(e) == {i \in DOMAIN e.params : e.params[i].location = "topic"}
InData(e) == DOMAIN e.params \ InTopics(e)

(* The position of parameter i among those in the same place.              *)
Place(e, i) == Cardinality({j \in 1 .. i : e.params[j].location = e.params[i].location})

-----------------------------------------------------------------------------
\* External: soroban-sdk publishes an event as its declaration says.

Pick(e, S, vals) == [k \in 1 .. Cardinality(S) |-> vals[CHOOSE i \in S : Place(e, i) = k]]

Published(e, vals) ==
    [topics |-> [i \in 1 .. Len(e.prefix_topics) |-> <<"str", e.prefix_topics[i]>>] \o Pick(e, InTopics(e), vals),
     data   |-> CASE e.data_format = "map" -> [n \in {e.params[i].name : i \in InData(e)} |->
                                                 vals[CHOOSE i \in InData(e) : e.params[i].name = n]]
                  [] OTHER -> Pick(e, InData(e), vals)]

-----------------------------------------------------------------------------
\* spec.rs.

(* event_name_from_topic: the first topic, if it is text.                  *)
event_name(topics) == IF topics # <<>> /\ topics[1][1] = "str" THEN topics[1][2] ELSE ""

(* reindex: among declarations with one prefix the last wins.              *)
events_by_prefix(prefix) ==
    {i \in DOMAIN spec : /\ spec[i].prefix_topics = prefix
                         /\ \A j \in DOMAIN spec : spec[j].prefix_topics = prefix => j <= i}

(* reindex: the first topic of a declaration, the last winning, before the *)
(* declared names, the first winning.                                      *)
events_by_name(name) ==
    LET byTopic == {i \in DOMAIN spec : spec[i].prefix_topics # <<>> /\ spec[i].prefix_topics[1] = name}
        byName  == {i \in DOMAIN spec : spec[i].name = name}
    IN IF byTopic # {} THEN {CHOOSE i \in byTopic : \A j \in byTopic : j <= i}
       ELSE {i \in byName : \A j \in byName : i <= j}

Leading(topics) == {n \in 1 .. Len(topics) : \A i \in 1 .. n : topics[i][1] = "str"}
PrefixOf(topics, n) == [i \in 1 .. n |-> topics[i][2]]

Longest(lens) == CHOOSE n \in lens : \A m \in lens : m <= n
Shortest(lens) == CHOOSE n \in lens : \A m \in lens : n <= m

(* The longest prefix that a declaration has, else the name.               *)
FirstFound(topics) ==
    LET lens == {n \in Leading(topics) : events_by_prefix(PrefixOf(topics, n)) # {}}
    IN IF lens # {} THEN events_by_prefix(PrefixOf(topics, Shortest(lens)))
       ELSE events_by_name(event_name(topics))
Matching(topics) ==
    LET lens == {n \in Leading(topics) : events_by_prefix(PrefixOf(topics, n)) # {}}
    IN IF lens # {} THEN events_by_prefix(PrefixOf(topics, Longest(lens)))
       ELSE events_by_name(event_name(topics))

(* At least one topic is the event's name, even if none is declared.       *)
skip(e) == IF e.prefix_topics = <<>> THEN 1 ELSE Len(e.prefix_topics)

At(seq, i) == IF i \in DOMAIN seq THEN seq[i] ELSE Null

Bound(e, w, i) ==
    IF e.params[i].location = "topic" THEN At(w.topics, skip(e) + Place(e, i))
    ELSE CASE e.data_format = "map" -> IF e.params[i].name \in DOMAIN w.data THEN w.data[e.params[i].name] ELSE Null
           [] e.data_format = "vec" -> At(w.data, Place(e, i))
           [] OTHER -> At(w.data, 1)

Names(e) == {e.params[i].name : i \in DOMAIN e.params}

(* The object is keyed by name: of parameters with one name, the last one  *)
(* inserted stays.                                                         *)
LastNamed(e, n) ==
    LET named == {i \in DOMAIN e.params : e.params[i].name = n}
    IN CHOOSE i \in named : \A j \in named : j <= i

enrich_event(w) ==
    IF event_name(w.topics) = "" \/ Matching(w.topics) = {} THEN None
    ELSE LET e == spec[CHOOSE i \in Matching(w.topics) : TRUE]
         IN [event |-> e.name, params |-> [n \in Names(e) |-> Bound(e, w, LastNamed(e, n))]]

-----------------------------------------------------------------------------
Init ==
    /\ spec \in Interfaces
    /\ emitted = [event |-> 0, vals |-> <<>>]
    /\ kind \in Kinds /\ mine \in BOOLEAN
    /\ wire = NoWire /\ shown = None

Publish(i, vals) ==
    /\ emitted.event = 0
    /\ emitted' = [event |-> i, vals |-> vals]
    /\ wire' = Published(spec[i], vals)
    /\ UNCHANGED <<spec, kind, mine, shown>>

(* decode_events: the diagnostic trace is left out, and only the events of *)
(* the contract whose interface this is are enriched.                      *)
Decode ==
    /\ emitted.event # 0 /\ shown = None
    /\ kind # "diagnostic" /\ mine
    /\ shown' = enrich_event(wire)
    /\ UNCHANGED <<spec, emitted, kind, mine, wire>>

Next ==
    \/ \E i \in DOMAIN spec : \E vals \in [DOMAIN spec[i].params -> Values] : Publish(i, vals)
    \/ Decode

Spec == Init /\ [][Next]_vars

-----------------------------------------------------------------------------
(* Another declaration claims the topics as well, with a prefix as long:   *)
(* the same one, or one that goes on with a text this event has as a       *)
(* parameter.                                                              *)
Ambiguous ==
    \E i \in DOMAIN spec \ {emitted.event} :
        LET p == spec[i].prefix_topics IN
        /\ Len(p) >= Len(spec[emitted.event].prefix_topics)
        /\ Len(p) \in Leading(wire.topics) /\ PrefixOf(wire.topics, Len(p)) = p

(* spec.rs:518: an event the interface declares is shown under its own     *)
(* name, with every parameter's own value under that parameter's name (of  *)
(* parameters with one name the last), whatever other events share its     *)
(* first topics, and whatever texts its parameters are, unless two         *)
(* declarations claim the same topics.  An event declared without leading  *)
(* topics has nothing it could be found by.                                *)
EnrichedTrue ==
    LET e == spec[emitted.event]
    IN shown # None /\ e.prefix_topics # <<>> /\ ~Ambiguous =>
        /\ shown.event = e.name
        /\ DOMAIN shown.params = {e.params[i].name : i \in DOMAIN e.params}
        /\ \A i \in DOMAIN e.params :
              (\A j \in DOMAIN e.params : e.params[j].name = e.params[i].name => j <= i)
              => shown.params[e.params[i].name] = emitted.vals[i]
=============================================================================
