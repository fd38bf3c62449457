--------------------------- MODULE InterfaceDiff ----------------------------
(***************************************************************************)
(* How serious an upgrade of a contract's interface is (core/diff.rs), for *)
(* integrations built against any earlier version.  Each upgrade is only   *)
(* compared with the version before it; an integration that read no alert  *)
(* since its own version relies on all the verdicts in between.            *)
(*                                                                         *)
(* An interface maps names to functions, events and types.  A signature is *)
(* the parts diff.rs renders as text, compared as a whole.                 *)
(***************************************************************************)
EXTENDS Integers, Sequences, FiniteSets, SequencesExt

CONSTANTS
    Interfaces,    \* what a contract may be upgraded to
    MaxVersions    \* bound on recorded versions

(* Parameters and members are lists.                                       *)
DiffAssumption ==
    \A i \in Interfaces :
        /\ \A n \in DOMAIN i.events : i.events[n].params \in Seq(Range(i.events[n].params))
        /\ \A n \in DOMAIN i.types : i.types[n].members \in Seq(Range(i.types[n].members))

VARIABLES versions,   \* the recorded interfaces, oldest first
          verdicts    \* verdicts[i]: the severity of the upgrade to version i

vars == <<versions, verdicts>>

Additive == 0
PotentiallyBreaking == 1
Breaking == 2

IsPrefixOf(s, t) == Len(s) < Len(t) /\ \A i \in 1 .. Len(s) : s[i] = t[i]

-----------------------------------------------------------------------------
\* Signatures.

function_sigs(spec) == [n \in DOMAIN spec.functions |->
    [inputs |-> spec.functions[n].inputs, output |-> spec.functions[n].output]]

(* The location and the data format are part of it; the prefix topics, by  *)
(* which an event is found, are not.                                       *)
event_sigs(spec) == [n \in DOMAIN spec.events |->
    [params |-> spec.events[n].params, format |-> spec.events[n].format]]

(* Structs, unions, enums and error enums share one namespace.             *)
type_sigs(spec) == [n \in DOMAIN spec.types |->
    [kind |-> spec.types[n].kind, members |-> spec.types[n].members]]

-----------------------------------------------------------------------------
\* The sections of a diff.

(* The same parameters in another order.                                   *)
is_param_reorder(old, new) ==
    /\ Len(old) = Len(new) /\ old # new
    /\ \E p \in [DOMAIN old -> DOMAIN new] : /\ \A i, j \in DOMAIN old : i # j => p[i] # p[j]
                                             /\ \A i \in DOMAIN old : old[i] = new[p[i]]

(* diff_section: names are the identity.                                   *)
diff_section(old, new) ==
    [added   |-> DOMAIN new \ DOMAIN old,
     removed |-> DOMAIN old \ DOMAIN new,
     changed |-> {n \in DOMAIN old \cap DOMAIN new : old[n] # new[n]},
     reordered |-> {},
     potentially_breaking |-> {}]

(* diff_section_with_params: a pure reordering is told apart.              *)
diff_functions(old, new) ==
    LET d == diff_section(function_sigs(old), function_sigs(new))
        moved == {n \in d.changed : is_param_reorder(old.functions[n].inputs, new.functions[n].inputs)}
    IN [d EXCEPT !.changed = @ \ moved, !.reordered = moved]

Reclassified(d, milder) == [d EXCEPT !.changed = @ \ milder, !.potentially_breaking = milder]

(* map_event_added_fields: a map gained fields in its data.                *)
map_event_added_fields(old, new) ==
    /\ old.format = new.format /\ new.format = "map"
    /\ IsPrefixOf(old.params, new.params)
    /\ \A i \in Len(old.params) + 1 .. Len(new.params) : new.params[i].location = "data"

diff_events(old, new) ==
    LET d == diff_section(event_sigs(old), event_sigs(new))
    IN Reclassified(d, {n \in d.changed : map_event_added_fields(old.events[n], new.events[n])})

(* added_cases_only: a union or an enum gained cases at its end.           *)
added_cases_only(old, new) ==
    /\ old.kind = new.kind /\ new.kind \in {"union", "enum"}
    /\ IsPrefixOf(old.members, new.members)

diff_types(old, new) ==
    LET d == diff_section(type_sigs(old), type_sigs(new))
    IN Reclassified(d, {n \in d.changed : added_cases_only(old.types[n], new.types[n])})

(* Reordered parameters break callers that pass them by position.          *)
ChangedOnly(d) == IF d.removed \cup d.changed # {} THEN Breaking
                  ELSE IF d.potentially_breaking # {} THEN PotentiallyBreaking ELSE Additive
max_severity(d) == IF d.removed \cup d.changed \cup d.reordered # {} THEN Breaking
                   ELSE IF d.potentially_breaking # {} THEN PotentiallyBreaking ELSE Additive

(* SpecDiff::between.                                                      *)
between(old, new) ==
    LET severities == {max_severity(diff_functions(old, new)), max_severity(diff_events(old, new)),
                       max_severity(diff_types(old, new))}
    IN CHOOSE s \in severities : \A t \in severities : t <= s

-----------------------------------------------------------------------------
Init == \E i \in Interfaces : versions = <<i>> /\ verdicts = <<Additive>>

(* An upgrade is recorded with its diff against the version before it.     *)
Upgrade(i) ==
    /\ Len(versions) < MaxVersions
    /\ versions' = Append(versions, i)
    /\ verdicts' = Append(verdicts, between(Last(versions), i))

Next == \E i \in Interfaces : Upgrade(i)

Spec == Init /\ [][Next]_vars

-----------------------------------------------------------------------------
\* What an integration needs.

NamesOf(inputs) == [n \in {inputs[i].name : i \in DOMAIN inputs} |->
                      inputs[CHOOSE i \in DOMAIN inputs : inputs[i].name = n].ty]

(* Calls by position and calls by name are still accepted, and mean the    *)
(* same; the result has the type it had.                                   *)
CallsWork(old, new) ==
    /\ Len(old.inputs) = Len(new.inputs)
    /\ \A i \in DOMAIN old.inputs : old.inputs[i].ty = new.inputs[i].ty
    /\ NamesOf(old.inputs) = NamesOf(new.inputs)
    /\ \A i \in DOMAIN old.inputs : old.inputs[i].name = new.inputs[i].name
    /\ old.output = new.output

(* The parameters in one place, each with its position there.              *)
At(params, location) ==
    {<<Cardinality({j \in 1 .. i : params[j].location = location}), params[i]>> :
        i \in {i \in DOMAIN params : params[i].location = location}}
ParamsAt(params, location) == {params[i] : i \in {i \in DOMAIN params : params[i].location = location}}

(* A subscriber finds an event by the topics that lead it.                 *)
FindingWorks(old, new) == old.prefix_topics = new.prefix_topics

(* A decoder that reads the topics by position and the data by name, or by *)
(* position, finds every parameter it knows where it was.                  *)
DecodingWorks(old, new) ==
    /\ old.format = new.format
    /\ At(old.params, "topic") = At(new.params, "topic")
    /\ IF old.format = "map"
       THEN ParamsAt(old.params, "data") \subseteq ParamsAt(new.params, "data")
       ELSE At(old.params, "data") = At(new.params, "data")

(* Values an integration sends or knows still mean the same.               *)
TypeWorks(old, new) ==
    /\ old.kind = new.kind
    /\ IF old.kind \in {"union", "enum"} THEN Range(old.members) \subseteq Range(new.members)
       ELSE old.members = new.members

(* All of it, but for finding the events in `moved`.                       *)
Works(old, new, moved) ==
    /\ \A n \in DOMAIN old.functions : n \in DOMAIN new.functions /\ CallsWork(old.functions[n], new.functions[n])
    /\ \A n \in DOMAIN old.events : /\ n \in DOMAIN new.events /\ DecodingWorks(old.events[n], new.events[n])
                                    /\ n \in moved \/ FindingWorks(old.events[n], new.events[n])
    /\ \A n \in DOMAIN old.types : n \in DOMAIN new.types /\ TypeWorks(old.types[n], new.types[n])

(* The events an upgrade gave other prefix topics.                         *)
Moved(old, new) == {n \in DOMAIN old.events \cap DOMAIN new.events : ~FindingWorks(old.events[n], new.events[n])}
MovedSince(v) == UNION {Moved(versions[w - 1], versions[w]) : w \in v + 1 .. Len(versions)}

(* Nothing an exhaustive decoder has not seen.                             *)
SeesNothingNew(old, new) ==
    /\ \A n \in DOMAIN old.events : Len(old.events[n].params) = Len(new.events[n].params)
    /\ \A n \in DOMAIN old.types : Len(old.types[n].members) = Len(new.types[n].members)

(* diff.rs:16: an integration built against any recorded version works     *)
(* with the latest as long as no upgrade since was called breaking, and    *)
(* one that matches exhaustively as long as all were additive.  What no    *)
(* verdict covers is an event that was given other prefix topics: its      *)
(* subscribers no longer find it, but event_sigs (diff.rs:525) leaves the  *)
(* prefix out, and the upgrade may be called additive.  Everything else    *)
(* about such an event still works.                                        *)
VerdictsHold ==
    \A v \in DOMAIN versions :
        LET since == {verdicts[w] : w \in v + 1 .. Len(versions)} IN
        /\ Breaking \notin since => Works(versions[v], Last(versions), MovedSince(v))
        /\ since \subseteq {Additive} => SeesNothingNew(versions[v], Last(versions))
=============================================================================
