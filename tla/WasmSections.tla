---------------------------- MODULE WasmSections ----------------------------
(***************************************************************************)
(* How a contract's interface is found in its deployed WASM                *)
(* (core/spec.rs): the walk over the sections, and the entries of the      *)
(* contractspecv0 section.  The module comes from the chain: complete, cut *)
(* short, or with sections whose lengths lie.                              *)
(*                                                                         *)
(* A byte has PayloadBits bits and a continuation bit, a LEB128 number at  *)
(* most MaxGroups bytes and NumberBits bits (7, 5 and 32 in the code); the *)
(* header is the magic and a version as long.                              *)
(***************************************************************************)
EXTENDS Integers, Sequences, FiniteSets, SequencesExt

CONSTANTS
    PayloadBits, MaxGroups, NumberBits,
    Magic,        \* what every module begins with, as bytes
    want,         \* the name of the section, as bytes
    Modules       \* modules: sequences of [id, size, named, name, content]

VARIABLES
    sections,     \* the module as it was built
    wasm,         \* its bytes, or the first of them
    pos,          \* Reader::pos
    found,        \* the section the walk returned
    parsed,       \* from_spec_xdr: the entries kept, and whether all were
    pc

vars == <<sections, wasm, pos, found, parsed, pc>>

Cont == 2 ^ PayloadBits
None == <<"none">>
Some(content) == <<"some", content>>

(* External: the toolchain's unsigned LEB128.                              *)
leb(n) == IF n < Cont THEN <<n>> ELSE <<Cont + (n % Cont)>> \o <<n \div Cont>>

Body(s) == IF s.id = 0 THEN leb(s.named) \o s.name \o s.content ELSE s.content
Zeros(n) == [i \in 1 .. n |-> 0]
Encoded(m) ==
    FlattenSeq(<<Magic, Zeros(Len(Magic))>> \o [i \in DOMAIN m |-> <<m[i].id>> \o leb(m[i].size) \o Body(m[i])])

-----------------------------------------------------------------------------
\* Reader, at position p (0-based): what it reads, and where it ends.

Fail == [ok |-> FALSE]

byte(p) == IF p < Len(wasm) THEN [ok |-> TRUE, val |-> wasm[p + 1], end |-> p + 1] ELSE Fail

take(p, n) == IF p + n <= Len(wasm) THEN [ok |-> TRUE, val |-> SubSeq(wasm, p + 1, p + n), end |-> p + n] ELSE Fail

(* The bits of the last group that do not fit are shifted out.             *)
leb_u32(p) ==
    LET stops == {n \in 1 .. MaxGroups : byte(p + n - 1).ok /\ byte(p + n - 1).val < Cont}
        len   == CHOOSE n \in stops : \A k \in stops : n <= k
        sum[n \in 0 .. MaxGroups] == IF n = 0 THEN 0
                                     ELSE sum[n - 1] + (wasm[p + n] % Cont) * Cont ^ (n - 1)
    IN IF stops = {} \/ p + len > Len(wasm) THEN Fail
       ELSE [ok |-> TRUE, val |-> sum[len] % 2 ^ NumberBits, end |-> p + len]

-----------------------------------------------------------------------------
Init ==
    /\ sections \in Modules
    /\ \/ wasm \in {SubSeq(Encoded(sections), 1, n) : n \in 0 .. Len(Encoded(sections))}
       \/ wasm = ReplaceAt(Encoded(sections), 1, Magic[1] + 1)
    /\ pos = 0 /\ found = None
    /\ parsed = [kept |-> 0, complete |-> TRUE]
    /\ pc = "header"

(* wasm_custom_section: what does not begin with the magic has no          *)
(* sections; any version will do.                                          *)
ReadHeader ==
    LET magic   == take(0, Len(Magic))
        version == take(Len(Magic), Len(Magic))
    IN /\ pc = "header"
       /\ IF ~magic.ok \/ ~version.ok THEN pc' = "done" /\ UNCHANGED pos
          ELSE IF magic.val # Magic THEN pc' = "done" /\ UNCHANGED pos
          ELSE pc' = "walk" /\ pos' = version.end
       /\ UNCHANGED <<sections, wasm, found, parsed>>

ToTheEnd(start, end) == SubSeq(wasm, start + 1, Len(wasm))
Slice(start, end) == SubSeq(wasm, start + 1, end)

(* A custom section's name, and its content if it is the one wanted: up to *)
(* the end of the section, which a name that runs past it leaves empty.    *)
Content(start, bodyEnd) ==
    LET len  == leb_u32(start)
        name == take(len.end, len.val)
    IN IF ~len.ok THEN Fail
       ELSE IF ~name.ok THEN Fail
       ELSE IF name.val # want THEN [ok |-> TRUE, here |-> FALSE]
       ELSE IF name.end > bodyEnd THEN Fail
       ELSE [ok |-> TRUE, here |-> TRUE, val |-> Slice(name.end, bodyEnd)]

(* One section: its content, the next one, or the end of the walk.         *)
ReadSection ==
    /\ pc = "walk" /\ pos < Len(wasm)
    /\ LET id      == byte(pos)
           size    == leb_u32(id.end)
           bodyEnd == size.end + size.val
           body    == Content(size.end, bodyEnd)
           stop    == pc' = "done" /\ UNCHANGED <<pos, found>>
       IN IF ~size.ok THEN stop
          ELSE IF bodyEnd > Len(wasm) THEN stop
          ELSE IF id.val # 0 THEN pos' = bodyEnd /\ UNCHANGED <<pc, found>>
          ELSE IF ~body.ok THEN stop
          ELSE IF body.here THEN found' = Some(body.val) /\ pc' = "parse" /\ UNCHANGED pos
          ELSE pos' = bodyEnd /\ UNCHANGED <<pc, found>>
    /\ UNCHANGED <<sections, wasm, parsed>>

WalkEnds ==
    /\ pc = "walk" /\ pos = Len(wasm)
    /\ pc' = "done"
    /\ UNCHANGED <<sections, wasm, pos, found, parsed>>

(* from_spec_xdr: what cannot be decoded is counted and left out, and a    *)
(* limit ends the loop.  For the XDR library's iterator, a byte of content *)
(* is an entry: 0 decodes, 1 does not, 2 exceeds the limits.               *)
Limit(content) ==
    LET over == {i \in DOMAIN content : content[i] = 2}
    IN IF over = {} THEN Len(content) ELSE CHOOSE i \in over : \A j \in over : i <= j

AllDecoded(content) == \A i \in 1 .. Limit(content) : content[i] = 0

ParseEntries ==
    /\ pc = "parse"
    /\ parsed' = [kept |-> Cardinality({i \in 1 .. Limit(found[2]) : found[2][i] = 0}),
                  complete |-> AllDecoded(found[2])]
    /\ pc' = "done"
    /\ UNCHANGED <<sections, wasm, pos, found>>

Next == ReadHeader \/ ReadSection \/ WalkEnds \/ ParseEntries

Spec == Init /\ [][Next]_vars

-----------------------------------------------------------------------------
(* The module is whole and its lengths are true.                           *)
Honest(m) == \A i \in DOMAIN m : m[i].size = Len(Body(m[i])) /\ m[i].named = Len(m[i].name)
Wanted(m) == {i \in DOMAIN m : m[i].id = 0 /\ m[i].name = want}

(* spec.rs:840, :216: in a well-formed module the first section of that    *)
(* name is found with exactly its content, a module cut short is never     *)
(* taken to have another content, and none is found in what is not a       *)
(* module; an interface said to be complete has every entry.               *)
SectionFound ==
    LET first   == CHOOSE i \in Wanted(sections) : \A j \in Wanted(sections) : i <= j
        content == IF Wanted(sections) = {} THEN None ELSE Some(sections[first].content)
    IN pc = "done" /\ Honest(sections) =>
        /\ found \in {None, content}
        /\ wasm = Encoded(sections) => found = content
        /\ ~IsPrefix(wasm, Encoded(sections)) => found = None
        /\ found # None /\ parsed.complete => parsed.kept = Len(found[2])
=============================================================================
