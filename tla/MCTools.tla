------------------------------- MODULE MCTools -------------------------------
(***************************************************************************)
(* The pure algorithms and the parts of SideParts on small instances:      *)
(* typed arguments and the generated client, 256-bit numbers, the walk     *)
(* over a WASM module's sections; deep backfill, key snapshots, event      *)
(* enrichment, interface diffs and the MCP server.  They share no state;   *)
(* the run explores them one at a time and `focus` is the part that moves. *)
(***************************************************************************)
EXTENDS Codegen, SideParts

VARIABLES
    number, kind, widePc, limbs, text,
    sections, wasm, pos, found, parsed, wasmPc

wideVars   == <<number, kind, widePc, limbs, text>>
wasmVars   == <<sections, wasm, pos, found, parsed, wasmPc>>

-----------------------------------------------------------------------------
\* A contract with one function per type, and the JSON its clients pass.

T(k) == [k |-> k]
OptionOf(t) == [k |-> "option", of |-> t]
VecOf(t) == [k |-> "vec", of |-> t]
MapOf(key, t) == [k |-> "map", key |-> key, of |-> t]
TupleTy(tys) == [k |-> "tuple", tys |-> tys]
Udt(name) == [k |-> "udt", name |-> name]
Field(name, t) == [name |-> name, ty |-> t]

MCUdts ==
    [Side  |-> [k |-> "enum", values |-> <<[name |-> "Ask", value |-> 1], [name |-> "Bid", value |-> 3]>>],
     Order |-> [k |-> "union", cases |-> [Bid |-> <<T("u64")>>, Ask |-> <<>>]],
     Quote |-> [k |-> "struct", fields |-> <<Field("b", T("u64")), Field("a", Udt("Side"))>>],
     Pair  |-> [k |-> "struct", fields |-> <<Field("0", Udt("Order")), Field("1", T("bool"))>>]]

Scalars == {T(k) : k \in {"bool", "void", "u32", "i32", "u64", "i128", "u256", "i256", "symbol", "string",
                          "address", "muxed", "bytes", "val"}}
MCTypes ==
    Scalars \cup {[k |-> "bytesn", n |-> 1], OptionOf(T("u64")), OptionOf(Udt("Side")),
     VecOf(T("i32")), VecOf(Udt("Order")), TupleTy(<<T("u32"), T("symbol")>>),
     MapOf(T("u64"), T("u32")), MapOf(T("symbol"), Udt("Side")), MapOf(T("address"), T("bool")),
     MapOf(T("u32"), T("u32")), Udt("Side"), Udt("Order"), Udt("Quote"), Udt("Pair"), Udt("Gone")}

MCSignatures == {<<>>} \cup {<<Field("a", t)>> : t \in MCTypes}
                       \cup {<<Field("a", t), Field("b", T("u32"))>> : t \in {T("u32"), Udt("Side")}}

MCTexts == <<" 1", "+1", "-1", "-9", "0", "01", "0x", "0x01", "0x0101", "1", "16", "3", "5",
             "Ask", "Bid", "C1", "G1", "M1", "a", "b", "c", "?">>
MCNumerals == ("+1" :> 1 @@ "01" :> 1 @@ "-1" :> -1 @@ "-9" :> -9 @@ "0" :> 0 @@ "1" :> 1 @@ "16" :> 16
               @@ "3" :> 3 @@ "5" :> 5)
MCHexOf == ("0x" :> <<>> @@ "01" :> <<1>> @@ "0x01" :> <<1>> @@ "0x0101" :> <<1, 1>>)
MCStrKeys == ("C1" :> "C1" @@ "G1" :> "G1")
MCMuxed == ("M1" :> "G1")
MCGarbled == ("?" :> "0x01")
MCBits == [u32 |-> 2, i32 |-> 2, u64 |-> 3, i64 |-> 3, u128 |-> 4, i128 |-> 4, u256 |-> 5, i256 |-> 5,
           timepoint |-> 3, duration |-> 3]

Strings == {<<"str", MCTexts[i]>> : i \in DOMAIN MCTexts \ {Len(MCTexts)}}
Atoms == Strings \cup {Null, <<"bool", TRUE>>, <<"float", 1>>} \cup {<<"num", n>> : n \in {-9, -1, 1, 3, 5}}
FewAtoms == {<<"num", 1>>, <<"num", 3>>, <<"num", -1>>, <<"str", "1">>, <<"str", "Ask">>, <<"str", "01">>, <<"bool", TRUE>>}
Objects(S, K) == UNION {{<<"obj", f>> : f \in [D -> S]} : D \in {D \in SUBSET K : Cardinality(D) <= 2}}
Nested == {<<"obj", ("Bid" :> v)>> : v \in FewAtoms \cup {<<"arr", <<a>>>> : a \in FewAtoms}}
Pool ==
    Atoms \cup Nested \cup {<<"arr", s>> : s \in UNION {[1 .. n -> FewAtoms] : n \in 0 .. 2}}
          \cup {<<"arr", <<v, <<"bool", TRUE>>>>>> : v \in Nested}
          \cup {<<"arr", <<v>>>> : v \in Nested}
          \cup Objects({<<"num", 1>>, <<"num", 3>>, <<"str", "Ask">>}, {"1", "01", "5", "16", "a", "b", "Ask", "G1"})
MCArguments == {<<"arr", <<v>>>> : v \in Pool} \cup {<<"obj", ("a" :> v)>> : v \in Atoms}
               \cup {<<"arr", <<v, w>>>> : v, w \in FewAtoms} \cup Objects(FewAtoms, {"a", "b", "c"})
               \cup {Null, <<"arr", <<>>>>}

-----------------------------------------------------------------------------
\* An export with a repeated event, a broken line, an incomplete entry and a
\* contract id that is none, flushed in batches of two; one failed run and
\* one pruned event.

Stored(l, c, name, value, complete) ==
    [ledger |-> l, contract |-> c, name |-> name, value |-> value, complete |-> complete]
Export ==
    <<Stored(1, "token", "transfer", "decimal", TRUE), Stored(2, "pool", "deposit", "decimal", TRUE),
      Stored(3, "nft", "transfer", "integer", TRUE), Stored(3, "token", "burn", "decimal", FALSE),
      Stored(2, "short", "transfer", "decimal", TRUE)>>
Line(shape, ids) == [shape |-> shape, ids |-> ids]
ExportLines ==
    <<Line("envelope", <<1, 2>>), Line("garbled", <<1>>), Line("envelope", <<2, 4, 5>>),
      Line("flat", <<4>>), Line("flat", <<3>>)>>

-----------------------------------------------------------------------------
\* A transfer between two holders and an approval template over them, read
\* in chunks of two keys.

Topic(addrs, nested) == [nested |-> nested, addrs |-> addrs]
TokenEvent(name, topics) == [name |-> name, topics |-> <<Topic({}, FALSE)>> \o topics]
MetEvents ==
    {TokenEvent("transfer", <<Topic({"a"}, FALSE), Topic({"b"}, FALSE)>>),
     TokenEvent("approve", <<Topic({"a"}, FALSE), Topic({"a", "b"}, TRUE)>>),
     TokenEvent("approve", <<>>), TokenEvent("vote", <<Topic({"a"}, FALSE)>>)}
SomeTemplates == {[symbol |-> "Allowance", names |-> {"approve", "transfer"}, indices |-> <<2, 3>>]}

-----------------------------------------------------------------------------
\* Numbers of three limbs of four bits, around every limb's and the type's
\* limits.

SomeMagnitudes == 0 .. 130 \cup 2000 .. 2100 \cup 4000 .. 4200
Wide == INSTANCE WideInt WITH
    pc <- widePc, LimbBits <- 4, NLimbs <- 3,
    Magnitudes <- SomeMagnitudes

-----------------------------------------------------------------------------
\* Interfaces of up to three events, two of which share a first topic and
\* one of which declares none.

Param(name, location) == [name |-> name, location |-> location]
Declared(name, prefix, params, format) ==
    [name |-> name, prefix_topics |-> prefix, params |-> params, data_format |-> format]
Declarations ==
    {Declared("deposit", <<"pool", "deposit">>, <<Param("amount", "data"), Param("to", "topic")>>, "single"),
     Declared("pool", <<"pool">>, <<Param("a", "topic"), Param("b", "data"), Param("a", "data"),
                                    Param("d", "topic")>>, "vec"),
     Declared("swap", <<"swap">>, <<Param("x", "data"), Param("y", "data"), Param("z", "topic")>>, "map"),
     Declared("withdraw", <<"pool", "withdraw">>, <<>>, "map"),
     Declared("note", <<>>, <<Param("m", "topic"), Param("n", "data")>>, "single")}
SomeEventInterfaces == {s \in UNION {[1 .. n -> Declarations] : n \in 1 .. 3} : IsInjective(s)}

SomeValues == {<<"str", "deposit">>, <<"num", 1>>, <<"str", "b">>}

-----------------------------------------------------------------------------
\* Upgrades between interfaces that differ in a function, an event or a type.

A == Field("a", "u32")
B == Field("b", "i128")
F(inputs, output) == "f" :> [inputs |-> inputs, output |-> output]
SomeFunctions == {F(<<A, B>>, "void"), F(<<B, A>>, "void"), F(<<A>>, "void"), F(<<A, B>>, "u32"),
                  F(<<A, Field("b", "u64")>>, "void"), <<>>}

X == [name |-> "x", ty |-> "i128", location |-> "data"]
Y == [name |-> "y", ty |-> "u32", location |-> "data"]
Z == [name |-> "z", ty |-> "Address", location |-> "topic"]
E(params, format) == "e" :> [prefix_topics |-> <<"e">>, params |-> params, format |-> format]
Under(prefix, e) == "e" :> [e["e"] EXCEPT !.prefix_topics = prefix]
SomeEvents == {E(<<X>>, "map"), E(<<X, Y>>, "map"), E(<<Y, X>>, "map"), E(<<X, Z>>, "map"),
               E(<<X, Y>>, "vec"), E(<<X, Y, [Y EXCEPT !.name = "w"]>>, "map"), E(<<X>>, "vec"), <<>>}
SomeMoved == {Under(<<"pool", "e">>, E(<<X>>, "map")), Under(<<"pool", "e">>, E(<<X, Y>>, "map"))}

Ty(k, members) == "T" :> [kind |-> k, members |-> members]
SomeTypes == {Ty("enum", <<"A=1">>), Ty("enum", <<"A=1", "B=2">>), Ty("enum", <<"B=2", "A=1">>),
              Ty("enum", <<"A=1", "B=2", "C=3">>), Ty("struct", <<"a: u32">>),
              Ty("struct", <<"a: u32", "b: u32">>), Ty("error", <<"A=1">>),
              Ty("error", <<"A=1", "B=2">>), Ty("union", <<"A=1">>), <<>>}

Iface(f, e, t) == [functions |-> f, events |-> e, types |-> t]
SomeInterfaces == {Iface(f, E(<<X>>, "map"), t) : f \in {F(<<A, B>>, "void"), <<>>}, t \in SomeTypes}
                  \cup {Iface(f, e, <<>>) : f \in SomeFunctions, e \in SomeEvents}
                  \cup {Iface(F(<<A, B>>, "void"), e, <<>>) : e \in SomeMoved}

-----------------------------------------------------------------------------
\* Modules of one or two sections, and sections that lie about their size.

Section(id, size, named, name, content) ==
    [id |-> id, size |-> size, named |-> named, name |-> name, content |-> content]
Honest ==
    {Section(0, 1 + Len(n) + Len(c), Len(n), n, c) :
        n \in {<<1>>, <<2>>, <<>>}, c \in {<<>>, <<0>>, <<0, 1>>, <<2, 0>>, <<0, 0, 0>>}}
    \cup {Section(1, Len(c), 0, <<>>, c) : c \in {<<>>, <<0, 1, 1>>}}
Lying == {Section(0, 2, 3, <<1>>, <<0>>), Section(0, 5, 1, <<1>>, <<0>>),
          Section(0, 1, 1, <<1>>, <<0>>), Section(1, 1, 0, <<>>, <<0, 0, 0>>)}
SomeModules == {<<s>> : s \in Honest} \cup {<<s, t>> : s \in Honest \cup Lying, t \in Honest}

Walk == INSTANCE WasmSections WITH
    pc <- wasmPc, PayloadBits <- 2, MaxGroups <- 2, NumberBits <- 3, Magic <- <<0, 1>>, want <- <<1>>,
    Modules <- SomeModules

-----------------------------------------------------------------------------
Symmetry == Permutations(Clients) \cup Permutations(Handlers)

-----------------------------------------------------------------------------
WideAtRest ==
    /\ number = Resting /\ kind = Resting /\ widePc = Resting /\ limbs = Resting
    /\ text = Resting
WalkAtRest ==
    /\ sections = Resting /\ wasm = Resting /\ pos = Resting /\ found = Resting
    /\ parsed = Resting /\ wasmPc = Resting
SideAtRest == DeepAtRest /\ SnapshotsAtRest /\ EnrichmentAtRest /\ DiffAtRest /\ McpAtRest
ValuesAtRest ==
    /\ function = Resting /\ args = Resting /\ pc = Resting /\ sent = Resting
    /\ shown = Resting /\ again = Resting

ToolsInit ==
    /\ focus \in {"values", "deep", "keys", "wide", "enrich", "diff", "wasm", "mcp"}
    /\ IF focus \in {"deep", "keys", "enrich", "diff", "mcp"} THEN SideInit ELSE SideAtRest
    /\ IF focus = "values" THEN Init ELSE ValuesAtRest
    /\ IF focus = "wide" THEN Wide!Init ELSE WideAtRest
    /\ IF focus = "wasm" THEN Walk!Init ELSE WalkAtRest

ToolsNext ==
    \/ SideNext /\ UNCHANGED <<vars, wideVars, wasmVars>>
    \/ /\ UNCHANGED <<focus, sideVars>>
       /\ \/ focus = "values" /\ Next /\ UNCHANGED <<wideVars, wasmVars>>
          \/ focus = "wide" /\ Wide!Next /\ UNCHANGED <<vars, wasmVars>>
          \/ focus = "wasm" /\ Walk!Next /\ UNCHANGED <<vars, wideVars>>

ToolsSpec == ToolsInit /\ [][ToolsNext]_<<focus, vars, sideVars, wideVars, wasmVars>>

-----------------------------------------------------------------------------
(* read.rs, codegen.rs and spec.rs: what is sent has its declared type,    *)
(* what is shown can be sent again, the generated client's types say so,   *)
(* wide numbers are exact to their limits, and an interface is read from   *)
(* the bytes it was written to (TypedValues, Codegen, WideInt,             *)
(* WasmSections).                                                          *)
ValuesRoundTrip ==
    /\ focus = "values" => SentIsTyped /\ ResultsFeedBack /\ GeneratedTypesHonest
    /\ focus = "wide" => Wide!WideExact
    /\ focus = "wasm" => Walk!SectionFound

=============================================================================
