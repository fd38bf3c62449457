---------------------------- MODULE TypedValues -----------------------------
(***************************************************************************)
(* The typed read layer: a client's JSON arguments become ScVals by the    *)
(* contract's interface (read.rs), and a result becomes JSON again by its  *)
(* shape alone (xdr.rs) and is then named by its declared type (spec.rs).  *)
(* The three live in different modules, and results are meant to be        *)
(* arguments of the next call.                                             *)
(*                                                                         *)
(* JSON values and ScVals are pairs of a tag and a payload.  Texts are     *)
(* members of a small set; which of them read as numbers, bytes or         *)
(* addresses is given by tables.  Integer types are scaled down: Bits maps *)
(* each to its width.                                                      *)
(***************************************************************************)
EXTENDS Integers, Sequences, FiniteSets, SequencesExt, TLC

CONSTANTS
    Signatures,   \* functions of the interface: <<parameter>>
    Udts,         \* name -> user-defined type
    Texts,        \* every text, in byte order
    Numerals,     \* text -> integer, the texts that read as numbers
    HexOf,        \* text -> bytes, the texts that read as hex
    StrKeys,      \* text -> address, the texts that are G... or C... keys
    Muxed,        \* text -> address, the M... keys
    Bits,         \* integer type -> width
    Arguments,    \* what clients pass
    Garbled       \* texts of the chain that are not UTF-8 -> their hex

VARIABLES
    function,     \* the function called
    args,         \* its JSON arguments
    pc,           \* where the call is
    sent,         \* the encoded arguments
    shown,        \* the first argument, returned, decoded and named
    again         \* the arguments encoded with shown in its place

vars == <<function, args, pc, sent, shown, again>>

Null == <<"null", 0>>
Err == <<"err", 0>>
Void == <<"void", 0>>

Failed(items) == \E i \in DOMAIN items : items[i] = Err
AllOrErr(tag, items) == IF Failed(items) THEN Err ELSE <<tag, items>>

SignedTypes == {"i32", "i64", "i128", "i256"}
WideTypes == {"u256", "i256"}

Fits(n, k) == IF k \in SignedTypes THEN -(2 ^ (Bits[k] - 1)) <= n /\ n < 2 ^ (Bits[k] - 1)
              ELSE 0 <= n /\ n < 2 ^ Bits[k]

Position(text) == CHOOSE i \in DOMAIN Texts : Texts[i] = text

(* stellar-xdr's order on keys of one type.                                *)
Rank(sc) == IF sc[1] \in DOMAIN Bits THEN sc[2]
            ELSE IF sc[1] = "bool" THEN IF sc[2] THEN 1 ELSE 0
            ELSE Position(sc[2])

-----------------------------------------------------------------------------
\* read.rs: from JSON to ScVal.

(* int, text_of_int: a string or an integral number that fits the type.    *)
(* Only the 256-bit types trim the text first.                             *)
Trim(text) == IF text = " 1" THEN "1" ELSE text

EncodeInt(v, k) ==
    LET text == IF k \in WideTypes /\ v[1] = "str" THEN Trim(v[2]) ELSE v[2]
        n    == IF v[1] = "num" THEN v[2] ELSE Numerals[text]
    IN IF /\ v[1] = "num" \/ (v[1] = "str" /\ text \in DOMAIN Numerals)
          /\ Fits(n, k)
       THEN <<k, n>> ELSE Err

EncodeText(v, k) == IF v[1] = "str" THEN <<k, v[2]>> ELSE Err

EncodeBytes(v) == IF v[1] = "str" /\ v[2] \in DOMAIN HexOf THEN <<"bytes", HexOf[v[2]]>> ELSE Err

EncodeBytesN(v, n) ==
    IF v[1] = "str" /\ v[2] \in DOMAIN HexOf /\ Len(HexOf[v[2]]) = n
    THEN <<"bytes", HexOf[v[2]]>> ELSE Err

EncodeAddress(v) ==
    IF v[1] = "str" /\ v[2] \in DOMAIN StrKeys THEN <<"address", StrKeys[v[2]]>> ELSE Err

(* An M... key is sent as the account it stands for.                       *)
EncodeMuxed(v) == IF v[1] = "str" /\ v[2] \in DOMAIN Muxed THEN <<"address", Muxed[v[2]]>>
                  ELSE EncodeAddress(v)

(* A unit enum takes the name of a case or its value.                      *)
EncodeEnum(v, cases) ==
    LET chosen == {c \in DOMAIN cases : \/ v[1] = "str" /\ cases[c].name = v[2]
                                        \/ v[1] = "num" /\ cases[c].value = v[2]}
    IN IF chosen = {} THEN Err
       ELSE <<"u32", cases[CHOOSE c \in chosen : \A d \in chosen : c <= d].value>>

is_tuple(fields) == fields # <<>> /\ \A i \in DOMAIN fields : fields[i].name \in {"0", "1"}

(* Entries in the order of their keys.                                     *)
Sorted(entries) == SetToSortSeq(entries, LAMBDA a, b : Rank(a.key) < Rank(b.key))

RECURSIVE json_to_scval(_, _)

EncodeEach(vs, tys) == [i \in DOMAIN vs |-> json_to_scval(vs[i], tys[i])]

EncodeTuple(v, tys) ==
    IF v[1] # "arr" THEN Err
    ELSE IF Len(v[2]) # Len(tys) THEN Err
    ELSE AllOrErr("vec", EncodeEach(v[2], tys))

(* Two texts may stand for one key, "01" and "1" for a number.             *)
NoTwins(keys) == TRUE
Distinct(keys) == \A k, l \in DOMAIN keys : k # l => keys[k] # keys[l]

EncodeMap(v, ty) ==
    IF v[1] # "obj" THEN Err
    ELSE LET obj  == v[2]
             keys == [k \in DOMAIN obj |-> json_to_scval(<<"str", k>>, ty.key)]
             vals == [k \in DOMAIN obj |-> json_to_scval(obj[k], ty.of)]
         IN IF Failed(keys) \/ Failed(vals) \/ ~Distinct(keys) THEN Err
            ELSE <<"map", Sorted({[key |-> keys[k], val |-> vals[k]] : k \in DOMAIN obj})>>

(* Named fields are a map of symbols, numbered ones a vector; a field that *)
(* is missing is an error and one that is not declared is ignored.         *)
EncodeStruct(v, fields) ==
    IF is_tuple(fields) THEN EncodeTuple(v, [i \in DOMAIN fields |-> fields[i].ty])
    ELSE IF v[1] # "obj" THEN Err
    ELSE IF \E i \in DOMAIN fields : fields[i].name \notin DOMAIN v[2] THEN Err
    ELSE LET vals == [i \in DOMAIN fields |-> json_to_scval(v[2][fields[i].name], fields[i].ty)]
         IN IF Failed(vals) THEN Err
            ELSE <<"map", Sorted({[key |-> <<"symbol", fields[i].name>>, val |-> vals[i]] : i \in DOMAIN fields})>>

(* A bare name for a case without values, {case: values} for the others,   *)
(* {case: value} for those with one.                                       *)
EncodeCase(name, tys, val) ==
    IF tys = <<>> THEN IF val = Null THEN <<"vec", <<<<"symbol", name>>>>>> ELSE Err
    ELSE LET vals == IF val[1] = "arr" THEN val[2] ELSE <<val>>
         IN IF Len(vals) # Len(tys) THEN Err
            ELSE AllOrErr("vec", <<<<"symbol", name>>>> \o EncodeEach(vals, tys))

EncodeUnion(v, cases) ==
    IF v[1] = "str"
    THEN IF v[2] \in DOMAIN cases /\ cases[v[2]] = <<>> THEN EncodeCase(v[2], <<>>, Null) ELSE Err
    ELSE IF v[1] # "obj" THEN Err
    ELSE IF Cardinality(DOMAIN v[2]) # 1 THEN Err
    ELSE LET name == CHOOSE k \in DOMAIN v[2] : TRUE
         IN IF name \in DOMAIN cases THEN EncodeCase(name, cases[name], v[2][name]) ELSE Err

EncodeUdt(v, name) ==
    IF name \notin DOMAIN Udts THEN Err
    ELSE LET udt == Udts[name] IN
         CASE udt.k = "struct" -> EncodeStruct(v, udt.fields)
           [] udt.k = "enum"   -> EncodeEnum(v, udt.values)
           [] udt.k = "union"  -> EncodeUnion(v, udt.cases)

json_to_scval(v, ty) ==
    CASE ty.k \in DOMAIN Bits -> EncodeInt(v, ty.k)
      [] ty.k = "bool"   -> IF v[1] = "bool" THEN v ELSE Err
      [] ty.k = "void"   -> IF v = Null THEN Void ELSE Err
      [] ty.k \in {"symbol", "string"} -> EncodeText(v, ty.k)
      [] ty.k = "address" -> EncodeAddress(v)
      [] ty.k = "muxed"  -> EncodeMuxed(v)
      [] ty.k = "bytes"  -> EncodeBytes(v)
      [] ty.k = "bytesn" -> EncodeBytesN(v, ty.n)
      [] ty.k = "option" -> IF v = Null THEN Void ELSE json_to_scval(v, ty.of)
      [] ty.k = "vec"    -> IF v[1] = "arr" THEN AllOrErr("vec", EncodeEach(v[2], [i \in DOMAIN v[2] |-> ty.of])) ELSE Err
      [] ty.k = "tuple"  -> EncodeTuple(v, ty.tys)
      [] ty.k = "map"    -> EncodeMap(v, ty)
      [] ty.k = "udt"    -> EncodeUdt(v, ty.name)
      [] ty.k \in {"val", "result", "error"} -> Err

(* encode_call_with_spec: by name or by position, nothing missing and      *)
(* nothing unknown; the encoded arguments or Err.                          *)
EncodeCall(inputs, a) ==
    LET names  == {inputs[i].name : i \in DOMAIN inputs}
        fits   == CASE a[1] = "obj" -> DOMAIN a[2] = names
                    [] a[1] = "arr" -> Len(a[2]) = Len(inputs)
                    [] OTHER        -> inputs = <<>>
        scvals == [i \in DOMAIN inputs |->
                     json_to_scval(IF a[1] = "obj" THEN a[2][inputs[i].name] ELSE a[2][i], inputs[i].ty)]
    IN IF ~fits THEN Err ELSE AllOrErr("args", scvals)

-----------------------------------------------------------------------------
\* xdr.rs: from ScVal to JSON, by shape.

KeyOf(table, x) == CHOOSE t \in DOMAIN table : table[t] = x

(* Bytes are shown with their prefix.                                      *)
Hex(bytes) == CHOOSE t \in DOMAIN HexOf : HexOf[t] = bytes /\ t \in {"0x", "0x01", "0x0101"}

DecodeText(text) == <<"str", IF text \in DOMAIN Garbled THEN Garbled[text] ELSE text>>

RECURSIVE decode_scval(_)

(* An object when every key decodes to a string, else a list of pairs.     *)
DecodeMap(entries) ==
    LET keys == [i \in DOMAIN entries |-> decode_scval(entries[i].key)]
        vals == [i \in DOMAIN entries |-> decode_scval(entries[i].val)]
    IN IF \A i \in DOMAIN keys : keys[i][1] = "str"
       THEN <<"obj", [k \in {keys[i][2] : i \in DOMAIN keys} |->
                        vals[CHOOSE i \in DOMAIN keys : /\ keys[i][2] = k
                                                        /\ \A j \in DOMAIN keys : keys[j][2] = k => j <= i]]>>
       ELSE <<"arr", [i \in DOMAIN keys |-> <<"obj", [key |-> keys[i], val |-> vals[i]]>>]>>

decode_scval(sc) ==
    CASE sc[1] = "bool"  -> sc
      [] sc[1] = "void"  -> Null
      [] sc[1] \in {"u32", "i32"} -> <<"num", sc[2]>>
      [] sc[1] \in DOMAIN Bits \ {"u32", "i32"} -> <<"str", ToString(sc[2])>>
      [] sc[1] = "bytes" -> <<"str", Hex(sc[2])>>
      [] sc[1] \in {"symbol", "string"} -> DecodeText(sc[2])
      [] sc[1] = "address" -> <<"str", KeyOf(StrKeys, sc[2])>>
      [] sc[1] = "vec"   -> <<"arr", [i \in DOMAIN sc[2] |-> decode_scval(sc[2][i])]>>
      [] sc[1] = "map"   -> DecodeMap(sc[2])

-----------------------------------------------------------------------------
\* spec.rs: names for what the type declares.

RECURSIVE relabel(_, _)

RelabelEach(vs, tys) == [i \in DOMAIN vs |-> relabel(vs[i], tys[i])]

(* A number becomes the name of the enum's case.                           *)
RelabelEnum(v, cases) ==
    LET named == {c \in DOMAIN cases : v[1] = "num" /\ cases[c].value = v[2]}
    IN IF named = {} THEN v ELSE <<"str", cases[CHOOSE c \in named : \A d \in named : d <= c].name>>

(* [case, values...] becomes the case's name, or {case: values}.           *)
KeyedByCase(v, cases) ==
    IF v[1] # "arr" \/ v[2] = <<>> THEN v
    ELSE IF Head(v[2])[1] # "str" THEN v
    ELSE <<"obj", [k \in {Head(v[2])[2]} |-> <<"arr", Tail(v[2])>>]>>
RelabelUnion(v, cases) ==
    IF v[1] # "arr" THEN v
    ELSE IF v[2] = <<>> THEN v
    ELSE IF Head(v[2])[1] # "str" THEN v
    ELSE LET name == Head(v[2])[2]  values == Tail(v[2]) IN
         IF name \notin DOMAIN cases THEN v
         ELSE IF cases[name] = <<>> THEN <<"str", name>>
         ELSE IF Len(values) # Len(cases[name]) THEN v
         ELSE <<"obj", [k \in {name} |-> <<"arr", RelabelEach(values, cases[name])>>]>>

RelabelStruct(v, fields) ==
    CASE v[1] = "obj" ->
           <<"obj", [k \in DOMAIN v[2] |->
              IF \E i \in DOMAIN fields : fields[i].name = k
              THEN relabel(v[2][k], fields[CHOOSE i \in DOMAIN fields : fields[i].name = k].ty) ELSE v[2][k]]>>
      [] v[1] = "arr" -> IF Len(v[2]) = Len(fields)
                         THEN <<"arr", RelabelEach(v[2], [i \in DOMAIN fields |-> fields[i].ty])>> ELSE v
      [] OTHER -> v

RelabelMap(v, ty) ==
    CASE v[1] = "obj" -> <<"obj", [k \in DOMAIN v[2] |-> relabel(v[2][k], ty.of)]>>
      [] v[1] = "arr" -> <<"arr", [i \in DOMAIN v[2] |->
           <<"obj", [key |-> relabel(v[2][i][2].key, ty.key), val |-> relabel(v[2][i][2].val, ty.of)]>>]>>
      [] OTHER -> v

RelabelResult(v, ty) ==
    IF v[1] # "obj" THEN v
    ELSE IF "Ok" \in DOMAIN v[2] THEN <<"obj", [Ok |-> relabel(v[2].Ok, ty.of)]>>
    ELSE IF "Err" \in DOMAIN v[2] THEN <<"obj", [Err |-> relabel(v[2].Err, ty.err)]>>
    ELSE v

RelabelUdt(v, name) ==
    IF name \notin DOMAIN Udts THEN v
    ELSE CASE Udts[name].k = "struct" -> RelabelStruct(v, Udts[name].fields)
           [] Udts[name].k = "enum"   -> RelabelEnum(v, Udts[name].values)
           [] Udts[name].k = "union"  -> RelabelUnion(v, Udts[name].cases)

relabel(v, ty) ==
    CASE ty.k = "option" -> IF v = Null THEN v ELSE relabel(v, ty.of)
      [] ty.k = "vec" /\ v[1] = "arr" -> <<"arr", RelabelEach(v[2], [i \in DOMAIN v[2] |-> ty.of])>>
      [] ty.k = "tuple" /\ v[1] = "arr" -> IF Len(v[2]) = Len(ty.tys) THEN <<"arr", RelabelEach(v[2], ty.tys)>> ELSE v
      [] ty.k = "map" -> RelabelMap(v, ty)
      [] ty.k = "result" -> RelabelResult(v, ty)
      [] ty.k = "udt" -> RelabelUdt(v, ty.name)
      [] OTHER -> v

decode_result(sc, ty) == relabel(decode_scval(sc), ty)

-----------------------------------------------------------------------------
\* What the chain holds.  External: the host only stores values like these.

RECURSIVE IsA(_, _)

Keyed(entries) == \A i, j \in DOMAIN entries : i < j => Rank(entries[i].key) < Rank(entries[j].key)

Each(sc, tys) == /\ sc[1] = "vec" /\ Len(sc[2]) = Len(tys)
                 /\ \A i \in DOMAIN tys : IsA(sc[2][i], tys[i])

IsUdt(sc, udt) ==
    CASE udt.k = "enum" -> \E c \in DOMAIN udt.values : sc = <<"u32", udt.values[c].value>>
      [] udt.k = "union" ->
           /\ sc[1] = "vec" /\ sc[2] # <<>>
           /\ \E name \in DOMAIN udt.cases : /\ sc[2][1] = <<"symbol", name>>
                                             /\ Each(<<"vec", Tail(sc[2])>>, udt.cases[name])
      [] udt.k = "struct" /\ is_tuple(udt.fields) -> Each(sc, [i \in DOMAIN udt.fields |-> udt.fields[i].ty])
      [] OTHER ->
           /\ sc[1] = "map" /\ Len(sc[2]) = Len(udt.fields) /\ Keyed(sc[2])
           /\ \A i \in DOMAIN udt.fields : \E e \in Range(sc[2]) :
                e.key = <<"symbol", udt.fields[i].name>> /\ IsA(e.val, udt.fields[i].ty)

(* sc is a value of type ty.                                               *)
IsA(sc, ty) ==
    CASE ty.k \in DOMAIN Bits -> sc[1] = ty.k /\ Fits(sc[2], ty.k)
      [] ty.k \in {"bool", "void", "symbol", "string", "address", "bytes"} -> sc[1] = ty.k
      [] ty.k = "muxed"  -> sc[1] = "address"
      [] ty.k = "bytesn" -> sc[1] = "bytes" /\ Len(sc[2]) = ty.n
      [] ty.k = "option" -> sc = Void \/ IsA(sc, ty.of)
      [] ty.k = "vec"    -> sc[1] = "vec" /\ \A i \in DOMAIN sc[2] : IsA(sc[2][i], ty.of)
      [] ty.k = "tuple"  -> Each(sc, ty.tys)
      [] ty.k = "map"    -> /\ sc[1] = "map" /\ Keyed(sc[2])
                            /\ \A i \in DOMAIN sc[2] : IsA(sc[2][i].key, ty.key) /\ IsA(sc[2][i].val, ty.of)
      [] ty.k = "udt"    -> ty.name \in DOMAIN Udts /\ IsUdt(sc, Udts[ty.name])
      [] OTHER -> FALSE

-----------------------------------------------------------------------------
\* A client's calls of a function that returns its first argument.

Init ==
    /\ function \in Signatures
    /\ args \in Arguments
    /\ pc = "call" /\ sent = Err /\ shown = Null /\ again = Err

(* The read layer encodes the call, or answers 400.                        *)
Encode ==
    /\ pc = "call"
    /\ sent' = EncodeCall(function, args)
    /\ pc' = IF sent' = Err THEN "rejected" ELSE "simulate"
    /\ UNCHANGED <<function, args, shown, again>>

(* Simulation returns a value of the first parameter's type; a contract    *)
(* that hands out text of its own may return some that is not UTF-8.       *)
Returned(sc) == {sc} \cup (IF sc[1] = "string" THEN {<<"string", g>> : g \in DOMAIN Garbled} ELSE {})

Simulate ==
    /\ pc = "simulate" /\ function # <<>>
    /\ \E sc \in Returned(sent[2][1]) :
         /\ sent' = [sent EXCEPT ![2][1] = sc]
         /\ shown' = decode_result(sc, function[1].ty)
    /\ pc' = "shown"
    /\ UNCHANGED <<function, args, again>>

(* The client passes what it was shown to the same function.               *)
FeedBack ==
    /\ pc = "shown"
    /\ again' = EncodeCall(function, IF args[1] = "obj"
                                     THEN <<"obj", [args[2] EXCEPT ![function[1].name] = shown]>>
                                     ELSE <<"arr", [args[2] EXCEPT ![1] = shown]>>)
    /\ pc' = "done"
    /\ UNCHANGED <<function, args, sent, shown>>

Next == Encode \/ Simulate \/ FeedBack

Spec == Init /\ [][Next]_vars

-----------------------------------------------------------------------------
(* json_to_scval: whatever JSON a client passes, what goes into the        *)
(* transaction is a value of each parameter's declared type: in range, of  *)
(* the declared length, a declared case, its maps sorted by the chain's    *)
(* order and without a key twice (read.rs:366).                            *)
SentIsTyped ==
    sent # Err => /\ Len(sent[2]) = Len(function)
                  /\ \A i \in DOMAIN function : IsA(sent[2][i], function[i].ty)

RECURSIVE PlainKeys(_)

(* Every map in ty has keys that decode to JSON strings.                   *)
PlainKeys(ty) ==
    CASE ty.k \in {"option", "vec"} -> PlainKeys(ty.of)
      [] ty.k = "tuple" -> \A i \in DOMAIN ty.tys : PlainKeys(ty.tys[i])
      [] ty.k = "map" -> /\ PlainKeys(ty.of)
                         /\ ty.key.k \in (DOMAIN Bits \ {"u32", "i32"}) \cup {"symbol", "string", "address", "bytes"}
      [] OTHER -> TRUE

(* decode_result: "results can be fed straight back into another call"     *)
(* (read.rs:764): the value shown is accepted and becomes the value that   *)
(* was returned.  Not for maps whose keys are not strings in JSON, which   *)
(* are shown as pairs the encoder does not take, nor for text that is not  *)
(* UTF-8.                                                                  *)
ResultsFeedBack ==
    pc = "done" /\ PlainKeys(function[1].ty) /\ sent[2][1] \notin {<<"string", g>> : g \in DOMAIN Garbled}
        => again = sent
=============================================================================
