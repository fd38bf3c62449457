------------------------------ MODULE Codegen -------------------------------
(***************************************************************************)
(* The TypeScript client generated from an interface (core/codegen.rs).    *)
(* What is modelled is the type it gives each parameter and result; the    *)
(* text around them is not.  The compiler's side, which JSON a type        *)
(* admits, is Admits.                                                      *)
(***************************************************************************)
EXTENDS TypedValues

Prim(name) == [t |-> "prim", is |-> {name}]
Integer == [t |-> "prim", is |-> {"num", "str"}]     \* ALIASES: number | string
Never == [t |-> "never"]
Unknown == [t |-> "unknown"]

has_udt(name) == name \in DOMAIN Udts

NumberOnly(ty) == Prim("num")
IntegerType(ty) == IF ty.k \in {"u32", "i32"} THEN Prim("num") ELSE Integer

RECURSIVE ts(_, _)

ts(ty, pos) ==
    CASE ty.k = "bool" -> Prim("bool")
      [] ty.k = "void" -> Prim("null")
      [] ty.k \in DOMAIN Bits -> IntegerType(ty)
      [] ty.k \in {"string", "symbol", "address", "bytes", "bytesn"} -> Prim("str")
      [] ty.k = "option" -> [t |-> "or", tys |-> <<ts(ty.of, pos), Prim("null")>>]
      [] ty.k = "vec"    -> [t |-> "list", of |-> ts(ty.of, pos)]
      [] ty.k = "tuple"  -> [t |-> "tuple", tys |-> [i \in DOMAIN ty.tys |-> ts(ty.tys[i], pos)]]
      [] ty.k = "map"    -> [t |-> "record", of |-> ts(ty.of, pos)]
      [] ty.k = "result" -> IF pos = "Ret" THEN ts(ty.of, pos) ELSE Never
      [] ty.k \in {"val", "error"} -> IF pos = "Ret" THEN Unknown ELSE Never
      [] ty.k = "muxed"  -> IF pos = "Ret" THEN Prim("str") ELSE Never
      [] ty.k = "udt"    -> IF has_udt(ty.name) THEN [t |-> "named", name |-> ty.name] ELSE Unknown

StructType(fields) ==
    IF is_tuple(fields) THEN [t |-> "tuple", tys |-> [i \in DOMAIN fields |-> ts(fields[i].ty, "Ret")]]
    ELSE [t |-> "interface", keys |-> [i \in DOMAIN fields |-> fields[i].name],
          tys |-> [i \in DOMAIN fields |-> ts(fields[i].ty, "Ret")]]

(* The names of the cases, or a number.                                    *)
EnumType(cases) ==
    [t |-> "or", tys |-> <<[t |-> "literal", is |-> {cases[c].name : c \in DOMAIN cases}], Prim("num")>>]

UnionType(cases) ==
    [t |-> "cases", of |-> [name \in DOMAIN cases |->
        [i \in DOMAIN cases[name] |-> ts(cases[name][i], "Ret")]]]

(* The one declaration of each user-defined type, for both directions.     *)
render_udts == [name \in DOMAIN Udts |->
    CASE Udts[name].k = "struct" -> StructType(Udts[name].fields)
      [] Udts[name].k = "enum"   -> EnumType(Udts[name].values)
      [] Udts[name].k = "union"  -> UnionType(Udts[name].cases)]

(* A method's parameters and its result.                                   *)
render_method(f) ==
    [args |-> [i \in DOMAIN f |-> ts(f[i].ty, "Arg")],
     ret  |-> IF f = <<>> THEN Prim("null") ELSE ts(f[1].ty, "Ret")]

RECURSIVE Admits(_, _)

AdmitsEach(vs, tys) == Len(vs) = Len(tys) /\ \A i \in DOMAIN tys : Admits(vs[i], tys[i])

(* The JSON value v has the TypeScript type t.                             *)
Admits(v, t) ==
    CASE t.t = "prim"    -> v[1] \in t.is
      [] t.t = "unknown" -> TRUE
      [] t.t = "never"   -> FALSE
      [] t.t = "literal" -> v[1] = "str" /\ v[2] \in t.is
      [] t.t = "or"      -> \E i \in DOMAIN t.tys : Admits(v, t.tys[i])
      [] t.t = "list"    -> v[1] = "arr" /\ \A i \in DOMAIN v[2] : Admits(v[2][i], t.of)
      [] t.t = "tuple"   -> v[1] = "arr" /\ AdmitsEach(v[2], t.tys)
      [] t.t = "record"  -> v[1] = "obj" /\ \A k \in DOMAIN v[2] : Admits(v[2][k], t.of)
      [] t.t = "interface" -> v[1] = "obj" /\ \A i \in DOMAIN t.keys :
                                t.keys[i] \in DOMAIN v[2] /\ Admits(v[2][t.keys[i]], t.tys[i])
      [] t.t = "cases"   -> \E name \in DOMAIN t.of :
                                IF t.of[name] = <<>> THEN v = <<"str", name>>
                                ELSE /\ v[1] = "obj" /\ DOMAIN v[2] = {name}
                                     /\ v[2][name][1] = "arr" /\ AdmitsEach(v[2][name][2], t.of[name])
      [] t.t = "named"   -> Admits(v, render_udts[t.name])

(* codegen.rs:12: "one generated type per user-defined type is honest in   *)
(* both directions": what a call returns has the type its method promises, *)
(* and has the type of the parameter it is passed to next.  Maps with keys *)
(* that are not strings in JSON are typed Record and shown as pairs, and   *)
(* MuxedAddress is never as a parameter though the encoder takes it.       *)
GeneratedTypesHonest ==
    LET method == render_method(function) IN
    pc \in {"shown", "done"} /\ PlainKeys(function[1].ty) =>
        /\ Admits(shown, method.ret)
        /\ function[1].ty.k # "muxed" => Admits(shown, method.args[1])
=============================================================================
