----------------------------- MODULE MCCompiler -----------------------------
(* The statements, types and numbers of the instance.                      *)
EXTENDS Compiler

\* Types to match on.
MBool == [k |-> "Bool"]
MInt == [k |-> "Int"]
MUnit == [k |-> "Unit"]
Fld(n, t) == [name |-> n, ty |-> t]
Opt == [k |-> "Enum", name |-> "Opt", variants |-> <<<<>>, <<Fld("0", MBool)>>>>]
Pair(a, b) == [k |-> "Tuple", fields |-> <<Fld("0", a), Fld("1", b)>>]
Rec == [k |-> "Record", name |-> "Rec", fields |-> <<Fld("f", MBool), Fld("g", MBool)>>]
MatchTypes == {MBool, MInt, MUnit, Opt, Pair(Opt, MBool), Pair(MInt, MBool), Rec}

\* Expressions and statements.
X == Name(<<"x">>)
B == Name(<<"b">>)
I(n) == [k |-> "Int", v |-> n]
Bin(op, l, r) == [k |-> "Binary", op |-> op, l |-> l, r |-> r]
Small == Bin("<", X, I(2))
Inc == Bin("+", X, I(1))
Not(e) == [k |-> "Not", e |-> e]
Expr(e) == [k |-> "Expr", e |-> e]
Set(n, e) == [k |-> "Assign", name |-> n, e |-> e]
Yield(abis) == [k |-> "Yield", abis |-> abis]
Branch1(c, b) == [cond |-> <<c>>, name |-> "", abi |-> "", block |-> b]
If(c, b, els) == [k |-> "If", branches |-> <<Branch1(c, b)>>, els |-> els]
While(c, b) == [k |-> "While", e |-> c, body |-> b]
Return(e) == [k |-> "Return", value |-> <<e>>]
Stmts(s) == Block(s, <<>>)
Val(e) == Block(<<>>, <<e>>)

Bodies1 == {
    Set("x", Inc),
    Set("b", Not(B)),
    Set("x", B),
    Set("x", [k |-> "Neg", e |-> Inc]),
    Set("x", Bin("%", Bin("/", I(7), X), I(2))),
    Let("y", X, FALSE),
    Set("y", I(1)),
    Set("b", Bin("&&", B, Small)),
    Set("x", If(B, Val(Bin("*", X, I(3))), <<Val(I(2))>>)),
    Expr(If(Small, Stmts(<<Set("x", I(5))>>), <<>>)),
    Expr(If(B, Stmts(<<Expr(Yield(<<"A">>))>>), <<Stmts(<<Expr(Yield(<<"A", "B">>))>>)>>)),
    Expr(Yield(<<"B">>)),
    While(Small, Stmts(<<Expr(Yield(<<"A">>)), Set("x", Inc)>>)),
    While(B, Stmts(<<Expr(If(Small, Stmts(<<Set("x", Inc)>>), <<Stmts(<<Set("b", Not(B))>>)>>))>>)),
    Expr(If(Not(B), Stmts(<<Return(X)>>), <<>>)),
    Let("p", Bin("+", I(1), X), TRUE),
    Let("p", [k |-> "Disclose", e |-> X], TRUE),
    Let("p", I(4), TRUE),
    Set("p", Name(<<"y">>)),
    Return(Inc),
    Expr(If(B, Stmts(<<Return(X)>>), <<Stmts(<<Return(I(1))>>)>>)),
    [k |-> "Return", value |-> <<>>],
    [k |-> "Let", public |-> FALSE, mutable |-> FALSE, pat |-> [k |-> "Lit", of |-> "Int", v |-> 0], ann |-> <<>>, e |-> X,
     els |-> <<Stmts(<<Return(I(7))>>)>>],
    Expr(If(B, Stmts(<<Expr(If(Small, Stmts(<<Set("x", Inc)>>), <<Stmts(<<Set("b", Not(B))>>)>>))>>), <<Stmts(<<Set("x", I(3))>>)>>)),
    While(Small, Stmts(<<While(Bin("<", X, I(1)), Stmts(<<Set("x", Inc)>>)), Set("x", Inc)>>)),
    While(Small, Stmts(<<Let("z", Inc, FALSE), Expr(If(B, Stmts(<<Expr(Yield(<<"A", "B">>))>>), <<>>)), Set("x", Name(<<"z">>))>>))
    }

\* Programs of the type checker's tests (typecheck/tests.rs), with the verdict
\* that the test records.
Num == Ann("i64")
N(n) == Name(<<n>>)
Fn2(n, anns, names, result, stmts, tail) == Fn(n, anns, names, result, "", Block(stmts, tail))
CallE(kind, callee, args) == [k |-> "Call", kind |-> kind, callee |-> callee, args |-> args]
FieldE(e, f) == [k |-> "Field", e |-> e, field |-> f]
StructE(n, names, items) == [k |-> "Struct", path |-> <<n>>, names |-> names, items |-> items]
StructD(n, fields, types) == [k |-> "Struct", name |-> n, fields |-> fields, types |-> types]
EnumD(n, variants, types) == [k |-> "Enum", name |-> n, variants |-> variants, types |-> types]
Go == Variant("Go", "tuple", <<"0">>)
Halted == Variant("Stop", "unit", <<>>)
Arm(p, e) == [pat |-> p, block |-> Block(<<>>, <<e>>)]
MatchE(e, arms1) == [k |-> "Match", e |-> e, arms |-> arms1]
ByBool(a, b) == MatchE(N("c"), <<Arm([k |-> "Lit", of |-> "Bool", v |-> TRUE], a), Arm([k |-> "Lit", of |-> "Bool", v |-> FALSE], b)>>)
Pick(defs, t1, t2, e) == Append(defs, Fn2("pick", <<Ann("bool"), Ann(t1), Ann(t2)>>, <<"c", "a", "b">>, Ann(t1), <<>>, <<e>>))
Is(abi, stmts) == [k |-> "If", branches |-> <<[cond |-> <<>>, name |-> "x", abi |-> abi, block |-> Stmts(stmts)]>>, els |-> <<>>]
Invoke(method, args) == Expr(CallE("Normal", FieldE(N("x"), method), args))
WithAbi(t, e) ==
    <<[k |-> "Abi", name |-> "MyAbi", events |-> <<[name |-> "Moved", params |-> <<Num, Num>>, result |-> UnitAnn]>>,
       effects |-> <<[name |-> "Ask", params |-> <<Num>>, result |-> Num]>>,
       methods |-> <<[name |-> "transfer", params |-> <<Num>>, result |-> Ann("bool")], [name |-> "balance", params |-> <<>>, result |-> Num]>>]>>
    \o <<Fn2("test", <<Ann(t)>>, <<"x">>, UnitAnn, <<e>>, <<>>)>>
Attach(t) == [k |-> "Impl", abi |-> "Token",
              fns |-> <<Fn2("attach", <<Ann(t)>>, <<"to">>, UnitAnn, <<>>, <<>>), Fn2("detach", <<Ann("Utxo")>>, <<"source">>, UnitAnn, <<>>, <<>>)>>]
Supply == [k |-> "Storage", vars |-> <<[name |-> "supply", ty |-> Num]>>]
Mint(e) == [k |-> "Function", f |-> [Fn("mint", <<Num>>, <<"n">>, UnitAnn, "mint", Stmts(<<Set("supply", e)>>)) EXCEPT !.declared = FALSE]]
TokenD(parts) == <<[k |-> "Token", name |-> "MyToken", parts |-> parts]>>
XY == <<"x", "y">>
Point2 == StructD("Point", XY, <<Num, Ann("bool")>>)
Message == EnumD("Message", <<Go, Halted>>, <<Num>>)
Respond(arms1) == <<Message, Fn2("respond", <<Ann("Message")>>, <<"msg">>, Num, <<>>, <<MatchE(N("msg"), arms1)>>)>>
GoN == [k |-> "Tuple", path |-> <<"Message", "Go">>, pats |-> <<N("n")>>]
HaltedP == Name(<<"Message", "Stop">>)
OptionOf(ann, e) == <<Fn2("test", <<>>, <<>>, UnitAnn,
    <<[k |-> "Let", public |-> FALSE, mutable |-> FALSE, pat |-> N("opt"), ann |-> <<ann>>, e |-> e, els |-> <<>>]>>, <<>>)>>
Some1 == CallE("Normal", Name(<<"Option", "Some">>), <<I(1)>>)
Handled(pats) == [k |-> "TryWith", subject |-> Stmts(<<Expr(CallE("Raise", N("Ask"), <<I(1)>>))>>),
                  effects |-> <<[path |-> <<"Ask">>, pats |-> pats, block |-> Stmts(<<[k |-> "Resume"]>>)]>>]
Height(kind) == <<[k |-> "Import"], Fn2("main", <<>>, <<>>, UnitAnn, <<Expr(CallE(kind, N("blockHeight"), <<>>))>>, <<>>)>>
Add(args) == <<Fn2("add", <<Num, Num>>, <<"a", "b">>, Num, <<>>, <<Bin("+", N("a"), N("b"))>>),
               Fn2("test", <<>>, <<>>, Num, <<>>, <<CallE("Normal", N("add"), args)>>)>>

Accepted1 == {
    <<Point2, Fn2("total", <<Ann("Point")>>, <<"point">>, Num, <<>>, <<FieldE(N("point"), "x")>>)>>,
    <<Point2, Fn2("make", <<>>, <<>>, Ann("Point"), <<>>, <<StructE("Point", <<"y", "x">>, <<[k |-> "Bool", v |-> TRUE], I(1)>>)>>)>>,
    Pick(<<Point2, StructD("Copy", XY, <<Num, Ann("bool")>>)>>, "Point", "Copy", ByBool(N("a"), N("b"))),
    Pick(<<Message, EnumD("Second", <<Go, Halted>>, <<Num>>)>>, "Message", "Second", ByBool(N("a"), N("b"))),
    Respond(<<Arm(GoN, N("n")), Arm(HaltedP, I(0))>>),
    Respond(<<Arm(GoN, N("n")), Arm([k |-> "Wild"], I(0))>>),
    Add(<<I(1), I(2)>>),
    WithAbi("Utxo", Expr(Is("MyAbi", <<Invoke("transfer", <<I(100)>>)>>))),
    WithAbi("Utxo", Expr(CallE("Emit", N("Moved"), <<I(1), I(2)>>))),
    WithAbi("Utxo", Handled(<<N("q")>>)),
    TokenD(<<Supply, Mint([k |-> "Disclose", e |-> N("n")]), Attach("Utxo")>>),
    OptionOf([k |-> "Named", name |-> "Option", generics |-> <<Num>>], Some1),
    Height("Runtime"),
    <<Fn2("swap", <<[k |-> "Tuple", items |-> <<Num, Ann("bool")>>]>>, <<"pair">>, [k |-> "Tuple", items |-> <<Ann("bool"), Num>>],
        <<[k |-> "Let", public |-> FALSE, mutable |-> FALSE, pat |-> [k |-> "Anon", pats |-> <<N("a"), N("b")>>], ann |-> <<>>, e |-> N("pair"), els |-> <<>>]>>,
        <<[k |-> "Tuple", items |-> <<N("b"), N("a")>>]>>)>>}
Refused1 == {
    <<Point2, Fn2("total", <<Ann("Point")>>, <<"point">>, Num, <<>>, <<FieldE(N("point"), "z")>>)>>,
    <<Point2, Fn2("make", <<>>, <<>>, Ann("Point"), <<>>, <<StructE("Point", <<"x">>, <<I(1)>>)>>)>>,
    <<Point2, Fn2("make", <<>>, <<>>, Ann("Point"), <<>>, <<StructE("Point", XY, <<I(1), I(1)>>)>>)>>,
    <<Point2, Point2>>,
    <<StructD("Twice", <<"x", "x">>, <<Num, Num>>)>>,
    Pick(<<Point2, StructD("Other", <<"y", "x">>, <<Ann("bool"), Num>>)>>, "Point", "Other", ByBool(N("a"), N("b"))),
    Pick(<<Message, EnumD("Second", <<Halted, Go>>, <<Num>>)>>, "Message", "Second", ByBool(N("a"), N("b"))),
    Respond(<<Arm(GoN, N("n"))>>),
    Respond(<<Arm(Name(<<"Message", "Wait">>), I(0)), Arm([k |-> "Wild"], I(0))>>),
    Add(<<I(1)>>),
    Add(<<I(1), [k |-> "Bool", v |-> TRUE]>>),
    WithAbi("Utxo", Expr(Is("MyAbi", <<Invoke("transfer", <<I(100)>>), Invoke("balance", <<>>)>>))),
    WithAbi("Utxo", Expr(Is("MyAbi", <<Invoke("nonexistent", <<>>)>>))),
    WithAbi("Utxo", Expr(Is("NonExistentAbi", <<>>))),
    WithAbi("i64", Expr(Is("MyAbi", <<Invoke("balance", <<>>)>>))),
    WithAbi("Utxo", Expr(CallE("Emit", N("Moved"), <<I(1)>>))),
    WithAbi("Utxo", Expr(CallE("Normal", N("Moved"), <<I(1), I(2)>>))),
    TokenD(<<Supply, Mint(N("n")), Attach("Utxo")>>),
    TokenD(<<Attach("Utxo")>>),
    TokenD(<<Supply, Mint(I(1))>>),
    TokenD(<<Supply, Mint(I(1)), Attach("Utxo"), Attach("Utxo")>>),
    TokenD(<<Supply, Mint(I(1)), Attach("i64")>>),
    OptionOf(Ann("Option"), Some1),
    OptionOf([k |-> "Named", name |-> "Option", generics |-> <<Ann("bool")>>], Some1),
    Height("Normal")}
TestPrograms == {[defs |-> d, refused |-> FALSE] : d \in Accepted1} \cup {[defs |-> d, refused |-> TRUE] : d \in Refused1}

\* Type 3 of the equations may contain itself.
EqTypes == {IntTy("i8"), Bool, Var(1), Var(2), Var(3), Tuple(<<Var(1), Var(2)>>), Tuple(<<Var(2), Bool>>), Tuple(<<Var(3), Var(3)>>)}

Wide == Ty("Enum", <<Variant("N", "unit", <<>>), Variant("S", "tuple", <<"0", "1">>), Variant("L", "struct", <<"a", "b">>)>>,
           <<IntTy("i8"), IntTy("i64"), IntTy("i64"), Bool>>)
Point == Ty("Record", <<Variant("", "struct", <<"a", "u", "b">>)>>, <<IntTy("u8"), Unit, IntTy("i64")>>)
Layouts ==
    LET leaves == {IntTy("i8"), IntTy("i64"), Bool, Unit, Named("Utxo", "U")}
        pairs == {Tuple(<<a, b>>) : a, b \in leaves \cup {Point}}
    IN  leaves \cup pairs \cup {Point, Wide, Option(IntTy("i64"))}
        \cup {Ty("Record", <<Variant("", "struct", <<"p", "q">>)>>, <<p, q>>) : p \in pairs \cup {Wide}, q \in leaves \ {Unit}}
        \cup {Ty("Enum", <<Variant("A", "tuple", <<"0">>), Variant("B", "tuple", <<"0", "1">>)>>, <<a, b, c>>) :
                a \in leaves \cup {Wide}, b, c \in leaves \cup {Wide, Point}}

Operands1 == {-32768, -32767, -129, -128, -1, 0, 1, 127, 128, 181, 182, 255, 32766, 32767}
=============================================================================
