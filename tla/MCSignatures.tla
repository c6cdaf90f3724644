--------------------------- MODULE MCSignatures ----------------------------
(* Small crates for Signatures. *)
EXTENDS Signatures

MCDefPath    == [C |-> 1, D |-> 2, B |-> 3, It |-> 4, Tr |-> 5, P |-> 6, Q |-> 7, L |-> 8, R |-> 10, Sized |-> 9]
MCParamIndex == [Self |-> 0, X |-> 1, T |-> 1, U |-> 2, W |-> 3, V |-> 4]
MCHasAssoc   == {"It"}
MCAttrs      == [t \in DOMAIN MCDefPath |-> CASE t = "It" -> {"hint", "len"} [] t = "B" -> {"hint"} [] OTHER -> {}]
MCBuiltin    == {"Sized"}

Of(tr, args)   == [tr |-> tr, args |-> args, lft |-> ""]
Is(p, tr)      == Of(tr, <<<<p>>>>)
trait(ps, bs)  == [kind |-> "trait", parent |-> "", params |-> ps, bounds |-> bs, eqs |-> {}]
function(ps, bs, eqs) == [kind |-> "fn", parent |-> "", params |-> ps, bounds |-> bs, eqs |-> eqs]
Eq(p, ty)      == [tr |-> "It", args |-> <<<<p>>>>, ty |-> ty]

Basic == [Sized |-> trait(<<"Self">>, << >>), C |-> trait(<<"Self">>, << >>), It |-> trait(<<"Self">>, << >>)]
NoFn  == [did |-> "", attrs |-> << >>, arity |-> 0, arg_names |-> << >>, ret |-> "unit", closure |-> "", captures |-> << >>]
Crate(items, order, uses) ==
  [items |-> items, order |-> order, registered |-> {t \in DOMAIN items : items[t].kind = "trait"},
   uses |-> uses, fn |-> NoFn]
Call(a, b, args) == [caller |-> a, callee |-> b, args |-> args]

(* T: It<Item = U::Item>, U: It + C, and a callee that declares the same   *)
(* requirements the other way round.                                       *)
Equal ==
  Crate(Basic @@ [f |-> function(<<"T", "U">>, <<Is("T", "Sized"), Is("U", "It"), Is("T", "It"), Is("U", "C")>>,
                                 {Eq("T", <<"proj", "It", "U">>)}),
                  g |-> function(<<"T">>, <<Is("T", "It"), Is("T", "C")>>, {})],
        <<"C", "It", "g", "f">>,
        <<Call("f", "g", <<<<"U">>>>), Call("f", "g", <<<<"proj", "It", "U">>>>), Call("f", "g", <<<<"Vec", "T">>>>)>>)

Free ==  \* the same without the equality, and calls from one callee to the other
  Crate(Basic @@ [f |-> function(<<"T", "U">>, <<Is("U", "It"), Is("T", "It"), Is("U", "C")>>, {}),
                  g |-> function(<<"T">>, <<Is("T", "It"), Is("T", "C")>>, {}),
                  h |-> function(<<"T">>, << >>, {})],
        <<"It", "C", "g", "f", "h">>,
        <<Call("f", "h", <<<<"proj", "It", "U">>>>), Call("f", "g", <<<<"U">>>>), Call("f", "f", <<<<"U">>, <<"U">>>>), Call("g", "f", <<<<"Vec", "T">>, <<"T">>>>)>>)

(* T: It<Item = V::Item>, U: It<Item = T::Item>, V: It.                    *)
Chain ==
  Crate(Basic @@ [f |-> function(<<"T", "U", "V">>, <<Is("T", "It"), Is("U", "It"), Is("V", "It")>>,
                                 {Eq("T", <<"proj", "It", "V">>), Eq("U", <<"proj", "It", "T">>)})],
        <<"C", "It", "f">>, << >>)

Boxed ==  \* T: It<Item = Vec<V>>, and two requirements of which either may come first
  Crate(Basic @@ [f |-> function(<<"T", "V">>, <<Is("T", "It"), Is("T", "C"), Of("C", <<<<"Vec", "T">>>>)>>,
                                 {Eq("T", <<"Vec", "V">>)}),
                  g |-> function(<<"T">>, <<Is("T", "It")>>, {})],
        <<"C", "It", "g", "f">>, <<Call("f", "g", <<<<"T">>>>)>>)

(* trait Tr<U: B<Int>, W: It> with methods that are bounded by a trait     *)
(* that B depends on, and by one it does not depend on; an implementation. *)
Traits ==
  Basic @@ [B  |-> trait(<<"Self", "X">>, <<Is("X", "C")>>),
            D  |-> trait(<<"Self">>, << >>),
            Tr |-> trait(<<"Self", "U", "W">>, <<Of("B", <<<<"U">>, <<"Int">>>>), Is("W", "It")>>)]
Method(tr, bs)      == [kind |-> "method", parent |-> tr, params |-> <<"V">>, bounds |-> bs, eqs |-> {}]
TrOf(a, b, c)       == Of("Tr", <<a, b, c>>)
Generic ==
  Crate(Traits @@ [m |-> Method("Tr", <<Is("V", "It"), Is("V", "D")>>),
                   f |-> function(<<"T", "U", "W">>,
                           <<TrOf(<<"T">>, <<"U">>, <<"W">>), Of("B", <<<<"U">>, <<"Int">>>>), Is("W", "It"), Is("W", "D")>>, {}),
                   i |-> [kind |-> "impl", parent |-> "", params |-> <<"T">>, bounds |-> <<Is("T", "It")>>, eqs |-> {}],
                   im |-> [kind |-> "impl_method", parent |-> "i", params |-> <<"V">>, bounds |-> <<Is("V", "It"), Is("V", "D")>>, eqs |-> {}]],
        <<"C", "D", "It", "B", "Tr", "m", "im", "f">>,
        <<Call("f", "m", <<<<"T">>, <<"U">>, <<"W">>, <<"W">>>>), Call("f", "im", <<<<"W">>, <<"Int">>>>)>>)
Layered ==
  Crate(Traits @@ [m |-> Method("Tr", <<Is("V", "C")>>)], <<"C", "D", "It", "B", "Tr", "m">>, << >>)

(* trait Tr { fn m<V: Tr>(..) } and T::m::<T>. *)
Recursive(arg) ==
  Crate(Basic @@ [Tr |-> trait(<<"Self">>, << >>), m |-> Method("Tr", <<Is("V", "Tr"), Is("V", "C")>>),
                  f |-> function(<<"T", "U">>, <<Is("T", "Tr"), Is("U", "Tr"), Is("T", "C"), Is("U", "C")>>, {})],
        <<"C", "It", "Tr", "m", "f">>, <<Call("f", "m", <<<<"T">>, arg>>)>>)

(* trait R<X: R<Int>> { fn m<V: D>(..) }. *)
Itself ==
  Crate(Traits @@ [R |-> trait(<<"Self", "X">>, <<Of("R", <<<<"X">>, <<"Int">>>>)>>), m |-> Method("R", <<Is("V", "D")>>)],
        <<"R", "m">>, << >>)

(* trait P<X: Q<Int>>, trait Q<X: P<Int>>. *)
Mutually ==
  Crate(Basic @@ [P |-> trait(<<"Self", "X">>, <<Of("Q", <<<<"X">>, <<"Int">>>>)>>),
                  Q |-> trait(<<"Self", "X">>, <<Of("P", <<<<"X">>, <<"Int">>>>)>>),
                  f |-> function(<<"T">>, <<Of("P", <<<<"T">>, <<"Int">>>>), Of("Q", <<<<"T">>, <<"Int">>>>)>>, {})],
        <<"C", "f">>, << >>)

(* T: L<'b> + L<'a>. *)
Lifetimes ==
  Crate(Basic @@ [L |-> trait(<<"Self">>, << >>),
                  f |-> function(<<"T">>, <<[Is("T", "L") EXCEPT !.lft = "b"], [Is("T", "L") EXCEPT !.lft = "a"]>>, {})],
        <<"L", "f">>, << >>)
Unknown == [Free EXCEPT !.registered = {"C"}]

-----------------------------------------------------------------------------
A(kind, ns)     == [kind |-> kind, names |-> ns, form |-> "", path |-> << >>]
Clause(kind, f) == [kind |-> kind, names |-> << >>, form |-> f, path |-> << >>]
On(p, a)        == [kind |-> "requires", names |-> << >>, form |-> "trait", path |-> <<p, a>>]

Plain ==
  {A("ok", << >>), A("params", <<<<"x">>>>), A("params", <<<<"y">>, <<"z">>>>), A("exists", <<<<"x">>>>), A("args", <<<<"x">>, << >>>>),
   A("returns", << >>), Clause("requires", "pure"), Clause("requires", "iris"), Clause("ensures", "pure"),
   Clause("ensures", "iris"), Clause("observe", "")}
Rare == {Clause("requires", "linktime"), A("context", << >>), A("verify", << >>), A("unknown", << >>), A("args", <<<<"x">>>>)}
Specialize == {On("T", "hint"), On("T", "len"), On("U", "hint"), On("U", "len")}

Scoped(bs) == Crate(Traits @@ [f |-> function(<<"T", "U">>, bs, {})], <<"f">>, << >>)
Small == Scoped(<<Is("T", "It")>>)
Both  == Scoped(<<Is("T", "It"), Is("U", "It"), Of("B", <<<<"T">>, <<"Int">>>>)>>)

Named == [NoFn EXCEPT !.did = "f", !.arity = 2, !.arg_names = <<<<"x">>, <<"y">>>>, !.ret = "option"]
Cap(b, p, k) == [base |-> b, proj |-> p, kind |-> k]
Closure(kind, cs) == [Named EXCEPT !.closure = kind, !.captures = cs]

Functions ==
  {[Named EXCEPT !.attrs = s] : s \in UNION {[1 .. n -> Plain] : n \in 0 .. 3}}
    \cup {[Named EXCEPT !.attrs = s, !.arity = 0, !.arg_names = << >>] : s \in UNION {[1 .. n -> Plain] : n \in 0 .. 1}}
    \cup {[Named EXCEPT !.attrs = s, !.ret = "unit"] : s \in [1 .. 2 -> Plain \cup Rare]}
Closures ==
  {[Closure(kind, cs) EXCEPT !.attrs = s] :
     kind \in {"Fn", "FnMut", "FnOnce"},
     cs \in {<<Cap("a", "", "mut"), Cap("b", "", "shr"), Cap("c", "", "mut")>>, <<Cap("a", "f", "mut"), Cap("a", "g", "mut")>>,
             <<Cap("a", "f", "mut"), Cap("a", "g", "value")>>},
     s \in UNION {[1 .. n -> (Rare \ {A("unknown", << >>)}) \cup {A("params", <<<<"x">>>>), Clause("ensures", "pure"), On("T", "len")}] : n \in 0 .. 2}}
Specializing == {[Named EXCEPT !.attrs = s] : s \in UNION {[1 .. n -> Specialize] : n \in 1 .. 2}}

MCPrograms ==
  {Equal, Free, Chain, Boxed, Generic, Layered, Recursive(<<"T">>), Recursive(<<"U">>), Mutually, Itself,
   Lifetimes, Unknown}
    \cup {[Small EXCEPT !.fn = g] : g \in Functions \cup Closures}
    \cup {[Both EXCEPT !.fn = g] : g \in Specializing}
=============================================================================
